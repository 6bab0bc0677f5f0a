--------------------------- MODULE EventBus_proofs ---------------------------
(***************************************************************************)
(* What a stream gets its account could see, for any number of streams,    *)
(* accounts, repos and reports, and any cap, queue and pool.               *)
(***************************************************************************)
EXTENDS EventBus, SequenceTheorems, TLAPS

-----------------------------------------------------------------------------
(* Sequences as sets *)

LEMMA ToSetAppend ==
    ASSUME NEW S, NEW q \in Seq(S), NEW e \in S
    PROVE  ToSet(Append(q, e)) = ToSet(q) \cup {e}
<1>1. ASSUME NEW i \in DOMAIN Append(q, e)
      PROVE  Append(q, e)[i] \in ToSet(q) \cup {e}
  BY <1>1 DEF ToSet
<1>2. ASSUME NEW i \in DOMAIN q PROVE q[i] \in ToSet(Append(q, e))
  <2>1. i \in DOMAIN Append(q, e) /\ Append(q, e)[i] = q[i]
    BY <1>2
  <2> QED BY <2>1 DEF ToSet
<1>3. e \in ToSet(Append(q, e))
  <2>1. Len(q) + 1 \in DOMAIN Append(q, e) /\ Append(q, e)[Len(q) + 1] = e
    OBVIOUS
  <2> QED BY <2>1 DEF ToSet
<1> QED BY <1>1, <1>2, <1>3 DEF ToSet

LEMMA ToSetTail ==
    ASSUME NEW S, NEW q \in Seq(S), q # <<>>
    PROVE  Tail(q) \in Seq(S) /\ ToSet(q) = {Head(q)} \cup ToSet(Tail(q))
<1>1. Tail(q) \in Seq(S) /\ DOMAIN Tail(q) = 1 .. Len(q) - 1 /\ Len(q) \in Nat \ {0}
  OBVIOUS
<1>2. Head(q) \in ToSet(q)
  <2>1. 1 \in DOMAIN q /\ Head(q) = q[1]
    OBVIOUS
  <2> QED BY <2>1 DEF ToSet
<1>3. ASSUME NEW i \in DOMAIN Tail(q) PROVE Tail(q)[i] \in ToSet(q)
  <2>1. i + 1 \in DOMAIN q /\ Tail(q)[i] = q[i + 1]
    BY <1>3
  <2> QED BY <2>1 DEF ToSet
<1>4. ASSUME NEW i \in DOMAIN q, i # 1 PROVE q[i] \in ToSet(Tail(q))
  <2>1. i - 1 \in DOMAIN Tail(q) /\ Tail(q)[i - 1] = q[i]
    BY <1>1, <1>4
  <2> QED BY <2>1 DEF ToSet
<1>5. q[1] = Head(q)
  OBVIOUS
<1> QED BY <1>1, <1>2, <1>3, <1>4, <1>5 DEF ToSet

LEMMA ToSetType ==
    ASSUME NEW S, NEW q \in Seq(S) PROVE ToSet(q) \subseteq S
BY DEF ToSet

LEMMA ToSetEmpty == ToSet(<<>>) = {}
BY DEF ToSet

\* A sequence with its k-th element cut out.
LEMMA CutOut ==
    ASSUME NEW S, NEW q \in Seq(S), NEW k \in 1 .. Len(q)
    PROVE  /\ RemoveAt(q, k) \in Seq(S)
           /\ Len(RemoveAt(q, k)) = Len(q) - 1
           /\ \A i \in 1 .. Len(q) - 1 : RemoveAt(q, k)[i] = q[IF i < k THEN i ELSE i + 1]
<1> DEFINE a == SubSeq(q, 1, k - 1)
           b == SubSeq(q, k + 1, Len(q))
<1>1. /\ a \in Seq(S) /\ Len(a) = k - 1
      /\ \A i \in 1 .. k - 1 : a[i] = q[i]
  OBVIOUS
<1>2. /\ b \in Seq(S) /\ Len(b) = Len(q) - k
      /\ \A i \in 1 .. Len(q) - k : b[i] = q[k + i]
  OBVIOUS
<1>3. RemoveAt(q, k) = a \o b
  BY DEF RemoveAt
<1> HIDE DEF a, b
<1>4. /\ a \o b \in Seq(S)
      /\ Len(a \o b) = Len(a) + Len(b)
      /\ \A i \in 1 .. Len(a) + Len(b) :
            (a \o b)[i] = IF i <= Len(a) THEN a[i] ELSE b[i - Len(a)]
  BY <1>1, <1>2, ConcatProperties
<1>5. Len(q) \in Nat
  OBVIOUS
<1>6. Len(a \o b) = Len(q) - 1
  BY <1>1, <1>2, <1>4, <1>5
<1>7. ASSUME NEW i \in 1 .. Len(q) - 1
      PROVE  (a \o b)[i] = q[IF i < k THEN i ELSE i + 1]
  <2>1. CASE i < k
    BY <2>1, <1>1, <1>2, <1>4, <1>5
  <2>2. CASE ~(i < k)
    <3>1. (a \o b)[i] = b[i - (k - 1)]
      BY <2>2, <1>1, <1>2, <1>4, <1>5
    <3>2. i - (k - 1) \in 1 .. Len(q) - k
      BY <2>2, <1>5
    <3>3. k + (i - (k - 1)) = i + 1
      BY <1>5
    <3> QED BY <2>2, <3>1, <3>2, <3>3, <1>2
  <2> QED BY <2>1, <2>2
<1> QED BY <1>3, <1>4, <1>6, <1>7

\* What unsubscribe leaves of the list.
LEMMA WithoutType ==
    ASSUME subscribers \in Seq(Streams), NEW s \in Streams
    PROVE  Without(s) \in Seq(Streams) /\ Len(Without(s)) <= Len(subscribers)
<1>1. CASE Contains(subscribers, s)
  <2> DEFINE k == CHOOSE i \in DOMAIN subscribers : subscribers[i] = s
  <2>1. k \in 1 .. Len(subscribers)
    BY <1>1 DEF Contains
  <2>2. Without(s) = RemoveAt(subscribers, k)
    BY <1>1 DEF Without
  <2> HIDE DEF k
  <2>3. Len(subscribers) \in Nat
    OBVIOUS
  <2> QED BY <2>1, <2>2, <2>3, CutOut
<1>2. CASE ~Contains(subscribers, s)
  <2>1. Len(subscribers) \in Nat
    OBVIOUS
  <2> QED BY <1>2, <2>1 DEF Without
<1> QED BY <1>1, <1>2

\* A stream that is subscribed once is not any more; the others still are, once.
LEMMA WithoutOnce ==
    ASSUME subscribers \in Seq(Streams), NEW s \in Streams,
           \A i, j \in DOMAIN subscribers : subscribers[i] = subscribers[j] => i = j
    PROVE  /\ ToSet(Without(s)) = ToSet(subscribers) \ {s}
           /\ \A i, j \in DOMAIN Without(s) : Without(s)[i] = Without(s)[j] => i = j
<1>1. CASE Contains(subscribers, s)
  <2> DEFINE k == CHOOSE i \in DOMAIN subscribers : subscribers[i] = s
             W == Without(s)
             n == Len(subscribers)
  <2>1. k \in 1 .. n /\ subscribers[k] = s /\ n \in Nat
    BY <1>1 DEF Contains
  <2>2. W = RemoveAt(subscribers, k)
    BY <1>1 DEF Without
  <2> HIDE DEF k
  <2>3. /\ Len(W) = n - 1 /\ W \in Seq(Streams)
        /\ \A i \in 1 .. n - 1 : W[i] = subscribers[IF i < k THEN i ELSE i + 1]
    BY <2>1, <2>2, CutOut
  <2> HIDE DEF W
  <2>4. DOMAIN W = 1 .. (n - 1)
    BY <2>3
  <2>5. \A i \in DOMAIN W : W[i] = subscribers[IF i < k THEN i ELSE i + 1]
    BY <2>3, <2>4
  <2>6. ASSUME NEW i \in DOMAIN W PROVE W[i] \in ToSet(subscribers) \ {s}
    <3> DEFINE j == IF i < k THEN i ELSE i + 1
    <3>1. j \in DOMAIN subscribers /\ j # k /\ k \in DOMAIN subscribers
      BY <2>1, <2>4, <2>6
    <3>2. W[i] = subscribers[j]
      BY <2>5, <2>6
    <3>3. subscribers[j] # s
      BY <3>1, <2>1
    <3> QED BY <3>1, <3>2, <3>3 DEF ToSet
  <2>7. ASSUME NEW i \in DOMAIN subscribers, subscribers[i] # s
        PROVE  \E j \in DOMAIN W : W[j] = subscribers[i]
    <3> DEFINE j == IF i < k THEN i ELSE i - 1
    <3>1. i # k /\ i \in 1 .. n
      BY <2>1, <2>7
    <3>2. j \in DOMAIN W /\ (IF j < k THEN j ELSE j + 1) = i
      BY <3>1, <2>1, <2>4
    <3> QED BY <3>2, <2>5
  <2>8. ASSUME NEW i \in DOMAIN W, NEW j \in DOMAIN W, W[i] = W[j] PROVE i = j
    <3> DEFINE f(m) == IF m < k THEN m ELSE m + 1
    <3>1. f(i) \in DOMAIN subscribers /\ f(j) \in DOMAIN subscribers
      BY <2>1, <2>4, <2>8
    <3>2. subscribers[f(i)] = subscribers[f(j)]
      BY <2>5, <2>8
    <3>3. f(i) = f(j)
      BY <3>1, <3>2
    <3> QED BY <3>3, <2>1, <2>4, <2>8
  <2>9. ToSet(W) = ToSet(subscribers) \ {s}
    BY <2>6, <2>7 DEF ToSet
  <2> QED BY <2>8, <2>9 DEF W
<1>2. CASE ~Contains(subscribers, s)
  BY <1>2 DEF Without, Contains, ToSet
<1> QED BY <1>1, <1>2
-----------------------------------------------------------------------------
(* Type correctness *)

\* Closing keeps the types: of what it changes, only the list needs an argument.
LEMMA ClosedType ==
    ASSUME TypeOK, NEW s \in Streams, Closed(s) PROVE TypeOK'
<1>1. Without(s) \in Seq(Streams)
  BY WithoutType DEF TypeOK
<1>2. <<>> \in Seq(Reports)
  OBVIOUS
<1> QED BY <1>1, <1>2 DEF TypeOK, Closed, Forgotten, reports, access, history, Open

LEMMA MovesType ==
    ASSUME TypeOK, NEW s \in Streams, NEW to \in Open, Moves(s, to) PROVE TypeOK'
BY DEF TypeOK, Moves, streams, reports, access, history, Open

LEMMA StreamType == ASSUME TypeOK, NEW s \in Streams, StreamStep(s) PROVE TypeOK'
<1>1. CASE Connect(s)
  <2>1. Append(subscribers, s) \in Seq(Streams)
    BY DEF TypeOK
  <2> QED BY <1>1, <2>1 DEF Connect, Subscribed, TypeOK, reports, access, history, Open
<1>2. CASE ConnectTimesOut(s)
  BY <1>2 DEF ConnectTimesOut, TypeOK, reports, access, history, Open
<1>3. CASE Look(s)
  BY <1>3, ClosedType, MovesType DEF Look, Open
<1>4. CASE Ask(s)
  BY <1>4, ClosedType, MovesType DEF Ask, Open
<1>5. CASE AskTimesOut(s)
  BY <1>5, ClosedType DEF AskTimesOut
<1>6. CASE Take(s)
  <2>1. queue[s] \in Seq(Reports) /\ queue[s] # <<>>
    BY <1>6 DEF Take, TypeOK
  <2>2. Tail(queue[s]) \in Seq(Reports) /\ Head(queue[s]) \in Reports
    BY <2>1
  <2> QED BY <1>6, <2>2 DEF Take, TypeOK, reports, access, history, Open
<1>7. CASE Heartbeat(s)
  BY <1>7, MovesType DEF Heartbeat, Open
<1>8. CASE Written(s)
  BY <1>8, MovesType DEF Written, Open
<1> QED BY <1>1, <1>2, <1>3, <1>4, <1>5, <1>6, <1>7, <1>8 DEF StreamStep

LEMMA ReachingType == \A r, snapshots : Reaching(r, snapshots) \subseteq Users
BY DEF Reaching

LEMMA WalkType ==
    ASSUME TypeOK, NEW r \in Reports, Publishing(r)
    PROVE  Head(walk[r]) \in Streams /\ Tail(walk[r]) \in Seq(Streams)
<1>1. walk[r] \in Seq(Streams) /\ walk[r] # <<>>
  BY DEF TypeOK, Publishing
<1> QED BY <1>1

LEMMA ReportType == ASSUME TypeOK, NEW r \in Reports, ReportStep(r) PROVE TypeOK'
<1>1. CASE Publish(r)
  <2>1. ToSet(subscribers) \subseteq Streams
    BY ToSetType DEF TypeOK
  <2> QED BY <1>1, <2>1, ReachingType DEF Publish, TypeOK, streams, access
<1>2. CASE ReportTimesOut(r)
  BY <1>2 DEF ReportTimesOut, TypeOK, streams, access, history
<1>3. CASE CheckAccess(r)
  <2>1. Tail(walk[r]) \in Seq(Streams)
    BY <1>3, WalkType DEF CheckAccess
  <2>2. answered' \subseteq Reports
    BY <1>3 DEF CheckAccess, TypeOK
  <2>3. walk' \in [Reports -> Seq(Streams)]
    BY <1>3, <2>1 DEF CheckAccess, TypeOK
  <2> QED
    BY <1>3, <2>2, <2>3 DEF CheckAccess, TypeOK, streams, access, history
<1>4. CASE CheckFails(r)
  BY <1>4, WalkType DEF CheckFails, TypeOK, streams, access, history
<1>5. CASE CheckOnAborted(r)
  BY <1>5, WalkType DEF CheckOnAborted, TypeOK, streams, access, history
<1>6. CASE Put(r)
  <2> DEFINE s == Head(walk[r])
  <2>1. s \in Streams /\ Tail(walk[r]) \in Seq(Streams)
    BY <1>6, WalkType DEF Put
  <2>2. Append(queue[s], r) \in Seq(Reports)
    BY <2>1 DEF TypeOK
  <2> HIDE DEF s
  <2>3. queue' \in [Streams -> Seq(Reports)] /\ overrun' \subseteq Streams \X Reports
    <3>1. \/ queue' = [queue EXCEPT ![s] = Append(queue[s], r)] /\ overrun' = overrun
          \/ queue' = queue /\ overrun' = overrun \cup {<<s, r>>}
          \/ queue' = queue /\ overrun' = overrun
      BY <1>6 DEF Put, s
    <3>2. queue \in [Streams -> Seq(Reports)] /\ overrun \subseteq Streams \X Reports
      BY DEF TypeOK
    <3>3. CASE queue' = [queue EXCEPT ![s] = Append(queue[s], r)] /\ overrun' = overrun
      BY <3>2, <3>3, <2>2
    <3>4. CASE queue' = queue /\ overrun' = overrun \cup {<<s, r>>}
      BY <3>2, <3>4, <2>1
    <3> QED BY <3>1, <3>2, <3>3, <3>4
  <2>4. walk' \in [Reports -> Seq(Streams)] /\ answered' \subseteq Reports
    BY <1>6, <2>1 DEF Put, TypeOK, s
  <2> QED BY <1>6, <2>3, <2>4 DEF Put, TypeOK, streams, access, history
<1>7. CASE Answer(r)
  BY <1>7 DEF Answer, TypeOK, access
<1> QED BY <1>1, <1>2, <1>3, <1>4, <1>5, <1>6, <1>7 DEF ReportStep

LEMMA OthersType ==
    ASSUME TypeOK,
           \/ \E s \in Streams : HangUp(s)
           \/ \E u \in Users : Reattest(u) \/ Expire(u)
           \/ UNCHANGED vars
    PROVE  TypeOK'
<1>1. ASSUME NEW s \in Streams, HangUp(s) PROVE TypeOK'
  BY <1>1 DEF HangUp, TypeOK, reports, access, history
<1>2. ASSUME NEW u \in Users, Reattest(u) PROVE TypeOK'
  <2>1. reach' \in [Users -> SUBSET Repos] /\ fresh' \subseteq Users
    BY <1>2 DEF Reattest, TypeOK
  <2>2. entitled' \in [Reports -> SUBSET Users] /\ steady' \in [Reports -> SUBSET Users]
    BY <1>2, ReachingType DEF Reattest, TypeOK
  <2> QED BY <1>2, <2>1, <2>2 DEF Reattest, TypeOK, streams, reports
<1>3. ASSUME NEW u \in Users, Expire(u) PROVE TypeOK'
  BY <1>3 DEF Expire, TypeOK, streams, reports, history
<1>4. CASE UNCHANGED vars
  BY <1>4 DEF vars, TypeOK, streams, reports, access, history
<1> QED BY <1>1, <1>2, <1>3, <1>4

\* Every reachable state is well typed, whatever streams and reports do.
THEOREM Typed == Spec => []TypeOK
<1>1. Init => TypeOK
  <2>1. <<>> \in Seq(Streams) /\ <<>> \in Seq(Reports)
    OBVIOUS
  <2> QED BY <2>1 DEF Init, TypeOK
<1>2. TypeOK /\ [Next]_vars => TypeOK'
  BY StreamType, ReportType, OthersType DEF Next
<1> QED BY <1>1, <1>2, PTL DEF Spec
-----------------------------------------------------------------------------
(* Who is subscribed *)

Once == \A i, j \in DOMAIN subscribers : subscribers[i] = subscribers[j] => i = j

\* Inductive: a stream that could be subscribed twice would stay behind when closed.
ListInv == TypeOK /\ Once /\ SubscribersAreOpen

OpenNow == {s \in Streams : Alive(s)}

LEMMA ListClosed ==
    ASSUME ListInv, NEW s \in Streams, Closed(s) PROVE Once' /\ SubscribersAreOpen'
<1>1. subscribers \in Seq(Streams) /\ Once /\ subscribers' = Without(s)
  BY DEF ListInv, TypeOK, Closed
<1>2. ToSet(subscribers') = ToSet(subscribers) \ {s} /\ Once'
  BY <1>1, WithoutOnce DEF Once
<1>3. Len(subscribers') <= Cap
  <2>1. Len(Without(s)) <= Len(subscribers) /\ Len(subscribers) <= Cap
    BY <1>1, WithoutType DEF ListInv, SubscribersAreOpen
  <2>2. Len(Without(s)) \in Nat /\ Len(subscribers) \in Nat /\ Cap \in Nat
    BY <1>1, WithoutType, EventBusAssumption
  <2> QED BY <1>1, <2>1, <2>2
<1>4. OpenNow' = OpenNow \ {s}
  BY DEF ListInv, TypeOK, Closed, Forgotten, OpenNow, Alive, Open
<1> QED BY <1>2, <1>3, <1>4 DEF ListInv, SubscribersAreOpen, OpenNow

LEMMA ListMoves ==
    ASSUME ListInv, NEW s \in Streams, Alive(s), NEW to \in Open, Moves(s, to)
    PROVE  Once' /\ SubscribersAreOpen'
<1>1. OpenNow' = OpenNow /\ subscribers' = subscribers
  BY DEF ListInv, TypeOK, Moves, OpenNow, Alive, Open
<1> QED BY <1>1 DEF ListInv, Once, SubscribersAreOpen, OpenNow

LEMMA ListConnect ==
    ASSUME ListInv, NEW s \in Streams, Connect(s) PROVE Once' /\ SubscribersAreOpen'
<1>1. subscribers \in Seq(Streams) /\ Len(subscribers) \in Nat /\ Cap \in Nat
  BY EventBusAssumption DEF ListInv, TypeOK
<1>2. CASE Len(subscribers) >= Cap
  <2>1. OpenNow' = OpenNow /\ subscribers' = subscribers
    BY <1>2 DEF Connect, Subscribed, ListInv, TypeOK, OpenNow, Alive, Open
  <2> QED BY <2>1 DEF ListInv, Once, SubscribersAreOpen, OpenNow
<1>3. CASE ~(Len(subscribers) >= Cap)
  <2>1. subscribers' = Append(subscribers, s)
    BY <1>3 DEF Connect, Subscribed
  <2>2. OpenNow' = OpenNow \cup {s}
    BY <1>3 DEF Connect, Subscribed, ListInv, TypeOK, OpenNow, Alive, Open
  <2>3. ToSet(subscribers') = OpenNow'
    BY <1>1, <2>1, <2>2, ToSetAppend DEF ListInv, SubscribersAreOpen, OpenNow
  <2>4. s \notin ToSet(subscribers)
    BY DEF Connect, ListInv, SubscribersAreOpen, Alive, Open
  <2>5. Len(subscribers') <= Cap
    BY <1>1, <1>3, <2>1
  <2>6. Once'
    <3>1. \A i \in DOMAIN subscribers : subscribers[i] # s
      BY <2>4 DEF ToSet
    <3>2. /\ DOMAIN subscribers' = 1 .. Len(subscribers) + 1
          /\ subscribers'[Len(subscribers) + 1] = s
          /\ \A i \in DOMAIN subscribers : subscribers'[i] = subscribers[i]
      BY <1>1, <2>1
    <3>3. DOMAIN subscribers = 1 .. Len(subscribers)
      BY <1>1
    <3>4. Once
      BY DEF ListInv
    <3> QED BY <1>1, <3>1, <3>2, <3>3, <3>4 DEF Once
  <2> QED BY <2>3, <2>5, <2>6 DEF SubscribersAreOpen, OpenNow
<1> QED BY <1>2, <1>3

LEMMA ListSame ==
    ASSUME ListInv, UNCHANGED subscribers, OpenNow' = OpenNow
    PROVE  Once' /\ SubscribersAreOpen'
BY DEF ListInv, Once, SubscribersAreOpen, OpenNow

LEMMA ListStream ==
    ASSUME ListInv, NEW s \in Streams, StreamStep(s) PROVE Once' /\ SubscribersAreOpen'
<1>1. CASE Connect(s)
  BY <1>1, ListConnect
<1>2. CASE ConnectTimesOut(s)
  <2>1. OpenNow' = OpenNow /\ UNCHANGED subscribers
    BY <1>2 DEF ConnectTimesOut, ListInv, TypeOK, OpenNow, Alive, Open
  <2> QED BY <2>1, ListSame
<1>3. CASE Look(s)
  BY <1>3, ListClosed, ListMoves DEF Look, Alive, Open
<1>4. CASE Ask(s)
  BY <1>4, ListClosed, ListMoves DEF Ask, Alive, Open
<1>5. CASE AskTimesOut(s)
  BY <1>5, ListClosed DEF AskTimesOut
<1>6. CASE Take(s)
  <2>1. OpenNow' = OpenNow /\ UNCHANGED subscribers
    BY <1>6 DEF Take, ListInv, TypeOK, OpenNow, Alive, Open
  <2> QED BY <2>1, ListSame
<1>7. CASE Heartbeat(s)
  BY <1>7, ListMoves DEF Heartbeat, Alive, Open
<1>8. CASE Written(s)
  BY <1>8, ListMoves DEF Written, Alive, Open
<1> QED BY <1>1, <1>2, <1>3, <1>4, <1>5, <1>6, <1>7, <1>8 DEF StreamStep

LEMMA ListOthers ==
    ASSUME ListInv,
           \/ \E r \in Reports : ReportStep(r)
           \/ \E s \in Streams : HangUp(s)
           \/ \E u \in Users : Reattest(u) \/ Expire(u)
           \/ UNCHANGED vars
    PROVE  Once' /\ SubscribersAreOpen'
<1>1. UNCHANGED <<stream, subscribers>>
  BY DEF ReportStep, Publish, ReportTimesOut, CheckAccess, CheckFails, CheckOnAborted,
         Put, Answer, HangUp, Reattest, Expire, vars, streams
<1>2. OpenNow' = OpenNow
  BY <1>1 DEF OpenNow, Alive
<1> QED BY <1>1, <1>2, ListSame

LEMMA ListHolds == Spec => []ListInv
<1>1. Init => ListInv
  <2>1. ASSUME Init PROVE TypeOK
    <3>1. <<>> \in Seq(Streams) /\ <<>> \in Seq(Reports)
      OBVIOUS
    <3> QED BY <2>1, <3>1 DEF Init, TypeOK
  <2>2. ASSUME Init PROVE Once /\ SubscribersAreOpen
    <3>1. subscribers = <<>> /\ OpenNow = {} /\ Len(subscribers) = 0 /\ Cap \in Nat
      BY <2>2, EventBusAssumption DEF Init, OpenNow, Alive, Open
    <3> QED BY <3>1, ToSetEmpty DEF Once, SubscribersAreOpen, OpenNow
  <2> QED BY <2>1, <2>2 DEF ListInv
<1>2. ListInv /\ [Next]_vars => ListInv'
  <2> SUFFICES ASSUME ListInv, [Next]_vars PROVE ListInv'
    OBVIOUS
  <2>1. TypeOK'
    BY StreamType, ReportType, OthersType DEF Next, ListInv
  <2>2. Once' /\ SubscribersAreOpen'
    BY ListStream, ListOthers DEF Next
  <2> QED BY <2>1, <2>2 DEF ListInv
<1> QED BY <1>1, <1>2, PTL DEF Spec

\* Exactly the open streams are subscribed and never more than the cap, however
\* each of them ended.
THEOREM OnlyOpenStreams == Spec => []SubscribersAreOpen
<1>1. ListInv => SubscribersAreOpen
  BY DEF ListInv
<1> QED BY <1>1, ListHolds, PTL
-----------------------------------------------------------------------------
(* Who gets what *)

\* An event is nowhere before its publish.
NotYet ==
    \A r \in Reports : report[r] = "away" =>
        r \notin answered /\ \A s \in Streams : r \notin Delivered(s)

\* An answer that is acted on later was given during this publish.
AnsweredYes ==
    \A r \in answered :
        /\ report[r] = "publishing" /\ r \notin aborted /\ walk[r] # <<>>
        /\ OwnerOf[Head(walk[r])] \in entitled[r]

\* The histories of a publish bracket what the snapshots say now.
Bracket ==
    \A r \in Reports : report[r] = "publishing" =>
        steady[r] \subseteq Reaching(r, reach) /\ Reaching(r, reach) \subseteq entitled[r]

\* Inductive: an answer in hand and a history that lags would both let an event through.
ReachInv == TypeOK /\ Bracket /\ NotYet /\ AnsweredYes /\ SentWasReachable

LEMMA BracketHolds ==
    ASSUME TypeOK, Bracket, [Next]_vars PROVE Bracket'
<1>1. ASSUME NEW s \in Streams, StreamStep(s) PROVE Bracket'
  <2>1. UNCHANGED <<report, access, history>>
    BY <1>1 DEF StreamStep, Connect, ConnectTimesOut, Look, Ask, AskTimesOut, Take,
           Heartbeat, Written, Moves, Closed, Forgotten, reports
  <2> QED BY <2>1 DEF Bracket, access, history, Reaching
<1>2. ASSUME NEW r \in Reports, ReportStep(r) PROVE Bracket'
  <2>1. CASE Publish(r)
    BY <2>1 DEF Publish, Bracket, TypeOK, access, Reaching
  <2>2. CASE Answer(r)
    BY <2>2 DEF Answer, Bracket, TypeOK, access, Reaching
  <2>3. CASE ReportTimesOut(r)
    BY <2>3 DEF ReportTimesOut, Bracket, TypeOK, access, history, Reaching
  <2>4. CASE CheckAccess(r) \/ CheckFails(r) \/ CheckOnAborted(r) \/ Put(r)
    <3>1. UNCHANGED <<report, access, history>>
      BY <2>4 DEF CheckAccess, CheckFails, CheckOnAborted, Put
    <3> QED BY <3>1 DEF Bracket, access, history, Reaching
  <2> QED BY <1>2, <2>1, <2>2, <2>3, <2>4 DEF ReportStep
<1>3. ASSUME NEW u \in Users, Reattest(u) PROVE Bracket'
  BY <1>3 DEF Reattest, Bracket, TypeOK, reports, Reaching
<1>4. ASSUME \/ \E s \in Streams : HangUp(s)
             \/ \E u \in Users : Expire(u)
             \/ UNCHANGED vars
      PROVE  Bracket'
  <2>1. UNCHANGED <<report, reach, history>>
    BY <1>4 DEF HangUp, Expire, vars, reports, access
  <2> QED BY <2>1 DEF Bracket, history, Reaching
<1> QED BY <1>1, <1>2, <1>3, <1>4 DEF Next

\* What streams do of their own only takes events away from them.
LEMMA ReachStreams ==
    ASSUME ReachInv, UNCHANGED <<report, answered, aborted, walk, entitled>>,
           \A s \in Streams : Delivered(s)' \subseteq Delivered(s)
    PROVE  NotYet' /\ AnsweredYes' /\ SentWasReachable'
BY DEF ReachInv, NotYet, AnsweredYes, SentWasReachable

LEMMA DeliveredClosed ==
    ASSUME TypeOK, NEW s \in Streams, Closed(s)
    PROVE  \A t \in Streams : Delivered(t)' = IF t = s THEN {} ELSE Delivered(t)
BY ToSetEmpty DEF TypeOK, Closed, Forgotten, Delivered

LEMMA DeliveredTaken ==
    ASSUME TypeOK, NEW s \in Streams, Take(s)
    PROVE  \A t \in Streams : Delivered(t)' = Delivered(t)
<1>1. queue[s] \in Seq(Reports) /\ queue[s] # <<>>
  BY DEF TypeOK, Take
<1>2. ToSet(queue[s]) = {Head(queue[s])} \cup ToSet(Tail(queue[s]))
  BY <1>1, ToSetTail
<1>3. /\ queue' = [queue EXCEPT ![s] = Tail(queue[s])]
      /\ sent' = [sent EXCEPT ![s] = sent[s] \cup {Head(queue[s])}]
  BY DEF Take
<1> QED BY <1>2, <1>3 DEF TypeOK, Delivered

LEMMA DeliveredStream ==
    ASSUME TypeOK, NEW s \in Streams, StreamStep(s)
    PROVE  \/ Closed(s)
           \/ /\ UNCHANGED <<reports, access, history>>
              /\ \A t \in Streams : Delivered(t)' = Delivered(t)
<1>1. CASE UNCHANGED <<queue, sent, reports, access, history>>
  BY <1>1 DEF Delivered
<1>2. CASE Take(s)
  BY <1>2, DeliveredTaken DEF Take
<1> QED BY <1>1, <1>2 DEF StreamStep, Connect, ConnectTimesOut, Look, Ask, AskTimesOut,
           Heartbeat, Written, Moves

LEMMA ReachReport ==
    ASSUME ReachInv, NEW r \in Reports, ReportStep(r)
    PROVE  NotYet' /\ AnsweredYes' /\ SentWasReachable'
<1> USE DEF ReachInv, NotYet, AnsweredYes, SentWasReachable
<1>1. CASE Publish(r)
  <2>1. \A s \in Streams : Delivered(s)' = Delivered(s)
    BY <1>1 DEF Publish, streams, Delivered
  <2> QED BY <1>1, <2>1 DEF Publish, TypeOK
<1>2. CASE ReportTimesOut(r)
  <2>1. \A s \in Streams : Delivered(s)' = Delivered(s)
    BY <1>2 DEF ReportTimesOut, streams, Delivered
  <2> QED BY <1>2, <2>1 DEF ReportTimesOut, TypeOK, history
<1>3. CASE CheckAccess(r)
  <2>1. \A s \in Streams : Delivered(s)' = Delivered(s)
    BY <1>3 DEF CheckAccess, streams, Delivered
  <2>2. report[r] = "publishing" /\ UNCHANGED <<report, entitled>> /\ r \notin answered
    BY <1>3 DEF CheckAccess, Publishing, history
  <2>3. Reaching(r, reach) \subseteq entitled[r]
    BY <2>2 DEF Bracket
  <2>4. UNCHANGED aborted /\ r \notin aborted /\ walk[r] # <<>>
    BY <1>3 DEF CheckAccess, Publishing
  <2>5. NotYet' /\ SentWasReachable'
    BY <1>3, <2>1, <2>2 DEF CheckAccess
  <2>6. AnsweredYes'
    <3>1. CASE /\ OwnerOf[Head(walk[r])] \in Reaching(r, reach)
               /\ answered' = answered \cup {r} /\ UNCHANGED walk
      BY <3>1, <2>2, <2>3, <2>4
    <3>2. CASE UNCHANGED answered /\ \A q \in Reports \ {r} : walk'[q] = walk[q]
      BY <3>2, <2>2, <2>4 DEF TypeOK
    <3> QED BY <1>3, <3>1, <3>2 DEF CheckAccess, TypeOK
  <2> QED BY <2>5, <2>6
<1>4. CASE CheckFails(r)
  <2>1. \A s \in Streams : Delivered(s)' = Delivered(s)
    BY <1>4 DEF CheckFails, streams, Delivered
  <2>2. r \notin answered /\ aborted' = aborted \cup {r} /\ UNCHANGED <<report, entitled, answered>>
    BY <1>4 DEF CheckFails, history
  <2>3. \A q \in Reports \ {r} : walk'[q] = walk[q]
    BY <1>4 DEF CheckFails, TypeOK
  <2>4. answered \subseteq Reports
    BY DEF TypeOK
  <2>5. NotYet' /\ SentWasReachable'
    BY <2>1, <2>2
  <2>6. AnsweredYes'
    BY <2>2, <2>3, <2>4
  <2> QED BY <2>5, <2>6
<1>5. CASE CheckOnAborted(r)
  <2>1. \A s \in Streams : Delivered(s)' = Delivered(s)
    BY <1>5 DEF CheckOnAborted, streams, Delivered
  <2>2. r \notin answered
    BY <1>5 DEF CheckOnAborted
  <2> QED BY <1>5, <2>1, <2>2 DEF CheckOnAborted, TypeOK, history
<1>6. CASE Put(r)
  <2> DEFINE h == Head(walk[r])
  <2>1. h \in Streams /\ OwnerOf[h] \in entitled[r] /\ report[r] = "publishing"
    BY <1>6, WalkType DEF Put, Publishing
  <2>2. \A s \in Streams : Delivered(s)' \subseteq
            Delivered(s) \cup (IF s = h THEN {r} ELSE {})
    <3>1. \/ queue' = queue
          \/ queue' = [queue EXCEPT ![h] = Append(queue[h], r)]
      BY <1>6 DEF Put
    <3>2. ToSet(Append(queue[h], r)) = ToSet(queue[h]) \cup {r}
      BY <2>1, ToSetAppend DEF TypeOK
    <3>3. queue \in [Streams -> Seq(Reports)] /\ sent' = sent
      BY <1>6 DEF Put, streams, TypeOK
    <3> HIDE DEF h
    <3> QED BY <3>1, <3>2, <3>3 DEF Delivered
  <2>3. /\ UNCHANGED <<report, aborted, entitled>> /\ answered' = answered \ {r}
        /\ \A q \in Reports \ {r} : walk'[q] = walk[q]
    BY <1>6 DEF Put, history, TypeOK
  <2> HIDE DEF h
  <2>4. SentWasReachable'
    BY <2>1, <2>2, <2>3
  <2>5. NotYet'
    BY <2>1, <2>2, <2>3
  <2>6. AnsweredYes'
    BY <2>3 DEF TypeOK
  <2> QED BY <2>4, <2>5, <2>6
<1>7. CASE Answer(r)
  <2>1. \A s \in Streams : Delivered(s)' \subseteq Delivered(s)
    BY <1>7 DEF Answer, TypeOK, Delivered
  <2>2. r \notin answered
    BY <1>7 DEF Answer
  <2> QED BY <1>7, <2>1, <2>2 DEF Answer, TypeOK
<1> QED BY <1>1, <1>2, <1>3, <1>4, <1>5, <1>6, <1>7 DEF ReportStep

LEMMA ReachHolds == Spec => []ReachInv
<1>1. Init => ReachInv
  <2> SUFFICES ASSUME Init PROVE ReachInv
    OBVIOUS
  <2>1. TypeOK
    <3>1. <<>> \in Seq(Streams) /\ <<>> \in Seq(Reports)
      OBVIOUS
    <3> QED BY <3>1 DEF Init, TypeOK
  <2>2. \A s \in Streams : Delivered(s) = {}
    BY ToSetEmpty DEF Init, Delivered
  <2>3. answered = {} /\ \A r \in Reports : report[r] = "away"
    BY DEF Init
  <2> QED BY <2>1, <2>2, <2>3 DEF ReachInv, Bracket, NotYet, AnsweredYes, SentWasReachable
<1>2. ReachInv /\ [Next]_vars => ReachInv'
  <2> SUFFICES ASSUME ReachInv, [Next]_vars PROVE ReachInv'
    OBVIOUS
  <2>1. TypeOK' /\ Bracket'
    BY StreamType, ReportType, OthersType, BracketHolds DEF Next, ReachInv
  <2>2. ASSUME NEW s \in Streams, StreamStep(s)
        PROVE  NotYet' /\ AnsweredYes' /\ SentWasReachable'
    <3>1. CASE Closed(s)
      <4>1. UNCHANGED <<report, answered, aborted, walk, entitled>>
        BY <3>1 DEF Closed, Forgotten, history
      <4>2. \A t \in Streams : Delivered(t)' \subseteq Delivered(t)
        BY <3>1, DeliveredClosed DEF ReachInv
      <4> QED BY <4>1, <4>2, ReachStreams
    <3>2. CASE /\ UNCHANGED <<reports, access, history>>
               /\ \A t \in Streams : Delivered(t)' = Delivered(t)
      BY <3>2, ReachStreams DEF reports, history
    <3> QED BY <2>2, <3>1, <3>2, DeliveredStream DEF ReachInv
  <2>3. ASSUME NEW r \in Reports, ReportStep(r)
        PROVE  NotYet' /\ AnsweredYes' /\ SentWasReachable'
    BY <2>3, ReachReport
  <2>4. ASSUME NEW u \in Users, Reattest(u)
        PROVE  NotYet' /\ AnsweredYes' /\ SentWasReachable'
    <3>1. \A s \in Streams : Delivered(s)' = Delivered(s)
      BY <2>4 DEF Reattest, streams, Delivered
    <3>2. UNCHANGED reports /\ \A r \in Reports : entitled[r] \subseteq entitled'[r]
      BY <2>4 DEF Reattest, ReachInv, TypeOK
    <3> QED BY <3>1, <3>2 DEF reports, ReachInv, TypeOK, NotYet, AnsweredYes, SentWasReachable
  <2>5. ASSUME \/ \E s \in Streams : HangUp(s)
               \/ \E u \in Users : Expire(u)
               \/ UNCHANGED vars
        PROVE  NotYet' /\ AnsweredYes' /\ SentWasReachable'
    <3>1. UNCHANGED <<report, answered, aborted, walk, entitled, queue, sent>>
      BY <2>5 DEF HangUp, Expire, vars, streams, reports, history
    <3> QED BY <3>1, ReachStreams DEF Delivered
  <2> QED BY <2>1, <2>2, <2>3, <2>4, <2>5 DEF Next, ReachInv
<1> QED BY <1>1, <1>2, PTL DEF Spec

\* A publish gives a stream nothing its account could not see at some time since
\* it began: access is asked for each event, not remembered from the connect.
THEOREM OnlyToTheEntitled == Spec => []SentWasReachable
<1>1. ReachInv => SentWasReachable
  BY DEF ReachInv
<1> QED BY <1>1, ReachHolds, PTL

-----------------------------------------------------------------------------
(* Nobody is passed over *)

\* Only open streams are owed an event.
AudienceOpen == \A r \in Reports : \A s \in audience[r] : s \in Streams /\ Alive(s)

\* What a stream is owed it has or the walk has still to come to it.
Owed(r, s) == r \in Delivered(s) \/ s \in ToSet(walk[r])

Pending ==
    \A r \in Reports : report[r] = "publishing" /\ r \notin aborted =>
        \A s \in Due(r) : Owed(r, s)

\* Inductive: the list has no stream twice and none that is closed, and an account
\* that could see the repo throughout can see it now.
OwedInv == ListInv /\ Bracket /\ AudienceOpen /\ Pending

\* A step after which no more streams are owed anything, and none has lost an event.
LEMMA OwedSame ==
    ASSUME OwedInv, UNCHANGED <<report, aborted, walk>>,
           \A s \in Streams : Alive(s) => Alive(s)',
           UNCHANGED audience,
           \A r \in Reports : Due(r)' \subseteq Due(r),
           \A s \in Streams : Delivered(s)' = Delivered(s)
    PROVE  AudienceOpen' /\ Pending'
<1>1. AudienceOpen'
  BY DEF OwedInv, AudienceOpen
<1>2. ASSUME NEW r \in Reports, report'[r] = "publishing", r \notin aborted', NEW s \in Due(r)'
      PROVE  Owed(r, s)'
  <2>1. Owed(r, s) /\ s \in Streams
    BY <1>2 DEF OwedInv, Pending, AudienceOpen, Due
  <2> QED BY <2>1 DEF Owed
<1> QED BY <1>1, <1>2 DEF Pending

LEMMA OwedClosed ==
    ASSUME OwedInv, NEW s \in Streams, Closed(s) PROVE AudienceOpen' /\ Pending'
<1>1. /\ UNCHANGED <<report, aborted, walk, access, history>>
      /\ audience' = [r \in Reports |-> audience[r] \ {s}]
      /\ overrun' = overrun \ ({s} \X Reports)
      /\ stream' = [stream EXCEPT ![s] = "closed"]
  BY DEF Closed, Forgotten
<1>2. AudienceOpen'
  BY <1>1 DEF OwedInv, ListInv, TypeOK, AudienceOpen, Alive
<1>3. ASSUME NEW r \in Reports, NEW t \in Due(r)' PROVE t \in Due(r) /\ t # s
  BY <1>1, <1>3 DEF Due, history
<1>4. \A t \in Streams : t # s => Delivered(t)' = Delivered(t)
  BY DeliveredClosed DEF OwedInv, ListInv
<1>5. ASSUME NEW r \in Reports, report'[r] = "publishing", r \notin aborted', NEW t \in Due(r)'
      PROVE  Owed(r, t)'
  <2>1. t \in Due(r) /\ t # s
    BY <1>3, <1>5
  <2>2. Owed(r, t) /\ t \in Streams
    BY <1>1, <1>5, <2>1 DEF OwedInv, Pending, AudienceOpen, Due
  <2> QED BY <1>1, <1>4, <2>1, <2>2 DEF Owed
<1> QED BY <1>2, <1>5 DEF Pending

LEMMA OwedStream ==
    ASSUME OwedInv, NEW s \in Streams, StreamStep(s) PROVE AudienceOpen' /\ Pending'
<1>1. CASE Closed(s)
  BY <1>1, OwedClosed
<1>2. CASE /\ ~Closed(s) /\ UNCHANGED <<reports, access, history>>
           /\ \A t \in Streams : Delivered(t)' = Delivered(t)
  <2>1. \A t \in Streams : Alive(t) => Alive(t)'
    BY <1>2 DEF StreamStep, Connect, Subscribed, ConnectTimesOut, Look, Ask, AskTimesOut,
           Take, Heartbeat, Written, Moves, Alive, Open, OwedInv, ListInv, TypeOK
  <2>2. UNCHANGED <<report, aborted, walk, audience>> /\ \A r \in Reports : Due(r)' = Due(r)
    BY <1>2 DEF reports, history, Due
  <2> QED BY <1>2, <2>1, <2>2, OwedSame
<1> QED BY <1>1, <1>2, DeliveredStream DEF OwedInv, ListInv

\* The others' walks are not this report's business.
LEMMA OwedOthers ==
    ASSUME OwedInv, NEW r \in Reports, ReportStep(r), NEW q \in Reports, q # r,
           report'[q] = "publishing", q \notin aborted', NEW s \in Due(q)'
    PROVE  Owed(q, s)'
<1>1. /\ report'[q] = report[q] /\ walk'[q] = walk[q] /\ q \notin aborted
      /\ audience'[q] = audience[q] /\ steady'[q] = steady[q]
      /\ <<s, q>> \in overrun' <=> <<s, q>> \in overrun
  BY DEF OwedInv, ListInv, TypeOK, ReportStep, Publish, ReportTimesOut, CheckAccess, CheckFails,
         CheckOnAborted, Put, Answer, history
<1>2. s \in Due(q) /\ s \in Streams
  BY <1>1 DEF Due, OwedInv, AudienceOpen
<1>3. Owed(q, s)
  BY <1>1, <1>2 DEF OwedInv, Pending
<1>4. q \in Delivered(s) => q \in Delivered(s)'
  <2>1. CASE Put(r)
    <3> DEFINE h == Head(walk[r])
    <3>1. h \in Streams
      BY <2>1, WalkType DEF Put, OwedInv, ListInv
    <3>2. ToSet(Append(queue[h], r)) = ToSet(queue[h]) \cup {r}
      BY <3>1, ToSetAppend DEF OwedInv, ListInv, TypeOK
    <3>3. \/ queue' = queue
          \/ queue' = [queue EXCEPT ![h] = Append(queue[h], r)]
      BY <2>1 DEF Put
    <3>4. queue \in [Streams -> Seq(Reports)] /\ sent' = sent
      BY <2>1 DEF Put, streams, OwedInv, ListInv, TypeOK
    <3> HIDE DEF h
    <3> QED BY <1>2, <3>1, <3>2, <3>3, <3>4 DEF Delivered
  <2>2. CASE Answer(r)
    BY <1>2, <2>2 DEF Answer, Delivered, OwedInv, ListInv, TypeOK
  <2>3. CASE UNCHANGED <<queue, sent>>
    BY <2>3 DEF Delivered
  <2> QED BY <2>1, <2>2, <2>3 DEF ReportStep, Publish, ReportTimesOut, CheckAccess,
             CheckFails, CheckOnAborted, streams
<1> QED BY <1>1, <1>3, <1>4 DEF Owed

LEMMA OwedAudience ==
    ASSUME OwedInv, NEW r \in Reports, ReportStep(r) PROVE AudienceOpen'
<1>1. CASE Publish(r)
  <2>1. ToSet(subscribers) = OpenNow
    BY DEF OwedInv, ListInv, SubscribersAreOpen, OpenNow
  <2> QED BY <1>1, <2>1 DEF Publish, streams, OwedInv, ListInv, TypeOK, AudienceOpen, Alive, OpenNow
<1>2. CASE Answer(r)
  BY <1>2 DEF Answer, OwedInv, ListInv, TypeOK, AudienceOpen, Alive
<1>3. CASE UNCHANGED <<streams, audience>>
  BY <1>3 DEF streams, OwedInv, AudienceOpen, Alive
<1> QED BY <1>1, <1>2, <1>3 DEF ReportStep, ReportTimesOut, CheckAccess, CheckFails,
           CheckOnAborted, Put

\* One step of the walk: the stream it comes to is served, or not owed the event.
LEMMA OwedOwn ==
    ASSUME OwedInv, NEW r \in Reports, ReportStep(r),
           report'[r] = "publishing", r \notin aborted', NEW s \in Due(r)'
    PROVE  Owed(r, s)'
<1> DEFINE h == Head(walk[r])
<1>1. CASE Publish(r)
  <2>1. audience'[r] = ToSet(subscribers) /\ walk'[r] = subscribers
    BY <1>1 DEF Publish, OwedInv, ListInv, TypeOK
  <2> QED BY <2>1 DEF Due, Owed
<1>2. CASE ReportTimesOut(r) \/ Answer(r)
  BY <1>2 DEF ReportTimesOut, Answer, OwedInv, ListInv, TypeOK
<1>3. CASE CheckAccess(r)
  <2>1. /\ s \in Due(r) /\ s \in Streams /\ report[r] = "publishing" /\ r \notin aborted
        /\ Delivered(s)' = Delivered(s) /\ OwnerOf[s] \in steady[r]
    BY <1>3 DEF CheckAccess, Publishing, Due, Delivered, streams, history, OwedInv, AudienceOpen
  <2>2. Owed(r, s)
    BY <2>1 DEF OwedInv, Pending
  <2>3. OwnerOf[s] \in Reaching(r, reach)
    BY <2>1 DEF OwedInv, Bracket
  <2>4. walk[r] \in Seq(Streams) /\ walk[r] # <<>>
    BY <1>3 DEF CheckAccess, Publishing, OwedInv, ListInv, TypeOK
  <2>5. ToSet(walk[r]) = {h} \cup ToSet(Tail(walk[r]))
    BY <2>4, ToSetTail
  <2>6. walk'[r] = walk[r] \/ (s # h /\ walk'[r] = Tail(walk[r]))
    BY <1>3, <2>3 DEF CheckAccess, OwedInv, ListInv, TypeOK
  <2> HIDE DEF h
  <2> QED BY <2>1, <2>2, <2>5, <2>6 DEF Owed
<1>4. CASE CheckFails(r) \/ CheckOnAborted(r)
  BY <1>4 DEF CheckFails, CheckOnAborted
<1>5. CASE Put(r)
  <2>1. /\ s \in audience[r] /\ OwnerOf[s] \in steady[r] /\ <<s, r>> \notin overrun'
        /\ report[r] = "publishing" /\ r \notin aborted
    BY <1>5 DEF Put, Publishing, Due, history
  <2>2. s \in Streams /\ Alive(s)
    BY <2>1 DEF OwedInv, AudienceOpen
  <2>3. \/ /\ Alive(h) /\ queue' = [queue EXCEPT ![h] = Append(queue[h], r)]
           /\ UNCHANGED overrun
        \/ overrun' = overrun \cup {<<h, r>>} /\ UNCHANGED queue
        \/ ~Alive(h) /\ UNCHANGED <<queue, overrun>>
    BY <1>5 DEF Put
  <2>4. s \in Due(r)
    BY <2>1, <2>3 DEF Due
  <2>5. Owed(r, s)
    BY <2>1, <2>4 DEF OwedInv, Pending
  <2>6. walk[r] \in Seq(Streams) /\ walk[r] # <<>> /\ walk'[r] = Tail(walk[r])
    BY <1>5 DEF Put, Publishing, OwedInv, ListInv, TypeOK
  <2>7. ToSet(walk[r]) = {h} \cup ToSet(Tail(walk[r])) /\ h \in Streams
    BY <1>5, <2>6, ToSetTail, WalkType DEF Put, OwedInv, ListInv
  <2>8. ToSet(Append(queue[h], r)) = ToSet(queue[h]) \cup {r}
    BY <2>7, ToSetAppend DEF OwedInv, ListInv, TypeOK
  <2>9. queue \in [Streams -> Seq(Reports)] /\ sent' = sent
    BY <1>5 DEF Put, streams, OwedInv, ListInv, TypeOK
  <2> HIDE DEF h
  <2>10. CASE s = h
    <3>1. queue'[h] = Append(queue[h], r)
      BY <2>1, <2>2, <2>3, <2>7, <2>9, <2>10
    <3> QED BY <2>8, <2>10, <3>1 DEF Owed, Delivered
  <2>11. CASE s # h
    <3>1. queue'[s] = queue[s]
      BY <2>2, <2>3, <2>7, <2>9, <2>11
    <3> QED BY <2>5, <2>6, <2>7, <2>9, <2>11, <3>1 DEF Owed, Delivered
  <2> QED BY <2>10, <2>11
<1> QED BY <1>1, <1>2, <1>3, <1>4, <1>5 DEF ReportStep

LEMMA OwedHolds == Spec => []OwedInv
<1>1. Init => Bracket /\ AudienceOpen /\ Pending
  BY DEF Init, Bracket, AudienceOpen, Pending
<1>2. OwedInv /\ ListInv' /\ [Next]_vars => Bracket' /\ AudienceOpen' /\ Pending'
  <2> SUFFICES ASSUME OwedInv, ListInv', [Next]_vars
               PROVE  Bracket' /\ AudienceOpen' /\ Pending'
    OBVIOUS
  <2>1. Bracket'
    BY BracketHolds DEF OwedInv, ListInv
  <2>2. ASSUME NEW s \in Streams, StreamStep(s) PROVE AudienceOpen' /\ Pending'
    BY <2>2, OwedStream
  <2>3. ASSUME NEW r \in Reports, ReportStep(r) PROVE AudienceOpen' /\ Pending'
    BY <2>3, OwedAudience, OwedOthers, OwedOwn DEF Pending
  <2>4. ASSUME \/ \E s \in Streams : HangUp(s)
               \/ \E u \in Users : Reattest(u) \/ Expire(u)
               \/ UNCHANGED vars
        PROVE  AudienceOpen' /\ Pending'
    <3>1. UNCHANGED <<report, aborted, walk, audience, overrun, queue, sent, stream>>
      BY <2>4 DEF HangUp, Reattest, Expire, vars, streams, reports
    <3>2. \A r \in Reports : steady'[r] \subseteq steady[r]
      BY <2>4 DEF HangUp, Reattest, Expire, vars, history, OwedInv, ListInv, TypeOK
    <3>3. \A r \in Reports : Due(r)' \subseteq Due(r)
      BY <3>1, <3>2 DEF Due
    <3> QED BY <3>1, <3>3, OwedSame DEF Delivered, Alive
  <2> QED BY <2>1, <2>2, <2>3, <2>4 DEF Next
<1> QED BY <1>1, <1>2, ListHolds, PTL DEF Spec, OwedInv

\* An open stream whose account could see the repo throughout, and whose queue had
\* room, has the event when the publish is over, whoever came and went meanwhile.
THEOREM EverybodyIsServed == Spec => []NobodySkipped
<1>1. OwedInv => NobodySkipped
  <2> SUFFICES ASSUME OwedInv, NEW r \in Reports, Over(r), r \notin aborted, NEW s \in Due(r)
               PROVE  r \in Delivered(s)
    BY DEF NobodySkipped
  <2>1. Owed(r, s)
    BY DEF OwedInv, Pending, Over
  <2> QED BY <2>1, ToSetEmpty DEF Owed, Over
<1> QED BY <1>1, OwedHolds, PTL
=============================================================================
