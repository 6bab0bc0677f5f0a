------------------------- MODULE Attestation_proofs -------------------------
(***************************************************************************)
(* Theorems of Attestation, for any accounts, repos, installations, page   *)
(* size, clients, legacy rows, tasks and number of changes at GitHub.      *)
(***************************************************************************)
EXTENDS Attestation, FiniteSetTheorems, TLAPS

-----------------------------------------------------------------------------
(* Types *)

Granting == [Users -> SUBSET Repos]

\* What the fields of a task mean together: whoever is past `idle' holds some
\* account's token, and a check-in serves a client.
Shape(t) ==
    /\ t.at # "idle" => t.user \in Users
    /\ t.kind = "check_in" => t.client \in Clients

TypeInv == TypeOK /\ Now >= 1 /\ \A r \in Reqs : Shape(task[r])

LEMMA IdleTyped == Idle \in Task /\ Shape(Idle)
  BY AttestationAssumption DEF Idle, Task, Shape, Kind, Step

LEMMA TypeInit == Init => TypeInv
  <1> SUFFICES ASSUME Init PROVE TypeInv
    OBVIOUS
  <1>1. PICK g \in Granting : history = <<g>>
    BY DEF Init, Granting
  <1>2. history \in Seq(Granting) /\ Now = 1
    BY <1>1 DEF Now
  <1>3. client \in [Clients -> Row]
    BY DEF Init, Row
  <1> QED
    BY <1>2, <1>3, IdleTyped DEF Init, TypeInv, TypeOK, Granting

\* GitHub's record only grows: what was granted in an epoch stays known.
LEMMA HistoryGrows ==
    ASSUME TypeInv, NEW u \in Users, NEW x \in Repos, Change(u, x)
    PROVE  /\ history' \in Seq(Granting)
           /\ Now' = Now + 1 /\ Now' >= 1
           /\ \A e \in 1 .. Now : history'[e] = history[e]
  <1> DEFINE g == [history[Now] EXCEPT
                     ![u] = IF x \in history[Now][u] THEN history[Now][u] \ {x}
                                                     ELSE history[Now][u] \cup {x}]
  <1>1. history \in Seq(Granting) /\ Now \in Nat /\ Now >= 1
    BY DEF TypeInv, TypeOK, Granting, Now
  <1>2. history[Now] \in Granting
    BY <1>1 DEF Now
  <1>3. g \in Granting
    BY <1>2 DEF Granting
  <1>4. history' = Append(history, g)
    BY DEF Change
  <1> HIDE DEF g
  <1> QED
    BY <1>1, <1>3, <1>4 DEF Now

\* A request that arrives has read nothing.
LEMMA Arrival ==
    ASSUME TypeInv, NEW r \in Reqs, Arrive(r)
    PROVE  /\ task'[r].at = "user" /\ task'[r].found = {}
           /\ task'[r].homes = {} /\ task'[r].past = 0
           /\ \A q \in Reqs \ {r} : task'[q] = task[q]
           /\ UNCHANGED <<history, identity, client, session>>
  <1>1. PICK u \in Users, kind \in Kind, c \in Clients \cup {None},
             linked \in Users \cup {None} : Start(r, kind, u, c, linked)
    BY DEF Arrive, StartEnrol, StartLogin, StartCheckIn, Kind
  <1> DEFINE t == [Idle EXCEPT !.kind = kind, !.at = "user", !.user = u,
                               !.client = c, !.linked = linked]
  <1>2. t.at = "user" /\ t.found = {} /\ t.homes = {} /\ t.past = 0
    BY DEF Idle
  <1>3. task' = [task EXCEPT ![r] = t] /\ UNCHANGED <<history, identity, client, session>>
    BY <1>1 DEF Start
  <1> HIDE DEF t
  <1> QED
    BY <1>1, <1>2, <1>3 DEF TypeInv, TypeOK

\* What one page adds to a task, and where it leaves it.
LEMMA PageRead ==
    ASSUME TypeInv, NEW r \in Reqs, ReadInstallations(r) \/ ReadRepos(r)
    PROVE  \E t \in Task :
             /\ task' = [task EXCEPT ![r] = t] /\ Shape(t)
             /\ UNCHANGED <<history, identity, client, session>>
             /\ t.until = Now
             /\ t.kind = task[r].kind /\ t.user = task[r].user /\ t.since = task[r].since
  <1> USE DEF TypeInv, TypeOK
  <1>1. task[r] \in Task /\ Shape(task[r]) /\ task[r].at # "idle"
    BY DEF ReadInstallations, ReadRepos
  <1>2. task[r].user \in Users /\ Now \in 1 .. Len(history) /\ Now \in Nat
    BY <1>1 DEF Shape, Now
  <1>3. history[Now][task[r].user] \subseteq Repos
    BY <1>2
  <1>4. PageSize \in Nat
    BY AttestationAssumption
  <1> DEFINE Good(t) ==
        /\ t \in Task /\ Shape(t) /\ t.until = Now
        /\ t.kind = task[r].kind /\ t.user = task[r].user /\ t.since = task[r].since
  <1>5. UNCHANGED <<history, identity, client, session>>
    BY DEF ReadInstallations, ReadRepos
  <1>6. CASE ReadInstallations(r)
    <2> DEFINE S == Homes(history[Now][task[r].user])
               homes == task[r].homes \cup Page(S, task[r].past)
               t1 == [task[r] EXCEPT !.homes = homes, !.until = Now, !.past = @ + PageSize]
               t2 == [task[r] EXCEPT !.homes = homes, !.until = Now, !.past = 0,
                                     !.at = IF homes = {} THEN "find" ELSE "repos"]
    <2>1. homes \in SUBSET Homes(Repos)
      BY <1>1, <1>3 DEF Page, Homes, Task
    <2>2. task' = [task EXCEPT ![r] = t1] \/ task' = [task EXCEPT ![r] = t2]
      BY <1>6 DEF ReadInstallations
    <2> HIDE DEF homes
    <2>3. Good(t1)
      <3>1. task[r].past + PageSize \in Nat
        BY <1>1, <1>4 DEF Task
      <3> QED
        BY <1>1, <1>2, <2>1, <3>1 DEF Task, Shape
    <2>4. Good(t2)
      BY <1>1, <1>2, <2>1 DEF Task, Shape, Step
    <2> HIDE DEF t1, t2
    <2>5. CASE task' = [task EXCEPT ![r] = t1]
      BY <1>5, <2>3, <2>5, Zenon DEF Good
    <2>6. CASE task' = [task EXCEPT ![r] = t2]
      BY <1>5, <2>4, <2>6, Zenon DEF Good
    <2> QED
      BY <2>2, <2>5, <2>6
  <1>7. CASE ReadRepos(r)
    <2> DEFINE i == First(task[r].homes)
               S == Of(history[Now][task[r].user], i)
               found == task[r].found \cup Page(S, task[r].past)
               t1 == [task[r] EXCEPT !.found = found, !.until = Now, !.past = @ + PageSize]
               t2 == [task[r] EXCEPT !.found = found, !.until = Now,
                                     !.homes = @ \ {i}, !.past = 0,
                                     !.at = IF task[r].homes = {i} THEN "find" ELSE "repos"]
    <2>1. found \in SUBSET Repos
      BY <1>1, <1>3 DEF Page, Of, Task
    <2>2. task' = [task EXCEPT ![r] = t1] \/ task' = [task EXCEPT ![r] = t2]
      BY <1>7 DEF ReadRepos
    <2> HIDE DEF found, i
    <2>3. Good(t1)
      <3>1. task[r].past + PageSize \in Nat
        BY <1>1, <1>4 DEF Task
      <3> QED
        BY <1>1, <1>2, <2>1, <3>1 DEF Task, Shape
    <2>4. Good(t2)
      BY <1>1, <1>2, <2>1 DEF Task, Shape, Step
    <2> HIDE DEF t1, t2
    <2>5. CASE task' = [task EXCEPT ![r] = t1]
      BY <1>5, <2>3, <2>5, Zenon DEF Good
    <2>6. CASE task' = [task EXCEPT ![r] = t2]
      BY <1>5, <2>4, <2>6, Zenon DEF Good
    <2> QED
      BY <2>2, <2>5, <2>6
  <1> QED
    BY <1>6, <1>7

\* A snapshot built from a typed task is typed.
LEMMA SnapshotTyped == \A t \in Task : Snapshot(t) \in Identity
  BY DEF Task, Snapshot, Identity

LEMMA TypeStep == TypeInv /\ [Next]_vars => TypeInv'
  <1> SUFFICES ASSUME TypeInv, [Next]_vars PROVE TypeInv'
    OBVIOUS
  <1> USE DEF TypeInv, TypeOK
  <1>1. \A r \in Reqs : Finish(r) =>
            task' \in [Reqs -> Task] /\ \A q \in Reqs : Shape(task'[q])
    BY IdleTyped DEF Finish
  <1>2. ASSUME NEW r \in Reqs, Arrive(r) PROVE TypeInv'
    <2>1. PICK u \in Users, kind \in Kind, c \in Clients \cup {None},
               linked \in Users \cup {None} :
            Start(r, kind, u, c, linked) /\ (kind = "check_in" => c \in Clients)
      BY <1>2 DEF Arrive, StartEnrol, StartLogin, StartCheckIn, Kind
    <2> DEFINE t == [Idle EXCEPT !.kind = kind, !.at = "user", !.user = u,
                                 !.client = c, !.linked = linked]
    <2>2. t \in Task /\ Shape(t)
      BY <2>1, IdleTyped DEF Idle, Task, Shape, Step
    <2>3. task' = [task EXCEPT ![r] = t] /\ UNCHANGED <<history, identity, client, session>>
      BY <2>1 DEF Start
    <2> HIDE DEF t
    <2> QED
      BY <2>2, <2>3 DEF Now
  <1>3. ASSUME NEW r \in Reqs, TaskStep(r) PROVE TypeInv'
    <2>0. task[r] \in Task /\ Shape(task[r])
      OBVIOUS
    <2>1. CASE ReadUser(r)
      <3> DEFINE t == [task[r] EXCEPT !.at = "installations",
                                      !.since = Now, !.until = Now]
      <3>1. Now \in Nat
        BY DEF Now
      <3>2. t \in Task /\ Shape(t)
        BY <2>0, <2>1, <3>1 DEF Task, Shape, Step, ReadUser
      <3>3. task' = [task EXCEPT ![r] = t] /\ UNCHANGED <<history, identity, client, session>>
        BY <2>1 DEF ReadUser
      <3> HIDE DEF t
      <3> QED
        BY <3>2, <3>3 DEF Now
    <2>2. CASE ReadInstallations(r) \/ ReadRepos(r)
      <3>1. PICK t \in Task : /\ task' = [task EXCEPT ![r] = t] /\ Shape(t)
                             /\ UNCHANGED <<history, identity, client, session>>
        BY <2>2, PageRead
      <3> QED
        BY <3>1 DEF Now
    <2>3. CASE GithubFails(r) \/ Refuse(r) \/ InsertedTwice(r) \/ CheckInGone(r)
      <3>1. Finish(r) /\ UNCHANGED <<history, identity, client, session>>
        BY <2>3 DEF GithubFails, Refuse, InsertedTwice, CheckInGone
      <3> QED
        BY <1>1, <3>1 DEF Now
    <2>4. CASE FindIdentity(r) \/ WriteIdentity(r)
      <3>1. PICK at \in Step, new \in BOOLEAN :
              /\ task' = [task EXCEPT ![r] = [task[r] EXCEPT !.at = at, !.new = new]]
              /\ task[r].at # "idle"
        <4>1. CASE FindIdentity(r)
          BY <2>0, <4>1 DEF FindIdentity, Step, Task
        <4>2. CASE WriteIdentity(r)
          <5>1. task' = [task EXCEPT ![r] = [task[r] EXCEPT !.at = "commit",
                                                            !.new = task[r].new]]
            BY <2>0, <4>2 DEF WriteIdentity, Task
          <5> QED
            BY <2>0, <4>2, <5>1 DEF WriteIdentity, Step, Task
        <4> QED
          BY <2>4, <4>1, <4>2
      <3> DEFINE t == [task[r] EXCEPT !.at = at, !.new = new]
      <3>2. t \in Task /\ Shape(t)
        BY <2>0, <3>1 DEF Task, Shape
      <3>3. UNCHANGED <<history, identity, client, session>>
        BY <2>4 DEF FindIdentity, WriteIdentity
      <3>4. task' = [task EXCEPT ![r] = t]
        BY <3>1
      <3> HIDE DEF t
      <3> QED
        BY <3>2, <3>3, <3>4 DEF Now
    <2>5. CASE EnrolCommit(r) \/ CheckInCommit(r) \/ LoginCommit(r)
      <3>1. Finish(r) /\ Replaced(task[r]) /\ task[r].user \in Users
        BY <2>0, <2>5 DEF EnrolCommit, CheckInCommit, LoginCommit, Shape
      <3>2. identity' \in [Users -> Identity \cup {None}]
        BY <2>0, <3>1, SnapshotTyped DEF Replaced
      <3>3. client' \in [Clients -> Row] /\ session' \subseteq Users /\ history' = history
        BY <2>5, <3>1 DEF EnrolCommit, CheckInCommit, LoginCommit, Row
      <3> QED
        BY <1>1, <3>1, <3>2, <3>3 DEF Now
    <2> QED
      BY <1>3, <2>1, <2>2, <2>3, <2>4, <2>5 DEF TaskStep
  <1>4. ASSUME NEW r \in Reqs, Abort(r) PROVE TypeInv'
    BY <1>1, <1>4 DEF Abort, Now
  <1>5. ASSUME NEW u \in Users, NEW x \in Repos, Change(u, x) PROVE TypeInv'
    BY <1>5, HistoryGrows DEF Change, Granting
  <1>6. ASSUME NEW u \in Users, Expire(u) PROVE TypeInv'
    <2>1. identity[u] \in Identity
      BY <1>6 DEF Expire
    <2>2. [identity[u] EXCEPT !.fresh = FALSE] \in Identity
      BY <2>1 DEF Identity
    <2> QED
      BY <1>6, <2>2 DEF Expire, Now
  <1>7. ASSUME NEW u \in Users, SessionExpires(u) PROVE TypeInv'
    BY <1>7 DEF SessionExpires, Now
  <1>8. ASSUME NEW c \in Clients, Revoke(c) PROVE TypeInv'
    BY <1>8 DEF Revoke, Now, Row
  <1>9. CASE UNCHANGED vars
    BY <1>9 DEF vars, Now
  <1> QED
    BY <1>2, <1>3, <1>4, <1>5, <1>6, <1>7, <1>8, <1>9 DEF Next, Environment

\* Every reachable state is well typed.
THEOREM Typed == Spec => []TypeOK
  <1>1. TypeInv => TypeOK
    BY DEF TypeInv
  <1> QED
    BY TypeInit, TypeStep, <1>1, PTL DEF Spec

-----------------------------------------------------------------------------
(* Snapshots are true, and whole unless something was withdrawn *)

\* How many items of the list S come before x.
Rank(S, x) == Cardinality({y \in S : y < x})

\* x, granted since the read began, is found or lies ahead of the walk.
Ahead(t, x) ==
    LET had == history[t.until][t.user]
        i == Home[x]
    IN  \/ x \in t.found
        \/ t.at = "installations" /\ (i \in t.homes \/ Rank(Homes(had), i) >= t.past)
        \/ t.at = "repos" /\ i \in t.homes
                        /\ (i = First(t.homes) => Rank(Of(had, i), x) >= t.past)

\* What a task has read was so at some epoch between `since' and `until'.
ReadTrue(t) ==
    /\ t.at = "user" => t.found = {} /\ t.homes = {} /\ t.past = 0
    /\ t.at \in {"installations", "repos", "find", "write", "commit"} =>
        /\ t.since \in 1 .. t.until /\ t.until <= Now
        /\ \A x \in t.found : \E e \in t.since .. t.until : x \in history[e][t.user]
        /\ NothingWithdrawn(t.user, t.since, t.until) =>
             \A x \in history[t.since][t.user] : Ahead(t, x)

\* The same of a snapshot, and that it was taken from the past.
SnapshotTrue(u) ==
    identity[u] # None =>
        /\ identity[u].since \in 1 .. identity[u].until /\ identity[u].until <= Now
        /\ \A x \in identity[u].repos :
             \E e \in identity[u].since .. identity[u].until : x \in history[e][u]
        /\ NothingWithdrawn(u, identity[u].since, identity[u].until) =>
             history[identity[u].since][u] \subseteq identity[u].repos

TrueInv ==
    /\ \A r \in Reqs : ReadTrue(task[r])
    /\ \A u \in Users : SnapshotTrue(u)

\* A list that has only grown: an item that was ahead of the walk is on the
\* page asked for, or the page is full and the item still ahead.
LEMMA WalkOn ==
    ASSUME NEW S, S \subseteq Nat, IsFiniteSet(S), NEW T \in SUBSET S,
           NEW past \in Nat, NEW x \in T, Rank(T, x) >= past
    PROVE  x \in Page(S, past) \/ (~Last(S, past) /\ Rank(S, x) >= past + PageSize)
  <1> DEFINE A == {y \in T : y < x}
             B == {y \in S : y < x}
  <1>1. A \in SUBSET B /\ B \in SUBSET S
    OBVIOUS
  <1>2. IsFiniteSet(B) /\ Cardinality(B) <= Cardinality(S)
    BY <1>1, FS_Subset
  <1>3. IsFiniteSet(A) /\ Cardinality(A) <= Cardinality(B)
    BY <1>1, <1>2, FS_Subset
  <1>4. Cardinality(A) \in Nat /\ Cardinality(B) \in Nat /\ Cardinality(S) \in Nat
    BY <1>2, <1>3, FS_CardinalityType
  <1>5. PageSize \in Nat \ {0}
    BY AttestationAssumption
  <1>6. Cardinality(B) >= past
    BY <1>3, <1>4 DEF Rank
  <1>7. CASE Cardinality(B) <= past + PageSize - 1
    <2>1. Cardinality(B) \in past .. past + PageSize - 1
      BY <1>4, <1>5, <1>6, <1>7
    <2> QED
      BY <2>1 DEF Page
  <1>8. CASE Cardinality(B) > past + PageSize - 1
    <2>1. Cardinality(S) >= past + PageSize /\ Cardinality(B) >= past + PageSize
      BY <1>2, <1>4, <1>5, <1>8
    <2>2. ~(Cardinality(S) < past + PageSize)
      BY <1>4, <1>5, <2>1
    <2> QED
      BY <2>1, <2>2 DEF Last, Rank
  <1> QED
    BY <1>4, <1>5, <1>7, <1>8

\* What is granted is a finite set of ids, and so are its installations.
LEMMA ListsFinite ==
    ASSUME NEW S \in SUBSET Repos, NEW i
    PROVE  /\ Homes(S) \subseteq Nat /\ IsFiniteSet(Homes(S))
           /\ Of(S, i) \subseteq Nat /\ IsFiniteSet(Of(S, i))
  <1> USE AttestationAssumption
  <1>1. IsFiniteSet(S) /\ IsFiniteSet(Of(S, i))
    BY FS_Subset DEF Of
  <1>2. [x \in S |-> Home[x]] \in Surjection(S, Homes(S))
    BY DEF Homes, Surjection
  <1>3. IsFiniteSet(Homes(S))
    BY <1>1, <1>2, FS_Surjection
  <1> QED
    BY <1>1, <1>3 DEF Homes, Of

LEMMA RankTyped ==
    ASSUME NEW S \in SUBSET Repos, NEW i, NEW x PROVE Rank(Of(S, i), x) \in Nat
  <1>1. IsFiniteSet(Of(S, i)) /\ {y \in Of(S, i) : y < x} \in SUBSET Of(S, i)
    BY ListsFinite
  <1> QED
    BY <1>1, FS_Subset, FS_CardinalityType DEF Rank

\* If nothing was withdrawn up to now, nothing was up to an earlier epoch.
LEMMA NothingYet ==
    ASSUME NEW u \in Users, Now \in Nat, NEW a \in Nat, NEW b \in Nat, a \in 1 .. b, b <= Now,
           NothingWithdrawn(u, a, Now)
    PROVE  /\ NothingWithdrawn(u, a, b)
           /\ history[b][u] \subseteq history[Now][u]
           /\ history[a][u] \subseteq history[Now][u]
           /\ history[a][u] \subseteq history[b][u]
  <1>1. a .. b \subseteq a .. Now /\ a \in a .. Now /\ b \in a .. Now /\ Now \in a .. Now
    OBVIOUS
  <1>2. \A d, e \in a .. Now : d <= e => history[d][u] \subseteq history[e][u]
    BY DEF NothingWithdrawn
  <1>3. a <= Now /\ a <= b
    OBVIOUS
  <1> QED
    BY <1>1, <1>2, <1>3 DEF NothingWithdrawn

LEMMA TrueInit == Init => TrueInv
  <1> SUFFICES ASSUME Init PROVE TrueInv
    OBVIOUS
  <1>1. \A r \in Reqs : task[r].at = "idle"
    BY DEF Init, Idle
  <1>2. \A u \in Users : identity[u] = None
    BY DEF Init
  <1> QED
    BY <1>1, <1>2 DEF TrueInv, ReadTrue, SnapshotTrue

\* A step that leaves GitHub alone keeps every reading and snapshot that it
\* does not write itself.
LEMMA ReadingStays ==
    ASSUME TypeInv, TrueInv, history' = history
    PROVE  /\ \A r \in Reqs : task'[r] = task[r] => ReadTrue(task[r])'
           /\ \A r \in Reqs : task'[r] = Idle => ReadTrue(task[r])'
           /\ \A u \in Users : identity'[u] = identity[u] => SnapshotTrue(u)'
  <1>1. \A r \in Reqs : task'[r] = task[r] => ReadTrue(task[r])'
    BY DEF TrueInv, ReadTrue, Now, Ahead, NothingWithdrawn
  <1>2. \A r \in Reqs : task'[r] = Idle => ReadTrue(task[r])'
    BY DEF ReadTrue, Idle
  <1>3. \A u \in Users : identity'[u] = identity[u] => SnapshotTrue(u)'
    BY DEF TrueInv, SnapshotTrue, Now, NothingWithdrawn
  <1> QED
    BY <1>1, <1>2, <1>3

\* One page of the installations.
LEMMA InstallationsTrue ==
    ASSUME TypeInv, TrueInv, NEW r \in Reqs, ReadInstallations(r)
    PROVE  ReadTrue(task[r])'
  <1> USE DEF TypeInv, TypeOK
  <1> DEFINE t == task[r]
             n == task'[r]
             S == Homes(history[Now][t.user])
             homes == t.homes \cup Page(S, t.past)
  <1>1. /\ t \in Task /\ Shape(t) /\ ReadTrue(t) /\ t.at = "installations"
        /\ Now \in Nat /\ Now >= 1 /\ t.user \in Users
    BY DEF TrueInv, ReadInstallations, Shape, Now
  <1>2. /\ history' = history /\ n.user = t.user /\ n.since = t.since /\ n.until = Now
        /\ n.found = t.found /\ n.homes = homes
        /\ \/ ~Last(S, t.past) /\ n.past = t.past + PageSize /\ n.at = "installations"
           \/ /\ Last(S, t.past) /\ n.past = 0
              /\ n.at = IF homes = {} THEN "find" ELSE "repos"
    <2>1. history' = history
      BY DEF ReadInstallations
    <2>2. \/ /\ ~Last(S, t.past)
             /\ n = [t EXCEPT !.homes = homes, !.until = Now, !.past = @ + PageSize]
          \/ /\ Last(S, t.past)
             /\ n = [t EXCEPT !.homes = homes, !.until = Now, !.past = 0,
                              !.at = IF homes = {} THEN "find" ELSE "repos"]
      BY DEF ReadInstallations
    <2> HIDE DEF n, homes, S
    <2> QED
      BY <1>1, <2>1, <2>2 DEF Task
  <1>3. /\ t.since \in 1 .. t.until /\ t.until <= Now /\ t.since \in Nat /\ t.until \in Nat
        /\ t.past \in Nat
    BY <1>1 DEF ReadTrue, Task
  <1>4. \A x \in t.found : \E e \in t.since .. Now : x \in history[e][t.user]
    <2>1. t.since .. t.until \subseteq t.since .. Now
      BY <1>1, <1>3
    <2> QED
      BY <1>1, <2>1 DEF ReadTrue
  <1>5. ASSUME NothingWithdrawn(t.user, t.since, Now), NEW x \in history[t.since][t.user]
        PROVE  Ahead(n, x)
    <2>1. /\ NothingWithdrawn(t.user, t.since, t.until)
          /\ history[t.until][t.user] \subseteq history[Now][t.user]
          /\ x \in history[t.until][t.user] /\ x \in history[Now][t.user]
      BY <1>1, <1>3, <1>5, NothingYet
    <2>2. Ahead(t, x)
      BY <1>1, <2>1 DEF ReadTrue
    <2>3. CASE x \in t.found
      BY <1>2, <2>3 DEF Ahead
    <2>4. CASE Home[x] \in t.homes \/ Rank(Homes(history[t.until][t.user]), Home[x]) >= t.past
      <3> DEFINE T == Homes(history[t.until][t.user])
      <3>1. T \in SUBSET S /\ Home[x] \in T
        BY <2>1 DEF Homes
      <3>2. S \subseteq Nat /\ IsFiniteSet(S)
        <4>1. history[Now][t.user] \in SUBSET Repos
          BY <1>1 DEF Now
        <4> QED
          BY <4>1, ListsFinite
      <3> HIDE DEF S, T
      <3>3. \/ Home[x] \in homes
            \/ ~Last(S, t.past) /\ Rank(S, Home[x]) >= t.past + PageSize
        <4>1. CASE Home[x] \in t.homes
          BY <4>1
        <4>2. CASE Rank(T, Home[x]) >= t.past
          BY <1>3, <3>1, <3>2, <4>2, WalkOn
        <4> QED
          BY <2>4, <4>1, <4>2 DEF T
      <3>4. CASE n.at = "installations"
        <4>1. n.past = t.past + PageSize
          BY <1>2, <3>4
        <4> QED
          BY <1>2, <3>3, <3>4, <4>1 DEF Ahead, S
      <3>5. CASE n.at # "installations"
        <4>1. Home[x] \in homes /\ n.past = 0 /\ n.at = "repos"
          BY <1>2, <3>3, <3>5
        <4>2. Rank(Of(history[Now][t.user], Home[x]), x) \in Nat
          <5>1. history[Now][t.user] \in SUBSET Repos
            BY <1>1 DEF Now
          <5> QED
            BY <5>1, RankTyped
        <4> QED
          BY <1>2, <4>1, <4>2 DEF Ahead
      <3> QED
        BY <3>4, <3>5
    <2> QED
      BY <1>1, <2>2, <2>3, <2>4 DEF Ahead
  <1>6. n.at \in {"installations", "repos", "find"}
    BY <1>2
  <1>7. t.since \in 1 .. Now
    BY <1>1, <1>3
  <1> HIDE DEF n
  <1>8. /\ n.since \in 1 .. n.until /\ n.until <= Now'
        /\ \A x \in n.found : \E e \in n.since .. n.until : x \in history'[e][n.user]
    BY <1>1, <1>2, <1>4, <1>7 DEF Now
  <1>9. NothingWithdrawn(task[r].user, task[r].since, task[r].until)'
          => NothingWithdrawn(t.user, t.since, Now)
    BY <1>2 DEF NothingWithdrawn, n
  <1>10. \A x : Ahead(n, x) => Ahead(task[r], x)'
    BY <1>2 DEF Ahead, n
  <1>11. NothingWithdrawn(task[r].user, task[r].since, task[r].until)'
           => \A x \in history'[n.since][n.user] : Ahead(task[r], x)'
    BY <1>2, <1>5, <1>9, <1>10
  <1> QED
    BY <1>6, <1>8, <1>11 DEF ReadTrue, n

\* One page of the repositories of an installation.
LEMMA ReposTrue ==
    ASSUME TypeInv, TrueInv, NEW r \in Reqs, ReadRepos(r)
    PROVE  ReadTrue(task[r])'
  <1> USE DEF TypeInv, TypeOK
  <1> DEFINE t == task[r]
             n == task'[r]
             i == First(t.homes)
             S == Of(history[Now][t.user], i)
             found == t.found \cup Page(S, t.past)
  <1>1. /\ t \in Task /\ Shape(t) /\ ReadTrue(t) /\ t.at = "repos"
        /\ Now \in Nat /\ Now >= 1 /\ t.user \in Users
    BY DEF TrueInv, ReadRepos, Shape, Now
  <1>2. /\ history' = history /\ n.user = t.user /\ n.since = t.since /\ n.until = Now
        /\ n.found = found
        /\ \/ /\ ~Last(S, t.past) /\ n.past = t.past + PageSize /\ n.at = "repos"
              /\ n.homes = t.homes
           \/ /\ Last(S, t.past) /\ n.past = 0 /\ n.homes = t.homes \ {i}
              /\ n.at = IF t.homes = {i} THEN "find" ELSE "repos"
    <2>1. history' = history
      BY DEF ReadRepos
    <2>2. \/ /\ ~Last(S, t.past)
             /\ n = [t EXCEPT !.found = found, !.until = Now, !.past = @ + PageSize]
          \/ /\ Last(S, t.past)
             /\ n = [t EXCEPT !.found = found, !.until = Now, !.homes = @ \ {i}, !.past = 0,
                              !.at = IF t.homes = {i} THEN "find" ELSE "repos"]
      BY DEF ReadRepos
    <2> HIDE DEF n, found, S, i
    <2> QED
      BY <1>1, <2>1, <2>2 DEF Task
  <1>3. /\ t.since \in 1 .. t.until /\ t.until <= Now /\ t.since \in Nat /\ t.until \in Nat
        /\ t.past \in Nat
    BY <1>1 DEF ReadTrue, Task
  <1>4. history[Now][t.user] \in SUBSET Repos
    BY <1>1 DEF Now
  <1>5. ASSUME NEW x \in found PROVE \E e \in t.since .. Now : x \in history[e][t.user]
    <2>1. CASE x \in t.found
      <3>1. t.since .. t.until \subseteq t.since .. Now
        BY <1>1, <1>3
      <3> QED
        BY <1>1, <2>1, <3>1 DEF ReadTrue
    <2>2. CASE x \in Page(S, t.past)
      <3>1. x \in history[Now][t.user] /\ Now \in t.since .. Now
        BY <1>1, <1>3, <2>2 DEF Page, Of
      <3> QED
        BY <3>1
    <2> QED
      BY <1>5, <2>1, <2>2
  <1>6. ASSUME NothingWithdrawn(t.user, t.since, Now), NEW x \in history[t.since][t.user]
        PROVE  Ahead(n, x)
    <2>1. /\ NothingWithdrawn(t.user, t.since, t.until)
          /\ history[t.until][t.user] \subseteq history[Now][t.user]
          /\ x \in history[t.until][t.user] /\ x \in history[Now][t.user]
      BY <1>1, <1>3, <1>6, NothingYet
    <2>2. Ahead(t, x)
      BY <1>1, <2>1 DEF ReadTrue
    <2>3. CASE x \in t.found
      BY <1>2, <2>3 DEF Ahead
    <2>4. CASE Home[x] \in t.homes /\ Home[x] # i
      <3>1. Home[x] \in n.homes /\ n.at = "repos"
        BY <1>2, <2>4
      <3>2. n.past = 0 \/ n.homes = t.homes
        BY <1>2
      <3>3. n.past = 0 => Rank(Of(history[Now][t.user], Home[x]), x) >= n.past
        <4>1. Rank(Of(history[Now][t.user], Home[x]), x) \in Nat
          BY <1>4, RankTyped
        <4> QED
          BY <4>1
      <3> QED
        BY <1>2, <2>4, <3>1, <3>2, <3>3 DEF Ahead
    <2>5. CASE Home[x] = i /\ Rank(Of(history[t.until][t.user], i), x) >= t.past /\ i \in t.homes
      <3> DEFINE T == Of(history[t.until][t.user], i)
      <3>1. T \in SUBSET S /\ x \in T
        BY <2>1, <2>5 DEF Of
      <3>2. S \subseteq Nat /\ IsFiniteSet(S)
        BY <1>4, ListsFinite
      <3> HIDE DEF S, T
      <3>3. x \in Page(S, t.past) \/ (~Last(S, t.past) /\ Rank(S, x) >= t.past + PageSize)
        BY <1>3, <2>5, <3>1, <3>2, WalkOn DEF T
      <3>4. CASE x \in Page(S, t.past)
        BY <1>2, <3>4 DEF Ahead
      <3>5. CASE ~Last(S, t.past) /\ Rank(S, x) >= t.past + PageSize
        <4>1. n.past = t.past + PageSize /\ n.at = "repos" /\ n.homes = t.homes
          BY <1>2, <3>5
        <4> QED
          BY <1>2, <2>5, <3>5, <4>1 DEF Ahead, S
      <3> QED
        BY <3>3, <3>4, <3>5
    <2> QED
      BY <1>1, <2>2, <2>3, <2>4, <2>5 DEF Ahead
  <1>7. n.at \in {"repos", "find"}
    BY <1>2
  <1>8. t.since \in 1 .. Now
    BY <1>1, <1>3
  <1> HIDE DEF n, found
  <1>9. /\ n.since \in 1 .. n.until /\ n.until <= Now'
        /\ \A x \in n.found : \E e \in n.since .. n.until : x \in history'[e][n.user]
    BY <1>1, <1>2, <1>5, <1>8 DEF Now
  <1>10. \A x : Ahead(n, x) => Ahead(task[r], x)'
    BY <1>2 DEF Ahead, n
  <1>11. NothingWithdrawn(task[r].user, task[r].since, task[r].until)'
           => NothingWithdrawn(t.user, t.since, Now)
    BY <1>2 DEF NothingWithdrawn, n
  <1>12. NothingWithdrawn(task[r].user, task[r].since, task[r].until)'
           => \A x \in history'[n.since][n.user] : Ahead(task[r], x)'
    BY <1>2, <1>6, <1>10, <1>11
  <1> QED
    BY <1>7, <1>9, <1>12 DEF ReadTrue, n

LEMMA TrueStep == TypeInv /\ TrueInv /\ [Next]_vars => TrueInv'
  <1> SUFFICES ASSUME TypeInv, TrueInv, [Next]_vars PROVE TrueInv'
    OBVIOUS
  <1> USE DEF TypeInv, TypeOK
  <1>0. Now \in Nat /\ Now >= 1
    BY DEF Now
  <1>1. ASSUME NEW r \in Reqs, Finish(r), history' = history, identity' = identity
        PROVE  TrueInv'
    <2>1. \A q \in Reqs : task'[q] = task[q] \/ task'[q] = Idle
      BY <1>1 DEF Finish
    <2> QED
      BY <1>1, <2>1, ReadingStays DEF TrueInv
  <1>2. ASSUME NEW r \in Reqs, Arrive(r) PROVE TrueInv'
    <2>1. ReadTrue(task[r])'
      BY <1>2, Arrival DEF ReadTrue
    <2> QED
      BY <1>2, <2>1, Arrival, ReadingStays DEF TrueInv
  <1>3. ASSUME NEW r \in Reqs, TaskStep(r) PROVE TrueInv'
    <2>0. task[r] \in Task /\ Shape(task[r]) /\ ReadTrue(task[r])
      BY DEF TrueInv
    <2>1. CASE ReadUser(r)
      <3>1. /\ task'[r].at = "installations" /\ task'[r].user = task[r].user
            /\ task'[r].since = Now /\ task'[r].until = Now
            /\ task'[r].found = {} /\ task'[r].homes = {} /\ task'[r].past = 0
            /\ \A q \in Reqs \ {r} : task'[q] = task[q]
            /\ history' = history /\ identity' = identity /\ task[r].user \in Users
        BY <2>0, <2>1 DEF ReadUser, Task, ReadTrue, Shape
      <3>2. \A x : Rank(Homes(history[Now][task[r].user]), x) >= 0
        <4> SUFFICES ASSUME NEW x
                     PROVE  Rank(Homes(history[Now][task[r].user]), x) \in Nat
          OBVIOUS
        <4> DEFINE S == Homes(history[Now][task[r].user])
        <4>1. history[Now][task[r].user] \in SUBSET Repos
          BY <1>0, <3>1 DEF Now
        <4>2. IsFiniteSet(S) /\ {y \in S : y < x} \in SUBSET S
          BY <4>1, ListsFinite
        <4> QED
          BY <4>2, FS_Subset, FS_CardinalityType DEF Rank
      <3>3. Now' = Now /\ Now \in 1 .. Now
        BY <1>0, <3>1 DEF Now
      <3>4. ReadTrue(task[r])'
        BY <3>1, <3>2, <3>3 DEF ReadTrue, Ahead
      <3> QED
        BY <3>1, <3>4, ReadingStays DEF TrueInv
    <2>2. CASE ReadInstallations(r) \/ ReadRepos(r)
      <3>1. ReadTrue(task[r])'
        BY <2>2, InstallationsTrue, ReposTrue
      <3>2. /\ \A q \in Reqs \ {r} : task'[q] = task[q]
            /\ history' = history /\ identity' = identity
        BY <2>2, PageRead
      <3> QED
        BY <3>1, <3>2, ReadingStays DEF TrueInv
    <2>3. CASE GithubFails(r) \/ Refuse(r) \/ InsertedTwice(r) \/ CheckInGone(r)
      BY <1>1, <2>3 DEF GithubFails, Refuse, InsertedTwice, CheckInGone
    <2>4. CASE FindIdentity(r) \/ WriteIdentity(r)
      <3>1. /\ task'[r].at \in {"write", "commit"} /\ task[r].at \in {"find", "write"}
            /\ task'[r].found = task[r].found
            /\ task'[r].since = task[r].since /\ task'[r].until = task[r].until
            /\ task'[r].user = task[r].user
            /\ \A q \in Reqs \ {r} : task'[q] = task[q]
            /\ history' = history /\ identity' = identity
        BY <2>0, <2>4 DEF FindIdentity, WriteIdentity, Task
      <3>2. ReadTrue(task[r])'
        BY <2>0, <3>1 DEF ReadTrue, Ahead, NothingWithdrawn, Now
      <3> QED
        BY <3>1, <3>2, ReadingStays DEF TrueInv
    <2>5. CASE EnrolCommit(r) \/ CheckInCommit(r) \/ LoginCommit(r)
      <3> DEFINE t == task[r]
      <3>1. /\ Finish(r) /\ Replaced(t) /\ t.at = "commit" /\ history' = history
            /\ t.user \in Users
        BY <2>0, <2>5 DEF EnrolCommit, CheckInCommit, LoginCommit, Shape
      <3>2. \A q \in Reqs : task'[q] = task[q] \/ task'[q] = Idle
        BY <3>1 DEF Finish
      <3>3. PICK u \in Users : u = t.user
        BY <3>1
      <3>4. identity'[u] = Snapshot(t) /\ \A v \in Users \ {u} : identity'[v] = identity[v]
        BY <3>1, <3>3 DEF Replaced
      <3>5. /\ t.since \in 1 .. t.until /\ t.until <= Now
            /\ \A x \in t.found : \E e \in t.since .. t.until : x \in history[e][u]
            /\ NothingWithdrawn(u, t.since, t.until) => history[t.since][u] \subseteq t.found
        BY <2>0, <3>1, <3>3 DEF ReadTrue, Ahead
      <3>6. /\ identity'[u].repos = t.found
            /\ identity'[u].since = t.since /\ identity'[u].until = t.until
        BY <3>4 DEF Snapshot
      <3>7. SnapshotTrue(u)'
        BY <3>1, <3>5, <3>6 DEF SnapshotTrue, NothingWithdrawn, Now
      <3>8. \A q \in Reqs : ReadTrue(task[q])'
        BY <3>1, <3>2, ReadingStays
      <3>9. \A v \in Users \ {u} : SnapshotTrue(v)'
        BY <3>1, <3>4, ReadingStays
      <3> QED
        BY <3>7, <3>8, <3>9 DEF TrueInv
    <2> QED
      BY <1>3, <2>1, <2>2, <2>3, <2>4, <2>5 DEF TaskStep
  <1>4. ASSUME NEW r \in Reqs, Abort(r) PROVE TrueInv'
    BY <1>1, <1>4 DEF Abort
  <1>5. ASSUME NEW u \in Users, NEW x \in Repos, Change(u, x) PROVE TrueInv'
    <2>1. /\ Now' = Now + 1 /\ \A e \in 1 .. Now : history'[e] = history[e]
          /\ task' = task /\ identity' = identity
      BY <1>5, HistoryGrows DEF Change
    <2>2. ASSUME NEW r \in Reqs PROVE ReadTrue(task[r])'
      <3>1. task[r] \in Task /\ ReadTrue(task[r])
        BY DEF TrueInv
      <3>2. \A e \in task[r].since .. task[r].until :
               task[r].since \in 1 .. task[r].until /\ task[r].until <= Now => e \in 1 .. Now
        BY <1>0, <3>1 DEF Task
      <3> DEFINE t == task[r]
      <3>3. CASE t.at \in {"installations", "repos", "find", "write", "commit"}
        <4>1. t.since \in 1 .. t.until /\ t.until <= Now /\ t.until \in Nat /\ t.since \in Nat
          BY <3>1, <3>3 DEF ReadTrue, Task
        <4>2. /\ \A e \in t.since .. t.until : history'[e] = history[e]
              /\ history'[t.until] = history[t.until] /\ history'[t.since] = history[t.since]
              /\ t.until <= Now'
          BY <1>0, <2>1, <3>2, <4>1
        <4>3. NothingWithdrawn(t.user, t.since, t.until)'
                <=> NothingWithdrawn(t.user, t.since, t.until)
          <5>1. \A d, e \in t.since .. t.until :
                    (d <= e => history'[d][t.user] \subseteq history'[e][t.user])
                    <=> (d <= e => history[d][t.user] \subseteq history[e][t.user])
            BY <4>2
          <5>2. t' = t
            BY <2>1
          <5> HIDE DEF t
          <5> QED
            BY <5>1, <5>2 DEF NothingWithdrawn
        <4>4. ASSUME NEW y, Ahead(t, y)
              PROVE  Ahead(t, y)'
          BY <2>1, <4>2, <4>4 DEF Ahead
        <4>5. ASSUME NEW y \in t.found
              PROVE  \E e \in t.since .. t.until : y \in history'[e][t.user]
          BY <3>1, <3>3, <4>2, <4>5 DEF ReadTrue
        <4>6. t.at # "user"
          BY <3>3
        <4> QED
          BY <2>1, <3>1, <3>3, <4>1, <4>2, <4>3, <4>4, <4>5, <4>6 DEF ReadTrue
      <3>4. CASE t.at \notin {"installations", "repos", "find", "write", "commit"}
        BY <2>1, <3>1, <3>4 DEF ReadTrue
      <3> QED
        BY <3>3, <3>4
    <2>3. ASSUME NEW v \in Users PROVE SnapshotTrue(v)'
      <3>1. SnapshotTrue(v) /\ (identity[v] # None => identity[v] \in Identity)
        BY DEF TrueInv
      <3> DEFINE s == identity[v]
      <3>2. CASE s # None
        <4>1. /\ s.since \in 1 .. s.until /\ s.until <= Now /\ s.until \in Nat
              /\ s.since \in Nat
          BY <3>1, <3>2 DEF SnapshotTrue, Identity
        <4>2. /\ \A e \in s.since .. s.until : history'[e] = history[e]
              /\ history'[s.since] = history[s.since] /\ s.until <= Now'
          BY <1>0, <2>1, <4>1
        <4>3. \A y \in s.repos : \E e \in s.since .. s.until : y \in history'[e][v]
          BY <3>1, <3>2, <4>2 DEF SnapshotTrue
        <4>4. NothingWithdrawn(v, identity[v].since, identity[v].until)'
                => history'[s.since][v] \subseteq s.repos
          BY <2>1, <3>1, <3>2, <4>2 DEF SnapshotTrue, NothingWithdrawn
        <4> QED
          BY <2>1, <4>1, <4>2, <4>3, <4>4 DEF SnapshotTrue
      <3> QED
        BY <2>1, <3>2 DEF SnapshotTrue
    <2> QED
      BY <2>2, <2>3 DEF TrueInv
  <1>6. ASSUME NEW u \in Users, Expire(u) PROVE TrueInv'
    <2>1. /\ identity[u] # None /\ identity[u] \in Identity
          /\ identity' = [identity EXCEPT ![u] = [identity[u] EXCEPT !.fresh = FALSE]]
          /\ history' = history /\ task' = task
      BY <1>6 DEF Expire
    <2>2. /\ identity'[u].repos = identity[u].repos
          /\ identity'[u].since = identity[u].since
          /\ identity'[u].until = identity[u].until
          /\ \A v \in Users \ {u} : identity'[v] = identity[v]
      BY <2>1 DEF Identity
    <2>3. SnapshotTrue(u)'
      BY <2>1, <2>2 DEF SnapshotTrue, NothingWithdrawn, Now, TrueInv
    <2> QED
      BY <2>1, <2>2, <2>3, ReadingStays DEF TrueInv
  <1>7. CASE \/ \E u \in Users : SessionExpires(u)
             \/ \E c \in Clients : Revoke(c)
             \/ UNCHANGED vars
    <2>1. history' = history /\ identity' = identity /\ task' = task
      BY <1>7 DEF SessionExpires, Revoke, vars
    <2> QED
      BY <2>1, ReadingStays DEF TrueInv
  <1> QED
    BY <1>2, <1>3, <1>4, <1>5, <1>6, <1>7 DEF Next, Environment

\* Nothing in a snapshot is invented or left over: each of its repos was
\* GitHub's answer at some moment of the reading that made it.
THEOREM SnapshotsAreTrue == Spec => []SnapshotWasTrue
  <1>1. TypeInv /\ TrueInv => SnapshotWasTrue
    <2> SUFFICES ASSUME TypeInv, TrueInv, NEW u \in Users, identity[u] # None,
                        NEW x \in identity[u].repos
                 PROVE  \E e \in identity[u].since .. identity[u].until :
                          e \in 1 .. Now /\ x \in history[e][u]
      BY DEF SnapshotWasTrue
    <2>1. identity[u] \in Identity /\ SnapshotTrue(u) /\ Now \in Nat
      BY DEF TypeInv, TypeOK, TrueInv, Now
    <2>2. PICK e \in identity[u].since .. identity[u].until : x \in history[e][u]
      BY <2>1 DEF SnapshotTrue
    <2> QED
      BY <2>1, <2>2 DEF SnapshotTrue, Identity
  <1> QED
    BY TypeInit, TypeStep, TrueInit, TrueStep, <1>1, PTL DEF Spec

\* The walk over numbered pages, which may grow under it, skips nothing that
\* was granted when it began, as long as nothing is withdrawn meanwhile.
THEOREM SnapshotsAreWhole == Spec => []SnapshotIsWhole
  <1>1. TrueInv => SnapshotIsWhole
    BY DEF TrueInv, SnapshotTrue, SnapshotIsWhole
  <1> QED
    BY TypeInit, TypeStep, TrueInit, TrueStep, <1>1, PTL DEF Spec

-----------------------------------------------------------------------------
(* Accounts and the clients admitted by them *)

LEMMA AdmittedStep == TypeInv /\ AdmittedByGithub /\ [Next]_vars => AdmittedByGithub'
  <1> SUFFICES ASSUME TypeInv, AdmittedByGithub, [Next]_vars PROVE AdmittedByGithub'
    OBVIOUS
  <1> USE AttestationAssumption DEF TypeInv, TypeOK
  <1>1. ASSUME NEW r \in Reqs, Finish(r), client' = client, identity' = identity,
               session' = session
        PROVE  AdmittedByGithub'
    BY <1>1 DEF Finish, Idle, AdmittedByGithub
  <1>2. ASSUME NEW r \in Reqs, Arrive(r) PROVE AdmittedByGithub'
    BY <1>2, Arrival DEF AdmittedByGithub
  <1>3. ASSUME NEW r \in Reqs, TaskStep(r) PROVE AdmittedByGithub'
    <2>0. task[r] \in Task /\ Shape(task[r])
      OBVIOUS
    <2>1. CASE \/ ReadUser(r) \/ ReadInstallations(r) \/ ReadRepos(r)
               \/ FindIdentity(r) \/ WriteIdentity(r)
      <3>1. UNCHANGED <<identity, client, session>>
        BY <2>1 DEF ReadUser, ReadInstallations, ReadRepos, FindIdentity, WriteIdentity
      <3> QED
        BY <3>1 DEF AdmittedByGithub
    <2>2. CASE GithubFails(r) \/ Refuse(r) \/ InsertedTwice(r) \/ CheckInGone(r)
      BY <1>1, <2>2 DEF GithubFails, Refuse, InsertedTwice, CheckInGone
    <2>3. CASE EnrolCommit(r) \/ CheckInCommit(r) \/ LoginCommit(r)
      <3> DEFINE u == task[r].user
      <3>1. u \in Users /\ Replaced(task[r]) /\ Finish(r)
        BY <2>0, <2>3 DEF EnrolCommit, CheckInCommit, LoginCommit, Shape
      <3>2. identity'[u] # None /\ \A v \in Users \ {u} : identity'[v] = identity[v]
        <4>1. identity'[u] = Snapshot(task[r])
          BY <3>1 DEF Replaced
        <4>2. Snapshot(task[r]) # None
          BY <2>0, SnapshotTyped
        <4> QED
          BY <3>1, <4>1, <4>2 DEF Replaced
      <3>3. /\ \A c \in Clients : client'[c] = client[c] \/ client'[c] = u
            /\ session' \subseteq session \cup {u}
        BY <2>3 DEF EnrolCommit, CheckInCommit, LoginCommit
      <3>4. AdmittedByGithub'
        <4>1. u # None
          BY <3>1, AttestationAssumption
        <4>2. \A c \in Clients \ Legacy : client'[c] # None
          BY <3>3, <4>1 DEF AdmittedByGithub
        <4>3. \A v \in Users : identity[v] # None => identity'[v] # None
          BY <3>2
        <4>4. \A c \in Clients : client'[c] \in Users => identity'[client'[c]] # None
          BY <3>1, <3>2, <3>3, <4>3 DEF AdmittedByGithub
        <4>5. \A v \in session' : identity'[v] # None
          BY <3>2, <3>3, <4>3 DEF AdmittedByGithub
        <4> QED
          BY <4>2, <4>4, <4>5 DEF AdmittedByGithub
      <3> QED
        BY <3>1, <3>4 DEF Finish, Idle
    <2> QED
      BY <1>3, <2>1, <2>2, <2>3 DEF TaskStep
  <1>4. ASSUME NEW r \in Reqs, Abort(r) PROVE AdmittedByGithub'
    BY <1>1, <1>4 DEF Abort
  <1>5. CASE Environment
    <2>1. /\ task' = task /\ session' \subseteq session
          /\ \A u \in Users : identity[u] # None => identity'[u] # None
          /\ \A c \in Clients : client'[c] \in {client[c], "gone"}
      <3>1. ASSUME NEW u \in Users, NEW x \in Repos, Change(u, x)
            PROVE  UNCHANGED <<identity, client, session, task>>
        BY <3>1 DEF Change
      <3>2. ASSUME NEW u \in Users, Expire(u)
            PROVE  /\ identity'[u] # None
                   /\ \A v \in Users \ {u} : identity'[v] = identity[v]
                   /\ UNCHANGED <<client, session, task>>
        <4>1. [identity[u] EXCEPT !.fresh = FALSE] \in Identity
          BY <3>2 DEF Expire, Identity
        <4> QED
          BY <3>2, <4>1 DEF Expire
      <3>3. ASSUME NEW u \in Users, SessionExpires(u)
            PROVE  session' \subseteq session /\ UNCHANGED <<identity, client, task>>
        BY <3>3 DEF SessionExpires
      <3>4. ASSUME NEW c \in Clients, Revoke(c)
            PROVE  /\ UNCHANGED <<identity, session, task>>
                   /\ \A d \in Clients : client'[d] \in {client[d], "gone"}
        BY <3>4 DEF Revoke
      <3> QED
        BY <1>5, <3>1, <3>2, <3>3, <3>4 DEF Environment
    <2> QED
      BY <2>1 DEF AdmittedByGithub
  <1>6. CASE UNCHANGED vars
    BY <1>6 DEF vars, AdmittedByGithub
  <1> QED
    BY <1>2, <1>3, <1>4, <1>5, <1>6 DEF Next

\* Whoever holds a client row or a session was admitted by GitHub.
THEOREM Admitted == Spec => []AdmittedByGithub
  <1>1. Init => AdmittedByGithub
    BY AttestationAssumption DEF Init, AdmittedByGithub
  <1> QED
    BY TypeInit, TypeStep, AdmittedStep, <1>1, PTL DEF Spec
=============================================================================
