-------------------------- MODULE ClientLoop_proofs --------------------------
(***************************************************************************)
(* What the state file may hold, and when the loop exits, retries or       *)
(* pauses, whatever goes wrong and however often.                          *)
(***************************************************************************)
EXTENDS ClientLoop, TLAPS

-----------------------------------------------------------------------------
(* Type correctness *)

FaultsOK == faults \in [left : 0 .. MaxFaults, seen : SUBSET Fault]

LEMMA GoesType == ASSUME TypeOK, NEW wrong, Goes(wrong) PROVE FaultsOK'
<1>1. faults.left - 1 \in 0 .. MaxFaults /\ wrong \in Fault
  BY ClientLoopAssumption DEF TypeOK, FaultsOK, Goes
<1>2. faults.seen \cup {wrong} \in SUBSET Fault
  BY <1>1 DEF TypeOK, FaultsOK
<1> QED BY <1>1, <1>2 DEF Goes, FaultsOK

LEMMA AfreshType == ASSUME TypeOK, Afresh PROVE FaultsOK' /\ retries' \in 0 .. MaxRetries
<1>1. Lasting(hub', checked_in') \in SUBSET Fault
  BY DEF Lasting
<1>2. faults \in [left : 0 .. MaxFaults, seen : SUBSET Fault]
  BY DEF TypeOK
<1> QED BY <1>1, <1>2 DEF Afresh, FaultsOK, MaxRetries

LEMMA RetriesType ==
    ASSUME TypeOK PROVE (IF retries < MaxRetries THEN retries + 1 ELSE retries) \in 0 .. MaxRetries
BY DEF TypeOK, MaxRetries

LEMMA HubAfterType == ASSUME TypeOK PROVE HubAfter \subseteq Hub
<1>1. hub \in Hub /\ CheckedIn \in Hub
  BY DEF TypeOK, CheckedIn, Hub
<1>2. [hub EXCEPT !.lease = "held"] \in Hub /\ [hub EXCEPT !.lease = "none"] \in Hub
  BY <1>1 DEF Hub
<1>3. \A h \in HubAfter : \/ h = hub
                           \/ h = CheckedIn
                           \/ h = [hub EXCEPT !.lease = "held"]
                           \/ h = [hub EXCEPT !.lease = "none"]
  BY DEF HubAfter
<1> QED BY <1>1, <1>2, <1>3

LEMMA RenewType == ASSUME TypeOK, Renew PROVE TypeOK'
<1>1. NoTokens \in Tokens /\ Refreshed \in Tokens /\ [disk EXCEPT !.refresh = "dead"] \in Tokens
  BY DEF TypeOK, NoTokens, Refreshed, Tokens
<1>2. disk' \in Tokens /\ held' \in Tokens /\ pc' \in Running \cup Ended
  BY <1>1 DEF TypeOK, Renew, Renewed, Running, Ended
<1>3. FaultsOK'
  BY GoesType DEF TypeOK, FaultsOK, Renew
<1>4. UNCHANGED <<conflict, keep, github, sched, retries, hub>>
  BY DEF Renew, Renewed
<1> QED BY <1>2, <1>3, <1>4 DEF TypeOK, FaultsOK, sched

LEMMA CheckInType == ASSUME TypeOK, CheckIn \/ CheckInFails PROVE TypeOK'
<1>1. NoTokens \in Tokens /\ Persisted(held) \in Tokens /\ CheckedIn \in Hub
  BY DEF TypeOK, NoTokens, Tokens, Persisted, CheckedIn, Hub
<1>2. CASE CheckIn
  BY <1>1, <1>2 DEF TypeOK, FaultsOK, CheckIn, Running, Ended
<1>3. CASE CheckInFails
  <2>1. FaultsOK'
    BY <1>3, GoesType DEF TypeOK, FaultsOK, CheckInFails
  <2> QED BY <1>1, <1>3, <2>1 DEF TypeOK, FaultsOK, CheckInFails, sched, Running, Ended
<1> QED BY <1>2, <1>3

LEMMA RoundType ==
    ASSUME TypeOK,
           \/ Round \/ LeaseGranted \/ QueueDry \/ LeaseConflict \/ Review \/ Report
           \/ RoundFails \/ Unreachable \/ Recover \/ Sleep
    PROVE  TypeOK'
<1>1. CASE Round \/ QueueDry \/ LeaseConflict \/ Sleep
  <2>1. CASE Round
    BY <2>1 DEF TypeOK, FaultsOK, Round, cred, Running, Ended
  <2>2. CASE QueueDry
    BY <2>2, AfreshType DEF TypeOK, FaultsOK, QueueDry, cred, sched, Running, Ended
  <2>3. CASE LeaseConflict
    BY <2>3 DEF TypeOK, FaultsOK, LeaseConflict, cred, sched, Running, Ended
  <2>4. CASE Sleep
    BY <2>4, AfreshType DEF TypeOK, FaultsOK, Sleep, cred, sched, Running, Ended
  <2> QED BY <1>1, <2>1, <2>2, <2>3, <2>4
<1>2. CASE LeaseGranted \/ Report
  <2>1. CASE LeaseGranted
    BY <2>1, AfreshType DEF TypeOK, FaultsOK, LeaseGranted, cred, sched, Running, Ended, Hub
  <2>2. CASE Report
    BY <2>2 DEF TypeOK, FaultsOK, Report, cred, sched, Running, Ended, Hub
  <2> QED BY <1>2, <2>1, <2>2
<1>3. CASE Review
  BY <1>3, GoesType DEF TypeOK, FaultsOK, Review, cred, sched, Running, Ended
<1>4. CASE RoundFails \/ Unreachable
  <2>1. hub' \in Hub /\ FaultsOK'
    BY <1>4, HubAfterType, GoesType DEF TypeOK, FaultsOK, RoundFails, Unreachable
  <2> QED BY <1>4, <2>1 DEF TypeOK, FaultsOK, RoundFails, Unreachable, cred, sched, Running, Ended
<1>5. CASE Recover
  <2>1. NoTokens \in Tokens
    BY DEF NoTokens, Tokens
  <2> QED BY <1>5, <2>1, RetriesType DEF TypeOK, FaultsOK, Recover, sched, Running, Ended
<1> QED BY <1>1, <1>2, <1>3, <1>4, <1>5

\* What time does to a credential.
LEMMA Spent ==
    ASSUME NEW t \in Tokens
    PROVE  LET u == [t EXCEPT !.access = IF @ = "live" THEN "spent" ELSE @]
           IN  /\ u \in Tokens /\ u.proved = t.proved /\ u.refresh = t.refresh
               /\ u.access = t.access \/ (t.access = "live" /\ u.access = "spent")
               /\ t = NoTokens => u = NoTokens
<1>1. CASE t.access = "live"
  BY <1>1 DEF Tokens, NoTokens
<1>2. CASE t.access # "live"
  <2>1. [t EXCEPT !.access = IF @ = "live" THEN "spent" ELSE @] = t
    BY <1>2 DEF Tokens
  <2> QED BY <2>1
<1> QED BY <1>1, <1>2

LEMMA Lapsed ==
    ASSUME NEW t \in Tokens
    PROVE  LET u == [t EXCEPT !.refresh = IF @ = "good" THEN "dead" ELSE @]
           IN  /\ u \in Tokens /\ u.proved = t.proved /\ u.access = t.access
               /\ u.refresh = t.refresh \/ (t.refresh = "good" /\ u.refresh = "dead")
               /\ t = NoTokens => u = NoTokens
<1>1. CASE t.refresh = "good"
  BY <1>1 DEF Tokens, NoTokens
<1>2. CASE t.refresh # "good"
  <2>1. [t EXCEPT !.refresh = IF @ = "good" THEN "dead" ELSE @] = t
    BY <1>2 DEF Tokens
  <2> QED BY <2>1
<1> QED BY <1>1, <1>2

LEMMA EnvironmentType ==
    ASSUME TypeOK,
           \/ Ages \/ HalfTtl \/ AccessSpent \/ RefreshLapses \/ HubMoves \/ HubReadsAgain
           \/ Unauthorize \/ Restart \/ UNCHANGED vars
    PROVE  TypeOK'
<1>1. CASE Ages \/ HubReadsAgain
  <2>1. hub' \in Hub
    BY <1>1 DEF TypeOK, Ages, HubReadsAgain, Hub
  <2>2. retries' \in 0 .. MaxRetries /\ FaultsOK'
    BY <1>1, AfreshType DEF TypeOK, FaultsOK, Ages, HubReadsAgain
  <2> QED BY <1>1, <2>1, <2>2 DEF TypeOK, FaultsOK, Ages, HubReadsAgain, cred, sched
<1>2. CASE HalfTtl
  BY <1>2 DEF TypeOK, FaultsOK, HalfTtl, cred
<1>3. CASE AccessSpent
  <2>1. disk' \in Tokens /\ held' \in Tokens
    BY <1>3, Spent DEF TypeOK, AccessSpent
  <2> QED BY <1>3, <2>1 DEF TypeOK, FaultsOK, AccessSpent, sched
<1>4. CASE RefreshLapses
  <2>1. disk' \in Tokens /\ held' \in Tokens
    BY <1>4, Lapsed DEF TypeOK, RefreshLapses
  <2>2. FaultsOK'
    BY <1>4, GoesType DEF RefreshLapses
  <2> QED BY <1>4, <2>1, <2>2 DEF TypeOK, FaultsOK, RefreshLapses, sched
<1>5. CASE HubMoves
  <2>1. hub' \in Hub
    BY <1>5 DEF TypeOK, HubMoves, Hub
  <2>2. FaultsOK'
    BY <1>5, GoesType DEF HubMoves
  <2> QED BY <1>5, <2>1, <2>2 DEF TypeOK, FaultsOK, HubMoves, cred, sched
<1>6. CASE Unauthorize
  BY <1>6, GoesType DEF TypeOK, FaultsOK, Unauthorize, sched
<1>7. CASE Restart
  <2>1. NoTokens \in Tokens /\ (disk # NoTokens) \in BOOLEAN
    BY DEF NoTokens, Tokens
  <2>2. retries' \in 0 .. MaxRetries /\ FaultsOK'
    BY <1>7, AfreshType DEF Restart
  <2>3. pc' \in Running \cup Ended /\ renewable' \in BOOLEAN
    BY <1>7, <2>1 DEF Restart, Running
  <2> QED BY <1>7, <2>1, <2>2, <2>3 DEF TypeOK, FaultsOK, Restart
<1>8. CASE UNCHANGED vars
  <2>1. UNCHANGED <<pc, conflict, retries, hub, faults>>
    BY <1>8 DEF vars
  <2>2. UNCHANGED <<disk, keep, held, github>>
    BY <1>8 DEF vars, cred
  <2>3. UNCHANGED <<renewable, attempted, knows_ttl, checked_in>>
    BY <1>8 DEF vars, sched
  <2> QED BY <2>1, <2>2, <2>3 DEF TypeOK, FaultsOK
<1> QED BY <1>1, <1>2, <1>3, <1>4, <1>5, <1>6, <1>7, <1>8

LEMMA NextType == ASSUME TypeOK, [Next]_vars PROVE TypeOK'
BY RenewType, CheckInType, RoundType, EnvironmentType DEF Next, LoopStep

LEMMA InitType == Init => TypeOK
<1> SUFFICES ASSUME Init PROVE TypeOK
  OBVIOUS
<1>1. disk \in Tokens /\ held \in Tokens
  <2>1. NoTokens \in Tokens
    BY DEF NoTokens, Tokens
  <2>2. [access |-> "live", refresh |-> "none", proved |-> TRUE] \in Tokens
    BY DEF Tokens
  <2>3. [access |-> "live", refresh |-> "good", proved |-> TRUE] \in Tokens
    BY DEF Tokens
  <2> QED BY <2>1, <2>2, <2>3 DEF Init, Logins
<1>2. hub \in Hub
  BY DEF Init, Hub
<1>3. FaultsOK
  BY ClientLoopAssumption DEF Init, FaultsOK
<1>4. renewable \in BOOLEAN /\ retries \in 0 .. MaxRetries
  BY DEF Init, MaxRetries
<1>5. pc \in Running \cup Ended
  BY DEF Init, Running
<1> QED BY <1>1, <1>2, <1>3, <1>4, <1>5 DEF Init, TypeOK, FaultsOK

\* The loop's state is well typed after any number of faults.
THEOREM Typed == Spec => []TypeOK
BY InitType, NextType, PTL DEF Spec

-----------------------------------------------------------------------------
(* The state file *)

\* The state file changes by a check-in the hub accepted, or a credential in it
\* ages; a refresh whose check-in has still to come leaves it alone.
LEMMA FileChanges ==
    ASSUME TypeOK, [Next]_vars
    PROVE  \/ disk' = Persisted(held) /\ CheckIn
           \/ /\ disk'.proved = disk.proved
              /\ disk'.access = disk.access \/ (disk.access = "live" /\ disk'.access = "spent")
              /\ disk'.refresh = disk.refresh \/ (disk.refresh = "good" /\ disk'.refresh = "dead")
              /\ disk = NoTokens => disk' = NoTokens
<1>1. CASE Renew
  BY <1>1 DEF Renew, Renewed, TypeOK, Tokens, NoTokens
<1>2. CASE CheckIn
  BY <1>2 DEF CheckIn
<1>3. CASE AccessSpent
  BY <1>3, Spent DEF AccessSpent, TypeOK
<1>4. CASE RefreshLapses
  BY <1>4, Lapsed DEF RefreshLapses, TypeOK
<1>5. CASE UNCHANGED disk
  BY <1>5
<1> QED BY <1>1, <1>2, <1>3, <1>4, <1>5 DEF Next, LoopStep, Round, CheckInFails, LeaseGranted,
           QueueDry, LeaseConflict, Review, Report, RoundFails, Unreachable, Recover, Sleep,
           Ages, HalfTtl, HubMoves, HubReadsAgain, Unauthorize, Restart, vars, cred

\* The state file holds no credential the hub has not accepted.
THEOREM StoredCredentialsWork == Spec => []StoredWasAccepted
<1>1. Init => StoredWasAccepted
  BY DEF Init, Logins, StoredWasAccepted
<1>2. TypeOK /\ StoredWasAccepted /\ [Next]_vars => StoredWasAccepted'
  <2> SUFFICES ASSUME TypeOK, StoredWasAccepted, [Next]_vars PROVE StoredWasAccepted'
    OBVIOUS
  <2>1. CASE disk' = Persisted(held)
    BY <2>1 DEF Persisted, StoredWasAccepted, TypeOK, Tokens
  <2>2. CASE disk'.proved = disk.proved /\ (disk = NoTokens => disk' = NoTokens)
    BY <2>2 DEF StoredWasAccepted
  <2> QED BY <2>1, <2>2, FileChanges
<1> QED BY <1>1, <1>2, Typed, PTL DEF Spec

\* An opted-out state file gains no credential, by whichever path one was produced.
THEOREM OptOutHolds == Spec => OptOutGainsNothing
<1> DEFINE Step == ~keep => /\ disk'.access = "live" => disk.access = "live"
                            /\ disk'.refresh = "good" => disk.refresh = "good"
<1>1. TypeOK /\ [Next]_vars => [Step]_vars
  <2> SUFFICES ASSUME TypeOK, [Next]_vars, ~keep
               PROVE  /\ disk'.access = "live" => disk.access = "live"
                      /\ disk'.refresh = "good" => disk.refresh = "good"
    OBVIOUS
  <2>1. CASE disk' = Persisted(held)
    BY <2>1 DEF Persisted, NoTokens
  <2> QED BY <2>1, FileChanges
<1> QED BY <1>1, Typed, PTL DEF Spec, OptOutGainsNothing


-----------------------------------------------------------------------------
(* What the client's comments promise *)

\* None of these troubles has come since the count of 409s was 0, nor lasts.
Spared(kinds) == faults.seen \cap kinds = {}

\* Troubles that last are remembered; the job in hand was leased, and a 409 in
\* hand is justified, by the client's state or by a lost lease.
HubRemembers ==
    /\ Lasting(hub, checked_in) \subseteq faults.seen
    /\ pc \in {"review", "report"} => hub.lease \in {"held", "lost"}
    /\ pc = "recover" => Conflicts \/ hub.lease = "lost"

\* Where a loop is that has been answered a 409 without a pause since: the first
\* one is answered by a check-in of this run at the latest, the second by a
\* check-in with a credential, and after that the snapshot is new.
RetriesLead ==
    Spared({"hub_cannot_read_github", "lease_lost", "check_out"}) =>
        /\ hub.reads /\ retries < MaxRetries
        /\ retries = 1 => \/ checked_in
                          \/ pc = "check_in" /\ conflict
                          \/ pc \in {"idle", "failed", "unreached"}
        /\ retries = 2 => \/ /\ checked_in
                             /\ \/ pc = "renew" /\ conflict
                                \/ pc = "check_in" /\ conflict /\ held # NoTokens
                                \/ hub.snapshot = "new"
                          \/ pc \in {"idle", "failed", "unreached", "exited"}

WordInv == TypeOK /\ HubRemembers /\ RetriesLead /\ LoginAgainMeansLogin


\* A trouble that came is forgotten only where the count starts again.
LEMMA SeenGrows ==
    ASSUME TypeOK, [Next]_vars
    PROVE  faults.seen \subseteq faults'.seen \/ (Afresh /\ pc' \notin Ended)
<1>1. ASSUME NEW wrong, Goes(wrong)
      PROVE  faults.seen \subseteq faults'.seen
  BY <1>1 DEF Goes
<1>2. CASE UNCHANGED faults
  BY <1>2
<1>3. CASE LeaseGranted \/ QueueDry \/ Sleep \/ Restart \/ Ages
  BY <1>3 DEF LeaseGranted, QueueDry, Sleep, Restart, Ages, Ended
<1> QED BY <1>1, <1>2, <1>3 DEF Next, LoopStep, Round, Renew, CheckIn, CheckInFails,
           LeaseConflict, Review, Report, RoundFails, Unreachable, Recover,
           HalfTtl, AccessSpent, RefreshLapses, HubMoves, HubReadsAgain, Unauthorize, vars

LEMMA SparedBefore ==
    ASSUME TypeOK, [Next]_vars, NEW kinds, Spared(kinds)', ~Afresh \/ pc' \in Ended
    PROVE  Spared(kinds)
BY SeenGrows DEF Spared

\* A trouble that comes was not spared.
LEMMA NotSpared ==
    ASSUME NEW wrong, Goes(wrong), NEW kinds, wrong \in kinds
    PROVE  ~Spared(kinds)'
BY DEF Goes, Spared

\* A hub whose answer does not arrive loses no check-in and forgets no GitHub.
LEMMA HubAfterKeeps ==
    ASSUME TypeOK, NEW h \in HubAfter
    PROVE  h.status \in {hub.status, "in"} /\ h.reads = hub.reads
<1>1. h \in {hub, CheckedIn, [hub EXCEPT !.lease = "held"], [hub EXCEPT !.lease = "none"]}
  BY DEF HubAfter
<1> QED BY <1>1 DEF TypeOK, Hub, CheckedIn

\* What a check-in leaves of the hub.
LEMMA CheckedInIs ==
    ASSUME TypeOK
    PROVE  /\ CheckedIn.status = "in" /\ CheckedIn.lease = hub.lease /\ CheckedIn.reads = hub.reads
           /\ CheckedIn.snapshot = IF held # NoTokens /\ hub.reads THEN "new" ELSE hub.snapshot
BY DEF TypeOK, Hub, CheckedIn

\* Which troubles last.
LEMMA LastingIs ==
    ASSUME NEW h, NEW in
    PROVE  /\ "hub_cannot_read_github" \in Lasting(h, in) <=> ~h.reads
           /\ "lease_lost" \in Lasting(h, in) <=> h.lease = "lost"
           /\ "check_out" \in Lasting(h, in) <=> in /\ h.status = "out"
           /\ Lasting(h, in) \subseteq {"hub_cannot_read_github", "lease_lost", "check_out"}
BY DEF Lasting, Fault

\* A trouble that lasts came when it began, and was not forgotten since.
LEMMA LastingSeen ==
    ASSUME TypeOK, HubRemembers, [Next]_vars
    PROVE  Lasting(hub', checked_in') \subseteq faults'.seen
<1>1. hub \in Hub /\ faults \in [left : 0 .. MaxFaults, seen : SUBSET Fault]
  BY DEF TypeOK
<1>2. CASE Afresh
  BY <1>1, <1>2 DEF Afresh
<1> SUFFICES ASSUME ~Afresh
             PROVE  Lasting(hub', checked_in') \subseteq faults'.seen
  BY <1>2
<1>3. faults.seen \subseteq faults'.seen /\ Lasting(hub, checked_in) \subseteq faults.seen
  BY SeenGrows DEF HubRemembers
<1>4. CASE Lasting(hub', checked_in') \subseteq Lasting(hub, checked_in)
  BY <1>3, <1>4
<1>5. CASE UNCHANGED <<hub, checked_in>>
  BY <1>4, <1>5
<1>6. CASE /\ hub'.reads = hub.reads /\ hub'.lease \in {hub.lease, "held", "none"}
           /\ hub'.status = "in" \/ (hub'.status = hub.status /\ UNCHANGED checked_in)
  BY <1>3, <1>6, LastingIs
<1>7. CASE CheckIn \/ CheckInFails
  <2>1. CASE CheckIn
    BY <1>6, <2>1, CheckedInIs DEF CheckIn
  <2>2. CASE CheckInFails
    BY <1>5, <1>6, <2>2, CheckedInIs DEF CheckInFails, sched
  <2> QED BY <1>7, <2>1, <2>2
<1>8. CASE RoundFails \/ Unreachable
  <2>1. UNCHANGED checked_in /\ (hub' = hub \/ hub' \in HubAfter)
    BY <1>8 DEF RoundFails, Unreachable, sched
  <2>2. hub' \in {hub, CheckedIn, [hub EXCEPT !.lease = "held"], [hub EXCEPT !.lease = "none"]}
    BY <2>1 DEF HubAfter
  <2>3. CASE hub' = CheckedIn
    BY <1>6, <2>3, CheckedInIs
  <2> QED BY <1>1, <1>5, <1>6, <2>1, <2>2, <2>3 DEF Hub
<1>9. CASE Report \/ Ages
  BY <1>1, <1>5, <1>6, <1>9 DEF Report, Ages, sched, Hub
<1>10. CASE HubReadsAgain
  <2>1. hub'.reads /\ hub'.lease = hub.lease /\ hub'.status = hub.status /\ UNCHANGED checked_in
    BY <1>1, <1>10 DEF HubReadsAgain, sched, Hub
  <2> QED BY <1>4, <2>1, LastingIs
<1>11. CASE HubMoves
  <2>1. UNCHANGED checked_in
    BY <1>11 DEF HubMoves, sched
  <2>2. \/ /\ hub'.reads = hub.reads /\ hub'.lease = hub.lease /\ hub'.status = hub.status
        \/ /\ Goes("lease_lost") /\ hub'.reads = hub.reads /\ hub'.status = hub.status
        \/ /\ Goes("check_out") /\ hub'.reads = hub.reads /\ hub'.lease = hub.lease
        \/ /\ Goes("hub_cannot_read_github") /\ hub'.lease = hub.lease /\ hub'.status = hub.status
    BY <1>1, <1>11 DEF HubMoves, Hub
  <2> QED BY <1>3, <2>1, <2>2, LastingIs DEF Goes
<1>12. CASE Round \/ Renew \/ LeaseConflict \/ Review \/ Recover \/ HalfTtl \/ AccessSpent \/ RefreshLapses
            \/ Unauthorize \/ UNCHANGED vars
  BY <1>5, <1>12 DEF Round, Renew, Renewed, LeaseConflict, Review, Recover, HalfTtl, AccessSpent, RefreshLapses,
     Unauthorize, vars, sched
<1>13. ~(LeaseGranted \/ QueueDry \/ Sleep \/ Restart)
  BY DEF LeaseGranted, QueueDry, Sleep, Restart
<1> QED BY <1>7, <1>8, <1>9, <1>10, <1>11, <1>12, <1>13 DEF Next, LoopStep

LEMMA HubRemembersStep ==
    ASSUME TypeOK, HubRemembers, [Next]_vars
    PROVE  HubRemembers'
<1> SUFFICES /\ pc' \in {"review", "report"} => hub'.lease \in {"held", "lost"}
             /\ pc' = "recover" => Conflicts' \/ hub'.lease = "lost"
  BY LastingSeen DEF HubRemembers
<1>1. /\ pc \in {"review", "report"} => hub.lease \in {"held", "lost"}
      /\ pc = "recover" => Conflicts \/ hub.lease = "lost"
  BY DEF HubRemembers
<1>2. hub \in Hub
  BY DEF TypeOK
<1>3. CASE Round \/ Recover \/ Sleep \/ Restart \/ QueueDry
  BY <1>1, <1>3 DEF Round, Recover, Sleep, Restart, QueueDry, sched, cred
<1>4. CASE Renew
  BY <1>1, <1>4 DEF Renew, Renewed, sched
<1>5. CASE CheckIn \/ CheckInFails
  BY <1>5 DEF CheckIn, CheckInFails
<1>6. CASE LeaseGranted \/ Review
  BY <1>1, <1>2, <1>6 DEF LeaseGranted, Review, Hub, sched
<1>7. CASE LeaseConflict
  BY <1>1, <1>7 DEF LeaseConflict, Conflicts, sched
<1>8. CASE Report
  BY <1>1, <1>2, <1>8 DEF Report, Hub, sched
<1>9. CASE RoundFails \/ Unreachable
  BY <1>9 DEF RoundFails, Unreachable
<1>10. CASE Ages \/ HubReadsAgain
  <2>1. UNCHANGED pc /\ hub'.lease = hub.lease /\ hub'.status = hub.status
        /\ (hub.snapshot = "stale" => hub'.snapshot = "stale")
    BY <1>2, <1>10 DEF Ages, HubReadsAgain, Hub
  <2> QED BY <1>1, <2>1 DEF Conflicts
<1>11. CASE HubMoves
  BY <1>1, <1>2, <1>11 DEF HubMoves, Hub, Conflicts
<1>12. CASE HalfTtl \/ AccessSpent \/ RefreshLapses \/ Unauthorize \/ UNCHANGED vars
  <2>1. UNCHANGED <<pc, hub, checked_in>>
    BY <1>12 DEF HalfTtl, AccessSpent, RefreshLapses, Unauthorize, vars, sched
  <2> QED BY <1>1, <2>1 DEF Conflicts
<1> QED BY <1>3, <1>4, <1>5, <1>6, <1>7, <1>8, <1>9, <1>10, <1>11, <1>12 DEF Next, LoopStep

LEMMA RetriesLeadStep ==
    ASSUME TypeOK, HubRemembers, RetriesLead, [Next]_vars
    PROVE  RetriesLead'
<1> DEFINE Lead ==
        /\ hub.reads /\ retries < MaxRetries
        /\ retries = 1 => \/ checked_in
                          \/ pc = "check_in" /\ conflict
                          \/ pc \in {"idle", "failed", "unreached"}
        /\ retries = 2 => \/ /\ checked_in
                             /\ \/ pc = "renew" /\ conflict
                                \/ pc = "check_in" /\ conflict /\ held # NoTokens
                                \/ hub.snapshot = "new"
                          \/ pc \in {"idle", "failed", "unreached", "exited"}
<1> SUFFICES ASSUME Spared({"hub_cannot_read_github", "lease_lost", "check_out"})'
             PROVE  Lead'
  BY DEF RetriesLead
<1>0. CASE Afresh
  <2>1. hub'.reads /\ retries' = 0
    BY <1>0, LastingSeen, LastingIs DEF Afresh, Spared
  <2> QED BY <2>1 DEF MaxRetries
<1> SUFFICES ASSUME ~Afresh
             PROVE  Lead'
  BY <1>0
<1>1. Lead
  BY SparedBefore DEF RetriesLead
<1>2. hub \in Hub /\ retries \in 0 .. MaxRetries /\ held \in Tokens /\ NoTokens \in Tokens
  BY DEF TypeOK, NoTokens, Tokens
<1>3. hub.lease # "lost" /\ (checked_in => hub.status # "out")
  BY SeenGrows, LastingIs DEF Spared, HubRemembers
<1>4. pc = "recover" => Conflicts /\ (checked_in => hub.snapshot = "stale")
  BY <1>3 DEF HubRemembers, Conflicts
<1>5. pc = "report" => hub.lease = "held"
  BY <1>3 DEF HubRemembers
<1>6. CASE Sleep \/ Restart \/ LeaseGranted \/ QueueDry
  BY <1>6 DEF Sleep, Restart, LeaseGranted, QueueDry
<1>18. CASE Ages
  <2>1. UNCHANGED <<pc, conflict, held, checked_in, retries>> /\ hub'.reads = hub.reads /\ pc \in Ended
    BY <1>2, <1>18 DEF Ages, Hub, sched, cred
  <2> QED BY <1>1, <2>1 DEF Ended
<1>7. CASE Round
  <2>1. retries = 2 => checked_in /\ hub.snapshot = "new"
    BY <1>1, <1>7 DEF Round
  <2>2. retries = 1 => checked_in
    BY <1>1, <1>7 DEF Round
  <2> QED BY <1>1, <1>7, <2>1, <2>2 DEF Round
<1>8. CASE Renew
  <2>1. pc = "renew" /\ UNCHANGED <<conflict, hub, retries, checked_in>>
    BY <1>8 DEF Renew, Renewed, sched
  <2>2. \/ pc' = "check_in" /\ held' # NoTokens
        \/ conflict /\ pc' = "exited"
        \/ ~conflict /\ pc' = "lease"
    BY <1>8 DEF Renew, Renewed
  <2> QED BY <1>1, <2>1, <2>2
<1>9. CASE CheckIn
  <2>1. /\ pc = "check_in" /\ checked_in' /\ UNCHANGED retries
        /\ hub'.reads = hub.reads /\ hub'.snapshot = IF held # NoTokens /\ hub.reads THEN "new" ELSE hub.snapshot
    BY <1>9, CheckedInIs DEF CheckIn
  <2> QED BY <1>1, <2>1
<1>10. CASE CheckInFails
  <2>1. /\ pc = "check_in" /\ UNCHANGED <<retries, checked_in>> /\ pc' = IF conflict THEN "idle" ELSE "lease"
        /\ hub'.reads = hub.reads /\ hub'.snapshot \in {hub.snapshot, "new"}
    BY <1>10, CheckedInIs DEF CheckInFails, sched
  <2> QED BY <1>1, <2>1
<1>11. CASE LeaseConflict \/ Review
  BY <1>1, <1>11 DEF LeaseConflict, Review, sched
<1>12. CASE Report
  <2>1. /\ pc = "report" /\ pc' = "top" /\ UNCHANGED <<retries, checked_in>>
        /\ hub'.reads = hub.reads /\ hub'.snapshot = hub.snapshot
    BY <1>2, <1>5, <1>12 DEF Report, sched, Hub
  <2> QED BY <1>1, <2>1
<1>13. CASE RoundFails \/ Unreachable
  <2>1. hub' \in HubAfter /\ pc' \in {"idle", "unreached"} /\ UNCHANGED retries
    BY <1>13 DEF RoundFails, Unreachable, HubAfter
  <2> QED BY <1>1, <2>1, HubAfterKeeps
<1>14. CASE Recover
  <2>1. pc = "recover" /\ conflict' /\ pc' = (IF checked_in THEN "renew" ELSE "check_in") /\ UNCHANGED <<hub, checked_in>>
    BY <1>14 DEF Recover, sched
  <2>2. retries # 2 /\ (retries = 1 => checked_in)
    BY <1>1, <1>4, <2>1
  <2>3. retries' = retries + 1
    BY <1>1, <1>14 DEF Recover
  <2>4. retries \in {0, 1}
    BY <1>1, <1>2, <2>2 DEF MaxRetries
  <2> QED BY <1>1, <2>1, <2>2, <2>3, <2>4 DEF MaxRetries
<1>15. CASE HubMoves
  <2>1. ~Goes("hub_cannot_read_github") /\ ~Goes("lease_lost") /\ ~Goes("check_out")
    BY NotSpared
  <2>2. UNCHANGED <<pc, conflict, checked_in, retries, held>>
    BY <1>15 DEF HubMoves, sched, cred
  <2>3. hub'.reads = hub.reads /\ (hub.snapshot = "new" => hub'.snapshot = "new")
    BY <1>2, <1>15, <2>1 DEF HubMoves, Hub
  <2> QED BY <1>1, <2>2, <2>3
<1>16. CASE AccessSpent \/ RefreshLapses
  <2>1. UNCHANGED <<pc, conflict, checked_in, retries, hub>>
    BY <1>16 DEF AccessSpent, RefreshLapses, sched
  <2>2. held # NoTokens => held' # NoTokens
    <3>1. CASE AccessSpent
      BY <1>2, <3>1 DEF AccessSpent, NoTokens, Tokens
    <3>2. CASE RefreshLapses
      BY <1>2, <3>2 DEF RefreshLapses, NoTokens, Tokens
    <3> QED BY <1>16, <3>1, <3>2
  <2> QED BY <1>1, <2>1, <2>2
<1>17. CASE HubReadsAgain \/ HalfTtl \/ Unauthorize \/ UNCHANGED vars
  <2>1. UNCHANGED <<pc, conflict, checked_in, retries, held, hub>>
    BY <1>1, <1>17 DEF HubReadsAgain, HalfTtl, Unauthorize, vars, cred, sched
  <2> QED BY <1>1, <2>1
<1> QED BY <1>6, <1>7, <1>8, <1>9, <1>10, <1>11, <1>12, <1>13, <1>14, <1>15, <1>16, <1>17, <1>18 DEF Next, LoopStep

\* A loop that has said LOGIN_AGAIN has nothing to renew with, and gets nothing.
LEMMA LoginAgainStep ==
    ASSUME TypeOK, LoginAgainMeansLogin, [Next]_vars
    PROVE  LoginAgainMeansLogin'
<1> SUFFICES ASSUME Spared({"github_unreachable"})', pc' = "exited"
             PROVE  ~Renewable'
  BY DEF LoginAgainMeansLogin, Spared
<1>1. pc = "exited" => ~Renewable
  BY SparedBefore DEF LoginAgainMeansLogin, Spared, Ended
<1>2. disk \in Tokens
  BY DEF TypeOK
<1>3. CASE Renew
  <2>1. ~Goes("github_unreachable")
    BY NotSpared
  <2>2. CASE disk.access # "spent" /\ Renewed(disk) /\ UNCHANGED disk
    BY <1>2, <2>2 DEF Renewed, Renewable, NoTokens, Ended
  <2>3. CASE disk.access = "spent" /\ (disk.refresh # "good" \/ ~github) /\ Renewed(NoTokens) /\ UNCHANGED disk
    BY <2>3 DEF Renewed, Renewable
  <2>4. CASE Renewed(Refreshed)
    BY <2>4 DEF Renewed, Refreshed, NoTokens
  <2> QED BY <1>3, <2>1, <2>2, <2>3, <2>4 DEF Renew
<1>4. CASE AccessSpent
  BY <1>1, <1>2, <1>4, Spent DEF AccessSpent, Renewable
<1>5. CASE RefreshLapses
  BY <1>1, <1>2, <1>5, Lapsed DEF RefreshLapses, Renewable
<1>6. CASE Unauthorize
  BY <1>6 DEF Unauthorize, Renewable
<1>7. CASE Ages \/ HalfTtl \/ HubMoves \/ HubReadsAgain \/ UNCHANGED vars
  <2>1. UNCHANGED <<pc, disk, github>>
    BY <1>7 DEF Ages, HalfTtl, HubMoves, HubReadsAgain, vars, cred
  <2> QED BY <1>1, <2>1 DEF Renewable
<1>8. ~(Round \/ CheckIn \/ CheckInFails \/ LeaseGranted \/ QueueDry \/ LeaseConflict \/ Review
        \/ Report \/ RoundFails \/ Unreachable \/ Recover \/ Sleep \/ Restart)
  BY DEF Round, CheckIn, CheckInFails, LeaseGranted, QueueDry, LeaseConflict, Review, Report,
         RoundFails, Unreachable, Recover, Sleep, Restart
<1> QED BY <1>3, <1>4, <1>5, <1>6, <1>7, <1>8 DEF Next, LoopStep

LEMMA WordInit == Init => WordInv
<1> SUFFICES ASSUME Init PROVE WordInv
  OBVIOUS
<1>1. TypeOK
  BY InitType
<1>2. /\ pc = "top" /\ checked_in = FALSE /\ retries = 0
      /\ hub.reads /\ hub.lease = "none"
  BY DEF Init
<1>3. Lasting(hub, checked_in) = {}
  BY <1>2, LastingIs
<1> QED BY <1>1, <1>2, <1>3 DEF WordInv, HubRemembers, RetriesLead, LoginAgainMeansLogin, MaxRetries

\* However often what goes wrong: unless a lease was lost or a check-out came in
\* the stretch since the loop last slept, was served or saw half a TTL pass, a
\* 409 after a check-in is an expired attestation; unless GitHub was out of reach
\* in it, LOGIN_AGAIN is said when nothing could renew; and unless a check-in in
\* it was let through or one of the first two came, 409s are not answered without
\* a pause.
THEOREM WordKept == Spec => []KeepsItsWord
<1>1. Init => WordInv
  BY WordInit
<1>2. WordInv /\ [Next]_vars => WordInv'
  BY NextType, HubRemembersStep, RetriesLeadStep, LoginAgainStep DEF WordInv
<1>3. WordInv => KeepsItsWord
  <2> SUFFICES ASSUME WordInv PROVE KeepsItsWord
    OBVIOUS
  <2>1. ConflictIsStale
    <3>1. Spared({"lease_lost", "check_out"}) =>
             hub.lease # "lost" /\ (checked_in => hub.status # "out")
      BY LastingIs DEF WordInv, HubRemembers, Spared
    <3> QED BY <3>1 DEF WordInv, HubRemembers, ConflictIsStale, Spared, Conflicts
  <2>2. BacksOff
    BY DEF WordInv, RetriesLead, BacksOff, Spared
  <2> QED BY <2>1, <2>2 DEF WordInv, KeepsItsWord
<1> QED BY <1>1, <1>2, <1>3, PTL DEF Spec

=============================================================================
