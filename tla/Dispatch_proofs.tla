-------------------------- MODULE Dispatch_proofs --------------------------
(***************************************************************************)
(* Proofs about the job table of Dispatch.tla, for every number of         *)
(* clients, jobs, heads and overlapping requests.                          *)
(***************************************************************************)
EXTENDS Dispatch, TLAPS

-----------------------------------------------------------------------------
(* What the statements do to a row *)

\* Every statement of services/job_service.py maps rows to rows.
LEMMA RowOps ==
    ASSUME NEW row \in Row, NEW mem \in Row, NEW c \in ClientOrNull
    PROVE  /\ Requeued(row) \in Row
           /\ Exhausted(row) \in Row
           /\ RequeueOrExhaust(row) \in Row
           /\ Reclaimed(row) \in Row
           /\ HandedOver(row, c) \in Row
           /\ HandedOverStale(row, mem, c) \in Row
           /\ Reported(row, c) \in Row
           /\ Unlinked(row, c) \in Row
  <1>1. Requeued(row) \in Row /\ Exhausted(row) \in Row
    BY DEF Row, Requeued, Exhausted, JobState, LeaseClock, ClientOrNull
  <1>2. RequeueOrExhaust(row) \in Row
    BY <1>1 DEF RequeueOrExhaust
  <1>3. Reclaimed(row) \in Row
    BY <1>2 DEF Reclaimed
  <1>4. HandedOver(row, c) \in Row
    <2>1. row.attempts + 1 \in Nat
      BY DEF Row
    <2> DEFINE n == row.attempts + 1
    <2>2. n \in Nat
      BY <2>1
    <2> HIDE DEF n
    <2>3. [row EXCEPT !.state = "leased", !.leased_by = c, !.lease = "running",
                      !.attempts = n] \in Row
      BY <2>2 DEF Row, JobState, LeaseClock
    <2> QED
      BY <2>3 DEF HandedOver, n
  <1>5. HandedOverStale(row, mem, c) \in Row
    <2> DEFINE n == mem.attempts + 1
               st == IF mem.state = "leased" THEN row.state ELSE "leased"
               by == IF mem.leased_by = c THEN row.leased_by ELSE c
    <2>1. n \in Nat /\ st \in JobState /\ by \in ClientOrNull
      BY DEF Row, JobState
    <2> HIDE DEF n, st, by
    <2>2. [row EXCEPT !.state = st, !.leased_by = by, !.lease = "running",
                      !.attempts = n] \in Row
      BY <2>1 DEF Row, LeaseClock
    <2> QED
      BY <2>2 DEF HandedOverStale, n, st, by
  <1>6. Reported(row, c) \in Row
    BY DEF Row, Reported, JobState, LeaseClock, ClientOrNull
  <1>7. Unlinked(row, c) \in Row
    BY DEF Row, Unlinked, ClientOrNull
  <1> QED
    BY <1>1, <1>2, <1>3, <1>4, <1>5, <1>6, <1>7

LEMMA AbsentIsRow == Absent \in Row
  BY DEF Absent, Row, JobState, LeaseClock, ClientOrNull

LEMMA IdleIsTask == Idle \in Task
  BY AbsentIsRow DEF Idle, Task, Op, Step, NoWrites, ClientOrNull

LEMMA ViewIsTable ==
    ASSUME TypeOK, NEW r \in Reqs
    PROVE  View(r) \in [Jobs -> Row]
  BY DEF TypeOK, Task, View

LEMMA ReclaimWritesTyped ==
    ASSUME TypeOK
    PROVE  ReclaimWrites \in [Jobs -> Row \cup {NoRow}]
  <1> SUFFICES ASSUME NEW j \in Jobs
               PROVE  Reclaimed(jobs[j]) \in Row
    BY DEF ReclaimWrites
  <1>1. jobs[j] \in Row /\ None \in ClientOrNull
    BY DEF TypeOK, ClientOrNull
  <1> QED
    BY <1>1, RowOps

-----------------------------------------------------------------------------
(* Type correctness *)

\* A task that reports knows its job and its client.
ReportShape ==
    \A r \in Reqs :
        \/ task[r].at \in {"update", "relay", "relayed", "failed"}
        \/ task[r].at = "touch" /\ task[r].op = "report"
        => task[r].job \in Jobs /\ task[r].client \in Clients

TypeInv == TypeOK /\ ReportShape

LEMMA TypeInvInit == Init => TypeInv
  <1> SUFFICES ASSUME Init PROVE TypeInv
    OBVIOUS
  <1>1. jobs \in [Jobs -> Row]
    BY AbsentIsRow DEF Init
  <1>2. status \in [Clients -> ClientStatus] /\ fresh \in [Clients -> BOOLEAN]
    BY DEF Init, ClientStatus
  <1>3. task \in [Reqs -> Task] /\ comments \in [Jobs -> Nat]
    BY IdleIsTask DEF Init
  <1>4. ReportShape
    BY DEF Init, ReportShape, Idle
  <1> QED
    BY <1>1, <1>2, <1>3, <1>4 DEF TypeInv, TypeOK

\* The actions that start a request, or end one without writing, change one
\* task and nothing else.
LEMMA OneTask ==
    ASSUME TypeInv, NEW r \in Reqs, NEW t \in Task,
           \/ t.at \in {"update", "relay", "relayed", "failed"}
           \/ t.at = "touch" /\ t.op = "report"
           => t.job \in Jobs /\ t.client \in Clients,
           task' = [task EXCEPT ![r] = t]
    PROVE  task' \in [Reqs -> Task] /\ ReportShape'
  BY DEF TypeInv, TypeOK, ReportShape

LEMMA ArriveTyped ==
    ASSUME TypeInv, NEW r \in Reqs, Arrive(r)
    PROVE  TypeInv'
  <1>1. ASSUME NEW c \in Clients, LeaseNextStart(r, c)
        PROVE  TypeInv'
    <2> DEFINE t == [Idle EXCEPT !.op = "lease_next", !.at = "touch", !.client = c]
    <2>1. t \in Task /\ t.at = "touch" /\ t.op = "lease_next"
      BY AbsentIsRow DEF Idle, Task, Op, Step, NoWrites, ClientOrNull
    <2> QED
      BY <1>1, <2>1, OneTask DEF LeaseNextStart, TypeInv, TypeOK
  <1>2. ASSUME NEW c \in Clients, RevokeStart(r, c)
        PROVE  TypeInv'
    <2> DEFINE t == [Idle EXCEPT !.op = "revoke", !.at = "release", !.client = c]
    <2>1. t \in Task /\ t.at = "release"
      BY AbsentIsRow DEF Idle, Task, Op, Step, NoWrites, ClientOrNull
    <2> QED
      BY <1>2, <2>1, OneTask DEF RevokeStart, TypeInv, TypeOK
  <1>3. ASSUME NEW c \in Clients, NEW j \in Jobs, LeaseOneStart(r, c, j)
        PROVE  TypeInv'
    <2> DEFINE t == [Idle EXCEPT !.op = "lease_one", !.at = "touch", !.client = c,
                                 !.job = j, !.seen = jobs[j]]
    <2>1. jobs[j] \in Row
      BY DEF TypeInv, TypeOK
    <2>2. t \in Task /\ t.at = "touch" /\ t.op = "lease_one"
      BY <2>1 DEF Idle, Task, Op, Step, NoWrites, ClientOrNull
    <2> QED
      BY <1>3, <2>2, OneTask DEF LeaseOneStart, TypeInv, TypeOK
  <1>4. ASSUME NEW c \in Clients, NEW j \in Jobs, ReportStart(r, c, j)
        PROVE  TypeInv'
    <2> DEFINE t == [Idle EXCEPT !.op = "report", !.at = "touch", !.client = c, !.job = j]
    <2>1. t \in Task /\ t.job \in Jobs /\ t.client \in Clients
      BY AbsentIsRow DEF Idle, Task, Op, Step, NoWrites, ClientOrNull
    <2> QED
      BY <1>4, <2>1, OneTask DEF ReportStart, TypeInv, TypeOK
  <1>5. ASSUME NEW h \in Heads, EnqueueCheck(r, h)
        PROVE  TypeInv'
    <2> DEFINE t == [Idle EXCEPT !.op = "enqueue", !.at = "insert", !.head = h]
    <2>1. t \in Task /\ t.at = "insert"
      BY AbsentIsRow DEF Idle, Task, Op, Step, NoWrites, ClientOrNull
    <2> QED
      BY <1>5, <2>1, OneTask DEF EnqueueCheck, TypeInv, TypeOK
  <1> QED
    BY <1>1, <1>2, <1>3, <1>4, <1>5 DEF Arrive

\* A request that ends leaves its task idle.
LEMMA FinishTyped ==
    ASSUME TypeInv, NEW r \in Reqs, Finish(r)
    PROVE  task' \in [Reqs -> Task] /\ ReportShape'
  <1>1. Idle.at = "idle"
    BY DEF Idle
  <1> QED
    BY <1>1, IdleIsTask, OneTask DEF Finish

\* A statement moves its task on and may write rows.
LEMMA MoveTyped ==
    ASSUME TypeInv, NEW r \in Reqs, NEW at \in Step,
           NEW pend \in [Jobs -> Row \cup {NoRow}],
           at \in {"update", "relay", "relayed", "failed"}
           => task[r].job \in Jobs /\ task[r].client \in Clients,
           at # "touch",
           task' = [task EXCEPT ![r].at = at, ![r].pend = pend]
    PROVE  task' \in [Reqs -> Task] /\ ReportShape'
  <1> DEFINE t == [task[r] EXCEPT !.at = at, !.pend = pend]
  <1>1. task[r] \in Task
    BY DEF TypeInv, TypeOK
  <1>2. t \in Task
    BY <1>1 DEF Task
  <1>3. t.at = at /\ t.job = task[r].job /\ t.client = task[r].client
    BY <1>1 DEF Task
  <1>4. task' = [task EXCEPT ![r] = t]
    BY DEF TypeInv, TypeOK
  <1> HIDE DEF t
  <1> QED
    BY <1>2, <1>3, <1>4, OneTask

LEMMA MoveOnlyTyped ==
    ASSUME TypeInv, NEW r \in Reqs, NEW at \in Step,
           at \in {"update", "relay", "relayed", "failed"}
           => task[r].job \in Jobs /\ task[r].client \in Clients,
           at # "touch",
           task' = [task EXCEPT ![r].at = at]
    PROVE  task' \in [Reqs -> Task] /\ ReportShape'
  <1>1. task[r] \in Task /\ task[r].pend \in [Jobs -> Row \cup {NoRow}]
    BY DEF TypeInv, TypeOK, Task
  <1>2. [task[r] EXCEPT !.at = at] = [task[r] EXCEPT !.at = at, !.pend = task[r].pend]
    BY <1>1 DEF Task
  <1>3. task' = [task EXCEPT ![r].at = at, ![r].pend = task[r].pend]
    BY <1>1, <1>2 DEF TypeInv, TypeOK
  <1> QED
    BY <1>1, <1>3, MoveTyped

LEMMA LeaseTyped ==
    ASSUME TypeInv, NEW r \in Reqs, LeaseStep(r)
    PROVE  TypeInv'
  <1> DEFINE c == task[r].client
  <1>0. TypeOK /\ task[r] \in Task /\ c \in ClientOrNull
    BY DEF TypeInv, TypeOK, Task
  <1>1. CASE Touch(r)
    <2> DEFINE at == IF task[r].op = "report" THEN "update" ELSE "select"
    <2>1. at \in Step /\ at # "touch"
      BY DEF Step
    <2>2. at \in {"update", "relay", "relayed", "failed"}
          => task[r].job \in Jobs /\ task[r].client \in Clients
      BY <1>1 DEF Touch, TypeInv, ReportShape
    <2>3. task' = [task EXCEPT ![r].at = at]
      BY <1>1 DEF Touch
    <2> HIDE DEF at
    <2>4. task' \in [Reqs -> Task] /\ ReportShape'
      BY <2>1, <2>2, <2>3, MoveOnlyTyped
    <2> QED
      BY <1>1, <2>4 DEF Touch, TypeInv, TypeOK
  <1>2. CASE TouchGone(r) \/ LeaseRefusedStale(r)
    BY <1>2, FinishTyped DEF TouchGone, LeaseRefusedStale, TypeInv, TypeOK
  <1>3. CASE LeaseNextSelect(r)
    <2>1. PICK j \in Jobs : task' = [task EXCEPT
             ![r].at = "commit",
             ![r].pend = [ReclaimWrites EXCEPT ![j] = HandedOver(Reclaimed(jobs[j]), c)]]
      BY <1>3 DEF LeaseNextSelect, Available
    <2> DEFINE pend == [ReclaimWrites EXCEPT ![j] = HandedOver(Reclaimed(jobs[j]), c)]
    <2>2. Reclaimed(jobs[j]) \in Row
      BY <1>0, RowOps DEF TypeOK
    <2>3. HandedOver(Reclaimed(jobs[j]), c) \in Row
      BY <1>0, <2>2, RowOps
    <2>4. pend \in [Jobs -> Row \cup {NoRow}]
      BY <1>0, <2>3, ReclaimWritesTyped
    <2>5. "commit" \in Step
      BY DEF Step
    <2> HIDE DEF pend
    <2>6. task' = [task EXCEPT ![r].at = "commit", ![r].pend = pend]
      BY <2>1 DEF pend
    <2>7. task' \in [Reqs -> Task] /\ ReportShape'
      BY <2>4, <2>5, <2>6, MoveTyped
    <2> QED
      BY <1>3, <2>7 DEF LeaseNextSelect, TypeInv, TypeOK
  <1>4. CASE LeaseOneSelect(r)
    <2> DEFINE j == task[r].job
               mem == Reclaimed(task[r].seen)
               pend == [ReclaimWrites EXCEPT
                          ![j] = HandedOverStale(Reclaimed(jobs[j]), mem, c)]
    <2>1. j \in Jobs
      BY <1>4 DEF LeaseOneSelect, Available
    <2>2. Reclaimed(jobs[j]) \in Row /\ mem \in Row
      BY <1>0, <2>1, RowOps DEF TypeOK, Task
    <2>3. HandedOverStale(Reclaimed(jobs[j]), mem, c) \in Row
      BY <1>0, <2>2, RowOps
    <2>4. pend \in [Jobs -> Row \cup {NoRow}]
      BY <1>0, <2>3, ReclaimWritesTyped
    <2>5. "commit" \in Step
      BY DEF Step
    <2>6. task' = [task EXCEPT ![r].at = "commit", ![r].pend = pend]
      BY <1>4 DEF LeaseOneSelect
    <2> HIDE DEF pend
    <2>7. task' \in [Reqs -> Task] /\ ReportShape'
      BY <2>4, <2>5, <2>6, MoveTyped
    <2> QED
      BY <1>4, <2>7 DEF LeaseOneSelect, TypeInv, TypeOK
  <1>5. CASE LeaseNothing(r)
    <2>1. "commit" \in Step
      BY DEF Step
    <2>2. task' = [task EXCEPT ![r].at = "commit", ![r].pend = ReclaimWrites]
      BY <1>5 DEF LeaseNothing
    <2>3. task' \in [Reqs -> Task] /\ ReportShape'
      BY <1>0, <2>1, <2>2, ReclaimWritesTyped, MoveTyped
    <2> QED
      BY <1>5, <2>3 DEF LeaseNothing, TypeInv, TypeOK
  <1>6. CASE LeaseCommit(r)
    BY <1>0, <1>6, ViewIsTable, FinishTyped DEF LeaseCommit, TypeInv, TypeOK
  <1> QED
    BY <1>1, <1>2, <1>3, <1>4, <1>5, <1>6 DEF LeaseStep

LEMMA ReportTyped ==
    ASSUME TypeInv, NEW r \in Reqs, ReportStep(r)
    PROVE  TypeInv'
  <1> DEFINE j == task[r].job
             c == task[r].client
  <1>0. TypeOK /\ task[r] \in Task /\ j \in Jobs /\ c \in Clients
    BY DEF TypeInv, TypeOK, ReportShape, ReportStep, ReportUpdate, Relay,
           RelaySucceeded, RelayFailed
  <1>1. jobs[j] \in Row /\ c \in ClientOrNull
    BY <1>0 DEF TypeOK, ClientOrNull
  <1>2. CASE ReportUpdate(r)
    <2>1. Reported(jobs[j], c) \in Row
      BY <1>1, RowOps
    <2>2. jobs' = [jobs EXCEPT ![j] = Reported(jobs[j], c)]
      BY <1>2 DEF ReportUpdate
    <2>3. jobs' \in [Jobs -> Row] /\ jobs'[j] \in Row
      BY <1>0, <2>1, <2>2 DEF TypeOK
    <2> DEFINE t == [task[r] EXCEPT !.at = "relay", !.seen = jobs'[j]]
    <2>4. t \in Task /\ t.job \in Jobs /\ t.client \in Clients
      BY <1>0, <2>3 DEF Task, Step
    <2>5. task' = [task EXCEPT ![r] = t]
      BY <1>0, <1>2 DEF ReportUpdate, TypeOK
    <2> HIDE DEF t
    <2>6. task' \in [Reqs -> Task] /\ ReportShape'
      BY <2>4, <2>5, OneTask
    <2> QED
      BY <1>2, <2>3, <2>6 DEF ReportUpdate, TypeInv, TypeOK
  <1>3. CASE Relay(r)
    <2>1. PICK posted \in BOOLEAN, answered \in BOOLEAN :
            /\ comments' = [comments EXCEPT ![j] = IF posted THEN @ + 1 ELSE @]
            /\ task' = [task EXCEPT ![r].at = IF answered THEN "relayed" ELSE "failed"]
      BY <1>3 DEF Relay
    <2> DEFINE at == IF answered THEN "relayed" ELSE "failed"
    <2>2. at \in Step /\ at # "touch"
      BY DEF Step
    <2>3. task' = [task EXCEPT ![r].at = at]
      BY <2>1
    <2> HIDE DEF at
    <2>4. task' \in [Reqs -> Task] /\ ReportShape'
      BY <1>0, <2>2, <2>3, MoveOnlyTyped
    <2>5. comments[j] \in Nat
      BY <1>0 DEF TypeOK
    <2>6. comments[j] + 1 \in Nat
      BY <2>5
    <2>7. comments' \in [Jobs -> Nat]
      BY <1>0, <2>1, <2>5, <2>6 DEF TypeOK
    <2> QED
      BY <1>0, <1>3, <2>4, <2>7 DEF Relay, TypeInv, TypeOK
  <1>4. CASE RelaySucceeded(r)
    <2>1. jobs' \in [Jobs -> Row]
      BY <1>0, <1>1, <1>4 DEF RelaySucceeded, TypeOK, Row, JobState
    <2> QED
      BY <1>4, <2>1, FinishTyped DEF RelaySucceeded, TypeInv, TypeOK
  <1>5. CASE RelayFailed(r)
    <2>1. jobs' \in [Jobs -> Row]
      BY <1>0, <1>1, <1>5 DEF RelayFailed, TypeOK, Row
    <2> QED
      BY <1>5, <2>1, FinishTyped DEF RelayFailed, TypeInv, TypeOK
  <1> QED
    BY <1>2, <1>3, <1>4, <1>5 DEF ReportStep

LEMMA RevokeTyped ==
    ASSUME TypeInv, NEW r \in Reqs, RevokeStep(r)
    PROVE  TypeInv'
  <1> DEFINE c == task[r].client
  <1>0. TypeOK /\ task[r] \in Task /\ c \in ClientOrNull
    BY DEF TypeInv, TypeOK, Task
  <1>1. CASE RevokeRequeue(r)
    <2> DEFINE pend == [j \in Jobs |-> IF j \in Wanted(r) THEN Requeued(jobs[j]) ELSE NoRow]
    <2>1. \A j \in Jobs : Requeued(jobs[j]) \in Row
      BY <1>0, RowOps DEF TypeOK
    <2>2. pend \in [Jobs -> Row \cup {NoRow}] /\ "exhaust" \in Step
      BY <2>1 DEF Step
    <2>3. task' = [task EXCEPT ![r].at = "exhaust", ![r].pend = pend]
      BY <1>1 DEF RevokeRequeue
    <2> HIDE DEF pend
    <2>4. task' \in [Reqs -> Task] /\ ReportShape'
      BY <2>2, <2>3, MoveTyped
    <2> QED
      BY <1>1, <2>4 DEF RevokeRequeue, TypeInv, TypeOK
  <1>2. CASE RevokeExhaust(r)
    <2> DEFINE pend == [j \in Jobs |-> IF j \in Wanted(r) THEN Exhausted(jobs[j])
                                                        ELSE task[r].pend[j]]
    <2>1. \A j \in Jobs : Exhausted(jobs[j]) \in Row
      BY <1>0, RowOps DEF TypeOK
    <2>2. pend \in [Jobs -> Row \cup {NoRow}] /\ "delete" \in Step
      BY <1>0, <2>1 DEF Step, Task
    <2>3. task' = [task EXCEPT ![r].at = "delete", ![r].pend = pend]
      BY <1>2 DEF RevokeExhaust
    <2> HIDE DEF pend
    <2>4. task' \in [Reqs -> Task] /\ ReportShape'
      BY <2>2, <2>3, MoveTyped
    <2> QED
      BY <1>2, <2>4 DEF RevokeExhaust, TypeInv, TypeOK
  <1>3. CASE RevokeDelete(r)
    <2>1. \A j \in Jobs : Unlinked(View(r)[j], c) \in Row
      BY <1>0, ViewIsTable, RowOps
    <2>2. jobs' \in [Jobs -> Row]
      BY <1>3, <2>1 DEF RevokeDelete
    <2>3. status' \in [Clients -> ClientStatus]
      BY <1>0, <1>3 DEF RevokeDelete, TypeOK, ClientStatus
    <2> QED
      BY <1>0, <1>3, <2>2, <2>3, FinishTyped DEF RevokeDelete, TypeInv, TypeOK
  <1> QED
    BY <1>1, <1>2, <1>3 DEF RevokeStep

LEMMA InsertTyped ==
    ASSUME TypeInv, NEW r \in Reqs, EnqueueInsert(r)
    PROVE  TypeInv'
  <1>0. TypeOK /\ task[r] \in Task
    BY DEF TypeInv, TypeOK
  <1> DEFINE row == [Absent EXCEPT !.state = "queued", !.head = task[r].head]
  <1>1. row \in Row
    BY <1>0, AbsentIsRow DEF Row, Task, JobState
  <1>2. PICK j \in Jobs : jobs' = [jobs EXCEPT ![j] = row]
    BY DEF EnqueueInsert
  <1>3. jobs' \in [Jobs -> Row]
    BY <1>0, <1>1, <1>2 DEF TypeOK
  <1> QED
    BY <1>3, FinishTyped DEF EnqueueInsert, TypeInv, TypeOK

LEMMA EnvironmentTyped ==
    ASSUME TypeInv, Environment
    PROVE  TypeInv'
  <1>0. TypeOK
    BY DEF TypeInv
  <1>1. ASSUME NEW c \in Clients, CheckIn(c) \/ CheckOut(c) \/ AccessExpires(c)
        PROVE  TypeInv'
    <2>1. status' \in [Clients -> ClientStatus] /\ fresh' \in [Clients -> BOOLEAN]
      BY <1>0, <1>1 DEF CheckIn, CheckOut, AccessExpires, TypeOK, ClientStatus
    <2> QED
      BY <1>1, <2>1 DEF CheckIn, CheckOut, AccessExpires, TypeInv, TypeOK, ReportShape
  <1>2. ASSUME NEW j \in Jobs, LeaseExpires(j)
        PROVE  TypeInv'
    <2>1. jobs' \in [Jobs -> Row]
      BY <1>0, <1>2 DEF LeaseExpires, TypeOK, Row, LeaseClock
    <2>2. ASSUME NEW r \in Reqs
          PROVE  /\ task'[r] \in Task /\ task'[r].at = task[r].at
                 /\ task'[r].op = task[r].op /\ task'[r].job = task[r].job
                 /\ task'[r].client = task[r].client
      <3>1. task[r] \in Task
        BY <1>0 DEF TypeOK
      <3>2. [task[r].seen EXCEPT !.lease = "lapsed"] \in Row
        BY <3>1 DEF Task, Row, LeaseClock
      <3>3. [task[r] EXCEPT !.seen.lease = "lapsed"]
              = [task[r] EXCEPT !.seen = [task[r].seen EXCEPT !.lease = "lapsed"]]
        BY <3>1
      <3>4. task'[r] = task[r] \/ task'[r] = [task[r] EXCEPT !.seen.lease = "lapsed"]
        BY <1>2 DEF LeaseExpires
      <3> DEFINE s == [task[r].seen EXCEPT !.lease = "lapsed"]
      <3> HIDE DEF s
      <3>5. task'[r] = task[r] \/ task'[r] = [task[r] EXCEPT !.seen = s]
        BY <3>3, <3>4 DEF s
      <3>6. s \in Row
        BY <3>2 DEF s
      <3> QED
        BY <3>1, <3>5, <3>6 DEF Task
    <2>3. task' \in [Reqs -> Task]
      BY <1>2, <2>2 DEF LeaseExpires
    <2>4. ReportShape'
      BY <2>2 DEF TypeInv, ReportShape
    <2> QED
      BY <1>2, <2>1, <2>3, <2>4 DEF LeaseExpires, TypeInv, TypeOK
  <1>3. ASSUME NEW p \in Pulls, CancelQueued(p)
        PROVE  TypeInv'
    <2>1. \A j \in Jobs : /\ jobs[j] \in Row
                          /\ [jobs[j] EXCEPT !.state = "cancelled"] \in Row
      BY <1>0 DEF TypeOK, Row, JobState
    <2>2. jobs' \in [Jobs -> Row]
      BY <1>3, <2>1 DEF CancelQueued
    <2> QED
      BY <1>3, <2>2 DEF CancelQueued, TypeInv, TypeOK, ReportShape
  <1> QED
    BY <1>1, <1>2, <1>3 DEF Environment

LEMMA TypeInvStep == TypeInv /\ [Next]_vars => TypeInv'
  <1> SUFFICES ASSUME TypeInv, [Next]_vars PROVE TypeInv'
    OBVIOUS
  <1>1. ASSUME NEW r \in Reqs, Abort(r) \/ BreakDeadlock(r)
        PROVE  TypeInv'
    BY <1>1, FinishTyped DEF Abort, BreakDeadlock, TypeInv, TypeOK
  <1>2. ASSUME NEW r \in Reqs, TaskStep(r)
        PROVE  TypeInv'
    BY <1>2, LeaseTyped, ReportTyped, RevokeTyped, InsertTyped DEF TaskStep
  <1>3. CASE UNCHANGED vars
    BY <1>3 DEF vars, TypeInv, TypeOK, ReportShape
  <1> QED
    BY <1>1, <1>2, <1>3, ArriveTyped, EnvironmentTyped DEF Next

\* Type correctness: every row the handlers and the clock can leave in the
\* tables, and everything a request carries, is of its declared type.
THEOREM Typing == Spec => []TypeOK
  <1>1. Spec => []TypeInv
    BY TypeInvInit, TypeInvStep, PTL DEF Spec
  <1> QED
    BY <1>1, PTL DEF TypeInv

-----------------------------------------------------------------------------
(* Row locks: who may change which row *)

\* `new' is a write of `row' that may wait for its commit: it takes no result
\* away and no running lease from its holder.
Fit(row, new) ==
    /\ row.state \in {"queued", "leased"}
    /\ new.verdict = None
    /\ new.state = "leased" /\ row.state = "leased" => row.lease = "lapsed"

\* Only finished jobs have a result.
ResultsAreFinal ==
    \A j \in Jobs : jobs[j].verdict # None => jobs[j].state \in {"reported", "relayed"}

\* Rows are locked from the statement that writes them to the commit.
LocksHeld ==
    \A r \in Reqs, j \in Jobs :
        task[r].pend[j] # NoRow =>
            /\ task[r].at \in {"commit", "exhaust", "delete"}
            /\ Fit(jobs[j], task[r].pend[j])

LocksExclusive ==
    \A r, q \in Reqs, j \in Jobs :
        task[r].pend[j] # NoRow /\ task[q].pend[j] # NoRow => r = q

WorkInv == ResultsAreFinal /\ LocksHeld /\ LocksExclusive

LEMMA WorkInvInit == Init => WorkInv
  BY DEF Init, WorkInv, ResultsAreFinal, LocksHeld, LocksExclusive, Absent, Idle, NoWrites

\* What a lease request or a revoke may write, given that no other open
\* transaction holds the row.
LEMMA WritesAreFit ==
    ASSUME TypeInv, WorkInv, NEW j \in Jobs, NEW c \in ClientOrNull, NEW mem \in Row
    PROVE  /\ Due(jobs[j]) => Fit(jobs[j], Reclaimed(jobs[j]))
           /\ Reclaimed(jobs[j]).state = "queued" =>
                /\ Fit(jobs[j], HandedOver(Reclaimed(jobs[j]), c))
                /\ Fit(jobs[j], HandedOverStale(Reclaimed(jobs[j]), mem, c))
           /\ jobs[j].state = "leased" =>
                /\ Fit(jobs[j], Requeued(jobs[j]))
                /\ Fit(jobs[j], Exhausted(jobs[j]))
           /\ jobs[j].state = "queued" => Fit(jobs[j], Exhausted(jobs[j]))
  <1>1. /\ jobs[j] \in Row
        /\ jobs[j].state \in {"queued", "leased"} => jobs[j].verdict = None
    BY DEF TypeInv, TypeOK, WorkInv, ResultsAreFinal
  <1>2. /\ Requeued(jobs[j]).state = "queued"
        /\ Requeued(jobs[j]).verdict = jobs[j].verdict
        /\ Exhausted(jobs[j]).state = "exhausted"
        /\ Exhausted(jobs[j]).verdict = jobs[j].verdict
    BY <1>1 DEF Row, Requeued, Exhausted
  <1>3. /\ Due(jobs[j]) => /\ Reclaimed(jobs[j]).state \in {"queued", "exhausted"}
                           /\ jobs[j].state = "leased" /\ jobs[j].lease = "lapsed"
        /\ ~Due(jobs[j]) => Reclaimed(jobs[j]) = jobs[j]
        /\ Reclaimed(jobs[j]).verdict = jobs[j].verdict
    BY <1>2 DEF Reclaimed, RequeueOrExhaust, Due
  <1>4. Reclaimed(jobs[j]) \in Row
    BY <1>1, RowOps
  <1>5. /\ HandedOver(Reclaimed(jobs[j]), c).verdict = jobs[j].verdict
        /\ HandedOverStale(Reclaimed(jobs[j]), mem, c).verdict = jobs[j].verdict
    BY <1>3, <1>4 DEF Row, HandedOver, HandedOverStale
  <1> QED
    BY <1>1, <1>2, <1>3, <1>5 DEF Fit

\* A statement that writes fit rows which nobody else has locked.
LEMMA StatementKeepsWorkInv ==
    ASSUME TypeInv, WorkInv, NEW r \in Reqs,
           NEW at \in {"commit", "exhaust", "delete"},
           NEW pend \in [Jobs -> Row \cup {NoRow}],
           \A j \in Jobs : pend[j] # NoRow => ~Locked(r, j) /\ Fit(jobs[j], pend[j]),
           task' = [task EXCEPT ![r].at = at, ![r].pend = pend],
           UNCHANGED jobs
    PROVE  WorkInv'
  <1>1. /\ task'[r].at = at /\ task'[r].pend = pend
        /\ \A q \in Reqs \ {r} : task'[q] = task[q]
    BY DEF TypeInv, TypeOK, Task
  <1>2. ResultsAreFinal' /\ LocksHeld'
    <2>1. ResultsAreFinal'
      BY <1>1 DEF WorkInv, ResultsAreFinal
    <2>2. ASSUME NEW p \in Reqs, NEW j \in Jobs, task'[p].pend[j] # NoRow
          PROVE  /\ task'[p].at \in {"commit", "exhaust", "delete"}
                 /\ Fit(jobs[j], task'[p].pend[j])
      <3>1. CASE p = r
        BY <1>1, <2>2, <3>1
      <3>2. CASE p # r
        BY <1>1, <2>2, <3>2 DEF WorkInv, LocksHeld
      <3> QED
        BY <3>1, <3>2
    <2>3. LocksHeld'
      BY <2>2 DEF LocksHeld, Fit
    <2> QED
      BY <2>1, <2>3
  <1>3. LocksExclusive'
    <2> SUFFICES ASSUME NEW p \in Reqs, NEW q \in Reqs, NEW j \in Jobs,
                        task'[p].pend[j] # NoRow, task'[q].pend[j] # NoRow
                 PROVE  p = q
      BY DEF LocksExclusive
    <2>1. ASSUME NEW o \in Reqs, o # r, task'[o].pend[j] # NoRow
          PROVE  task[o].pend[j] # NoRow /\ pend[j] = NoRow
      <3>1. task'[o].pend[j] = task[o].pend[j]
        BY <1>1, <2>1
      <3> QED
        BY <2>1, <3>1 DEF Locked
    <2>2. task'[r].pend[j] = pend[j]
      BY <1>1
    <2> QED
      BY <2>1, <2>2 DEF WorkInv, LocksExclusive
  <1> QED
    BY <1>2, <1>3 DEF WorkInv

\* A step that leaves the rows alone, and leaves the moved task without writes.
LEMMA QuietKeepsWorkInv ==
    ASSUME WorkInv, UNCHANGED jobs,
           \A q \in Reqs, j \in Jobs :
               task'[q].pend[j] # NoRow =>
                   task'[q].pend[j] = task[q].pend[j] /\ task'[q].at = task[q].at
    PROVE  WorkInv'
  BY DEF WorkInv, ResultsAreFinal, LocksHeld, LocksExclusive

\* What any step may do to a committed row.
Harmless(row, new) ==
    \/ Fit(row, new)
    \/ /\ new.state \in {"reported", "relayed"}
       /\ row.verdict # None => new.verdict # None
    \/ /\ new.state = row.state /\ new.verdict = row.verdict
       /\ new.leased_by \in {row.leased_by, None}
       /\ new.lease \in {row.lease, "lapsed"}
    \/ row.state = "absent" /\ new.state = "queued" /\ new.verdict = None

HarmlessStep == \A j \in Jobs : Harmless(jobs[j], jobs'[j])

\* A commit: the rows it changes were locked by nobody else, and the task lets
\* go of its own.
LEMMA CommitKeepsWorkInv ==
    ASSUME WorkInv, HarmlessStep,
           \A q \in Reqs, j \in Jobs :
               task'[q].pend[j] # NoRow =>
                   /\ task'[q].pend[j] = task[q].pend[j] /\ task'[q].at = task[q].at
                   /\ jobs'[j].state = jobs[j].state
                   /\ jobs'[j].lease \in {jobs[j].lease, "lapsed"}
    PROVE  WorkInv'
  <1>1. ResultsAreFinal'
    BY DEF WorkInv, ResultsAreFinal, HarmlessStep, Harmless, Fit
  <1>2. LocksHeld'
    BY DEF WorkInv, LocksHeld, Fit
  <1>3. LocksExclusive'
    <2> SUFFICES ASSUME NEW p \in Reqs, NEW q \in Reqs, NEW j \in Jobs,
                        task'[p].pend[j] # NoRow, task'[q].pend[j] # NoRow
                 PROVE  p = q
      BY DEF LocksExclusive
    <2> QED
      BY DEF WorkInv, LocksExclusive
  <1> QED
    BY <1>1, <1>2, <1>3 DEF WorkInv

LEMMA QuietIsHarmless ==
    ASSUME UNCHANGED jobs
    PROVE  HarmlessStep
  BY DEF HarmlessStep, Harmless

LEMMA OwnWrites ==
    ASSUME TypeInv, WorkInv, NEW r \in Reqs, NEW j \in Jobs,
           task[r].at \notin {"commit", "exhaust", "delete"}
    PROVE  task[r].pend[j] = NoRow /\ View(r)[j] = jobs[j]
  BY DEF WorkInv, LocksHeld, View

\* A statement that does not wait has its rows to itself.
LEMMA NotWaiting ==
    ASSUME NEW r \in Reqs, ~Waiting(r), NEW j \in Wanted(r)
    PROVE  ~Locked(r, j)
  BY DEF Waiting, WaitsFor, Locked

LEMMA WantedRows ==
    ASSUME NEW r \in Reqs
    PROVE  /\ task[r].at = "select" => Wanted(r) = {j \in Jobs : Due(jobs[j])}
           /\ task[r].at \in {"update", "relayed", "failed"} => Wanted(r) = {task[r].job}
           /\ task[r].at = "release" =>
                Wanted(r) = {j \in Jobs : /\ LeasedTo(jobs[j], task[r].client)
                                          /\ jobs[j].attempts < MaxAttempts}
           /\ task[r].at = "exhaust" =>
                Wanted(r) = {j \in Jobs : LeasedTo(View(r)[j], task[r].client)}
           /\ task[r].at = "delete" =>
                Wanted(r) = {j \in Jobs : task[r].client \in
                                {View(r)[j].leased_by, View(r)[j].reported_by}}
  BY DEF Wanted

LEMMA FinishLetsGo ==
    ASSUME TypeInv, NEW r \in Reqs, Finish(r), NEW q \in Reqs, NEW j \in Jobs,
           task'[q].pend[j] # NoRow
    PROVE  q # r /\ task'[q] = task[q]
  BY DEF TypeInv, TypeOK, Finish, Idle, NoWrites

LEMMA FinishKeepsWork ==
    ASSUME TypeInv, WorkInv, NEW r \in Reqs, Finish(r), UNCHANGED jobs
    PROVE  WorkInv' /\ HarmlessStep
  <1>1. \A q \in Reqs, j \in Jobs : task'[q].pend[j] # NoRow =>
          task'[q].pend[j] = task[q].pend[j] /\ task'[q].at = task[q].at
    BY FinishLetsGo
  <1> QED
    BY <1>1, QuietKeepsWorkInv, QuietIsHarmless

LEMMA StartKeepsWork ==
    ASSUME TypeInv, WorkInv, NEW r \in Reqs, Arrive(r)
    PROVE  WorkInv' /\ HarmlessStep
  <1>1. UNCHANGED jobs /\ \A q \in Reqs :
          IF q = r THEN task'[q].pend = NoWrites ELSE task'[q] = task[q]
    <2>1. CASE \E c \in Clients : LeaseNextStart(r, c)
      BY <2>1 DEF LeaseNextStart, Idle, TypeInv, TypeOK
    <2>2. CASE \E c \in Clients : RevokeStart(r, c)
      BY <2>2 DEF RevokeStart, Idle, TypeInv, TypeOK
    <2>3. CASE \E c \in Clients, j \in Jobs : LeaseOneStart(r, c, j)
      BY <2>3 DEF LeaseOneStart, Idle, TypeInv, TypeOK
    <2>4. CASE \E c \in Clients, j \in Jobs : ReportStart(r, c, j)
      BY <2>4 DEF ReportStart, Idle, TypeInv, TypeOK
    <2>5. CASE \E h \in Heads : EnqueueCheck(r, h)
      BY <2>5 DEF EnqueueCheck, Idle, TypeInv, TypeOK
    <2> QED
      BY <2>1, <2>2, <2>3, <2>4, <2>5 DEF Arrive
  <1>2. \A q \in Reqs, j \in Jobs : task'[q].pend[j] # NoRow =>
          task'[q].pend[j] = task[q].pend[j] /\ task'[q].at = task[q].at
    BY <1>1 DEF NoWrites
  <1> QED
    BY <1>1, <1>2, QuietKeepsWorkInv, QuietIsHarmless

LEMMA LeaseKeepsWork ==
    ASSUME TypeInv, WorkInv, NEW r \in Reqs, LeaseStep(r)
    PROVE  WorkInv' /\ HarmlessStep
  <1> DEFINE c == task[r].client
  <1>0. TypeOK /\ task[r] \in Task /\ c \in ClientOrNull
    BY DEF TypeInv, TypeOK, Task
  <1>1. ASSUME task[r].at = "select", ~Waiting(r), NEW j \in Jobs, Due(jobs[j])
        PROVE  ~Locked(r, j) /\ Fit(jobs[j], Reclaimed(jobs[j]))
    <2>1. j \in Wanted(r)
      BY <1>1, WantedRows
    <2>2. Fit(jobs[j], Reclaimed(jobs[j]))
      BY <1>0, <1>1, WritesAreFit, AbsentIsRow
    <2> QED
      BY <1>1, <2>1, <2>2, NotWaiting
  <1>2. \A j \in Jobs : ReclaimWrites[j] # NoRow =>
            Due(jobs[j]) /\ ReclaimWrites[j] = Reclaimed(jobs[j])
    BY DEF ReclaimWrites
  <1>3. CASE Touch(r)
    <2>1. UNCHANGED jobs /\ \A q \in Reqs, j \in Jobs :
            task'[q].pend = task[q].pend /\ (q # r => task'[q].at = task[q].at)
      BY <1>0, <1>3 DEF Touch, TypeOK, Task
    <2>2. \A j \in Jobs : task[r].pend[j] = NoRow
      BY <1>3, OwnWrites DEF Touch
    <2> QED
      BY <2>1, <2>2, QuietKeepsWorkInv, QuietIsHarmless
  <1>4. CASE TouchGone(r) \/ LeaseRefusedStale(r)
    BY <1>4, FinishKeepsWork DEF TouchGone, LeaseRefusedStale
  <1>5. CASE LeaseNextSelect(r)
    <2>1. PICK j \in Available(r, c) : task' = [task EXCEPT
             ![r].at = "commit",
             ![r].pend = [ReclaimWrites EXCEPT ![j] = HandedOver(Reclaimed(jobs[j]), c)]]
      BY <1>5 DEF LeaseNextSelect
    <2> DEFINE new == HandedOver(Reclaimed(jobs[j]), c)
               pend == [ReclaimWrites EXCEPT ![j] = new]
    <2>2. j \in Jobs /\ ~Locked(r, j) /\ Reclaimed(jobs[j]).state = "queued"
      BY <2>1 DEF Available
    <2>3. Fit(jobs[j], new)
      BY <1>0, <2>2, WritesAreFit, AbsentIsRow
    <2>4. Reclaimed(jobs[j]) \in Row
      BY <1>0, <2>2, RowOps DEF TypeOK
    <2>5. new \in Row
      BY <1>0, <2>4, RowOps
    <2> HIDE DEF new
    <2>6. pend \in [Jobs -> Row \cup {NoRow}]
      BY <1>0, <2>5, ReclaimWritesTyped
    <2>7. \A k \in Jobs : pend[k] # NoRow => ~Locked(r, k) /\ Fit(jobs[k], pend[k])
      BY <1>0, <1>1, <1>2, <1>5, <2>2, <2>3, ReclaimWritesTyped DEF LeaseNextSelect
    <2>8. task' = [task EXCEPT ![r].at = "commit", ![r].pend = pend] /\ UNCHANGED jobs
      BY <1>5, <2>1 DEF LeaseNextSelect, new
    <2> HIDE DEF pend
    <2> QED
      BY <2>6, <2>7, <2>8, StatementKeepsWorkInv, QuietIsHarmless
  <1>6. CASE LeaseOneSelect(r)
    <2> DEFINE j == task[r].job
               mem == Reclaimed(task[r].seen)
               new == HandedOverStale(Reclaimed(jobs[j]), mem, c)
               pend == [ReclaimWrites EXCEPT ![j] = new]
    <2>1. j \in Jobs /\ ~Locked(r, j) /\ Reclaimed(jobs[j]).state = "queued"
      BY <1>6 DEF LeaseOneSelect, Available
    <2>2. Reclaimed(jobs[j]) \in Row /\ mem \in Row
      BY <1>0, <2>1, RowOps DEF TypeOK, Task
    <2>3. Fit(jobs[j], new)
      BY <1>0, <2>1, <2>2, WritesAreFit
    <2>4. new \in Row
      BY <1>0, <2>2, RowOps
    <2>5. task' = [task EXCEPT ![r].at = "commit", ![r].pend = pend] /\ UNCHANGED jobs
      BY <1>6 DEF LeaseOneSelect
    <2> HIDE DEF new
    <2>6. pend \in [Jobs -> Row \cup {NoRow}]
      BY <1>0, <2>4, ReclaimWritesTyped
    <2>7. \A k \in Jobs : pend[k] # NoRow => ~Locked(r, k) /\ Fit(jobs[k], pend[k])
      BY <1>0, <1>1, <1>2, <1>6, <2>1, <2>3, ReclaimWritesTyped DEF LeaseOneSelect
    <2> HIDE DEF pend
    <2> QED
      BY <2>5, <2>6, <2>7, StatementKeepsWorkInv, QuietIsHarmless
  <1>7. CASE LeaseNothing(r)
    <2>1. \A k \in Jobs : ReclaimWrites[k] # NoRow =>
            ~Locked(r, k) /\ Fit(jobs[k], ReclaimWrites[k])
      BY <1>1, <1>2, <1>7 DEF LeaseNothing
    <2>2. task' = [task EXCEPT ![r].at = "commit", ![r].pend = ReclaimWrites]
          /\ UNCHANGED jobs
      BY <1>7 DEF LeaseNothing
    <2> QED
      BY <1>0, <2>1, <2>2, ReclaimWritesTyped, StatementKeepsWorkInv, QuietIsHarmless
  <1>8. CASE LeaseCommit(r)
    <2>1. \A j \in Jobs : \/ task[r].pend[j] = NoRow /\ jobs'[j] = jobs[j]
                          \/ task[r].pend[j] # NoRow /\ Fit(jobs[j], jobs'[j])
      BY <1>8 DEF LeaseCommit, View, WorkInv, LocksHeld
    <2>2. HarmlessStep
      BY <2>1 DEF HarmlessStep, Harmless
    <2>3. ASSUME NEW q \in Reqs, NEW j \in Jobs, task'[q].pend[j] # NoRow
          PROVE  /\ task'[q].pend[j] = task[q].pend[j] /\ task'[q].at = task[q].at
                 /\ jobs'[j] = jobs[j]
      <3>1. q # r /\ task'[q] = task[q]
        BY <1>8, <2>3, FinishLetsGo DEF LeaseCommit
      <3>2. task[r].pend[j] = NoRow
        BY <2>3, <3>1 DEF WorkInv, LocksExclusive
      <3> QED
        BY <2>1, <3>1, <3>2
    <2> QED
      BY <2>2, <2>3, CommitKeepsWorkInv
  <1> QED
    BY <1>3, <1>4, <1>5, <1>6, <1>7, <1>8 DEF LeaseStep

LEMMA ReportKeepsWork ==
    ASSUME TypeInv, WorkInv, NEW r \in Reqs, ReportStep(r)
    PROVE  WorkInv' /\ HarmlessStep
  <1> DEFINE k == task[r].job
             c == task[r].client
  <1>0. /\ TypeOK /\ task[r] \in Task /\ k \in Jobs /\ c \in Clients
        /\ \A j \in Jobs : task[r].pend[j] = NoRow
    BY OwnWrites DEF TypeInv, TypeOK, ReportShape, ReportStep, ReportUpdate, Relay,
           RelaySucceeded, RelayFailed
  <1>1. jobs[k] \in Row /\ c # None
    BY <1>0, DispatchAssumption DEF TypeOK
  <1>2. CASE Relay(r)
    <2>1. UNCHANGED jobs /\ \A q \in Reqs :
            task'[q].pend = task[q].pend /\ (q # r => task'[q].at = task[q].at)
      BY <1>0, <1>2 DEF Relay, TypeOK, Task
    <2> QED
      BY <1>0, <2>1, QuietKeepsWorkInv, QuietIsHarmless
  <1>3. CASE ReportUpdate(r) \/ RelaySucceeded(r) \/ RelayFailed(r)
    <2>1. \A q \in Reqs : q # r => task[q].pend[k] = NoRow
      <3>1. k \in Wanted(r) /\ ~Waiting(r)
        BY <1>3, WantedRows DEF ReportUpdate, RelaySucceeded, RelayFailed
      <3> QED
        BY <3>1, NotWaiting DEF Locked
    <2>2. \A j \in Jobs : j # k => jobs'[j] = jobs[j]
      BY <1>0, <1>3 DEF ReportUpdate, RelaySucceeded, RelayFailed, TypeOK
    <2>3. Harmless(jobs[k], jobs'[k])
      <3>1. CASE ReportUpdate(r)
        <4>1. jobs'[k] = Reported(jobs[k], c)
          BY <1>0, <3>1 DEF ReportUpdate, TypeOK
        <4> QED
          BY <1>1, <4>1 DEF Harmless, Reported, Row
      <3>2. CASE RelaySucceeded(r)
        <4>1. jobs'[k].state = "relayed" /\ jobs'[k].verdict = jobs[k].verdict
          BY <1>0, <1>1, <3>2 DEF RelaySucceeded, TypeOK, Row
        <4> QED
          BY <4>1 DEF Harmless
      <3>3. CASE RelayFailed(r)
        <4>1. jobs'[k] = [jobs[k] EXCEPT !.relay_error = TRUE]
          BY <1>0, <3>3 DEF RelayFailed, TypeOK
        <4> QED
          BY <1>1, <4>1 DEF Harmless, Row
      <3> QED
        BY <1>3, <3>1, <3>2, <3>3
    <2>4. HarmlessStep
      BY <2>2, <2>3 DEF HarmlessStep, Harmless
    <2>5. \A q \in Reqs : q # r => task'[q] = task[q]
      BY <1>3 DEF ReportUpdate, RelaySucceeded, RelayFailed, Finish, TypeInv, TypeOK
    <2>6. \A j \in Jobs : task'[r].pend[j] = NoRow
      BY <1>0, <1>3 DEF ReportUpdate, RelaySucceeded, RelayFailed, Finish, Idle,
                        NoWrites, TypeOK, Task
    <2> QED
      BY <2>1, <2>2, <2>4, <2>5, <2>6, CommitKeepsWorkInv
  <1> QED
    BY <1>2, <1>3 DEF ReportStep

LEMMA RevokeKeepsWork ==
    ASSUME TypeInv, WorkInv, NEW r \in Reqs, RevokeStep(r)
    PROVE  WorkInv' /\ HarmlessStep
  <1> DEFINE c == task[r].client
  <1>0. TypeOK /\ task[r] \in Task /\ c \in ClientOrNull
    BY DEF TypeInv, TypeOK, Task
  <1>1. CASE RevokeRequeue(r)
    <2> DEFINE pend == [j \in Jobs |-> IF j \in Wanted(r) THEN Requeued(jobs[j]) ELSE NoRow]
    <2>1. ASSUME NEW j \in Jobs, j \in Wanted(r)
          PROVE  /\ ~Locked(r, j) /\ Requeued(jobs[j]) \in Row
                 /\ Fit(jobs[j], Requeued(jobs[j]))
      <3>1. jobs[j].state = "leased"
        BY <1>1, <2>1, WantedRows DEF RevokeRequeue, LeasedTo
      <3>2. Requeued(jobs[j]) \in Row
        BY <1>0, RowOps DEF TypeOK
      <3> QED
        BY <1>0, <1>1, <2>1, <3>1, <3>2, NotWaiting, WritesAreFit, AbsentIsRow
           DEF RevokeRequeue
    <2>2. pend \in [Jobs -> Row \cup {NoRow}]
      BY <2>1
    <2>3. \A j \in Jobs : pend[j] # NoRow => ~Locked(r, j) /\ Fit(jobs[j], pend[j])
      BY <2>1
    <2>4. task' = [task EXCEPT ![r].at = "exhaust", ![r].pend = pend] /\ UNCHANGED jobs
      BY <1>1 DEF RevokeRequeue
    <2> HIDE DEF pend
    <2> QED
      BY <2>2, <2>3, <2>4, StatementKeepsWorkInv, QuietIsHarmless
  <1>2. CASE RevokeExhaust(r)
    <2> DEFINE pend == [j \in Jobs |-> IF j \in Wanted(r) THEN Exhausted(jobs[j])
                                                        ELSE task[r].pend[j]]
    <2>1. ASSUME NEW j \in Jobs, j \in Wanted(r)
          PROVE  /\ ~Locked(r, j) /\ Exhausted(jobs[j]) \in Row
                 /\ Fit(jobs[j], Exhausted(jobs[j]))
      <3>1. jobs[j].state \in {"queued", "leased"}
        <4>1. View(r)[j].state = "leased"
          BY <1>2, <2>1, WantedRows DEF RevokeExhaust, LeasedTo
        <4> QED
          BY <4>1 DEF View, WorkInv, LocksHeld, Fit
      <3>2. Exhausted(jobs[j]) \in Row
        BY <1>0, RowOps DEF TypeOK
      <3> QED
        BY <1>0, <1>2, <2>1, <3>1, <3>2, NotWaiting, WritesAreFit, AbsentIsRow
           DEF RevokeExhaust
    <2>2. ASSUME NEW j \in Jobs, task[r].pend[j] # NoRow
          PROVE  ~Locked(r, j) /\ Fit(jobs[j], task[r].pend[j])
      BY <2>2 DEF Locked, WorkInv, LocksHeld, LocksExclusive
    <2>3. pend \in [Jobs -> Row \cup {NoRow}]
      BY <1>0, <2>1 DEF Task
    <2>4. \A j \in Jobs : pend[j] # NoRow => ~Locked(r, j) /\ Fit(jobs[j], pend[j])
      BY <2>1, <2>2
    <2>5. task' = [task EXCEPT ![r].at = "delete", ![r].pend = pend] /\ UNCHANGED jobs
      BY <1>2 DEF RevokeExhaust
    <2> HIDE DEF pend
    <2> QED
      BY <2>3, <2>4, <2>5, StatementKeepsWorkInv, QuietIsHarmless
  <1>3. CASE RevokeDelete(r)
    <2>1. ASSUME NEW j \in Jobs, NEW row \in Row
          PROVE  /\ Unlinked(row, c).state = row.state
                 /\ Unlinked(row, c).verdict = row.verdict
                 /\ Unlinked(row, c).lease = row.lease
                 /\ Unlinked(row, c).leased_by \in {row.leased_by, None}
      BY DEF Unlinked, Row
    <2>2. ASSUME NEW j \in Jobs
          PROVE  /\ jobs'[j] = Unlinked(View(r)[j], c) /\ View(r)[j] \in Row
                 /\ task[r].pend[j] = NoRow => View(r)[j] = jobs[j]
                 /\ task[r].pend[j] # NoRow => Fit(jobs[j], View(r)[j])
      BY <1>0, <1>3, ViewIsTable DEF RevokeDelete, View, WorkInv, LocksHeld
    <2>3. ASSUME NEW j \in Jobs
          PROVE  Harmless(jobs[j], jobs'[j])
      BY <2>1, <2>2 DEF Harmless, Fit
    <2>4. ASSUME NEW q \in Reqs, NEW j \in Jobs, task'[q].pend[j] # NoRow
          PROVE  /\ task'[q].pend[j] = task[q].pend[j] /\ task'[q].at = task[q].at
                 /\ jobs'[j].state = jobs[j].state /\ jobs'[j].lease = jobs[j].lease
      <3>1. q # r /\ task'[q] = task[q]
        BY <1>3, <2>4, FinishLetsGo DEF RevokeDelete
      <3>2. task[r].pend[j] = NoRow
        BY <2>4, <3>1 DEF WorkInv, LocksExclusive
      <3> QED
        BY <2>1, <2>2, <3>1, <3>2
    <2> QED
      BY <2>3, <2>4, CommitKeepsWorkInv DEF HarmlessStep
  <1> QED
    BY <1>1, <1>2, <1>3 DEF RevokeStep

LEMMA InsertKeepsWork ==
    ASSUME TypeInv, WorkInv, NEW r \in Reqs, EnqueueInsert(r)
    PROVE  WorkInv' /\ HarmlessStep
  <1> DEFINE row == [Absent EXCEPT !.state = "queued", !.head = task[r].head]
  <1>1. PICK k \in Jobs : jobs[k].state = "absent" /\ jobs' = [jobs EXCEPT ![k] = row]
    BY DEF EnqueueInsert
  <1>2. row.state = "queued" /\ row.verdict = None
    BY DEF Absent
  <1>3. jobs'[k] = row /\ \A j \in Jobs : j # k => jobs'[j] = jobs[j]
    BY <1>1 DEF TypeInv, TypeOK
  <1>4. HarmlessStep
    BY <1>1, <1>2, <1>3 DEF HarmlessStep, Harmless
  <1>5. ASSUME NEW q \in Reqs, NEW j \in Jobs, task'[q].pend[j] # NoRow
        PROVE  task'[q] = task[q] /\ jobs'[j] = jobs[j]
    <2>1. task'[q] = task[q]
      BY <1>5, FinishLetsGo DEF EnqueueInsert
    <2>2. j # k
      BY <1>1, <1>5, <2>1 DEF WorkInv, LocksHeld, Fit
    <2> QED
      BY <1>3, <2>1, <2>2
  <1> QED
    BY <1>4, <1>5, CommitKeepsWorkInv

LEMMA EnvironmentKeepsWork ==
    ASSUME TypeInv, WorkInv, Environment
    PROVE  WorkInv' /\ HarmlessStep
  <1>1. ASSUME NEW c \in Clients, CheckIn(c) \/ CheckOut(c) \/ AccessExpires(c)
        PROVE  WorkInv' /\ HarmlessStep
    <2>1. UNCHANGED <<jobs, task>>
      BY <1>1 DEF CheckIn, CheckOut, AccessExpires
    <2> QED
      BY <2>1, QuietKeepsWorkInv, QuietIsHarmless
  <1>2. ASSUME NEW k \in Jobs, LeaseExpires(k)
        PROVE  WorkInv' /\ HarmlessStep
    <2>1. \A j \in Jobs : jobs[j] \in Row
      BY DEF TypeInv, TypeOK
    <2>2. ASSUME NEW j \in Jobs
          PROVE  /\ jobs'[j].state = jobs[j].state /\ jobs'[j].verdict = jobs[j].verdict
                 /\ jobs'[j].leased_by = jobs[j].leased_by
                 /\ jobs'[j].lease \in {jobs[j].lease, "lapsed"}
      BY <1>2, <2>1 DEF LeaseExpires, Row, TypeInv, TypeOK
    <2>3. HarmlessStep
      BY <2>2 DEF HarmlessStep, Harmless
    <2>4. ASSUME NEW q \in Reqs
          PROVE  task'[q].pend = task[q].pend /\ task'[q].at = task[q].at
      <3>1. task[q] \in Task
        BY DEF TypeInv, TypeOK
      <3>2. task'[q] = task[q] \/ task'[q] = [task[q] EXCEPT !.seen.lease = "lapsed"]
        BY <1>2 DEF LeaseExpires
      <3> QED
        BY <3>1, <3>2 DEF Task
    <2> QED
      BY <2>2, <2>3, <2>4, CommitKeepsWorkInv
  <1>3. ASSUME NEW p \in Pulls, CancelQueued(p)
        PROVE  WorkInv' /\ HarmlessStep
    <2>1. ASSUME NEW j \in Jobs
          PROVE  \/ jobs'[j] = jobs[j]
                 \/ /\ \A q \in Reqs : task[q].pend[j] = NoRow
                    /\ jobs[j].state = "queued"
                    /\ jobs'[j] = [jobs[j] EXCEPT !.state = "cancelled"]
      BY <1>3 DEF CancelQueued
    <2>2. ASSUME NEW j \in Jobs
          PROVE  Harmless(jobs[j], jobs'[j])
      <3>1. jobs[j] \in Row
        BY DEF TypeInv, TypeOK
      <3>2. jobs[j].state = "queued" => jobs[j].verdict = None
        BY DEF WorkInv, ResultsAreFinal
      <3> QED
        BY <2>1, <3>1, <3>2 DEF Harmless, Fit, Row
    <2>3. UNCHANGED task
      BY <1>3 DEF CancelQueued
    <2> QED
      BY <2>1, <2>2, <2>3, CommitKeepsWorkInv DEF HarmlessStep
  <1> QED
    BY <1>1, <1>2, <1>3 DEF Environment

LEMMA WorkInvStep ==
    TypeInv /\ WorkInv /\ [Next]_vars => WorkInv' /\ HarmlessStep
  <1> SUFFICES ASSUME TypeInv, WorkInv, [Next]_vars PROVE WorkInv' /\ HarmlessStep
    OBVIOUS
  <1>1. ASSUME NEW r \in Reqs, Abort(r) \/ BreakDeadlock(r)
        PROVE  WorkInv' /\ HarmlessStep
    BY <1>1, FinishKeepsWork DEF Abort, BreakDeadlock
  <1>2. ASSUME NEW r \in Reqs, TaskStep(r)
        PROVE  WorkInv' /\ HarmlessStep
    BY <1>2, LeaseKeepsWork, ReportKeepsWork, RevokeKeepsWork, InsertKeepsWork DEF TaskStep
  <1>3. CASE UNCHANGED vars
    <2>1. UNCHANGED <<jobs, task>>
      BY <1>3 DEF vars
    <2> QED
      BY <2>1, QuietKeepsWorkInv, QuietIsHarmless
  <1> QED
    BY <1>1, <1>2, <1>3, StartKeepsWork, EnvironmentKeepsWork DEF Next

LEMMA Invariant == Spec => [](TypeInv /\ WorkInv)
  BY TypeInvInit, TypeInvStep, WorkInvInit, WorkInvStep, PTL DEF Spec

\* No reclaim, release, cancel or hand-over takes a result away or puts a
\* finished job back to work, however many requests overlap.
THEOREM ResultsStand == Spec => FinishedWorkStands
  <1>1. TypeInv /\ WorkInv /\ [Next]_vars =>
          \A j \in Jobs : jobs[j].verdict # None =>
              /\ jobs'[j].verdict # None
              /\ jobs'[j].state \in {"reported", "relayed"}
    BY WorkInvStep DEF WorkInv, ResultsAreFinal, HarmlessStep, Harmless, Fit
  <1> QED
    BY <1>1, Invariant, PTL DEF Spec, FinishedWorkStands

\* No job that was reported, given up or cancelled is ever queued or leased again,
\* whichever reclaim, release, hand-over or close overlaps with its end.
THEOREM JobsStayEnded == Spec => NothingReopens
  <1>1. TypeInv /\ WorkInv /\ [Next]_vars =>
          \A j \in Jobs : jobs[j].state # "absent" /\ ~Active(jobs[j]) => ~Active(jobs'[j])
    BY WorkInvStep DEF HarmlessStep, Harmless, Fit, Active
  <1> QED
    BY <1>1, Invariant, PTL DEF Spec, NothingReopens

\* A running lease never passes from one client to another: the SKIP LOCKED
\* select and the row locks are enough, even for the stale hand-over.
THEOREM LeasesAreSafe == Spec => LeaseNotStolen
  <1>1. TypeInv /\ WorkInv /\ [Next]_vars =>
          \A j \in Jobs, c, d \in Clients :
              LeasedTo(jobs[j], c) /\ LeasedTo(jobs'[j], d) /\ c # d
              => jobs[j].lease = "lapsed"
    <2> SUFFICES ASSUME TypeInv, WorkInv, [Next]_vars,
                        NEW j \in Jobs, NEW c \in Clients, NEW d \in Clients,
                        LeasedTo(jobs[j], c), LeasedTo(jobs'[j], d), c # d
                 PROVE  jobs[j].lease = "lapsed"
      OBVIOUS
    <2>1. Harmless(jobs[j], jobs'[j])
      BY WorkInvStep DEF HarmlessStep
    <2> QED
      BY <2>1, DispatchAssumption DEF Harmless, Fit, LeasedTo
  <1> QED
    BY <1>1, Invariant, PTL DEF Spec, LeaseNotStolen

-----------------------------------------------------------------------------
(* Rows, clients and comments agree *)

\* RowsCohere, of one job.
RowCoheres(j) ==
    /\ \A c \in {jobs[j].leased_by, jobs[j].reported_by} \ {None} : status[c] # "revoked"
    /\ jobs[j].verdict # None =>
          \/ jobs[j].reported_by = jobs[j].verdict
          \/ jobs[j].reported_by = None /\ status[jobs[j].verdict] = "revoked"
    /\ jobs[j].state = "leased" => jobs[j].lease # "null"
    /\ jobs[j].state = "relayed" => comments[j] > 0

\* An uncommitted row refers to nobody but whom the committed one refers to and,
\* if it hands the job over, the caller, whose row is locked.
WriteCoheres(row, new, t) ==
    /\ new.state \in {"queued", "leased", "exhausted"}
    /\ new.state = "leased" => new.lease = "running"
    /\ \/ new.leased_by \in {row.leased_by, None}
       \/ t.at = "commit" /\ new.leased_by = t.client
    /\ new.reported_by = row.reported_by

\* A request past touch_client has a caller who is not revoked, and one past a
\* relay that succeeded has posted its comment.
TaskCoheres(r) ==
    /\ \A j \in Jobs : task[r].pend[j] # NoRow => WriteCoheres(jobs[j], task[r].pend[j], task[r])
    /\ task[r].at \in {"touch", "select", "commit", "update", "release", "exhaust", "delete"}
       => task[r].client \in Clients
    /\ task[r].at \in {"select", "commit", "update"} => status[task[r].client] # "revoked"
    /\ task[r].at = "relayed" => comments[task[r].job] > 0

CohereInv == (\A j \in Jobs : RowCoheres(j)) /\ (\A r \in Reqs : TaskCoheres(r))

LEMMA CohereInit == Init => CohereInv
  <1> SUFFICES ASSUME Init PROVE CohereInv
    OBVIOUS
  <1>1. \A j \in Jobs : RowCoheres(j)
    BY DEF Init, RowCoheres, Absent
  <1>2. \A r \in Reqs : TaskCoheres(r)
    BY DEF Init, TaskCoheres, Idle, NoWrites
  <1> QED
    BY <1>1, <1>2 DEF CohereInv

LEMMA CohereGivesRows == CohereInv => RowsCohere
  BY DEF CohereInv, RowCoheres, RowsCohere, LinksResolve, Attribution, LeasedHasClock,
         RelayedMeansPosted

\* A task that a step leaves alone, with the rows it has written.
LEMMA TaskRests ==
    ASSUME NEW q \in Reqs, TaskCoheres(q),
           /\ task'[q].pend = task[q].pend /\ task'[q].at = task[q].at
           /\ task'[q].client = task[q].client /\ task'[q].job = task[q].job,
           \A j \in Jobs : task[q].pend[j] # NoRow =>
               /\ jobs'[j].leased_by = jobs[j].leased_by
               /\ jobs'[j].reported_by = jobs[j].reported_by,
           task[q].at \in {"select", "commit", "update"} /\ status[task[q].client] # "revoked"
               => status'[task[q].client] # "revoked",
           task[q].at = "relayed" /\ comments[task[q].job] > 0 => comments'[task[q].job] > 0
    PROVE  TaskCoheres(q)'
  <1>1. ASSUME NEW j \in Jobs, task'[q].pend[j] # NoRow
        PROVE  WriteCoheres(jobs'[j], task'[q].pend[j], task'[q])
    <2>1. WriteCoheres(jobs[j], task[q].pend[j], task[q])
      BY <1>1 DEF TaskCoheres
    <2> QED
      BY <1>1, <2>1 DEF WriteCoheres
  <1>2. /\ task'[q].at \in {"touch", "select", "commit", "update", "release", "exhaust", "delete"}
           => task'[q].client \in Clients
        /\ task'[q].at \in {"select", "commit", "update"} => status'[task'[q].client] # "revoked"
        /\ task'[q].at = "relayed" => comments'[task'[q].job] > 0
    BY DEF TaskCoheres
  <1> QED
    BY <1>1, <1>2 DEF TaskCoheres, WriteCoheres

\* A row of which a step changes no more than this still agrees with the rest.
LEMMA RowRests ==
    ASSUME NEW j \in Jobs, RowCoheres(j), jobs[j] \in Row,
           \A c \in Clients : status'[c] = "revoked" <=> status[c] = "revoked",
           comments[j] > 0 => comments'[j] > 0,
           /\ jobs'[j].leased_by \in {jobs[j].leased_by, None}
           /\ jobs'[j].reported_by = jobs[j].reported_by
           /\ jobs'[j].verdict = jobs[j].verdict
           /\ jobs'[j].lease \in {jobs[j].lease, "lapsed"}
           /\ jobs'[j].state \in {jobs[j].state, "queued", "exhausted", "cancelled"}
    PROVE  RowCoheres(j)'
  <1>1. /\ jobs[j].leased_by \in ClientOrNull /\ jobs[j].reported_by \in ClientOrNull
        /\ jobs[j].verdict \in ClientOrNull
    BY DEF Row
  <1> QED
    BY <1>1 DEF RowCoheres, ClientOrNull

\* RevokedIsOut, of one step.
RecordsTheLive ==
    \A j \in Jobs, c \in Clients :
        \/ jobs'[j].leased_by = c /\ jobs[j].leased_by # c
        \/ jobs'[j].verdict = c /\ jobs[j].verdict # c
        => status'[c] # "revoked"

\* A step of one request that commits nothing.
LEMMA QuietCoheres ==
    ASSUME TypeInv, CohereInv, NEW r \in Reqs, UNCHANGED <<jobs, status, comments>>,
           \A q \in Reqs \ {r} : task'[q] = task[q],
           TaskCoheres(r)'
    PROVE  CohereInv' /\ RecordsTheLive
  <1>1. ASSUME NEW j \in Jobs
        PROVE  RowCoheres(j)'
    BY DEF CohereInv, RowCoheres
  <1>2. ASSUME NEW q \in Reqs, q # r
        PROVE  TaskCoheres(q)'
    <2>1. TaskCoheres(q) /\ task'[q] = task[q]
      BY <1>2 DEF CohereInv
    <2> QED
      BY <2>1, TaskRests
  <1> QED
    BY <1>1, <1>2 DEF CohereInv, RecordsTheLive

LEMMA FinishCoheres ==
    ASSUME TypeInv, NEW r \in Reqs, Finish(r)
    PROVE  TaskCoheres(r)' /\ \A q \in Reqs \ {r} : task'[q] = task[q]
  <1>1. task'[r] = Idle /\ \A q \in Reqs \ {r} : task'[q] = task[q]
    BY DEF Finish, TypeInv, TypeOK
  <1>2. TaskCoheres(r)'
    BY <1>1 DEF TaskCoheres, Idle, NoWrites
  <1> QED
    BY <1>1, <1>2

LEMMA ArriveCoheres ==
    ASSUME TypeInv, CohereInv, NEW r \in Reqs, Arrive(r)
    PROVE  CohereInv' /\ RecordsTheLive
  <1>0. task \in [Reqs -> Task]
    BY DEF TypeInv, TypeOK
  <1>1. /\ UNCHANGED <<jobs, status, comments>> /\ \A q \in Reqs \ {r} : task'[q] = task[q]
        /\ task'[r].pend = NoWrites /\ task'[r].at \in {"touch", "release", "insert"}
        /\ task'[r].at # "insert" => task'[r].client \in Clients
    <2>1. CASE \E c \in Clients : LeaseNextStart(r, c)
      BY <1>0, <2>1 DEF LeaseNextStart, Idle
    <2>2. CASE \E c \in Clients : RevokeStart(r, c)
      BY <1>0, <2>2 DEF RevokeStart, Idle
    <2>3. CASE \E c \in Clients, j \in Jobs : LeaseOneStart(r, c, j)
      BY <1>0, <2>3 DEF LeaseOneStart, Idle
    <2>4. CASE \E c \in Clients, j \in Jobs : ReportStart(r, c, j)
      BY <1>0, <2>4 DEF ReportStart, Idle
    <2>5. CASE \E h \in Heads : EnqueueCheck(r, h)
      BY <1>0, <2>5 DEF EnqueueCheck, Idle
    <2> QED
      BY <2>1, <2>2, <2>3, <2>4, <2>5 DEF Arrive
  <1>2. TaskCoheres(r)'
    BY <1>1 DEF TaskCoheres, NoWrites
  <1> QED
    BY <1>1, <1>2, QuietCoheres

\* What a lease request writes refers to nobody but its caller.
LEMMA LeaseWritesCohere ==
    ASSUME NEW row \in Row, NEW mem \in Row, NEW t, t.client \in Clients, t.at = "commit"
    PROVE  /\ Due(row) => WriteCoheres(row, Reclaimed(row), t)
           /\ Reclaimed(row).state = "queued" =>
                /\ WriteCoheres(row, HandedOver(Reclaimed(row), t.client), t)
                /\ WriteCoheres(row, HandedOverStale(Reclaimed(row), mem, t.client), t)
  <1> DEFINE old == Reclaimed(row)
  <1>1. /\ old \in Row /\ old.leased_by \in {row.leased_by, None}
        /\ old.reported_by = row.reported_by
        /\ Due(row) => old.state \in {"queued", "exhausted"}
    <2>1. old \in Row
      BY RowOps DEF ClientOrNull
    <2> QED
      BY <2>1 DEF Reclaimed, RequeueOrExhaust, Requeued, Exhausted, Row
  <1>2. Due(row) => WriteCoheres(row, old, t)
    BY <1>1 DEF WriteCoheres
  <1> HIDE DEF old
  <1>3. WriteCoheres(row, HandedOver(old, t.client), t)
    BY <1>1 DEF WriteCoheres, HandedOver, Row
  <1>4. ASSUME old.state = "queued"
        PROVE  WriteCoheres(row, HandedOverStale(old, mem, t.client), t)
    <2> DEFINE new == HandedOverStale(old, mem, t.client)
    <2>1. /\ new.state \in {"queued", "leased"} /\ new.lease = "running"
          /\ new.leased_by \in {old.leased_by, t.client} /\ new.reported_by = old.reported_by
      BY <1>1, <1>4 DEF HandedOverStale, Row
    <2> HIDE DEF new
    <2>2. WriteCoheres(row, new, t)
      BY <1>1, <2>1 DEF WriteCoheres
    <2> QED
      BY <2>2 DEF new
  <1> QED
    BY <1>2, <1>3, <1>4 DEF old

\* The SELECT of a lease request, whatever rows it writes.
LEMMA SelectCoheres ==
    ASSUME TypeInv, CohereInv, NEW r \in Reqs, task[r].at = "select",
           NEW pend \in [Jobs -> Row \cup {NoRow}],
           \A j \in Jobs : pend[j] # NoRow =>
               \A t : t.client = task[r].client /\ t.at = "commit" => WriteCoheres(jobs[j], pend[j], t),
           task' = [task EXCEPT ![r].at = "commit", ![r].pend = pend],
           UNCHANGED <<jobs, status, comments>>
    PROVE  CohereInv' /\ RecordsTheLive
  <1>1. /\ task'[r].at = "commit" /\ task'[r].pend = pend /\ task'[r].client = task[r].client
        /\ \A q \in Reqs \ {r} : task'[q] = task[q]
    BY DEF TypeInv, TypeOK, Task
  <1>2. TaskCoheres(r)
    BY DEF CohereInv
  <1>3. \A j \in Jobs : task'[r].pend[j] # NoRow => WriteCoheres(jobs[j], task'[r].pend[j], task'[r])
    BY <1>1
  <1>4. TaskCoheres(r)'
    BY <1>1, <1>2, <1>3 DEF TaskCoheres, WriteCoheres
  <1> QED
    BY <1>1, <1>4, QuietCoheres

LEMMA LeaseCoheres ==
    ASSUME TypeInv, WorkInv, CohereInv, NEW r \in Reqs, LeaseStep(r)
    PROVE  CohereInv' /\ RecordsTheLive
  <1> DEFINE c == task[r].client
             mem == Reclaimed(task[r].seen)
  <1>0. /\ TypeOK /\ task[r] \in Task /\ TaskCoheres(r)
        /\ \A j \in Jobs : jobs[j] \in Row /\ RowCoheres(j)
    BY DEF TypeInv, TypeOK, CohereInv
  <1>1. mem \in Row
    BY <1>0, RowOps DEF Task, ClientOrNull
  <1> HIDE DEF mem
  <1>2. task[r].at = "select" => c \in Clients
    BY <1>0 DEF TaskCoheres
  <1>3. ASSUME task[r].at = "select", NEW j \in Jobs, NEW t, t.client = c, t.at = "commit"
        PROVE  /\ Due(jobs[j]) => WriteCoheres(jobs[j], Reclaimed(jobs[j]), t)
               /\ Reclaimed(jobs[j]).state = "queued" =>
                    /\ WriteCoheres(jobs[j], HandedOver(Reclaimed(jobs[j]), c), t)
                    /\ WriteCoheres(jobs[j], HandedOverStale(Reclaimed(jobs[j]), mem, c), t)
    BY <1>0, <1>1, <1>2, <1>3, LeaseWritesCohere
  <1>4. \A j \in Jobs : ReclaimWrites[j] # NoRow =>
            Due(jobs[j]) /\ ReclaimWrites[j] = Reclaimed(jobs[j])
    BY DEF ReclaimWrites
  <1>5. CASE Touch(r)
    <2>1. \A j \in Jobs : task[r].pend[j] = NoRow
      BY <1>5, OwnWrites DEF Touch
    <2>2. /\ UNCHANGED <<jobs, status, comments>> /\ \A q \in Reqs \ {r} : task'[q] = task[q]
          /\ task'[r].at \in {"update", "select"} /\ task'[r].client = c
          /\ task'[r].pend = task[r].pend
      BY <1>0, <1>5 DEF Touch, TypeOK, Task
    <2>3. c \in Clients /\ status[c] # "revoked"
      BY <1>0, <1>5 DEF Touch, TaskCoheres
    <2>4. TaskCoheres(r)'
      BY <2>1, <2>2, <2>3 DEF TaskCoheres
    <2> QED
      BY <2>2, <2>4, QuietCoheres
  <1>6. CASE TouchGone(r) \/ LeaseRefusedStale(r)
    <2>1. Finish(r) /\ UNCHANGED <<jobs, status, comments>>
      BY <1>6 DEF TouchGone, LeaseRefusedStale
    <2> QED
      BY <2>1, FinishCoheres, QuietCoheres
  <1>7. CASE LeaseNextSelect(r)
    <2>1. PICK j \in Available(r, c) : task' = [task EXCEPT
             ![r].at = "commit",
             ![r].pend = [ReclaimWrites EXCEPT ![j] = HandedOver(Reclaimed(jobs[j]), c)]]
      BY <1>7 DEF LeaseNextSelect
    <2> DEFINE new == HandedOver(Reclaimed(jobs[j]), c)
               pend == [ReclaimWrites EXCEPT ![j] = new]
    <2>2. j \in Jobs /\ Reclaimed(jobs[j]).state = "queued"
      BY <2>1 DEF Available
    <2>3. new \in Row
      BY <1>0, <2>2, RowOps DEF Task
    <2>4. \A t : t.client = c /\ t.at = "commit" => WriteCoheres(jobs[j], new, t)
      BY <1>3, <1>7, <2>2 DEF LeaseNextSelect
    <2> HIDE DEF new
    <2>5. pend \in [Jobs -> Row \cup {NoRow}]
      BY <1>0, <2>3, ReclaimWritesTyped
    <2>6. \A k \in Jobs : pend[k] # NoRow =>
            \A t : t.client = c /\ t.at = "commit" => WriteCoheres(jobs[k], pend[k], t)
      BY <1>0, <1>3, <1>4, <1>7, <2>2, <2>4, ReclaimWritesTyped DEF LeaseNextSelect
    <2>7. /\ task' = [task EXCEPT ![r].at = "commit", ![r].pend = pend]
          /\ task[r].at = "select" /\ UNCHANGED <<jobs, status, comments>>
      BY <1>7, <2>1 DEF LeaseNextSelect, new
    <2> HIDE DEF pend
    <2> QED
      BY <2>5, <2>6, <2>7, SelectCoheres
  <1>8. CASE LeaseOneSelect(r)
    <2> DEFINE j == task[r].job
               new == HandedOverStale(Reclaimed(jobs[j]), mem, c)
               pend == [ReclaimWrites EXCEPT ![j] = new]
    <2>1. j \in Jobs /\ Reclaimed(jobs[j]).state = "queued"
      BY <1>8 DEF LeaseOneSelect, Available
    <2>2. Reclaimed(jobs[j]) \in Row /\ c \in ClientOrNull
      BY <1>0, <2>1, RowOps DEF Task
    <2>3. new \in Row
      BY <1>1, <2>2, RowOps
    <2>4. \A t : t.client = c /\ t.at = "commit" => WriteCoheres(jobs[j], new, t)
      BY <1>3, <1>8, <2>1 DEF LeaseOneSelect
    <2>5. /\ task' = [task EXCEPT ![r].at = "commit", ![r].pend = pend]
          /\ task[r].at = "select" /\ UNCHANGED <<jobs, status, comments>>
      BY <1>8 DEF LeaseOneSelect, mem
    <2> HIDE DEF new
    <2>6. pend \in [Jobs -> Row \cup {NoRow}]
      BY <1>0, <2>3, ReclaimWritesTyped
    <2>7. \A k \in Jobs : pend[k] # NoRow =>
            \A t : t.client = c /\ t.at = "commit" => WriteCoheres(jobs[k], pend[k], t)
      BY <1>0, <1>3, <1>4, <1>8, <2>1, <2>4, ReclaimWritesTyped DEF LeaseOneSelect
    <2> HIDE DEF pend
    <2> QED
      BY <2>5, <2>6, <2>7, SelectCoheres
  <1>9. CASE LeaseNothing(r)
    <2>1. \A k \in Jobs : ReclaimWrites[k] # NoRow =>
            \A t : t.client = c /\ t.at = "commit" => WriteCoheres(jobs[k], ReclaimWrites[k], t)
      BY <1>3, <1>4, <1>9 DEF LeaseNothing
    <2>2. /\ task' = [task EXCEPT ![r].at = "commit", ![r].pend = ReclaimWrites]
          /\ task[r].at = "select" /\ UNCHANGED <<jobs, status, comments>>
      BY <1>9 DEF LeaseNothing
    <2> QED
      BY <1>0, <2>1, <2>2, ReclaimWritesTyped, SelectCoheres
  <1>10. CASE LeaseCommit(r)
    <2>1. /\ UNCHANGED <<status, comments>> /\ Finish(r) /\ task[r].at = "commit"
          /\ c \in Clients /\ status[c] # "revoked"
      BY <1>0, <1>10 DEF LeaseCommit, TaskCoheres
    <2>2. ASSUME NEW j \in Jobs
          PROVE  \/ task[r].pend[j] = NoRow /\ jobs'[j] = jobs[j]
                 \/ /\ task[r].pend[j] # NoRow /\ jobs'[j].verdict = None
                    /\ WriteCoheres(jobs[j], jobs'[j], task[r])
      BY <1>0, <1>10 DEF LeaseCommit, View, TaskCoheres, WorkInv, LocksHeld, Fit
    <2>3. ASSUME NEW j \in Jobs
          PROVE  RowCoheres(j)'
      BY <1>0, <2>1, <2>2 DEF RowCoheres, WriteCoheres
    <2>4. ASSUME NEW q \in Reqs, q # r
          PROVE  TaskCoheres(q)'
      <3>1. TaskCoheres(q) /\ task'[q] = task[q]
        BY <2>1, <2>4, FinishCoheres DEF CohereInv
      <3>2. \A j \in Jobs : task[q].pend[j] # NoRow => jobs'[j] = jobs[j]
        BY <2>2, <2>4 DEF WorkInv, LocksExclusive
      <3> QED
        BY <2>1, <3>1, <3>2, TaskRests
    <2>5. CohereInv'
      BY <2>1, <2>3, <2>4, FinishCoheres DEF CohereInv
    <2>6. RecordsTheLive
      BY <2>1, <2>2, DispatchAssumption DEF RecordsTheLive, WriteCoheres
    <2> QED
      BY <2>5, <2>6
  <1> QED
    BY <1>5, <1>6, <1>7, <1>8, <1>9, <1>10 DEF LeaseStep

LEMMA ReportCoheres ==
    ASSUME TypeInv, WorkInv, CohereInv, NEW r \in Reqs, ReportStep(r)
    PROVE  CohereInv' /\ RecordsTheLive
  <1> DEFINE c == task[r].client
  <1>0. /\ TypeOK /\ task[r] \in Task /\ task[r].job \in Jobs /\ c \in Clients
        /\ TaskCoheres(r) /\ \A j \in Jobs : task[r].pend[j] = NoRow
    BY OwnWrites DEF TypeInv, TypeOK, ReportShape, ReportStep, ReportUpdate, Relay,
           RelaySucceeded, RelayFailed, CohereInv
  <1>k. PICK k \in Jobs : k = task[r].job
    BY <1>0
  <1> USE <1>k
  <1>1. \A j \in Jobs : jobs[j] \in Row /\ RowCoheres(j) /\ comments[j] \in Nat
    BY <1>0 DEF CohereInv, TypeOK
  <1>2. CASE Relay(r)
    <2>1. /\ UNCHANGED <<jobs, status>> /\ \A q \in Reqs \ {r} : task'[q] = task[q]
          /\ task'[r].at \in {"relayed", "failed"} /\ task'[r].job = k
          /\ task'[r].pend = task[r].pend
      BY <1>0, <1>2 DEF Relay, TypeOK, Task
    <2>2. /\ \A j \in Jobs : comments[j] > 0 => comments'[j] > 0
          /\ task'[r].at = "relayed" => comments'[k] > 0
      <3>1. PICK posted \in BOOLEAN, answered \in BOOLEAN :
              /\ answered => posted
              /\ comments' = [comments EXCEPT ![k] = IF posted THEN @ + 1 ELSE @]
              /\ task' = [task EXCEPT ![r].at = IF answered THEN "relayed" ELSE "failed"]
        BY <1>2 DEF Relay
      <3>2. task'[r].at = "relayed" => posted
        BY <1>0, <3>1 DEF TypeOK, Task
      <3>3. \A j \in Jobs : comments'[j] = IF j = k /\ posted THEN comments[j] + 1 ELSE comments[j]
        BY <1>0, <3>1 DEF TypeOK
      <3> QED
        BY <1>0, <1>1, <3>2, <3>3
    <2>3. \A j \in Jobs : RowCoheres(j)'
      BY <1>1, <2>1, <2>2 DEF RowCoheres
    <2>4. TaskCoheres(r)'
      BY <1>0, <2>1, <2>2 DEF TaskCoheres
    <2>5. ASSUME NEW q \in Reqs, q # r
          PROVE  TaskCoheres(q)'
      <3>1. TaskCoheres(q) /\ task'[q] = task[q]
        BY <2>1, <2>5 DEF CohereInv
      <3>2. task[q].at = "relayed" => task[q].job \in Jobs
        BY DEF TypeInv, ReportShape
      <3> QED
        BY <2>1, <2>2, <3>1, <3>2, TaskRests
    <2> QED
      BY <2>1, <2>3, <2>4, <2>5 DEF CohereInv, RecordsTheLive
  <1>3. CASE ReportUpdate(r) \/ RelaySucceeded(r) \/ RelayFailed(r)
    <2>1. \A q \in Reqs : q # r => task[q].pend[k] = NoRow
      <3>1. k \in Wanted(r) /\ ~Waiting(r)
        BY <1>3, WantedRows DEF ReportUpdate, RelaySucceeded, RelayFailed
      <3> QED
        BY <3>1, NotWaiting DEF Locked
    <2>2. /\ \A j \in Jobs : j # k => jobs'[j] = jobs[j]
          /\ UNCHANGED <<status, comments>>
      BY <1>0, <1>3 DEF ReportUpdate, RelaySucceeded, RelayFailed, TypeOK
    <2>3. /\ RowCoheres(k)'
          /\ jobs'[k].leased_by \in {jobs[k].leased_by, None}
          /\ \/ jobs'[k].verdict = jobs[k].verdict
             \/ jobs'[k].verdict = c /\ status[c] # "revoked"
      <3>1. CASE ReportUpdate(r)
        <4>1. jobs'[k] = Reported(jobs[k], c) /\ status[c] # "revoked"
          BY <1>0, <3>1 DEF ReportUpdate, TypeOK, TaskCoheres
        <4>2. /\ jobs'[k].state = "reported" /\ jobs'[k].verdict = c
              /\ jobs'[k].reported_by = c /\ jobs'[k].leased_by = None
          BY <1>1, <4>1 DEF Reported, Row
        <4> QED
          BY <2>2, <4>1, <4>2 DEF RowCoheres
      <3>2. CASE RelaySucceeded(r)
        <4>1. /\ jobs'[k].state = "relayed" /\ jobs'[k].verdict = jobs[k].verdict
              /\ jobs'[k].reported_by = jobs[k].reported_by
              /\ jobs'[k].leased_by = jobs[k].leased_by
          BY <1>0, <1>1, <3>2 DEF RelaySucceeded, TypeOK, Row
        <4>2. comments[k] > 0
          BY <1>0, <3>2 DEF RelaySucceeded, TaskCoheres
        <4> QED
          BY <1>1, <2>2, <4>1, <4>2 DEF RowCoheres
      <3>3. CASE RelayFailed(r)
        <4>1. jobs'[k] = [jobs[k] EXCEPT !.relay_error = TRUE]
          BY <1>0, <3>3 DEF RelayFailed, TypeOK
        <4>2. /\ jobs'[k].state = jobs[k].state /\ jobs'[k].verdict = jobs[k].verdict
              /\ jobs'[k].reported_by = jobs[k].reported_by /\ jobs'[k].lease = jobs[k].lease
              /\ jobs'[k].leased_by = jobs[k].leased_by
          BY <1>1, <4>1 DEF Row
        <4> QED
          BY <1>0, <1>1, <2>2, <4>2, RowRests
      <3> QED
        BY <1>3, <3>1, <3>2, <3>3
    <2>4. \A j \in Jobs : RowCoheres(j)'
      <3>1. ASSUME NEW j \in Jobs, j # k
            PROVE  RowCoheres(j)'
        BY <1>1, <2>2, <3>1 DEF RowCoheres
      <3> QED
        BY <2>3, <3>1
    <2>5. /\ \A q \in Reqs : q # r => task'[q] = task[q]
          /\ task'[r].at \in {"relay", "idle"} /\ \A j \in Jobs : task'[r].pend[j] = NoRow
      BY <1>0, <1>3 DEF ReportUpdate, RelaySucceeded, RelayFailed, Finish, Idle, NoWrites,
                        TypeOK, Task
    <2>6. TaskCoheres(r)'
      BY <2>5 DEF TaskCoheres
    <2>7. ASSUME NEW q \in Reqs, q # r
          PROVE  TaskCoheres(q)'
      <3>1. TaskCoheres(q) /\ task'[q] = task[q]
        BY <2>5, <2>7 DEF CohereInv
      <3>2. \A j \in Jobs : task[q].pend[j] # NoRow => jobs'[j] = jobs[j]
        BY <2>1, <2>2, <2>7
      <3> QED
        BY <2>2, <3>1, <3>2, TaskRests
    <2>8. RecordsTheLive
      BY <1>0, <2>2, <2>3, DispatchAssumption DEF RecordsTheLive
    <2> QED
      BY <2>4, <2>6, <2>7, <2>8 DEF CohereInv
  <1> QED
    BY <1>2, <1>3 DEF ReportStep

LEMMA InsertCoheres ==
    ASSUME TypeInv, WorkInv, CohereInv, NEW r \in Reqs, EnqueueInsert(r)
    PROVE  CohereInv' /\ RecordsTheLive
  <1> DEFINE row == [Absent EXCEPT !.state = "queued", !.head = task[r].head]
  <1>1. PICK k \in Jobs : jobs[k].state = "absent" /\ jobs' = [jobs EXCEPT ![k] = row]
    BY DEF EnqueueInsert
  <1>2. /\ row.state = "queued" /\ row.verdict = None
        /\ row.leased_by = None /\ row.reported_by = None
    BY DEF Absent
  <1>3. /\ jobs'[k] = row /\ \A j \in Jobs : j # k => jobs'[j] = jobs[j]
        /\ UNCHANGED <<status, comments>> /\ Finish(r)
    BY <1>1 DEF TypeInv, TypeOK, EnqueueInsert
  <1> HIDE DEF row
  <1>4. ASSUME NEW j \in Jobs
        PROVE  RowCoheres(j)'
    BY <1>2, <1>3 DEF RowCoheres, CohereInv
  <1>5. ASSUME NEW q \in Reqs, q # r
        PROVE  TaskCoheres(q)'
    <2>1. TaskCoheres(q) /\ task'[q] = task[q]
      BY <1>3, <1>5, FinishCoheres DEF CohereInv
    <2>2. \A j \in Jobs : task[q].pend[j] # NoRow => jobs'[j] = jobs[j]
      BY <1>1, <1>3 DEF WorkInv, LocksHeld, Fit
    <2> QED
      BY <1>3, <2>1, <2>2, TaskRests
  <1>6. RecordsTheLive
    BY <1>2, <1>3, DispatchAssumption DEF RecordsTheLive
  <1> QED
    BY <1>3, <1>4, <1>5, <1>6, FinishCoheres DEF CohereInv

\* A revoke writes rows that refer to nobody new.
LEMMA RevokeWritesCohere ==
    ASSUME NEW row \in Row, NEW t
    PROVE  WriteCoheres(row, Requeued(row), t) /\ WriteCoheres(row, Exhausted(row), t)
  BY DEF WriteCoheres, Requeued, Exhausted, Row

LEMMA UnlinkedFields ==
    ASSUME NEW row \in Row, NEW c
    PROVE  /\ Unlinked(row, c).leased_by = IF row.leased_by = c THEN None ELSE row.leased_by
           /\ Unlinked(row, c).reported_by = IF row.reported_by = c THEN None ELSE row.reported_by
           /\ Unlinked(row, c).verdict = row.verdict
           /\ Unlinked(row, c).state = row.state
           /\ Unlinked(row, c).lease = row.lease
  BY DEF Unlinked, Row

LEMMA RevokeCoheres ==
    ASSUME TypeInv, WorkInv, CohereInv, NEW r \in Reqs, RevokeStep(r)
    PROVE  CohereInv' /\ RecordsTheLive
  <1> DEFINE c == task[r].client
  <1>0. /\ TypeOK /\ task[r] \in Task /\ TaskCoheres(r) /\ c \in Clients
        /\ \A j \in Jobs : jobs[j] \in Row /\ RowCoheres(j)
    BY DEF TypeInv, TypeOK, CohereInv, TaskCoheres, RevokeStep, RevokeRequeue, RevokeExhaust,
           RevokeDelete
  <1>1. CASE RevokeRequeue(r)
    <2>1. /\ UNCHANGED <<jobs, status, comments>> /\ \A q \in Reqs \ {r} : task'[q] = task[q]
          /\ task'[r].at = "exhaust" /\ task'[r].client = c
          /\ \A j \in Jobs : task'[r].pend[j] \in {Requeued(jobs[j]), NoRow}
      BY <1>0, <1>1 DEF RevokeRequeue, TypeOK, Task
    <2>2. ASSUME NEW j \in Jobs, task'[r].pend[j] # NoRow
          PROVE  WriteCoheres(jobs'[j], task'[r].pend[j], task'[r])
      BY <1>0, <2>1, <2>2, RevokeWritesCohere
    <2>3. TaskCoheres(r)'
      BY <1>0, <2>1, <2>2 DEF TaskCoheres, WriteCoheres
    <2> QED
      BY <2>1, <2>3, QuietCoheres
  <1>2. CASE RevokeExhaust(r)
    <2>1. /\ UNCHANGED <<jobs, status, comments>> /\ \A q \in Reqs \ {r} : task'[q] = task[q]
          /\ task[r].at = "exhaust" /\ task'[r].at = "delete" /\ task'[r].client = c
          /\ \A j \in Jobs : task'[r].pend[j] \in {Exhausted(jobs[j]), task[r].pend[j]}
      BY <1>0, <1>2 DEF RevokeExhaust, TypeOK, Task
    <2>2. ASSUME NEW j \in Jobs, task'[r].pend[j] # NoRow
          PROVE  WriteCoheres(jobs'[j], task'[r].pend[j], task'[r])
      <3>1. CASE task'[r].pend[j] = Exhausted(jobs[j])
        BY <1>0, <2>1, <3>1, RevokeWritesCohere
      <3>2. CASE task'[r].pend[j] = task[r].pend[j]
        BY <1>0, <2>1, <2>2, <3>2 DEF TaskCoheres, WriteCoheres
      <3> QED
        BY <2>1, <3>1, <3>2
    <2>3. TaskCoheres(r)'
      BY <1>0, <2>1, <2>2 DEF TaskCoheres, WriteCoheres
    <2> QED
      BY <2>1, <2>3, QuietCoheres
  <1>3. CASE RevokeDelete(r)
    <2>1. /\ Finish(r) /\ UNCHANGED comments /\ task[r].at = "delete" /\ ~Waiting(r)
          /\ status'[c] = "revoked" /\ \A d \in Clients \ {c} : status'[d] = status[d]
      BY <1>0, <1>3 DEF RevokeDelete, TypeOK
    <2>2. ASSUME NEW j \in Jobs
          PROVE  /\ View(r)[j] \in Row
                 /\ jobs'[j] = Unlinked(View(r)[j], c)
                 /\ \/ task[r].pend[j] = NoRow /\ View(r)[j] = jobs[j]
                    \/ /\ task[r].pend[j] # NoRow /\ View(r)[j].verdict = None
                       /\ WriteCoheres(jobs[j], View(r)[j], task[r]) /\ jobs[j].verdict = None
      BY <1>0, <1>3, ViewIsTable
         DEF RevokeDelete, View, TaskCoheres, WorkInv, LocksHeld, Fit, ResultsAreFinal
    <2>3. ASSUME NEW j \in Jobs
          PROVE  /\ jobs'[j].leased_by \in {jobs[j].leased_by, None} \ {c}
                 /\ jobs'[j].reported_by = IF jobs[j].reported_by = c THEN None
                                                                      ELSE jobs[j].reported_by
                 /\ jobs'[j].verdict = jobs[j].verdict
                 /\ jobs'[j].state = View(r)[j].state /\ jobs'[j].lease = View(r)[j].lease
      <3>1. /\ View(r)[j].leased_by \in {jobs[j].leased_by, None}
            /\ View(r)[j].reported_by = jobs[j].reported_by
            /\ View(r)[j].verdict = jobs[j].verdict
        BY <2>1, <2>2 DEF WriteCoheres
      <3>2. c # None
        BY <1>0, DispatchAssumption
      <3> QED
        BY <2>2, <3>1, <3>2, UnlinkedFields
    <2>4. ASSUME NEW j \in Jobs
          PROVE  RowCoheres(j)'
      <3>1. /\ jobs[j].leased_by \in Clients \cup {None} /\ jobs[j].verdict \in Clients \cup {None}
            /\ jobs[j].reported_by \in Clients \cup {None} /\ RowCoheres(j)
        BY <1>0 DEF Row, ClientOrNull
      <3>2. \A d \in {jobs'[j].leased_by, jobs'[j].reported_by} \ {None} : status'[d] # "revoked"
        BY <2>1, <2>3, <3>1 DEF RowCoheres
      <3>3. jobs'[j].verdict # None =>
              \/ jobs'[j].reported_by = jobs'[j].verdict
              \/ jobs'[j].reported_by = None /\ status'[jobs'[j].verdict] = "revoked"
        BY <2>1, <2>3, <3>1 DEF RowCoheres
      <3>4. /\ jobs'[j].state = "leased" => jobs'[j].lease # "null"
            /\ jobs'[j].state = "relayed" => comments'[j] > 0
        BY <2>1, <2>2, <2>3, <3>1 DEF RowCoheres, WriteCoheres
      <3> QED
        BY <3>2, <3>3, <3>4 DEF RowCoheres
    <2>5. ASSUME NEW q \in Reqs, q # r
          PROVE  TaskCoheres(q)'
      <3>1. TaskCoheres(q) /\ task'[q] = task[q]
        BY <2>1, <2>5, FinishCoheres DEF CohereInv
      <3>2. ASSUME NEW j \in Jobs, task[q].pend[j] # NoRow
            PROVE  jobs'[j].leased_by = jobs[j].leased_by
                   /\ jobs'[j].reported_by = jobs[j].reported_by
        <4>1. j \notin Wanted(r)
          BY <2>1, <2>5, <3>2, NotWaiting DEF Locked
        <4>2. View(r)[j] = jobs[j]
          BY <2>2, <2>5, <3>2 DEF WorkInv, LocksExclusive
        <4>3. c \notin {jobs[j].leased_by, jobs[j].reported_by}
          BY <2>1, <4>1, <4>2, WantedRows
        <4> QED
          BY <1>0, <2>2, <4>2, <4>3, UnlinkedFields
      <3>3. ~HoldsClient(q, c)
        BY <2>1, <2>5 DEF Waiting, WaitsFor
      <3>4. task[q].at \in {"select", "commit", "update"} => task[q].client \in Clients \ {c}
        BY <3>1, <3>3 DEF HoldsClient, TaskCoheres
      <3> QED
        BY <2>1, <3>1, <3>2, <3>4, TaskRests
    <2>6. RecordsTheLive
      BY <1>0, <2>3, DispatchAssumption DEF RecordsTheLive
    <2> QED
      BY <2>1, <2>4, <2>5, <2>6, FinishCoheres DEF CohereInv
  <1> QED
    BY <1>1, <1>2, <1>3 DEF RevokeStep

LEMMA EnvironmentCoheres ==
    ASSUME TypeInv, WorkInv, CohereInv, Environment
    PROVE  CohereInv' /\ RecordsTheLive
  <1>0. /\ \A j \in Jobs : jobs[j] \in Row /\ RowCoheres(j)
        /\ \A q \in Reqs : task[q] \in Task /\ TaskCoheres(q)
    BY DEF TypeInv, TypeOK, CohereInv
  <1>1. ASSUME NEW c \in Clients, CheckIn(c) \/ CheckOut(c) \/ AccessExpires(c)
        PROVE  CohereInv' /\ RecordsTheLive
    <2>1. /\ UNCHANGED <<jobs, task, comments>>
          /\ \A d \in Clients : status'[d] = "revoked" <=> status[d] = "revoked"
      BY <1>1 DEF CheckIn, CheckOut, AccessExpires, TypeInv, TypeOK
    <2>2. \A j \in Jobs : RowCoheres(j)'
      BY <1>0, <2>1, RowRests
    <2>3. \A q \in Reqs : TaskCoheres(q)'
      BY <1>0, <2>1, TaskRests DEF TaskCoheres
    <2> QED
      BY <2>1, <2>2, <2>3 DEF CohereInv, RecordsTheLive
  <1>2. ASSUME NEW k \in Jobs, LeaseExpires(k)
        PROVE  CohereInv' /\ RecordsTheLive
    <2>1. UNCHANGED <<status, comments>>
      BY <1>2 DEF LeaseExpires
    <2>2. ASSUME NEW j \in Jobs
          PROVE  /\ jobs'[j].state = jobs[j].state /\ jobs'[j].verdict = jobs[j].verdict
                 /\ jobs'[j].leased_by = jobs[j].leased_by
                 /\ jobs'[j].reported_by = jobs[j].reported_by
                 /\ jobs'[j].lease \in {jobs[j].lease, "lapsed"}
      BY <1>0, <1>2 DEF LeaseExpires, Row, TypeInv, TypeOK
    <2>3. ASSUME NEW q \in Reqs
          PROVE  /\ task'[q].pend = task[q].pend /\ task'[q].at = task[q].at
                 /\ task'[q].client = task[q].client /\ task'[q].job = task[q].job
      <3>1. task'[q] = task[q] \/ task'[q] = [task[q] EXCEPT !.seen.lease = "lapsed"]
        BY <1>2 DEF LeaseExpires
      <3> QED
        BY <1>0, <3>1 DEF Task
    <2>4. \A j \in Jobs : RowCoheres(j)'
      BY <1>0, <2>1, <2>2, RowRests
    <2>5. \A q \in Reqs : TaskCoheres(q)'
      BY <1>0, <2>1, <2>2, <2>3, TaskRests
    <2> QED
      BY <2>2, <2>4, <2>5 DEF CohereInv, RecordsTheLive
  <1>3. ASSUME NEW p \in Pulls, CancelQueued(p)
        PROVE  CohereInv' /\ RecordsTheLive
    <2>1. UNCHANGED <<status, comments, task>>
      BY <1>3 DEF CancelQueued
    <2>2. ASSUME NEW j \in Jobs
          PROVE  jobs'[j] = jobs[j] \/ jobs'[j] = [jobs[j] EXCEPT !.state = "cancelled"]
      BY <1>3 DEF CancelQueued
    <2>3. ASSUME NEW j \in Jobs
          PROVE  /\ jobs'[j].state \in {jobs[j].state, "cancelled"}
                 /\ jobs'[j].verdict = jobs[j].verdict
                 /\ jobs'[j].leased_by = jobs[j].leased_by
                 /\ jobs'[j].reported_by = jobs[j].reported_by
                 /\ jobs'[j].lease = jobs[j].lease
      BY <1>0, <2>2 DEF Row
    <2>4. \A j \in Jobs : RowCoheres(j)'
      BY <1>0, <2>1, <2>3, RowRests
    <2>5. \A q \in Reqs : TaskCoheres(q)'
      BY <1>0, <2>1, <2>3, TaskRests
    <2> QED
      BY <2>3, <2>4, <2>5 DEF CohereInv, RecordsTheLive
  <1> QED
    BY <1>1, <1>2, <1>3 DEF Environment

LEMMA CohereStep ==
    TypeInv /\ WorkInv /\ CohereInv /\ [Next]_vars => CohereInv' /\ RecordsTheLive
  <1> SUFFICES ASSUME TypeInv, WorkInv, CohereInv, [Next]_vars
               PROVE  CohereInv' /\ RecordsTheLive
    OBVIOUS
  <1>1. ASSUME NEW r \in Reqs, Abort(r) \/ BreakDeadlock(r)
        PROVE  CohereInv' /\ RecordsTheLive
    <2>1. Finish(r) /\ UNCHANGED <<jobs, status, comments>>
      BY <1>1 DEF Abort, BreakDeadlock
    <2> QED
      BY <2>1, FinishCoheres, QuietCoheres
  <1>2. ASSUME NEW r \in Reqs, TaskStep(r)
        PROVE  CohereInv' /\ RecordsTheLive
    BY <1>2, LeaseCoheres, ReportCoheres, RevokeCoheres, InsertCoheres DEF TaskStep
  <1>3. CASE UNCHANGED vars
    BY <1>3 DEF vars, CohereInv, RowCoheres, TaskCoheres, WriteCoheres, RecordsTheLive
  <1> QED
    BY <1>1, <1>2, <1>3, ArriveCoheres, EnvironmentCoheres DEF Next

LEMMA CohereInvariant == Spec => [](TypeInv /\ WorkInv /\ CohereInv)
  BY Invariant, CohereInit, CohereStep, PTL DEF Spec

\* Under any overlap of requests, every committed row agrees with itself, with
\* the clients and with the pull request: no reference to a deleted client, no
\* result under another's name, no lease without a clock, no relay unposted.
THEOREM RowsAgree == Spec => []RowsCohere
  BY CohereInvariant, CohereGivesRows, PTL

\* Once a client is revoked nothing still in flight leases it a job or records a
\* result of its: whoever holds a client's row commits before it can be deleted.
THEOREM RevocationIsFinal == Spec => RevokedIsOut
  <1>1. TypeInv /\ WorkInv /\ CohereInv /\ [Next]_vars =>
          \A j \in Jobs, c \in Clients :
              \/ jobs'[j].leased_by = c /\ jobs[j].leased_by # c
              \/ jobs'[j].verdict = c /\ jobs[j].verdict # c
              => status'[c] # "revoked"
    BY CohereStep DEF RecordsTheLive
  <1> QED
    BY <1>1, CohereInvariant, PTL DEF Spec, RevokedIsOut

-----------------------------------------------------------------------------
(* Deadlocks *)

\* Only a revoke releases leases and deletes a client.
RevokeShape ==
    \A r \in Reqs : task[r].at \in {"release", "exhaust", "delete"} => task[r].op = "revoke"

LEMMA RevokeShapeInit == Init => RevokeShape
  BY DEF Init, RevokeShape, Idle

LEMMA RevokeShapeStep == TypeInv /\ RevokeShape /\ [Next]_vars => RevokeShape'
  <1> SUFFICES ASSUME TypeInv, RevokeShape, [Next]_vars PROVE RevokeShape'
    OBVIOUS
  <1>0. task \in [Reqs -> Task] /\ Idle.at = "idle"
    BY DEF TypeInv, TypeOK, Idle
  <1>1. ASSUME NEW r \in Reqs, Finish(r)
        PROVE  RevokeShape'
    BY <1>0, <1>1 DEF Finish, RevokeShape
  <1>2. ASSUME NEW r \in Reqs, NEW at \in Step \ {"release", "exhaust", "delete"},
               task'[r].at = at, \A q \in Reqs \ {r} : task'[q] = task[q]
        PROVE  RevokeShape'
    BY <1>2 DEF RevokeShape
  <1>3. ASSUME NEW r \in Reqs, Arrive(r)
        PROVE  RevokeShape'
    <2>1. CASE \E c \in Clients : RevokeStart(r, c)
      BY <1>0, <2>1 DEF RevokeStart, RevokeShape, Idle
    <2>2. CASE \E c \in Clients : LeaseNextStart(r, c)
      BY <1>0, <2>2 DEF LeaseNextStart, RevokeShape, Idle
    <2>3. CASE \E c \in Clients, j \in Jobs : LeaseOneStart(r, c, j)
      BY <1>0, <2>3 DEF LeaseOneStart, RevokeShape, Idle
    <2>4. CASE \E c \in Clients, j \in Jobs : ReportStart(r, c, j)
      BY <1>0, <2>4 DEF ReportStart, RevokeShape, Idle
    <2>5. CASE \E h \in Heads : EnqueueCheck(r, h)
      BY <1>0, <2>5 DEF EnqueueCheck, RevokeShape, Idle
    <2> QED
      BY <1>3, <2>1, <2>2, <2>3, <2>4, <2>5 DEF Arrive
  <1>4. ASSUME NEW r \in Reqs, LeaseStep(r)
        PROVE  RevokeShape'
    <2>1. CASE Touch(r)
      BY <1>0, <2>1 DEF Touch, RevokeShape, Task
    <2>2. CASE TouchGone(r) \/ LeaseRefusedStale(r) \/ LeaseCommit(r)
      BY <1>1, <2>2 DEF TouchGone, LeaseRefusedStale, LeaseCommit
    <2>3. CASE LeaseNextSelect(r) \/ LeaseOneSelect(r) \/ LeaseNothing(r)
      <3>1. task'[r].at = "commit" /\ \A q \in Reqs \ {r} : task'[q] = task[q]
        BY <1>0, <2>3 DEF LeaseNextSelect, LeaseOneSelect, LeaseNothing, Task
      <3> QED
        BY <3>1 DEF RevokeShape
    <2> QED
      BY <1>4, <2>1, <2>2, <2>3 DEF LeaseStep
  <1>5. ASSUME NEW r \in Reqs, ReportStep(r)
        PROVE  RevokeShape'
    <2>1. CASE ReportUpdate(r)
      BY <1>0, <2>1 DEF ReportUpdate, RevokeShape, Task
    <2>2. CASE Relay(r)
      BY <1>0, <2>2 DEF Relay, RevokeShape, Task
    <2>3. CASE RelaySucceeded(r) \/ RelayFailed(r)
      BY <1>1, <2>3 DEF RelaySucceeded, RelayFailed
    <2> QED
      BY <1>5, <2>1, <2>2, <2>3 DEF ReportStep
  <1>6. ASSUME NEW r \in Reqs, RevokeStep(r)
        PROVE  RevokeShape'
    <2>1. CASE RevokeRequeue(r) \/ RevokeExhaust(r)
      <3>1. task[r].op = "revoke"
        BY <2>1 DEF RevokeRequeue, RevokeExhaust, RevokeShape
      <3>2. \A q \in Reqs : task'[q].op = task[q].op /\ (q # r => task'[q] = task[q])
        BY <1>0, <2>1 DEF RevokeRequeue, RevokeExhaust, Task
      <3> QED
        BY <3>1, <3>2 DEF RevokeShape
    <2>2. CASE RevokeDelete(r)
      BY <1>1, <2>2 DEF RevokeDelete
    <2> QED
      BY <1>6, <2>1, <2>2 DEF RevokeStep
  <1>7. CASE Environment
    <2>1. CASE UNCHANGED task
      BY <2>1 DEF RevokeShape
    <2>2. CASE \E k \in Jobs : LeaseExpires(k)
      <3>1. ASSUME NEW q \in Reqs
            PROVE  task'[q].at = task[q].at /\ task'[q].op = task[q].op
        <4>1. task'[q] = task[q] \/ task'[q] = [task[q] EXCEPT !.seen.lease = "lapsed"]
          BY <2>2 DEF LeaseExpires
        <4> QED
          BY <1>0, <4>1 DEF Task
      <3> QED
        BY <3>1 DEF RevokeShape
    <2> QED
      BY <1>7, <2>1, <2>2 DEF Environment, CheckIn, CheckOut, AccessExpires, CancelQueued
  <1>8. CASE UNCHANGED vars
    BY <1>8 DEF vars, RevokeShape
  <1> QED
    BY <1>1, <1>3, <1>4, <1>5, <1>6, <1>7, <1>8
       DEF Next, TaskStep, EnqueueInsert, Abort, BreakDeadlock

\* Client row first, job rows next, and no statement after the rows are
\* written: requests wait in a ring only when one of them revokes a client.
THEOREM DeadlockNeedsRevoke == Spec => []OnlyRevokeDeadlocks
  <1>1. TypeInv /\ WorkInv /\ RevokeShape => OnlyRevokeDeadlocks
    <2> SUFFICES ASSUME TypeInv, WorkInv, RevokeShape,
                        NEW S \in SUBSET Reqs, WaitCycle(S),
                        \A r \in S : task[r].op # "revoke"
                 PROVE  FALSE
      BY DEF OnlyRevokeDeadlocks
    <2>1. /\ S # {}
          /\ \A r \in S : \E q \in S : WaitsFor(r, q)
          /\ \A r \in S : \E q \in S : WaitsFor(q, r)
      BY DEF WaitCycle
    <2>2. ASSUME NEW r \in S
          PROVE  task[r].at \in {"touch", "select", "update", "relayed", "failed"}
      <3>1. PICK q \in S : WaitsFor(r, q)
        BY <2>1
      <3>2. task[r].at \notin {"release", "exhaust", "delete"}
        BY DEF RevokeShape
      <3>3. CASE task[r].at = "touch"
        BY <3>3
      <3>4. CASE task[r].at # "touch"
        <4>1. Wanted(r) # {}
          BY <3>1, <3>2, <3>4 DEF WaitsFor
        <4> QED
          BY <3>2, <4>1 DEF Wanted
      <3> QED
        BY <3>3, <3>4
    <2>3. ASSUME NEW r \in S, NEW q \in S, WaitsFor(q, r)
          PROVE  task[q].at = "touch" /\ task[r].at \in {"select", "update"}
      <3>1. task[r].at \notin {"commit", "exhaust", "delete"} /\ task[q].at # "delete"
        BY <2>2
      <3>2. ASSUME NEW j \in Wanted(q), task[r].pend[j] # NoRow
            PROVE  FALSE
        <4>1. j \in Jobs
          BY <2>2, <3>2, WantedRows DEF TypeInv, ReportShape, Wanted
        <4> QED
          BY <3>1, <3>2, <4>1, OwnWrites
      <3>3. task[q].at = "touch" /\ HoldsClient(r, task[q].client)
        BY <2>3, <3>1, <3>2 DEF WaitsFor
      <3> QED
        BY <3>1, <3>3 DEF HoldsClient
    <2>4. PICK r \in S : TRUE
      BY <2>1
    <2>5. PICK q \in S : WaitsFor(q, r)
      BY <2>1
    <2>6. PICK p \in S : WaitsFor(p, q)
      BY <2>1
    <2> QED
      BY <2>3, <2>5, <2>6
  <1> QED
    BY <1>1, Invariant, RevokeShapeInit, RevokeShapeStep, PTL DEF Spec
-----------------------------------------------------------------------------
(* Requests that nobody disturbs *)

\* This section is about UndisturbedSpec: any number of requests overlap, and none
\* acts on something it read that another has changed since.

\* LeasesAddUp, of one row.
RowAddsUp(row) ==
    /\ row.leased_by # None <=> row.state = "leased"
    /\ row.attempts <= MaxAttempts
    /\ row.state = "queued" => row.attempts < MaxAttempts
    /\ row.state = "exhausted" => row.attempts >= MaxAttempts

\* A move of the lifecycle, or none.
Moves(row, new) ==
    \/ new.state = row.state /\ new.attempts = row.attempts
    \/ row.state = "absent" /\ new.state = "queued" /\ new.attempts = 0
    \/ /\ row.state \in {"queued", "leased"} /\ row.attempts < MaxAttempts
       /\ new.state = "leased" /\ new.attempts = row.attempts + 1
    \/ /\ row.state = "leased" /\ row.attempts < MaxAttempts
       /\ new.state = "queued" /\ new.attempts = row.attempts
    \/ /\ row.state = "leased" /\ row.attempts >= MaxAttempts
       /\ new.state = "exhausted" /\ new.attempts = row.attempts
    \/ /\ new.attempts = row.attempts
       /\ <<row.state, new.state>> \in {<<"leased", "reported">>, <<"reported", "relayed">>,
                                        <<"queued", "cancelled">>}

\* `new' follows `row' along the lifecycle, adds up, and counts a new lease.
Advances(row, new) ==
    /\ Moves(row, new) /\ RowAddsUp(new)
    /\ new.leased_by \in {row.leased_by, None} \/ new.attempts = row.attempts + 1
    /\ new.head = row.head \/ row.state = "absent"

AdvanceStep == \A j \in Jobs : Advances(jobs[j], jobs'[j])

\* A write that is no mere touch of the clock or of the links to clients.
Changed(row, new) == new.state # row.state \/ new.attempts # row.attempts

\* What lease_one takes from the object it loaded.
LikeLoaded(seen, row) ==
    /\ seen.state = row.state /\ seen.leased_by = row.leased_by
    /\ seen.lease = row.lease /\ seen.attempts = row.attempts

Relaying(t) == t.at \in {"relay", "relayed", "failed"}

\* A job's comment is the business of one request.
RelaysApart ==
    \A q, r \in Reqs :
        Relaying(task[q]) /\ Relaying(task[r]) /\ task[q].job = task[r].job => q = r

\* Only finished work has a comment, and no more than one.
CommentsAddUp ==
    \A j \in Jobs : /\ comments[j] <= 1
                    /\ comments[j] > 0 => jobs[j].state \in {"reported", "relayed"}

\* What the request has read or written is still what the table says.
TaskAddsUp(t) ==
    /\ \A j \in Jobs : t.pend[j] # NoRow =>
          Advances(jobs[j], t.pend[j]) /\ Changed(jobs[j], t.pend[j])
    /\ t.at = "update" \/ (t.at = "touch" /\ t.op = "report") => LeasedTo(jobs[t.job], t.client)
    /\ t.at = "update" => t.op = "report"
    /\ Relaying(t) => jobs[t.job].state = "reported"
    /\ t.at = "relay" => comments[t.job] = 0
    /\ t.at \in {"touch", "select"} /\ t.op = "lease_one" =>
          /\ t.job \in Jobs /\ jobs[t.job].state # "absent"
          /\ Active(jobs[t.job]) => LikeLoaded(t.seen, jobs[t.job])
    /\ t.at = "exhaust" => \A j \in Jobs :
          LeasedTo(jobs[j], t.client) /\ jobs[j].attempts < MaxAttempts => t.pend[j] # NoRow
    /\ t.at = "delete" => \A j \in Jobs : LeasedTo(jobs[j], t.client) => t.pend[j] # NoRow
    /\ t.at \in {"exhaust", "delete"} => \A j \in Jobs :
          t.pend[j] # NoRow => t.pend[j].state # "leased"

CalmInv ==
    /\ \A j \in Jobs : RowAddsUp(jobs[j])
    /\ CommentsAddUp
    /\ RelaysApart
    /\ \A r \in Reqs : TaskAddsUp(task[r])

LEMMA CalmInit == Init => CalmInv
  <1> SUFFICES ASSUME Init PROVE CalmInv
    OBVIOUS
  <1>1. \A j \in Jobs : RowAddsUp(jobs[j]) /\ ~Active(jobs[j]) /\ comments[j] = 0
    BY DispatchAssumption DEF Init, RowAddsUp, Active, Absent
  <1>2. \A r \in Reqs : TaskAddsUp(task[r])
    BY DEF Init, TaskAddsUp, Relaying, Idle, NoWrites
  <1>3. RelaysApart
    BY DEF Init, RelaysApart, Relaying, Idle
  <1> QED
    BY <1>1, <1>2, <1>3 DEF CalmInv, CommentsAddUp

\* The statements that write leases, each on a row it may write.
LEMMA LeaseWritesAdvance ==
    ASSUME NEW row \in Row, RowAddsUp(row), NEW c \in Clients
    PROVE  /\ Due(row) => Advances(row, Reclaimed(row)) /\ Changed(row, Reclaimed(row))
           /\ Reclaimed(row).state = "queued" =>
                /\ Advances(row, HandedOver(Reclaimed(row), c))
                /\ Changed(row, HandedOver(Reclaimed(row), c))
  <1> DEFINE old == Reclaimed(row)
  <1>1. /\ old \in Row /\ c # None
        /\ row.attempts \in Nat /\ MaxAttempts \in Nat
    BY RowOps, DispatchAssumption DEF Row, ClientOrNull
  <1>2. ASSUME Due(row)
        PROVE  /\ old.leased_by = None /\ row.state = "leased"
               /\ old.state = IF row.attempts < MaxAttempts THEN "queued" ELSE "exhausted"
               /\ old.attempts = row.attempts /\ old.head = row.head
    BY <1>2 DEF Reclaimed, RequeueOrExhaust, Requeued, Exhausted, Row, Due
  <1>3. ~Due(row) => old = row
    BY DEF Reclaimed
  <1> HIDE DEF old
  <1>4. Due(row) => Advances(row, old) /\ Changed(row, old)
    BY <1>1, <1>2 DEF Advances, Moves, RowAddsUp, Changed
  <1>5. ASSUME old.state = "queued"
        PROVE  /\ row.attempts < MaxAttempts /\ row.state \in {"queued", "leased"}
               /\ old.leased_by = None /\ old.attempts = row.attempts /\ old.head = row.head
    BY <1>1, <1>2, <1>3, <1>5 DEF RowAddsUp
  <1>6. ASSUME old.state = "queued"
        PROVE  Advances(row, HandedOver(old, c)) /\ Changed(row, HandedOver(old, c))
    <2> DEFINE new == HandedOver(old, c)
    <2>1. /\ new.state = "leased" /\ new.leased_by = c /\ new.attempts = row.attempts + 1
          /\ new.head = row.head
      BY <1>1, <1>5, <1>6 DEF HandedOver, Row
    <2> HIDE DEF new
    <2>2. Advances(row, new) /\ Changed(row, new)
      BY <1>1, <1>5, <1>6, <2>1 DEF Advances, Moves, RowAddsUp, Changed
    <2> QED
      BY <2>2 DEF new
  <1> QED
    BY <1>4, <1>6 DEF old

\* A hand-over through an object that is still like the row is the hand-over.
LEMMA StaleIsLike ==
    ASSUME NEW row \in Row, RowAddsUp(row), NEW seen \in Row, LikeLoaded(seen, row),
           NEW c \in Clients, Reclaimed(row).state = "queued"
    PROVE  HandedOverStale(Reclaimed(row), Reclaimed(seen), c) = HandedOver(Reclaimed(row), c)
  <1> DEFINE old == Reclaimed(row)
             mem == Reclaimed(seen)
  <1>1. old \in Row /\ mem \in Row /\ c # None
    BY RowOps, DispatchAssumption DEF ClientOrNull
  <1>2. /\ mem.state = old.state /\ mem.leased_by = old.leased_by
        /\ mem.attempts = old.attempts
    BY DEF LikeLoaded, Reclaimed, Due, RequeueOrExhaust, Requeued, Exhausted, Row
  <1>3. old.leased_by = None
    BY DEF Reclaimed, Due, RequeueOrExhaust, Requeued, Exhausted, Row, RowAddsUp
  <1>4. old.state = "queued"
    OBVIOUS
  <1> HIDE DEF old, mem
  <1>5. HandedOverStale(old, mem, c) = HandedOver(old, c)
    BY <1>1, <1>2, <1>3, <1>4 DEF HandedOverStale, HandedOver, Row
  <1> QED
    BY <1>5 DEF old, mem

LEMMA RevokeWritesAdvance ==
    ASSUME NEW row \in Row, row.state = "leased"
    PROVE  /\ row.attempts < MaxAttempts =>
                /\ Advances(row, Requeued(row)) /\ Changed(row, Requeued(row))
                /\ Requeued(row).state # "leased"
           /\ RowAddsUp(row) /\ row.attempts >= MaxAttempts =>
                /\ Advances(row, Exhausted(row)) /\ Changed(row, Exhausted(row))
                /\ Exhausted(row).state # "leased"
  <1>1. row.attempts \in Nat /\ MaxAttempts \in Nat
    BY DispatchAssumption DEF Row
  <1>2. /\ Requeued(row).state = "queued" /\ Requeued(row).leased_by = None
        /\ Requeued(row).attempts = row.attempts /\ Requeued(row).head = row.head
        /\ Exhausted(row).state = "exhausted" /\ Exhausted(row).leased_by = None
        /\ Exhausted(row).attempts = row.attempts /\ Exhausted(row).head = row.head
    BY DEF Requeued, Exhausted, Row
  <1> QED
    BY <1>1, <1>2 DEF Advances, Moves, RowAddsUp, Changed

\* A row whose lifecycle, holder and head a step leaves alone.
LEMMA RestAdvances ==
    ASSUME NEW row, RowAddsUp(row), NEW new,
           /\ new.state = row.state /\ new.attempts = row.attempts
           /\ new.leased_by = row.leased_by /\ new.head = row.head
    PROVE  Advances(row, new)
  BY DEF Advances, Moves, RowAddsUp

\* What rows and comments keep when every row advances.
LEMMA AdvanceKeepsRows ==
    ASSUME CalmInv, AdvanceStep, UNCHANGED comments
    PROVE  (\A j \in Jobs : RowAddsUp(jobs[j]))' /\ CommentsAddUp'
  <1>1. (\A j \in Jobs : RowAddsUp(jobs[j]))'
    BY DEF AdvanceStep, Advances, RowAddsUp
  <1>2. CommentsAddUp'
    BY DEF CalmInv, CommentsAddUp, AdvanceStep, Advances, Moves
  <1> QED
    BY <1>1, <1>2

\* A request that does not move, while another step is taken.
LEMMA OthersStand ==
    ASSUME TypeInv, CohereInv, CalmInv, Undisturbed, AdvanceStep,
           NEW q \in Reqs, task'[q] = task[q],
           \A j \in Jobs : task[q].pend[j] # NoRow => jobs'[j] = jobs[j],
           \A j \in Jobs : jobs'[j].lease = jobs[j].lease \/ Changed(jobs[j], jobs'[j]),
           Relaying(task[q]) => /\ jobs'[task[q].job].state # "relayed"
                                /\ comments'[task[q].job] = comments[task[q].job]
    PROVE  TaskAddsUp(task[q])'
  <1> DEFINE t == task[q]
  <1>0. /\ TaskAddsUp(t) /\ t \in Task /\ MaxAttempts \in Nat /\ None \notin Clients
        /\ \A j \in Jobs : jobs[j] \in Row /\ RowAddsUp(jobs[j])
        /\ \A j \in Jobs : Advances(jobs[j], jobs'[j]) /\ RowAddsUp(jobs'[j])
    BY DispatchAssumption DEF TypeInv, TypeOK, CalmInv, AdvanceStep, Advances
  <1>1. \A j \in Jobs : t.pend[j] # NoRow =>
            Advances(jobs'[j], t.pend[j]) /\ Changed(jobs'[j], t.pend[j])
    BY <1>0 DEF TaskAddsUp
  <1>2. t.at = "update" \/ (t.at = "touch" /\ t.op = "report") => LeasedTo(jobs'[t.job], t.client)
    <2>1. t.at = "update" => t.op = "report"
      BY <1>0 DEF TaskAddsUp
    <2> QED
      BY <1>0, <2>1 DEF TaskAddsUp, Undisturbed
  <1>3. Relaying(t) => jobs'[t.job].state = "reported"
    <2> SUFFICES ASSUME Relaying(t) PROVE jobs'[t.job].state = "reported"
      OBVIOUS
    <2>1. t.job \in Jobs /\ jobs[t.job].state = "reported" /\ jobs'[t.job].state # "relayed"
      BY <1>0 DEF TaskAddsUp, TypeInv, ReportShape, Relaying
    <2>2. Moves(jobs[t.job], jobs'[t.job])
      BY <1>0, <2>1 DEF Advances
    <2> QED
      BY <2>1, <2>2 DEF Moves
  <1>4. t.at = "relay" => comments'[t.job] = 0
    BY <1>0 DEF TaskAddsUp, Relaying
  <1>5. ASSUME t.at \in {"touch", "select"}, t.op = "lease_one"
        PROVE  /\ t.job \in Jobs /\ jobs'[t.job].state # "absent"
               /\ Active(jobs'[t.job]) => LikeLoaded(t.seen, jobs'[t.job])
    <2> DEFINE row == jobs[t.job]
               new == jobs'[t.job]
    <2>1. /\ t.job \in Jobs /\ row.state # "absent"
          /\ Active(row) => LikeLoaded(t.seen, row)
      BY <1>0, <1>5 DEF TaskAddsUp
    <2>2. /\ RowAddsUp(row) /\ RowAddsUp(new) /\ Moves(row, new)
          /\ new.lease = row.lease \/ Changed(row, new)
          /\ new.attempts = row.attempts /\ new.leased_by = row.leased_by
      BY <1>0, <1>5, <2>1 DEF Undisturbed, Advances
    <2> HIDE DEF row, new
    <2>3. new.state # "absent"
      BY <2>1, <2>2 DEF Moves
    <2>4. ASSUME Active(new)
          PROVE  Active(row) /\ new.state = row.state
      BY <2>1, <2>2, <2>4 DEF Moves, Active, RowAddsUp
    <2>5. ASSUME Active(new)
          PROVE  LikeLoaded(t.seen, new)
      BY <2>1, <2>2, <2>4, <2>5 DEF LikeLoaded, Changed
    <2> QED
      BY <2>1, <2>3, <2>5 DEF row, new
  <1>6. ASSUME t.at \in {"exhaust", "delete"}, NEW j \in Jobs, LeasedTo(jobs'[j], t.client)
        PROVE  /\ LeasedTo(jobs[j], t.client)
               /\ jobs'[j].attempts < MaxAttempts => jobs[j].attempts < MaxAttempts
    <2>1. LeasedTo(jobs[j], t.client)
      BY <1>6 DEF Undisturbed
    <2>2. Moves(jobs[j], jobs'[j]) /\ jobs[j].attempts \in Nat
      BY <1>0 DEF Advances, Row
    <2> QED
      BY <1>0, <2>1, <2>2 DEF Moves, LeasedTo
  <1>7. t.at = "exhaust" => \A j \in Jobs :
            LeasedTo(jobs'[j], t.client) /\ jobs'[j].attempts < MaxAttempts => t.pend[j] # NoRow
    BY <1>0, <1>6 DEF TaskAddsUp
  <1>8. t.at = "delete" => \A j \in Jobs : LeasedTo(jobs'[j], t.client) => t.pend[j] # NoRow
    BY <1>0, <1>6 DEF TaskAddsUp
  <1>9. t.at \in {"exhaust", "delete"} => \A j \in Jobs :
            t.pend[j] # NoRow => t.pend[j].state # "leased"
    BY <1>0 DEF TaskAddsUp
  <1> QED
    BY <1>0, <1>1, <1>2, <1>3, <1>4, <1>5, <1>7, <1>8, <1>9 DEF TaskAddsUp, Relaying

\* The requests that do not move, when no row does.
LEMMA QuietOthers ==
    ASSUME TypeInv, CohereInv, CalmInv, Undisturbed, UNCHANGED <<jobs, comments>>,
           NEW q \in Reqs, task'[q] = task[q]
    PROVE  TaskAddsUp(task[q])'
  <1>1. AdvanceStep
    BY RestAdvances DEF AdvanceStep, CalmInv
  <1>2. Relaying(task[q]) => jobs'[task[q].job].state # "relayed"
    BY DEF CalmInv, TaskAddsUp
  <1> QED
    BY <1>1, <1>2, OthersStand

\* A step of one request that commits nothing.
LEMMA QuietAddsUp ==
    ASSUME TypeInv, CohereInv, CalmInv, Undisturbed, NEW r \in Reqs,
           UNCHANGED <<jobs, comments>>, \A q \in Reqs \ {r} : task'[q] = task[q],
           Relaying(task'[r]) => Relaying(task[r]) /\ task'[r].job = task[r].job,
           TaskAddsUp(task[r])'
    PROVE  CalmInv' /\ AdvanceStep
  <1>1. AdvanceStep
    BY RestAdvances DEF AdvanceStep, CalmInv
  <1>2. CommentsAddUp' /\ (\A j \in Jobs : RowAddsUp(jobs[j]))'
    BY DEF CalmInv, CommentsAddUp, RowAddsUp
  <1>3. \A q \in Reqs : TaskAddsUp(task[q])'
    BY QuietOthers
  <1>4. RelaysApart'
    <2>1. \A q \in Reqs : Relaying(task'[q]) => Relaying(task[q]) /\ task'[q].job = task[q].job
      OBVIOUS
    <2> QED
      BY <2>1 DEF CalmInv, RelaysApart, Relaying
  <1> QED
    BY <1>1, <1>2, <1>3, <1>4 DEF CalmInv

LEMMA FinishAddsUp ==
    ASSUME TypeInv, NEW r \in Reqs, Finish(r)
    PROVE  TaskAddsUp(task[r])'
  <1>1. task'[r] = Idle
    BY DEF Finish, TypeInv, TypeOK
  <1> QED
    BY <1>1 DEF TaskAddsUp, Idle, NoWrites, Relaying

\* A step of one request that commits rows nobody else has locked.
LEMMA CommitAddsUp ==
    ASSUME TypeInv, CohereInv, CalmInv, Undisturbed, NEW r \in Reqs, UNCHANGED comments,
           AdvanceStep, \A q \in Reqs \ {r} : task'[q] = task[q],
           \A j \in Jobs : jobs'[j].lease = jobs[j].lease \/ Changed(jobs[j], jobs'[j]),
           \A j \in Jobs, q \in Reqs \ {r} : task[q].pend[j] # NoRow => jobs'[j] = jobs[j],
           \A j \in Jobs : jobs'[j].state = "relayed" =>
               jobs[j].state = "relayed" \/ (Relaying(task[r]) /\ task[r].job = j),
           ~Relaying(task'[r]),
           TaskAddsUp(task[r])'
    PROVE  CalmInv' /\ AdvanceStep
  <1>1. ASSUME NEW q \in Reqs \ {r}, Relaying(task[q])
        PROVE  jobs'[task[q].job].state # "relayed"
    <2>1. task[q].job \in Jobs /\ jobs[task[q].job].state = "reported"
      BY <1>1 DEF TypeInv, ReportShape, Relaying, CalmInv, TaskAddsUp
    <2> QED
      BY <1>1, <2>1 DEF CalmInv, RelaysApart
  <1>2. \A q \in Reqs : TaskAddsUp(task[q])'
    BY <1>1, OthersStand
  <1>3. RelaysApart'
    <2>1. \A q \in Reqs : Relaying(task'[q]) => q # r /\ Relaying(task[q]) /\ task'[q].job = task[q].job
      OBVIOUS
    <2> QED
      BY <2>1 DEF CalmInv, RelaysApart, Relaying
  <1> QED
    BY <1>2, <1>3, AdvanceKeepsRows DEF CalmInv

\* A step that ends a request lets go of its locks and leaves the others alone.
LEMMA FinishLeavesOthers ==
    ASSUME TypeInv, NEW r \in Reqs, Finish(r)
    PROVE  /\ \A q \in Reqs \ {r} : task'[q] = task[q]
           /\ ~Relaying(task'[r]) /\ TaskAddsUp(task[r])'
  <1>1. task'[r] = Idle /\ \A q \in Reqs \ {r} : task'[q] = task[q]
    BY DEF Finish, TypeInv, TypeOK
  <1> QED
    BY <1>1, FinishAddsUp DEF Relaying, Idle

LEMMA ArriveAddsUp ==
    ASSUME TypeInv, CohereInv, CalmInv, Undisturbed, NEW r \in Reqs, Arrive(r)
    PROVE  CalmInv' /\ AdvanceStep
  <1> DEFINE t == task'[r]
  <1>0. task \in [Reqs -> Task]
    BY DEF TypeInv, TypeOK
  <1>1. /\ UNCHANGED <<jobs, comments>> /\ t.pend = NoWrites
        /\ \A q \in Reqs \ {r} : task'[q] = task[q]
        /\ \/ t.at = "touch" /\ t.op = "lease_next"
           \/ t.at = "release"
           \/ t.at = "touch" /\ t.op = "lease_one" /\ t.job \in Jobs
              /\ t.seen = jobs[t.job] /\ jobs[t.job].state # "absent"
           \/ t.at = "touch" /\ t.op = "report" /\ LeasedTo(jobs[t.job], t.client)
           \/ t.at = "insert"
    <2>1. CASE \E c \in Clients : LeaseNextStart(r, c)
      BY <1>0, <2>1 DEF LeaseNextStart, Idle
    <2>2. CASE \E c \in Clients : RevokeStart(r, c)
      BY <1>0, <2>2 DEF RevokeStart, Idle
    <2>3. CASE \E c \in Clients, j \in Jobs : LeaseOneStart(r, c, j)
      BY <1>0, <2>3 DEF LeaseOneStart, Idle
    <2>4. CASE \E c \in Clients, j \in Jobs : ReportStart(r, c, j)
      BY <1>0, <2>4 DEF ReportStart, Idle, LeasedTo
    <2>5. CASE \E h \in Heads : EnqueueCheck(r, h)
      BY <1>0, <2>5 DEF EnqueueCheck, Idle
    <2> QED
      BY <2>1, <2>2, <2>3, <2>4, <2>5 DEF Arrive
  <1>2. TaskAddsUp(task[r])'
    BY <1>1 DEF TaskAddsUp, NoWrites, LeasedTo, Active, LikeLoaded, Relaying
  <1> QED
    BY <1>1, <1>2, QuietAddsUp DEF Relaying

\* The SELECT of a lease request, whatever rows it writes.
LEMMA SelectAddsUp ==
    ASSUME TypeInv, CohereInv, CalmInv, Undisturbed, NEW r \in Reqs,
           NEW pend \in [Jobs -> Row \cup {NoRow}],
           \A j \in Jobs : pend[j] # NoRow =>
               Advances(jobs[j], pend[j]) /\ Changed(jobs[j], pend[j]),
           task' = [task EXCEPT ![r].at = "commit", ![r].pend = pend],
           UNCHANGED <<jobs, comments>>
    PROVE  CalmInv' /\ AdvanceStep
  <1>1. /\ task'[r].at = "commit" /\ task'[r].pend = pend
        /\ \A q \in Reqs \ {r} : task'[q] = task[q]
    BY DEF TypeInv, TypeOK, Task
  <1>2. TaskAddsUp(task[r])'
    BY <1>1 DEF TaskAddsUp, Relaying
  <1> QED
    BY <1>1, <1>2, QuietAddsUp DEF Relaying

LEMMA LeaseAddsUp ==
    ASSUME TypeInv, WorkInv, CohereInv, CalmInv, Undisturbed, NEW r \in Reqs, LeaseStep(r)
    PROVE  CalmInv' /\ AdvanceStep
  <1> DEFINE c == task[r].client
  <1>0. /\ TypeOK /\ task[r] \in Task /\ TaskAddsUp(task[r])
        /\ \A j \in Jobs : jobs[j] \in Row /\ RowAddsUp(jobs[j])
    BY DEF TypeInv, TypeOK, CalmInv
  <1>1. task[r].at = "select" => c \in Clients
    BY DEF CohereInv, TaskCoheres
  <1>2. \A j \in Jobs : ReclaimWrites[j] # NoRow =>
            Advances(jobs[j], ReclaimWrites[j]) /\ Changed(jobs[j], ReclaimWrites[j])
    <2> SUFFICES ASSUME NEW j \in Jobs, Due(jobs[j])
                 PROVE  Advances(jobs[j], Reclaimed(jobs[j])) /\ Changed(jobs[j], Reclaimed(jobs[j]))
      BY DEF ReclaimWrites
    <2>1. CASE Clients = {}
      BY <1>0, <2>1, DispatchAssumption DEF Due, RowAddsUp, Row, ClientOrNull
    <2> QED
      BY <1>0, <2>1, LeaseWritesAdvance
  <1>3. ASSUME task[r].at = "select", NEW j \in Jobs, Reclaimed(jobs[j]).state = "queued"
        PROVE  /\ HandedOver(Reclaimed(jobs[j]), c) \in Row
               /\ Advances(jobs[j], HandedOver(Reclaimed(jobs[j]), c))
               /\ Changed(jobs[j], HandedOver(Reclaimed(jobs[j]), c))
    <2>1. Reclaimed(jobs[j]) \in Row /\ c \in ClientOrNull
      BY <1>0, RowOps DEF Task
    <2> QED
      BY <1>0, <1>1, <1>3, <2>1, RowOps, LeaseWritesAdvance
  <1>4. ASSUME task[r].at = "select", NEW j \in Jobs, Reclaimed(jobs[j]).state = "queued",
               task' = [task EXCEPT
                 ![r].at = "commit",
                 ![r].pend = [ReclaimWrites EXCEPT ![j] = HandedOver(Reclaimed(jobs[j]), c)]],
               UNCHANGED <<jobs, comments>>
        PROVE  CalmInv' /\ AdvanceStep
    <2> DEFINE new == HandedOver(Reclaimed(jobs[j]), c)
               pend == [ReclaimWrites EXCEPT ![j] = new]
    <2>1. new \in Row /\ Advances(jobs[j], new) /\ Changed(jobs[j], new)
      BY <1>3, <1>4
    <2>2. task' = [task EXCEPT ![r].at = "commit", ![r].pend = pend]
      BY <1>4
    <2> HIDE DEF new
    <2>3. /\ pend \in [Jobs -> Row \cup {NoRow}]
          /\ \A k \in Jobs : pend[k] # NoRow =>
                Advances(jobs[k], pend[k]) /\ Changed(jobs[k], pend[k])
      BY <1>0, <1>2, <2>1, ReclaimWritesTyped
    <2> HIDE DEF pend
    <2> QED
      BY <1>4, <2>2, <2>3, SelectAddsUp
  <1>5. CASE Touch(r)
    <2>1. /\ UNCHANGED <<jobs, comments>> /\ \A j \in Jobs : task'[r].pend[j] = NoRow
          /\ task'[r].at = IF task[r].op = "report" THEN "update" ELSE "select"
          /\ task'[r].job = task[r].job /\ task'[r].client = c /\ task'[r].seen = task[r].seen
          /\ task'[r].op = task[r].op /\ task[r].at = "touch"
          /\ \A q \in Reqs \ {r} : task'[q] = task[q]
      BY <1>0, <1>5, OwnWrites DEF Touch, TypeOK, Task
    <2>2. TaskAddsUp(task[r])'
      BY <1>0, <2>1 DEF TaskAddsUp, LeasedTo, Relaying, LikeLoaded, Active
    <2> QED
      BY <2>1, <2>2, QuietAddsUp DEF Relaying
  <1>6. CASE TouchGone(r) \/ LeaseRefusedStale(r)
    <2>1. Finish(r) /\ UNCHANGED <<jobs, comments>>
      BY <1>6 DEF TouchGone, LeaseRefusedStale
    <2> QED
      BY <2>1, FinishLeavesOthers, QuietAddsUp
  <1>7. CASE LeaseNextSelect(r)
    BY <1>4, <1>7 DEF LeaseNextSelect, Available
  <1>8. CASE LeaseOneSelect(r)
    <2>1. PICK j \in Jobs : j = task[r].job
      BY <1>8 DEF LeaseOneSelect, Available
    <2>2. /\ task[r].at = "select" /\ task[r].op = "lease_one" /\ j \in Available(r, c)
          /\ UNCHANGED <<jobs, comments>>
          /\ task' = [task EXCEPT
                 ![r].at = "commit",
                 ![r].pend = [ReclaimWrites EXCEPT
                    ![j] = HandedOverStale(Reclaimed(jobs[j]), Reclaimed(task[r].seen), c)]]
      BY <1>8, <2>1 DEF LeaseOneSelect
    <2>3. Reclaimed(jobs[j]).state = "queued"
      BY <2>2 DEF Available
    <2>4. Active(jobs[j])
      BY <2>3 DEF Reclaimed, Due, Active
    <2>5. LikeLoaded(task[r].seen, jobs[j]) /\ task[r].seen \in Row
      BY <1>0, <2>1, <2>2, <2>4 DEF TaskAddsUp, Task
    <2>6. HandedOverStale(Reclaimed(jobs[j]), Reclaimed(task[r].seen), c)
            = HandedOver(Reclaimed(jobs[j]), c)
      BY <1>0, <1>1, <2>2, <2>3, <2>5, StaleIsLike
    <2> QED
      BY <1>4, <2>2, <2>3, <2>6
  <1>9. CASE LeaseNothing(r)
    <2>1. /\ UNCHANGED <<jobs, comments>>
          /\ task' = [task EXCEPT ![r].at = "commit", ![r].pend = ReclaimWrites]
      BY <1>9 DEF LeaseNothing
    <2> QED
      BY <1>0, <1>2, <2>1, ReclaimWritesTyped, SelectAddsUp
  <1>10. CASE LeaseCommit(r)
    <2>1. UNCHANGED comments /\ Finish(r) /\ ~Relaying(task[r])
      BY <1>10 DEF LeaseCommit, Relaying
    <2>2. ASSUME NEW j \in Jobs
          PROVE  /\ Advances(jobs[j], jobs'[j])
                 /\ jobs'[j].lease = jobs[j].lease \/ Changed(jobs[j], jobs'[j])
                 /\ jobs'[j].state = "relayed" => jobs[j].state = "relayed"
                 /\ \A q \in Reqs \ {r} : task[q].pend[j] # NoRow => jobs'[j] = jobs[j]
      <3>1. CASE task[r].pend[j] = NoRow
        BY <1>0, <1>10, <3>1, RestAdvances DEF LeaseCommit, View
      <3>2. CASE task[r].pend[j] # NoRow
        <4>1. /\ jobs'[j] = task[r].pend[j]
              /\ \A q \in Reqs \ {r} : task[q].pend[j] = NoRow
          BY <1>0, <1>10, <3>2 DEF LeaseCommit, View, WorkInv, LocksHeld, LocksExclusive, Fit
        <4>2. Advances(jobs[j], task[r].pend[j]) /\ Changed(jobs[j], task[r].pend[j])
          BY <1>0, <3>2 DEF TaskAddsUp
        <4>3. task[r].pend[j].state # "relayed"
          BY <1>10, <3>2 DEF CohereInv, TaskCoheres, WriteCoheres
        <4> QED
          BY <4>1, <4>2, <4>3
      <3> QED
        BY <3>1, <3>2
    <2> QED
      BY <2>1, <2>2, FinishLeavesOthers, CommitAddsUp DEF AdvanceStep
  <1> QED
    BY <1>5, <1>6, <1>7, <1>8, <1>9, <1>10 DEF LeaseStep

LEMMA ReportAddsUp ==
    ASSUME TypeInv, WorkInv, CohereInv, CalmInv, Undisturbed, NEW r \in Reqs, ReportStep(r)
    PROVE  CalmInv' /\ AdvanceStep
  <1> DEFINE c == task[r].client
  <1>0. /\ TypeOK /\ task[r] \in Task /\ TaskAddsUp(task[r]) /\ task[r].job \in Jobs
        /\ c \in Clients /\ \A j \in Jobs : jobs[j] \in Row /\ RowAddsUp(jobs[j])
        /\ \A j \in Jobs : task[r].pend[j] = NoRow
    BY OwnWrites DEF TypeInv, TypeOK, ReportShape, ReportStep, ReportUpdate, Relay,
           RelaySucceeded, RelayFailed, CalmInv
  <1>k. PICK k \in Jobs : k = task[r].job
    BY <1>0
  <1> USE <1>k
  <1>1. CASE Relay(r)
    <2>1. /\ UNCHANGED jobs /\ task[r].at = "relay" /\ task'[r].job = k
          /\ task'[r].at \in {"relayed", "failed"}
          /\ \A q \in Reqs \ {r} : task'[q] = task[q]
          /\ \A j \in Jobs : task'[r].pend[j] = NoRow
      BY <1>0, <1>1 DEF Relay, TypeOK, Task
    <2>2. /\ comments'[k] \in {comments[k], comments[k] + 1}
          /\ \A j \in Jobs : j # k => comments'[j] = comments[j]
      BY <1>0, <1>1 DEF Relay, TypeOK
    <2>3. jobs[k].state = "reported" /\ comments[k] = 0
      BY <1>0, <2>1 DEF TaskAddsUp, Relaying
    <2>4. CommentsAddUp'
      BY <2>1, <2>2, <2>3 DEF CommentsAddUp, CalmInv
    <2>5. TaskAddsUp(task[r])'
      BY <2>1, <2>3 DEF TaskAddsUp, Relaying
    <2>6. AdvanceStep
      BY <1>0, <2>1, RestAdvances DEF AdvanceStep
    <2>7. (\A j \in Jobs : RowAddsUp(jobs[j]))'
      BY <2>1 DEF CalmInv, RowAddsUp
    <2>8. ASSUME NEW q \in Reqs \ {r}
          PROVE  TaskAddsUp(task[q])'
      <3>1. ASSUME Relaying(task[q])
            PROVE  task[q].job \in Jobs /\ task[q].job # k /\ jobs[task[q].job].state = "reported"
        BY <1>0, <2>1, <3>1 DEF CalmInv, RelaysApart, TaskAddsUp, Relaying, TypeInv, ReportShape
      <3> QED
        BY <2>1, <2>2, <2>6, <3>1, OthersStand
    <2>9. RelaysApart'
      <3>1. \A q \in Reqs : Relaying(task'[q]) => Relaying(task[q]) /\ task'[q].job = task[q].job
        BY <1>0, <2>1 DEF Relaying
      <3> QED
        BY <3>1 DEF CalmInv, RelaysApart, Relaying
    <2> QED
      BY <2>4, <2>5, <2>6, <2>7, <2>8, <2>9 DEF CalmInv
  <1>2. CASE ReportUpdate(r) \/ RelaySucceeded(r) \/ RelayFailed(r)
    <2>1. /\ UNCHANGED comments /\ \A j \in Jobs : j # k => jobs'[j] = jobs[j]
          /\ \A q \in Reqs \ {r} : task'[q] = task[q]
          /\ \A q \in Reqs \ {r} : task[q].pend[k] = NoRow
      <3>1. ~Waiting(r) /\ k \in Wanted(r)
        BY <1>2, WantedRows DEF ReportUpdate, RelaySucceeded, RelayFailed
      <3>2. ~Locked(r, k)
        BY <3>1, NotWaiting
      <3> QED
        BY <1>0, <1>2, <3>2 DEF ReportUpdate, RelaySucceeded, RelayFailed, TypeOK, Finish, Locked
    <2>2. ASSUME jobs[k].state = "leased" \/ jobs[k].state = "reported",
                 jobs'[k].lease = jobs[k].lease \/ Changed(jobs[k], jobs'[k]),
                 Advances(jobs[k], jobs'[k])
          PROVE  /\ AdvanceStep
                 /\ \A j \in Jobs : jobs'[j].lease = jobs[j].lease \/ Changed(jobs[j], jobs'[j])
                 /\ \A j \in Jobs, q \in Reqs \ {r} : task[q].pend[j] # NoRow => jobs'[j] = jobs[j]
      BY <1>0, <2>1, <2>2, RestAdvances DEF AdvanceStep
    <2>3. CASE ReportUpdate(r)
      <3>1. /\ task'[r].at = "relay" /\ task'[r].job = k /\ ~Relaying(task[r])
            /\ \A j \in Jobs : task'[r].pend[j] = NoRow
            /\ jobs[k].state = "leased" /\ jobs'[k] = Reported(jobs[k], c)
        BY <1>0, <2>3 DEF ReportUpdate, TypeOK, Task, TaskAddsUp, LeasedTo, Relaying
      <3>2. /\ jobs'[k].state = "reported" /\ jobs'[k].leased_by = None
            /\ jobs'[k].attempts = jobs[k].attempts /\ jobs'[k].head = jobs[k].head
        BY <1>0, <3>1 DEF Reported, Row
      <3>3. Advances(jobs[k], jobs'[k]) /\ Changed(jobs[k], jobs'[k])
        BY <1>0, <3>1, <3>2 DEF Advances, Moves, RowAddsUp, Changed
      <3>4. comments[k] = 0
        BY <1>0, <3>1 DEF CalmInv, CommentsAddUp, TypeOK
      <3>5. TaskAddsUp(task[r])'
        BY <2>1, <3>1, <3>2, <3>4 DEF TaskAddsUp, Relaying
      <3>6. \A q \in Reqs : Relaying(task[q]) => task[q].job \in Jobs /\ task[q].job # k
        BY <1>0, <3>1 DEF CalmInv, TaskAddsUp, TypeInv, ReportShape, Relaying
      <3>7. ASSUME NEW q \in Reqs \ {r}
            PROVE  TaskAddsUp(task[q])'
        <4>1. Relaying(task[q]) => jobs'[task[q].job].state = "reported"
          BY <2>1, <3>6 DEF CalmInv, TaskAddsUp
        <4> QED
          BY <2>1, <2>2, <3>1, <3>3, <4>1, OthersStand
      <3>8. RelaysApart'
        <4>1. \A q \in Reqs \ {r} : Relaying(task'[q]) =>
                  Relaying(task[q]) /\ task'[q].job = task[q].job /\ task'[q].job # k
          BY <2>1, <3>6
        <4> QED
          BY <3>1, <4>1 DEF CalmInv, RelaysApart, Relaying
      <3> QED
        BY <2>1, <2>2, <3>1, <3>3, <3>5, <3>7, <3>8, AdvanceKeepsRows DEF CalmInv
    <2>4. CASE RelaySucceeded(r) \/ RelayFailed(r)
      <3>1. /\ jobs'[k].leased_by = jobs[k].leased_by /\ jobs'[k].lease = jobs[k].lease
            /\ jobs'[k].attempts = jobs[k].attempts /\ jobs'[k].head = jobs[k].head
            /\ jobs'[k].state \in {jobs[k].state, "relayed"}
            /\ Finish(r) /\ Relaying(task[r])
        BY <1>0, <2>4 DEF RelaySucceeded, RelayFailed, TypeOK, Row, Relaying
      <3>2. jobs[k].state = "reported"
        BY <1>0, <3>1 DEF TaskAddsUp
      <3>3. Advances(jobs[k], jobs'[k])
        BY <1>0, <3>1, <3>2 DEF Advances, Moves, RowAddsUp
      <3>4. \A j \in Jobs : jobs'[j].state = "relayed" =>
                jobs[j].state = "relayed" \/ (Relaying(task[r]) /\ task[r].job = j)
        BY <2>1, <3>1
      <3> QED
        BY <2>1, <2>2, <3>1, <3>2, <3>3, <3>4, FinishLeavesOthers, CommitAddsUp
    <2> QED
      BY <1>2, <2>3, <2>4
  <1> QED
    BY <1>1, <1>2 DEF ReportStep

LEMMA RevokeAddsUp ==
    ASSUME TypeInv, WorkInv, CohereInv, CalmInv, Undisturbed, NEW r \in Reqs, RevokeStep(r)
    PROVE  CalmInv' /\ AdvanceStep
  <1> DEFINE c == task[r].client
  <1>0. /\ TypeOK /\ task[r] \in Task /\ TaskAddsUp(task[r])
        /\ \A j \in Jobs : jobs[j] \in Row /\ RowAddsUp(jobs[j])
        /\ MaxAttempts \in Nat
    BY DispatchAssumption DEF TypeInv, TypeOK, CalmInv
  <1>1. CASE RevokeRequeue(r)
    <2>1. /\ UNCHANGED <<jobs, comments>> /\ task'[r].at = "exhaust" /\ task'[r].client = c
          /\ \A q \in Reqs \ {r} : task'[q] = task[q]
          /\ \A j \in Jobs : task'[r].pend[j] =
                IF LeasedTo(jobs[j], c) /\ jobs[j].attempts < MaxAttempts
                THEN Requeued(jobs[j]) ELSE NoRow
      BY <1>0, <1>1, WantedRows DEF RevokeRequeue, TypeOK, Task
    <2>2. ASSUME NEW j \in Jobs, LeasedTo(jobs[j], c), jobs[j].attempts < MaxAttempts
          PROVE  /\ Requeued(jobs[j]) # NoRow /\ Requeued(jobs[j]).state # "leased"
                 /\ Advances(jobs[j], Requeued(jobs[j])) /\ Changed(jobs[j], Requeued(jobs[j]))
      <3>1. Requeued(jobs[j]) \in Row
        BY <1>0, RowOps DEF ClientOrNull
      <3> QED
        BY <1>0, <2>2, <3>1, RevokeWritesAdvance, DispatchAssumption DEF LeasedTo
    <2>3. TaskAddsUp(task[r])'
      BY <2>1, <2>2 DEF TaskAddsUp, LeasedTo, Relaying
    <2> QED
      BY <2>1, <2>3, QuietAddsUp DEF Relaying
  <1>2. CASE RevokeExhaust(r)
    <2>1. /\ UNCHANGED <<jobs, comments>> /\ task'[r].at = "delete" /\ task'[r].client = c
          /\ \A q \in Reqs \ {r} : task'[q] = task[q]
          /\ task[r].at = "exhaust"
          /\ \A j \in Jobs : task'[r].pend[j] = IF LeasedTo(View(r)[j], c)
                                                THEN Exhausted(jobs[j]) ELSE task[r].pend[j]
      BY <1>0, <1>2, WantedRows DEF RevokeExhaust, TypeOK, Task
    <2>2. ASSUME NEW j \in Jobs, task[r].pend[j] # NoRow
          PROVE  /\ task[r].pend[j].state # "leased" /\ ~LeasedTo(View(r)[j], c)
                 /\ Advances(jobs[j], task[r].pend[j]) /\ Changed(jobs[j], task[r].pend[j])
      BY <1>0, <2>1, <2>2 DEF TaskAddsUp, View, LeasedTo
    <2>3. ASSUME NEW j \in Jobs, LeasedTo(View(r)[j], c)
          PROVE  /\ Exhausted(jobs[j]) # NoRow /\ Exhausted(jobs[j]).state # "leased"
                 /\ Advances(jobs[j], Exhausted(jobs[j])) /\ Changed(jobs[j], Exhausted(jobs[j]))
      <3>1. task[r].pend[j] = NoRow /\ LeasedTo(jobs[j], c)
        BY <2>2, <2>3 DEF View
      <3>2. jobs[j].attempts >= MaxAttempts
        BY <1>0, <2>1, <3>1 DEF TaskAddsUp, Row
      <3>3. Exhausted(jobs[j]) \in Row
        BY <1>0, RowOps DEF ClientOrNull
      <3> QED
        BY <1>0, <3>1, <3>2, <3>3, RevokeWritesAdvance, DispatchAssumption DEF LeasedTo
    <2>4. ASSUME NEW j \in Jobs, LeasedTo(jobs[j], c)
          PROVE  task'[r].pend[j] # NoRow
      BY <2>1, <2>3, <2>4 DEF View
    <2>5. TaskAddsUp(task[r])'
      BY <2>1, <2>2, <2>3, <2>4 DEF TaskAddsUp, LeasedTo, Relaying
    <2> QED
      BY <2>1, <2>5, QuietAddsUp DEF Relaying
  <1>3. CASE RevokeDelete(r)
    <2>1. /\ Finish(r) /\ UNCHANGED comments /\ task[r].at = "delete" /\ ~Waiting(r)
          /\ ~Relaying(task[r])
      BY <1>3 DEF RevokeDelete, Relaying
    <2>2. ASSUME NEW j \in Jobs
          PROVE  /\ Advances(jobs[j], jobs'[j])
                 /\ jobs'[j].lease = jobs[j].lease \/ Changed(jobs[j], jobs'[j])
                 /\ jobs'[j].state = "relayed" => jobs[j].state = "relayed"
                 /\ \A q \in Reqs \ {r} : task[q].pend[j] # NoRow => jobs'[j] = jobs[j]
      <3> DEFINE row == View(r)[j]
      <3>1. row \in Row /\ jobs'[j] = Unlinked(row, c)
        BY <1>0, <1>3, ViewIsTable DEF RevokeDelete
      <3>2. /\ Advances(jobs[j], row) /\ RowAddsUp(row)
            /\ row = jobs[j] \/ (Changed(jobs[j], row) /\ row.state # "relayed")
        <4>1. CASE task[r].pend[j] = NoRow
          BY <1>0, <4>1, RestAdvances DEF View
        <4>2. CASE task[r].pend[j] # NoRow
          BY <1>0, <4>2 DEF View, TaskAddsUp, WorkInv, LocksHeld, Fit, Advances,
                            CohereInv, TaskCoheres, WriteCoheres
        <4> QED
          BY <4>1, <4>2
      <3>3. ~LeasedTo(row, c)
        BY <1>0, <2>1 DEF View, TaskAddsUp, LeasedTo
      <3>4. ASSUME NEW q \in Reqs \ {r}, task[q].pend[j] # NoRow
            PROVE  row = jobs[j] /\ c \notin {row.leased_by, row.reported_by}
        <4>1. row = jobs[j]
          BY <3>4 DEF View, WorkInv, LocksExclusive
        <4>2. j \notin Wanted(r)
          BY <2>1, <3>4, NotWaiting DEF Locked
        <4> QED
          BY <2>1, <4>1, <4>2, WantedRows
      <3> HIDE DEF row
      <3>5. /\ jobs'[j].leased_by = row.leased_by /\ jobs'[j].state = row.state
            /\ jobs'[j].attempts = row.attempts /\ jobs'[j].head = row.head
            /\ jobs'[j].lease = row.lease
        BY <3>1, <3>2, <3>3, UnlinkedFields DEF RowAddsUp, LeasedTo, Unlinked, Row
      <3>6. c \notin {row.leased_by, row.reported_by} => jobs'[j] = row
        BY <3>1 DEF Unlinked, Row
      <3>7. Advances(jobs[j], jobs'[j])
        BY <3>2, <3>5 DEF Advances, Moves, RowAddsUp
      <3>8. /\ jobs'[j].lease = jobs[j].lease \/ Changed(jobs[j], jobs'[j])
            /\ jobs'[j].state = "relayed" => jobs[j].state = "relayed"
        BY <3>2, <3>5 DEF Changed
      <3> QED
        BY <3>4, <3>6, <3>7, <3>8
    <2> QED
      BY <2>1, <2>2, FinishLeavesOthers, CommitAddsUp DEF AdvanceStep
  <1> QED
    BY <1>1, <1>2, <1>3 DEF RevokeStep

LEMMA InsertAddsUp ==
    ASSUME TypeInv, WorkInv, CohereInv, CalmInv, Undisturbed, NEW r \in Reqs, EnqueueInsert(r)
    PROVE  CalmInv' /\ AdvanceStep
  <1> DEFINE row == [Absent EXCEPT !.state = "queued", !.head = task[r].head]
  <1>1. PICK k \in Jobs : jobs[k].state = "absent" /\ jobs' = [jobs EXCEPT ![k] = row]
    BY DEF EnqueueInsert
  <1>2. /\ row.state = "queued" /\ row.leased_by = None /\ row.attempts = 0
        /\ row.head = task[r].head
    BY DEF Absent
  <1>3. /\ jobs'[k] = row /\ \A j \in Jobs : j # k => jobs'[j] = jobs[j]
        /\ UNCHANGED comments /\ Finish(r) /\ task[r].at = "insert"
    BY <1>1 DEF TypeInv, TypeOK, EnqueueInsert
  <1> HIDE DEF row
  <1>4. AdvanceStep
    <2>1. Advances(jobs[k], jobs'[k])
      BY <1>1, <1>2, <1>3, DispatchAssumption DEF Advances, Moves, RowAddsUp
    <2>2. \A j \in Jobs : j # k => Advances(jobs[j], jobs'[j])
      BY <1>3, RestAdvances DEF CalmInv
    <2> QED
      BY <2>1, <2>2 DEF AdvanceStep
  <1>5. ASSUME NEW q \in Reqs
        PROVE  /\ TaskAddsUp(task[q])'
               /\ Relaying(task'[q]) => Relaying(task[q]) /\ task'[q].job = task[q].job
    <2>1. CASE q = r
      BY <1>3, <2>1, FinishLeavesOthers
    <2>2. CASE q # r
      <3>1. task'[q] = task[q] /\ task[q].pend[k] = NoRow
        BY <1>1, <1>3, <2>2, FinishLeavesOthers DEF WorkInv, LocksHeld, Fit
      <3>2. Relaying(task[q]) => jobs'[task[q].job].state # "relayed"
        BY <1>2, <1>3 DEF CalmInv, TaskAddsUp, TypeInv, ReportShape, Relaying
      <3>3. \A j \in Jobs : jobs'[j].lease = jobs[j].lease \/ Changed(jobs[j], jobs'[j])
        BY <1>1, <1>2, <1>3 DEF Changed
      <3> QED
        BY <1>3, <1>4, <3>1, <3>2, <3>3, OthersStand
    <2> QED
      BY <2>1, <2>2
  <1>6. RelaysApart'
    BY <1>5 DEF CalmInv, RelaysApart, Relaying
  <1> QED
    BY <1>3, <1>4, <1>5, <1>6, AdvanceKeepsRows DEF CalmInv

\* A lease runs out: the request keeps what it has read and written, and the
\* object that lease_one loaded keeps step with the row.
LEMMA ClockStands ==
    ASSUME TypeInv, CalmInv, NEW k \in Jobs, LeaseExpires(k), NEW r \in Reqs
    PROVE  /\ TaskAddsUp(task[r])'
           /\ task'[r].at = task[r].at /\ task'[r].job = task[r].job
  <1>0. /\ task[r] \in Task /\ TaskAddsUp(task[r])
        /\ \A j \in Jobs : jobs[j] \in Row
    BY DEF TypeInv, TypeOK, CalmInv
  <1>1. /\ UNCHANGED comments /\ jobs[k].state = "leased" /\ jobs[k].lease = "running"
        /\ jobs'[k] = [jobs[k] EXCEPT !.lease = "lapsed"]
        /\ \A j \in Jobs : j # k => jobs'[j] = jobs[j]
        /\ task'[r] = IF /\ task[r].job = k /\ LeasedTo(task[r].seen, jobs[k].leased_by)
                         /\ task[r].seen.lease = "running"
                         /\ task[r].seen.attempts = jobs[k].attempts
                      THEN [task[r] EXCEPT !.seen.lease = "lapsed"] ELSE task[r]
    BY DEF LeaseExpires, TypeInv, TypeOK
  <1>2. /\ task'[r].pend = task[r].pend /\ task'[r].at = task[r].at
        /\ task'[r].client = task[r].client /\ task'[r].job = task[r].job
        /\ task'[r].op = task[r].op /\ task'[r].head = task[r].head
    BY <1>0, <1>1 DEF Task
  <1>3. ASSUME NEW j \in Jobs
        PROVE  /\ jobs'[j].leased_by = jobs[j].leased_by /\ jobs'[j].head = jobs[j].head
               /\ jobs'[j].attempts = jobs[j].attempts /\ jobs'[j].state = jobs[j].state
    BY <1>0, <1>1 DEF Row
  <1>4. ASSUME task[r].at \in {"touch", "select"}, task[r].op = "lease_one",
               Active(jobs'[task[r].job])
        PROVE  LikeLoaded(task'[r].seen, jobs'[task[r].job])
    <2>1. task[r].job \in Jobs /\ LikeLoaded(task[r].seen, jobs[task[r].job])
      BY <1>0, <1>3, <1>4 DEF TaskAddsUp, Active
    <2>2. CASE task[r].job = k
      <3>1. task'[r] = [task[r] EXCEPT !.seen.lease = "lapsed"]
        BY <1>1, <2>1, <2>2 DEF LeasedTo, LikeLoaded
      <3>2. task'[r].seen = [task[r].seen EXCEPT !.lease = "lapsed"] /\ task[r].seen \in Row
        BY <1>0, <3>1 DEF Task
      <3>3. /\ task'[r].seen.state = task[r].seen.state
            /\ task'[r].seen.leased_by = task[r].seen.leased_by
            /\ task'[r].seen.attempts = task[r].seen.attempts
            /\ task'[r].seen.lease = "lapsed" /\ jobs'[k].lease = "lapsed"
        BY <1>0, <1>1, <3>2 DEF Row
      <3> QED
        BY <1>3, <2>1, <2>2, <3>3 DEF LikeLoaded
    <2>3. CASE task[r].job # k
      BY <1>1, <2>1, <2>3
    <2> QED
      BY <2>2, <2>3
  <1>5. ASSUME NEW j \in Jobs, task[r].pend[j] # NoRow
        PROVE  Advances(jobs'[j], task[r].pend[j]) /\ Changed(jobs'[j], task[r].pend[j])
    <2>1. Advances(jobs[j], task[r].pend[j]) /\ Changed(jobs[j], task[r].pend[j])
      BY <1>0, <1>5 DEF TaskAddsUp
    <2> QED
      BY <1>3, <2>1 DEF Advances, Moves, Changed
  <1>6. Relaying(task[r]) \/ task[r].at = "update" \/ (task[r].at = "touch" /\ task[r].op = "report")
        => task[r].job \in Jobs
    BY DEF TypeInv, ReportShape, Relaying
  <1>7. \A j \in Jobs : /\ \A c : LeasedTo(jobs'[j], c) <=> LeasedTo(jobs[j], c)
                        /\ Active(jobs'[j]) <=> Active(jobs[j])
    BY <1>3 DEF LeasedTo, Active
  <1>8. TaskAddsUp(task[r])'
    BY <1>0, <1>1, <1>2, <1>3, <1>4, <1>5, <1>6, <1>7 DEF TaskAddsUp, Relaying
  <1> QED
    BY <1>2, <1>8

LEMMA EnvironmentAddsUp ==
    ASSUME TypeInv, CohereInv, CalmInv, Undisturbed, Environment
    PROVE  CalmInv' /\ AdvanceStep
  <1>0. \A j \in Jobs : jobs[j] \in Row /\ RowAddsUp(jobs[j])
    BY DEF TypeInv, TypeOK, CalmInv
  <1>1. ASSUME NEW c \in Clients, CheckIn(c) \/ CheckOut(c) \/ AccessExpires(c)
        PROVE  CalmInv' /\ AdvanceStep
    <2>1. UNCHANGED <<jobs, task, comments>>
      BY <1>1 DEF CheckIn, CheckOut, AccessExpires
    <2>2. \A r \in Reqs : TaskAddsUp(task[r])'
      BY <2>1, QuietOthers
    <2>3. /\ CommentsAddUp' /\ RelaysApart'
          /\ (\A j \in Jobs : RowAddsUp(jobs[j]))'
      BY <2>1 DEF CalmInv, CommentsAddUp, RelaysApart, Relaying, RowAddsUp
    <2> QED
      BY <1>0, <2>1, <2>2, <2>3, RestAdvances DEF AdvanceStep, CalmInv
  <1>2. ASSUME NEW k \in Jobs, LeaseExpires(k)
        PROVE  CalmInv' /\ AdvanceStep
    <2>1. /\ UNCHANGED comments /\ jobs'[k] = [jobs[k] EXCEPT !.lease = "lapsed"]
          /\ \A j \in Jobs : j # k => jobs'[j] = jobs[j]
      BY <1>2 DEF LeaseExpires, TypeInv, TypeOK
    <2>2. ASSUME NEW j \in Jobs
          PROVE  /\ jobs'[j].leased_by = jobs[j].leased_by /\ jobs'[j].head = jobs[j].head
                 /\ jobs'[j].attempts = jobs[j].attempts /\ jobs'[j].state = jobs[j].state
      BY <1>0, <2>1 DEF Row
    <2>3. AdvanceStep
      BY <1>0, <2>2, RestAdvances DEF AdvanceStep
    <2>4. (\A r \in Reqs : TaskAddsUp(task[r]))' /\ RelaysApart'
      BY <1>2, ClockStands DEF CalmInv, RelaysApart, Relaying
    <2>5. CommentsAddUp' /\ (\A j \in Jobs : RowAddsUp(jobs[j]))'
      BY <2>1, <2>3, AdvanceKeepsRows
    <2> QED
      BY <2>3, <2>4, <2>5 DEF CalmInv
  <1>3. ASSUME NEW p \in Pulls, CancelQueued(p)
        PROVE  CalmInv' /\ AdvanceStep
    <2>1. UNCHANGED <<comments, task>>
      BY <1>3 DEF CancelQueued
    <2>2. ASSUME NEW j \in Jobs
          PROVE  \/ jobs'[j] = jobs[j]
                 \/ /\ \A q \in Reqs : task[q].pend[j] = NoRow
                    /\ jobs[j].state = "queued"
                    /\ jobs'[j] = [jobs[j] EXCEPT !.state = "cancelled"]
      BY <1>3 DEF CancelQueued
    <2>3. ASSUME NEW j \in Jobs
          PROVE  /\ jobs'[j].leased_by = jobs[j].leased_by /\ jobs'[j].head = jobs[j].head
                 /\ jobs'[j].attempts = jobs[j].attempts /\ jobs'[j].lease = jobs[j].lease
                 /\ \/ jobs'[j] = jobs[j]
                    \/ /\ jobs[j].state = "queued" /\ jobs'[j].state = "cancelled"
                       /\ \A q \in Reqs : task[q].pend[j] = NoRow
      BY <1>0, <2>2 DEF Row
    <2>4. ASSUME NEW j \in Jobs
          PROVE  Advances(jobs[j], jobs'[j])
      BY <1>0, <2>3 DEF Advances, Moves, RowAddsUp
    <2>5. AdvanceStep
      BY <2>4 DEF AdvanceStep
    <2>6. ASSUME NEW r \in Reqs
          PROVE  TaskAddsUp(task[r])'
      <3>1. Relaying(task[r]) => jobs'[task[r].job].state # "relayed"
        BY <2>3 DEF CalmInv, TaskAddsUp, TypeInv, ReportShape, Relaying
      <3> QED
        BY <2>1, <2>3, <2>5, <3>1, OthersStand
    <2>7. /\ CommentsAddUp' /\ RelaysApart'
          /\ (\A j \in Jobs : RowAddsUp(jobs[j]))'
      BY <2>1, <2>4, <2>5, AdvanceKeepsRows DEF CalmInv, RelaysApart, Relaying
    <2> QED
      BY <2>5, <2>6, <2>7 DEF CalmInv
  <1> QED
    BY <1>1, <1>2, <1>3 DEF Environment

LEMMA CalmStep ==
    TypeInv /\ WorkInv /\ CohereInv /\ CalmInv /\ [Next /\ Undisturbed]_vars
    => CalmInv' /\ AdvanceStep
  <1> SUFFICES ASSUME TypeInv, WorkInv, CohereInv, CalmInv, [Next /\ Undisturbed]_vars
               PROVE  CalmInv' /\ AdvanceStep
    OBVIOUS
  <1>1. CASE UNCHANGED vars
    <2>1. CalmInv'
      BY <1>1 DEF vars, CalmInv, CommentsAddUp, RelaysApart, Relaying, Active,
                  RowAddsUp, TaskAddsUp, LeasedTo, LikeLoaded, Advances, Moves, Changed
    <2> QED
      BY <1>1, <2>1, RestAdvances DEF vars, AdvanceStep, CalmInv
  <1>2. CASE Next /\ Undisturbed
    <2>1. ASSUME NEW r \in Reqs, Abort(r) \/ BreakDeadlock(r)
          PROVE  CalmInv' /\ AdvanceStep
      <3>1. Finish(r) /\ UNCHANGED <<jobs, comments>>
        BY <2>1 DEF Abort, BreakDeadlock
      <3> QED
        BY <1>2, <3>1, FinishLeavesOthers, QuietAddsUp
    <2>2. ASSUME NEW r \in Reqs, TaskStep(r)
          PROVE  CalmInv' /\ AdvanceStep
      BY <1>2, <2>2, LeaseAddsUp, ReportAddsUp, RevokeAddsUp, InsertAddsUp DEF TaskStep
    <2> QED
      BY <1>2, <2>1, <2>2, ArriveAddsUp, EnvironmentAddsUp DEF Next
  <1> QED
    BY <1>1, <1>2

LEMMA CalmInvariant == UndisturbedSpec => [](TypeInv /\ WorkInv /\ CohereInv /\ CalmInv)
  <1>1. UndisturbedSpec => Spec
    <2>1. [Next /\ Undisturbed]_vars => [Next]_vars
      OBVIOUS
    <2> QED
      BY <2>1, PTL DEF UndisturbedSpec, Spec
  <1>2. TypeInv /\ WorkInv /\ CohereInv /\ CalmInv /\ [Next /\ Undisturbed]_vars => CalmInv'
    BY CalmStep
  <1> QED
    BY <1>1, <1>2, CohereInvariant, CalmInit, PTL DEF UndisturbedSpec

\* However requests overlap, as long as nobody's commit comes between what a
\* request has read without a lock and the statement that goes by it: no lease is
\* left without a holder, no job given up early or offered while it is held, and
\* none is leased more often than allowed.
THEOREM CalmLeasesAddUp == UndisturbedSpec => []LeasesAddUp
  <1>1. TypeInv /\ CalmInv => LeasesAddUp
    BY DEF CalmInv, RowAddsUp, LeasesAddUp, NoOrphanedLease, ExhaustedMeansSpent,
           QueuedIsFree, AttemptBudget
  <1> QED
    BY <1>1, CalmInvariant, PTL

\* A pull request hears of a finished job once: the request that wrote the
\* result is the only one to post the comment.
THEOREM CalmCommentedOnce == UndisturbedSpec => []CommentedOnce
  <1>1. CalmInv => CommentedOnce
    BY DEF CalmInv, CommentsAddUp, CommentedOnce
  <1> QED
    BY <1>1, CalmInvariant, PTL

\* And requests implement the lifecycle of models/review_job.py: every commit
\* moves each job along it or leaves the job where it is.
THEOREM CalmImplementsLifecycle == UndisturbedSpec => FollowsLifecycle
  <1>1. Init => Lifecycle!Init
    BY DEF Init, Lifecycle!Init, Absent
  <1>2. TypeInv /\ WorkInv /\ CohereInv /\ CalmInv /\ [Next /\ Undisturbed]_vars
        => [Lifecycle!Next]_(Lifecycle!vars)
    <2> SUFFICES ASSUME TypeInv, WorkInv, CohereInv, CalmInv, [Next /\ Undisturbed]_vars
                 PROVE  Lifecycle!Next
      OBVIOUS
    <2>1. AdvanceStep
      BY CalmStep
    <2>2. ASSUME NEW j \in Jobs
          PROVE  Lifecycle!Move(j) \/ Lifecycle!Rest(j)
      <3>1. Moves(jobs[j], jobs'[j])
        BY <2>1 DEF AdvanceStep, Advances
      <3> QED
        BY <3>1 DEF Moves, Lifecycle!Move, Lifecycle!Rest, Lifecycle!Enqueued, Lifecycle!Leased,
                    Lifecycle!GivenBack, Lifecycle!GivenUp, Lifecycle!ReportedBack,
                    Lifecycle!Relayed, Lifecycle!Cancelled, Lifecycle!Goes
    <2> QED
      BY <2>2 DEF Lifecycle!Next
  <1> QED
    BY <1>1, <1>2, CalmInvariant, PTL DEF UndisturbedSpec, FollowsLifecycle, Lifecycle!Spec
=============================================================================
