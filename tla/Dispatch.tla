------------------------------ MODULE Dispatch ------------------------------
(***************************************************************************)
(* The hub's job table and the HTTP handlers that move jobs through it:    *)
(* lease (next and by name), report and relay, revoke, the pull_request    *)
(* webhook, check-in and check-out.  Handlers are asyncio tasks over one   *)
(* Postgres database at READ COMMITTED, so each is a process that advances *)
(* one statement (or one await) at a time: it sees what is committed, plus *)
(* its own uncommitted writes, and a write waits for the row lock.         *)
(***************************************************************************)
EXTENDS Integers

CONSTANTS
    Clients,      \* review_client rows: the machines registered on the grid
    Pulls,        \* pull requests (repo_full_name, pr_number)
    Heads,        \* heads of those pull requests (repo, pr, head_sha)
    PullOf,       \* the pull request each head belongs to
    CanTake,      \* <<client, head>> pairs that clear every dispatch gate
    Reqs,         \* handler tasks that may be in flight at the same time
    Ops,          \* bound: the kinds of request that arrive, and whether one may die
    MaxJobs,      \* bound: rows ever inserted into review_job
    MaxAttempts,  \* ReviewJob.max_attempts
    Steady,       \* clients that stay checked in, attested and unrevoked
    None,         \* SQL NULL
    NoRow         \* "this transaction has not written that row"

Jobs == 1 .. MaxJobs            \* ids in created_at order

JobState == {"absent", "queued", "leased", "reported", "relayed",
             "exhausted", "cancelled"}

ClientOrNull == Clients \cup {None}

\* lease_expires_at is NULL, in the future, or in the past.
LeaseClock == {"null", "running", "lapsed"}

\* One review_job row.  `verdict' stands for the whole result payload and
\* records which client wrote it.
Row == [state : JobState, head : Heads \cup {None}, leased_by : ClientOrNull,
        lease : LeaseClock, attempts : Nat, verdict : ClientOrNull,
        reported_by : ClientOrNull, relay_error : BOOLEAN]

Absent == [state |-> "absent", head |-> None, leased_by |-> None,
           lease |-> "null", attempts |-> 0, verdict |-> None,
           reported_by |-> None, relay_error |-> FALSE]

Op == {"none", "lease_next", "lease_one", "report", "revoke", "enqueue", "abort"}
Step == {"idle", "touch", "select", "commit", "update", "relay", "relayed",
         "failed", "release", "exhaust", "delete", "insert"}

NoWrites == [j \in Jobs |-> NoRow]

\* What one handler task holds: where it is, the client that called it (or is
\* being revoked), the job or head it names, the ReviewJob object its session
\* loaded, and the rows its open transaction has written and so locked.
Task == [op : Op, at : Step, client : ClientOrNull, job : Jobs \cup {0},
         head : Heads \cup {None}, seen : Row,
         pend : [Jobs -> Row \cup {NoRow}]]

Idle == [op |-> "none", at |-> "idle", client |-> None, job |-> 0,
         head |-> None, seen |-> Absent, pend |-> NoWrites]

ClientStatus == {"checked_in", "checked_out", "revoked"}

ASSUME DispatchAssumption ==
    /\ MaxJobs \in Nat
    /\ MaxAttempts \in Nat \ {0}
    /\ PullOf \in [Heads -> Pulls]
    /\ CanTake \subseteq Clients \X Heads
    /\ Steady \subseteq Clients
    /\ Ops \subseteq Op
    /\ None \notin Clients \cup Heads
    /\ NoRow \notin Row

VARIABLES
    jobs,      \* the committed review_job table
    status,    \* the committed review_client table: status, or deleted
    fresh,     \* whether the client's GitHub access snapshot is inside its TTL
    task,      \* the handler tasks
    comments   \* comments posted on the pull request for each job (GitHub)

vars == <<jobs, status, fresh, task, comments>>

-----------------------------------------------------------------------------
(* Rows, locks and views *)

Init ==
    /\ jobs = [j \in Jobs |-> Absent]
    /\ status = [c \in Clients |-> IF c \in Steady THEN "checked_in" ELSE "checked_out"]
    /\ fresh = [c \in Clients |-> TRUE]
    /\ task = [r \in Reqs |-> Idle]
    /\ comments = [j \in Jobs |-> 0]

TypeOK ==
    /\ jobs \in [Jobs -> Row]
    /\ status \in [Clients -> ClientStatus]
    /\ fresh \in [Clients -> BOOLEAN]
    /\ task \in [Reqs -> Task]
    /\ comments \in [Jobs -> Nat]

\* Row j is locked by an open transaction other than r's.
Locked(r, j) == \E q \in Reqs \ {r} : task[q].pend[j] # NoRow

\* touch_client updated the caller's own row; the lock lasts to the commit.
HoldsClient(q, c) ==
    /\ task[q].client = c
    /\ task[q].at \in {"select", "commit", "update"}

\* What r's transaction reads, and what its COMMIT leaves in the table.
View(r) == [j \in Jobs |-> IF task[r].pend[j] = NoRow THEN jobs[j] ELSE task[r].pend[j]]

Finish(r) == task' = [task EXCEPT ![r] = Idle]
-----------------------------------------------------------------------------
(* What the statements do to a row *)

Requeued(row) ==
    [row EXCEPT !.state = "queued", !.leased_by = None, !.lease = "null"]

Exhausted(row) ==
    [row EXCEPT !.state = "exhausted", !.leased_by = None, !.lease = "null"]

\* _transition_leased_jobs on a row both of its UPDATEs may look at.
RequeueOrExhaust(row) ==
    IF row.attempts < MaxAttempts THEN Requeued(row) ELSE Exhausted(row)

\* Mutant: reclaims leases that are still running.
DueEarly(row) == row.state = "leased"

Due(row) == row.state = "leased" /\ row.lease = "lapsed"

\* Mutant: lapsed leases are never reclaimed.
ReclaimedNever(row) == row

\* reclaim_expired_leases: the clock is read once, so no commit between the
\* two UPDATEs can make a further row match the second one.
Reclaimed(row) == IF Due(row) THEN RequeueOrExhaust(row) ELSE row

HandedOver(row, c) ==
    [row EXCEPT !.state = "leased", !.leased_by = c, !.lease = "running",
                !.attempts = @ + 1]

\* _hand_over through an object loaded earlier in the session.  The flush
\* writes only the attributes that differ from what the object held.
HandedOverStale(row, mem, c) ==
    [row EXCEPT !.state = IF mem.state = "leased" THEN @ ELSE "leased",
                !.leased_by = IF mem.leased_by = c THEN @ ELSE c,
                !.lease = "running",
                !.attempts = mem.attempts + 1]

Reported(row, c) ==
    [row EXCEPT !.state = "reported", !.verdict = c, !.reported_by = c,
                !.leased_by = None, !.lease = "null"]

\* Mutant: only one of the two foreign keys is nulled.
UnlinkedLeaseOnly(row, c) == [row EXCEPT !.leased_by = IF @ = c THEN None ELSE @]

\* ON DELETE SET NULL on both foreign keys to review_client.
Unlinked(row, c) ==
    [row EXCEPT !.leased_by = IF @ = c THEN None ELSE @,
                !.reported_by = IF @ = c THEN None ELSE @]

-----------------------------------------------------------------------------
(* Who waits for whom *)

LeasedTo(row, c) == row.state = "leased" /\ row.leased_by = c

\* The job rows the next statement of r updates.
Wanted(r) ==
    LET t == task[r]
        c == t.client
    IN  CASE t.at = "select" -> {j \in Jobs : Due(jobs[j])}
          [] t.at \in {"update", "relayed", "failed"} -> {t.job}
          [] t.at = "release" ->
                {j \in Jobs : LeasedTo(jobs[j], c) /\ jobs[j].attempts < MaxAttempts}
          [] t.at = "exhaust" -> {j \in Jobs : LeasedTo(View(r)[j], c)}
          [] t.at = "delete" ->
                {j \in Jobs : c \in {View(r)[j].leased_by, View(r)[j].reported_by}}
          [] OTHER -> {}

WaitsFor(r, q) ==
    /\ r # q
    /\ \/ \E j \in Wanted(r) : task[q].pend[j] # NoRow
       \/ task[r].at \in {"touch", "delete"} /\ HoldsClient(q, task[r].client)

Waiting(r) == \E q \in Reqs : WaitsFor(r, q)

\* S is a ring of tasks, each waiting for another of them.
WaitCycle(S) ==
    /\ S # {}
    /\ \E next \in [S -> S] :
        \A r \in S : WaitsFor(r, next[r]) /\ \E q \in S : next[q] = r

-----------------------------------------------------------------------------
(* Leasing *)

LeaseNextStart(r, c) ==
    /\ task[r].at = "idle" /\ "lease_next" \in Ops
    /\ status[c] = "checked_in"
    /\ task' = [task EXCEPT ![r] = [Idle EXCEPT !.op = "lease_next", !.at = "touch",
                                                !.client = c]]
    /\ UNCHANGED <<jobs, status, fresh, comments>>

\* The pre-checks load the named job into the session before anything is locked.
LeaseOneStart(r, c, j) ==
    /\ task[r].at = "idle" /\ "lease_one" \in Ops
    /\ status[c] = "checked_in"
    /\ jobs[j].state # "absent"
    /\ <<c, jobs[j].head>> \in CanTake
    /\ task' = [task EXCEPT ![r] = [Idle EXCEPT !.op = "lease_one", !.at = "touch",
                                                !.client = c, !.job = j,
                                                !.seen = jobs[j]]]
    /\ UNCHANGED <<jobs, status, fresh, comments>>

\* Mutant: an UPDATE that matches nothing goes unnoticed.
TouchUnchecked(r) ==
    /\ task[r].at = "touch"
    /\ ~Waiting(r)
    /\ task' = [task EXCEPT ![r].at = IF task[r].op = "report" THEN "update" ELSE "select"]
    /\ UNCHANGED <<jobs, status, fresh, comments>>

\* touch_client: UPDATE review_client, taking the row lock.
Touch(r) ==
    /\ task[r].at = "touch"
    /\ ~Waiting(r)
    /\ status[task[r].client] # "revoked"
    /\ task' = [task EXCEPT ![r].at = IF task[r].op = "report" THEN "update" ELSE "select"]
    /\ UNCHANGED <<jobs, status, fresh, comments>>

\* The row is gone: the UPDATE matches nothing and the ORM raises.
TouchGone(r) ==
    /\ task[r].at = "touch"
    /\ ~Waiting(r)
    /\ status[task[r].client] = "revoked"
    /\ Finish(r)
    /\ UNCHANGED <<jobs, status, fresh, comments>>

ReclaimWrites == [j \in Jobs |-> IF Due(jobs[j]) THEN Reclaimed(jobs[j]) ELSE NoRow]

\* FOR UPDATE SKIP LOCKED over the queued jobs the client is eligible for.
Available(r, c) ==
    {j \in Jobs : /\ Reclaimed(jobs[j]).state = "queued"
                  /\ <<c, jobs[j].head>> \in CanTake
                  /\ ~Locked(r, j)}

\* Mutant: the client's row is updated after the job is taken, not before.
LeaseNextSelectThenTouch(r) ==
    /\ task[r].at = "select" /\ task[r].op = "lease_next"
    /\ ~Waiting(r)
    /\ \E j \in Available(r, task[r].client) :
        task' = [task EXCEPT
             ![r].at = "touch",
             ![r].pend = [ReclaimWrites EXCEPT
                            ![j] = HandedOver(Reclaimed(jobs[j]), task[r].client)]]
    /\ UNCHANGED <<jobs, status, fresh, comments>>

LeaseNextSelect(r) ==
    /\ task[r].at = "select" /\ task[r].op = "lease_next"
    /\ ~Waiting(r)
    /\ fresh[task[r].client]
    /\ \E j \in Available(r, task[r].client) :
        /\ \A k \in Available(r, task[r].client) : j <= k
        /\ task' = [task EXCEPT
             ![r].at = "commit",
             ![r].pend = [ReclaimWrites EXCEPT
                            ![j] = HandedOver(Reclaimed(jobs[j]), task[r].client)]]
    /\ UNCHANGED <<jobs, status, fresh, comments>>

\* Mutant: a named lease goes by the state its pre-checks read.
LeaseOneSelectTrusting(r) ==
    LET j == task[r].job
        mem == Reclaimed(task[r].seen)
    IN  /\ task[r].at = "select" /\ task[r].op = "lease_one"
        /\ ~Waiting(r)
        /\ fresh[task[r].client]
        /\ mem.state = "queued" /\ ~Locked(r, j)
        /\ task' = [task EXCEPT
             ![r].at = "commit",
             ![r].pend = [ReclaimWrites EXCEPT
                            ![j] = HandedOver(jobs[j], task[r].client)]]
        /\ UNCHANGED <<jobs, status, fresh, comments>>

LeaseOneSelect(r) ==
    LET j == task[r].job
        mem == Reclaimed(task[r].seen)   \* the ORM keeps the loaded object in step
    IN  /\ task[r].at = "select" /\ task[r].op = "lease_one"
        /\ ~Waiting(r)
        /\ fresh[task[r].client]
        /\ j \in Available(r, task[r].client)
        /\ task' = [task EXCEPT
             ![r].at = "commit",
             ![r].pend = [ReclaimWrites EXCEPT
                            ![j] = HandedOverStale(Reclaimed(jobs[j]), mem, task[r].client)]]
        /\ UNCHANGED <<jobs, status, fresh, comments>>

\* Nothing to give: the transaction still commits what it reclaimed.
LeaseNothing(r) ==
    LET avail == Available(r, task[r].client)
    IN  /\ task[r].at = "select"
        /\ ~Waiting(r)
        /\ fresh[task[r].client]
        /\ IF task[r].op = "lease_next" THEN avail = {} ELSE task[r].job \notin avail
        /\ task' = [task EXCEPT ![r].at = "commit", ![r].pend = ReclaimWrites]
        /\ UNCHANGED <<jobs, status, fresh, comments>>

\* StaleIdentityAccessError leaves before the commit, so the reclaim is undone.
LeaseRefusedStale(r) ==
    /\ task[r].at = "select"
    /\ ~Waiting(r)
    /\ ~fresh[task[r].client]
    /\ Finish(r)
    /\ UNCHANGED <<jobs, status, fresh, comments>>

LeaseCommit(r) ==
    /\ task[r].at = "commit"
    /\ jobs' = View(r)
    /\ Finish(r)
    /\ UNCHANGED <<status, fresh, comments>>
-----------------------------------------------------------------------------
(* Reporting and relaying *)

\* get_job takes no lock: the lease is verified on this read and not again.
ReportStart(r, c, j) ==
    /\ task[r].at = "idle" /\ "report" \in Ops
    /\ status[c] # "revoked"
    /\ jobs[j].state = "leased"
    /\ jobs[j].leased_by = c
    /\ task' = [task EXCEPT ![r] = [Idle EXCEPT !.op = "report", !.at = "touch",
                                                !.client = c, !.job = j]]
    /\ UNCHANGED <<jobs, status, fresh, comments>>

\* report_job and its commit: UPDATE ... WHERE id, whatever the row now says.
ReportUpdate(r) ==
    LET j == task[r].job
    IN  /\ task[r].at = "update"
        /\ ~Waiting(r)
        /\ jobs' = [jobs EXCEPT ![j] = Reported(@, task[r].client)]
        /\ task' = [task EXCEPT ![r].at = "relay", ![r].seen = jobs'[j]]
        /\ UNCHANGED <<status, fresh, comments>>

\* relay_result: the comment may be posted and the answer lost.
Relay(r) ==
    /\ task[r].at = "relay"
    /\ \E posted, answered \in BOOLEAN :
        /\ answered => posted
        /\ comments' = [comments EXCEPT ![task[r].job] = IF posted THEN @ + 1 ELSE @]
        /\ task' = [task EXCEPT ![r].at = IF answered THEN "relayed" ELSE "failed"]
    /\ UNCHANGED <<jobs, status, fresh>>

RelaySucceeded(r) ==
    LET j == task[r].job
    IN  /\ task[r].at = "relayed"
        /\ ~Waiting(r)
        /\ jobs' = [jobs EXCEPT ![j].state = "relayed",
                                ![j].relay_error = IF task[r].seen.relay_error THEN FALSE ELSE @]
        /\ Finish(r)
        /\ UNCHANGED <<status, fresh, comments>>

\* Mutants: a failed relay sends the job back to be reviewed again; leaves no
\* trace.
RelayFailedRequeues(r) ==
    /\ task[r].at = "failed"
    /\ jobs' = [jobs EXCEPT ![task[r].job] = Requeued(@)]
    /\ Finish(r)
    /\ UNCHANGED <<status, fresh, comments>>

RelayFailedSilently(r) ==
    /\ task[r].at = "failed"
    /\ Finish(r)
    /\ UNCHANGED <<jobs, status, fresh, comments>>

RelayFailed(r) ==
    LET j == task[r].job
    IN  /\ task[r].at = "failed"
        /\ ~Waiting(r)
        /\ jobs' = [jobs EXCEPT ![j].relay_error = TRUE]
        /\ Finish(r)
        /\ UNCHANGED <<status, fresh, comments>>
-----------------------------------------------------------------------------
(* Revoking a client: release its leases, then delete its row *)

RevokeStart(r, c) ==
    /\ task[r].at = "idle" /\ "revoke" \in Ops
    /\ c \notin Steady
    /\ status[c] # "revoked"
    /\ task' = [task EXCEPT ![r] = [Idle EXCEPT !.op = "revoke", !.at = "release",
                                                !.client = c]]
    /\ UNCHANGED <<jobs, status, fresh, comments>>

\* Mutant: the requeueing half of _transition_leased_jobs is left out.
RevokeRequeueSkipped(r) ==
    /\ task[r].at = "release"
    /\ task' = [task EXCEPT ![r].at = "exhaust"]
    /\ UNCHANGED <<jobs, status, fresh, comments>>

\* First UPDATE of _transition_leased_jobs.
RevokeRequeue(r) ==
    /\ task[r].at = "release"
    /\ ~Waiting(r)
    /\ task' = [task EXCEPT
         ![r].at = "exhaust",
         ![r].pend = [j \in Jobs |-> IF j \in Wanted(r) THEN Requeued(jobs[j]) ELSE NoRow]]
    /\ UNCHANGED <<jobs, status, fresh, comments>>

\* Second UPDATE: whatever is still leased to the client, out of attempts or not.
RevokeExhaust(r) ==
    /\ task[r].at = "exhaust"
    /\ ~Waiting(r)
    /\ task' = [task EXCEPT
         ![r].at = "delete",
         ![r].pend = [j \in Jobs |-> IF j \in Wanted(r) THEN Exhausted(jobs[j])
                                                        ELSE task[r].pend[j]]]
    /\ UNCHANGED <<jobs, status, fresh, comments>>

\* DELETE, the foreign keys it nulls, and the commit.
RevokeDelete(r) ==
    LET c == task[r].client
    IN  /\ task[r].at = "delete"
        /\ ~Waiting(r)
        /\ jobs' = [j \in Jobs |-> Unlinked(View(r)[j], c)]
        /\ status' = [status EXCEPT ![c] = "revoked"]
        /\ Finish(r)
        /\ UNCHANGED <<fresh, comments>>
-----------------------------------------------------------------------------
(* The pull_request webhook *)

Active(row) == row.state \in {"queued", "leased"}

\* enqueue_job's dedupe SELECT.  Bound: no more inserts than there are rows.
EnqueueCheck(r, h) ==
    /\ task[r].at = "idle" /\ "enqueue" \in Ops
    /\ \E j \in Jobs : jobs[j].state = "absent"
    /\ ~\E j \in Jobs : jobs[j].head = h /\ Active(jobs[j])
    /\ task' = [task EXCEPT ![r] = [Idle EXCEPT !.op = "enqueue", !.at = "insert",
                                                !.head = h]]
    /\ UNCHANGED <<jobs, status, fresh, comments>>

\* The INSERT, with created_at and the next id, and its commit.
EnqueueInsert(r) ==
    /\ task[r].at = "insert"
    /\ \E j \in Jobs :
        /\ jobs[j].state = "absent"
        /\ \A k \in 1 .. (j - 1) : jobs[k].state # "absent"
        /\ jobs' = [jobs EXCEPT ![j] = [Absent EXCEPT !.state = "queued",
                                                      !.head = task[r].head]]
    /\ Finish(r)
    /\ UNCHANGED <<status, fresh, comments>>

\* Mutants: closing cancels leased jobs too; reported ones too.
CancelQueuedIn(p, states) ==
    /\ jobs' = [j \in Jobs |-> IF jobs[j].state \in states /\ PullOf[jobs[j].head] = p
                                THEN [jobs[j] EXCEPT !.state = "cancelled"] ELSE jobs[j]]
    /\ UNCHANGED <<status, fresh, task, comments>>

CancelQueuedAndLeased(p) == CancelQueuedIn(p, {"queued", "leased"})
CancelQueuedAndReported(p) == CancelQueuedIn(p, {"queued", "reported"})

\* action == "closed": cancel_queued_jobs_for_pr, one UPDATE and its commit.
CancelQueued(p) ==
    LET hit == {j \in Jobs : jobs[j].state = "queued" /\ PullOf[jobs[j].head] = p}
    IN  /\ hit # {}
        /\ \A j \in hit, r \in Reqs : task[r].pend[j] = NoRow
        /\ jobs' = [j \in Jobs |-> IF j \in hit THEN [jobs[j] EXCEPT !.state = "cancelled"]
                                                ELSE jobs[j]]
        /\ UNCHANGED <<status, fresh, task, comments>>
-----------------------------------------------------------------------------
(* Availability, clocks and failures *)

RowFree(c) == \A r \in Reqs : ~HoldsClient(r, c)

\* check_in_endpoint: a heartbeat, or a re-attestation that renews the access.
CheckIn(c) ==
    /\ status[c] # "revoked"
    /\ RowFree(c)
    /\ status' = [status EXCEPT ![c] = "checked_in"]
    /\ \E renewed \in BOOLEAN : fresh' = [fresh EXCEPT ![c] = @ \/ renewed]
    /\ UNCHANGED <<jobs, task, comments>>

CheckOut(c) ==
    /\ c \notin Steady
    /\ status[c] = "checked_in"
    /\ RowFree(c)
    /\ status' = [status EXCEPT ![c] = "checked_out"]
    /\ UNCHANGED <<jobs, fresh, task, comments>>

\* identity_access_ttl_seconds passes without a re-attestation.
AccessExpires(c) ==
    /\ c \notin Steady
    /\ status[c] # "revoked"
    /\ fresh' = [fresh EXCEPT ![c] = FALSE]
    /\ UNCHANGED <<jobs, status, task, comments>>

\* lease_ttl_seconds passes; sessions that loaded this lease hold the same time.
LeaseExpires(j) ==
    LET same(row) == /\ LeasedTo(row, jobs[j].leased_by)
                     /\ row.lease = "running" /\ row.attempts = jobs[j].attempts
    IN  /\ jobs[j].state = "leased" /\ jobs[j].lease = "running"
        /\ jobs' = [jobs EXCEPT ![j].lease = "lapsed"]
        /\ task' = [r \in Reqs |->
             IF task[r].job = j /\ same(task[r].seen)
             THEN [task[r] EXCEPT !.seen.lease = "lapsed"] ELSE task[r]]
        /\ UNCHANGED <<status, fresh, comments>>

\* The task dies: an exception, a lost connection, the hub going down.
\* Postgres rolls its open transaction back and drops its locks.
Abort(r) ==
    /\ task[r].at # "idle" /\ "abort" \in Ops
    /\ Finish(r)
    /\ UNCHANGED <<jobs, status, fresh, comments>>

\* Postgres finds the ring and fails one request in it.
BreakDeadlock(r) ==
    /\ \E S \in SUBSET Reqs : r \in S /\ WaitCycle(S)
    /\ Finish(r)
    /\ UNCHANGED <<jobs, status, fresh, comments>>

-----------------------------------------------------------------------------
LeaseStep(r) ==
    \/ Touch(r) \/ TouchGone(r)
    \/ LeaseNextSelect(r) \/ LeaseOneSelect(r) \/ LeaseNothing(r)
    \/ LeaseRefusedStale(r) \/ LeaseCommit(r)

ReportStep(r) == ReportUpdate(r) \/ Relay(r) \/ RelaySucceeded(r) \/ RelayFailed(r)

RevokeStep(r) == RevokeRequeue(r) \/ RevokeExhaust(r) \/ RevokeDelete(r)

TaskStep(r) == LeaseStep(r) \/ ReportStep(r) \/ RevokeStep(r) \/ EnqueueInsert(r)

Arrive(r) ==
    \/ \E c \in Clients : LeaseNextStart(r, c) \/ RevokeStart(r, c)
    \/ \E c \in Clients, j \in Jobs : LeaseOneStart(r, c, j) \/ ReportStart(r, c, j)
    \/ \E h \in Heads : EnqueueCheck(r, h)

Environment ==
    \/ \E c \in Clients : CheckIn(c) \/ CheckOut(c) \/ AccessExpires(c)
    \/ \E j \in Jobs : LeaseExpires(j)
    \/ \E p \in Pulls : CancelQueued(p)

Next ==
    \/ \E r \in Reqs : Arrive(r) \/ TaskStep(r) \/ Abort(r) \/ BreakDeadlock(r)
    \/ Environment

Spec == Init /\ [][Next]_vars

\* Three windows are left out, in which somebody's commit comes between what
\* another request has read without a lock and the statement that goes by it:
\* the job named in a lease stays as it was loaded, a report keeps its lease,
\* and nothing is leased to a client being revoked behind the UPDATE that
\* released its jobs.  Everything else may overlap.
Undisturbed ==
    \A r \in Reqs : LET t == task[r] IN task'[r] = t =>
        /\ t.op = "lease_one" /\ t.at \in {"touch", "select"} =>
              /\ jobs'[t.job].attempts = jobs[t.job].attempts
              /\ jobs'[t.job].leased_by = jobs[t.job].leased_by
        /\ t.op = "report" /\ t.at \in {"touch", "update"} =>
              (LeasedTo(jobs[t.job], t.client) => LeasedTo(jobs'[t.job], t.client))
        /\ t.at \in {"exhaust", "delete"} =>
              \A j \in Jobs : LeasedTo(jobs'[j], t.client) => LeasedTo(jobs[j], t.client)

UndisturbedSpec == Init /\ [][Next /\ Undisturbed]_vars

\* A steady client keeps polling; a row lock is granted in the order it was
\* asked for, so no request waits for ever; a deadlock is broken; time passes.
Fairness ==
    /\ \A c \in Steady : SF_vars(\E r \in Reqs : LeaseNextStart(r, c))
    /\ \A r \in Reqs : SF_vars(TaskStep(r))
    /\ WF_vars(\E r \in Reqs : BreakDeadlock(r))
    /\ \A j \in Jobs : WF_vars(LeaseExpires(j))

FairSpec == Spec /\ Fairness
-----------------------------------------------------------------------------
(* Safety, with requests overlapping *)

\* Finished work stands: once a result is on a job, no reclaim, release,
\* cancel or hand-over puts the job back to work or takes the result away.
FinishedWorkStands ==
    [][\A j \in Jobs : jobs[j].verdict # None =>
          /\ jobs'[j].verdict # None
          /\ jobs'[j].state \in {"reported", "relayed"}]_vars

\* A job that was reported, given up or cancelled is never queued or leased
\* again, whatever was under way when it ended: a hand-over, reclaim or release
\* that started before a close or a report does not undo it.
NothingReopens ==
    [][\A j \in Jobs : jobs[j].state # "absent" /\ ~Active(jobs[j]) => ~Active(jobs'[j])]_vars

\* A running lease never passes from one client to another: only a lapsed
\* one is handed on, whichever two lease requests overlap.
LeaseNotStolen ==
    [][\A j \in Jobs, c, d \in Clients :
          LeasedTo(jobs[j], c) /\ LeasedTo(jobs'[j], d) /\ c # d
          => jobs[j].lease = "lapsed"]_vars

\* Revocation is final at once: whatever is still in flight, no lease and no
\* result is recorded for a client whose row is gone.
RevokedIsOut ==
    [][\A j \in Jobs, c \in Clients :
          \/ jobs'[j].leased_by = c /\ jobs[j].leased_by # c
          \/ jobs'[j].verdict = c /\ jobs[j].verdict # c
          => status'[c] # "revoked"]_vars

\* Both references to review_client resolve, at every commit.
LinksResolve ==
    \A j \in Jobs : \A c \in {jobs[j].leased_by, jobs[j].reported_by} \ {None} :
        status[c] # "revoked"

\* A result is attributed to its author, or to nobody once the author is gone.
Attribution ==
    \A j \in Jobs : LET row == jobs[j] IN
        row.verdict # None =>
            \/ row.reported_by = row.verdict
            \/ row.reported_by = None /\ status[row.verdict] = "revoked"

\* Every leased job carries a clock, so reclaiming can find it even when the
\* client it was leased to is gone.
LeasedHasClock ==
    \A j \in Jobs : jobs[j].state = "leased" => jobs[j].lease # "null"

\* A job is relayed only if its comment was posted.
RelayedMeansPosted ==
    \A j \in Jobs : jobs[j].state = "relayed" => comments[j] > 0

\* No job is leased more often than max_attempts, and one that is on offer
\* has an attempt left.
AttemptBudget ==
    \A j \in Jobs : /\ jobs[j].attempts <= MaxAttempts
                    /\ jobs[j].state = "queued" => jobs[j].attempts < MaxAttempts

\* A job row agrees with itself, with the clients and with the pull request, at
\* every commit and under any overlap.
RowsCohere == LinksResolve /\ Attribution /\ LeasedHasClock /\ RelayedMeansPosted

\* Requests deadlock only over a client being revoked: leases, reports and
\* their reclaims take the client's row first and never wait in a ring.
OnlyRevokeDeadlocks ==
    \A S \in SUBSET Reqs : WaitCycle(S) => \E r \in S : task[r].op = "revoke"

(* What the docs and comments say, that overlapping requests may break *)

\* "never two jobs per head": at most one queued or leased job for a head, through
\* redeliveries, reclaims, releases and revokes.
OneActivePerHead ==
    \A j, k \in Jobs :
        Active(jobs[j]) /\ Active(jobs[k]) /\ jobs[j].head = jobs[k].head => j = k

\* No job is stranded in `leased' with no leaseholder.
NoOrphanedLease ==
    \A j \in Jobs : jobs[j].state = "leased" => jobs[j].leased_by # None

\* A job is exhausted only when it is out of attempts.
ExhaustedMeansSpent ==
    \A j \in Jobs : jobs[j].state = "exhausted" => jobs[j].attempts >= MaxAttempts

\* A job on offer is nobody's: two callers never both win it.
QueuedIsFree ==
    \A j \in Jobs : jobs[j].state = "queued" => jobs[j].leased_by = None

\* While nobody is disturbed (UndisturbedSpec) the leases add up, however requests
\* overlap: nothing is stranded, given up early, offered while it is held, or
\* leased more often than it may be.
LeasesAddUp == NoOrphanedLease /\ ExhaustedMeansSpent /\ QueuedIsFree /\ AttemptBudget

\* A result is recorded only for the client that holds the lease.
ReportNeedsLease ==
    [][\A j \in Jobs : jobs'[j].verdict # jobs[j].verdict =>
          LeasedTo(jobs[j], jobs'[j].verdict)]_vars

\* A round's comment is posted at most once, whether or not GitHub's answer to a
\* relay arrives and the request lives to write it down.
CommentedOnce == \A j \in Jobs : comments[j] <= 1

\* `attempts' counts the leases handed out: a lease adds one to what the row held,
\* not to what the request loaded earlier.
AttemptsCountLeases ==
    [][\A j \in Jobs, c \in Clients :
          jobs'[j].leased_by = c /\ jobs[j].leased_by # c
          => jobs'[j].attempts = jobs[j].attempts + 1]_vars

\* No lease is granted to a client that has checked out.
LeaseWhileCheckedIn ==
    [][\A j \in Jobs, c \in Clients :
          jobs'[j].leased_by = c /\ jobs[j].leased_by # c
          => status[c] = "checked_in"]_vars

\* The job table goes through the lifecycle of models/review_job.py.
Lifecycle == INSTANCE JobLifecycle
    WITH state <- [j \in Jobs |-> jobs[j].state],
         attempts <- [j \in Jobs |-> jobs[j].attempts]

FollowsLifecycle == Lifecycle!Spec

(* Liveness *)

\* With a client that keeps polling, every job that is queued or leased is in
\* the end reported, cancelled or given up: no lapsed lease is forgotten.
JobsSettle == \A j \in Jobs : Active(jobs[j]) ~> ~Active(jobs[j])

\* If no request dies on the way, a reported job is relayed or says why not.
ReportsAnswered ==
    \A j \in Jobs : jobs[j].state = "reported"
                    ~> jobs[j].state = "relayed" \/ jobs[j].relay_error
=============================================================================
