---------------------------- MODULE JobLifecycle ----------------------------
(***************************************************************************)
(* What models/review_job.py promises of one unit of work, seen from       *)
(* outside the hub: the states a job goes through and the attempts it may  *)
(* spend, with no handlers, locks or clients.                              *)
(***************************************************************************)
EXTENDS Naturals

CONSTANTS Jobs, MaxAttempts

VARIABLES state, attempts

vars == <<state, attempts>>

Init ==
    /\ state = [j \in Jobs |-> "absent"]
    /\ attempts = [j \in Jobs |-> 0]

\* Job j goes from one state to another, having spent n attempts.
Goes(j, from, to, n) ==
    /\ state[j] = from
    /\ state'[j] = to
    /\ attempts'[j] = n

Enqueued(j) == Goes(j, "absent", "queued", 0)

Leased(j) ==
    /\ attempts[j] < MaxAttempts
    /\ Goes(j, "queued", "leased", attempts[j] + 1)

\* The lease expired or its client was revoked, and attempts are left; the
\* same lease request may hand the job straight out again.
GivenBack(j) ==
    /\ attempts[j] < MaxAttempts
    /\ \/ Goes(j, "leased", "queued", attempts[j])
       \/ Goes(j, "leased", "leased", attempts[j] + 1)

GivenUp(j) ==
    /\ attempts[j] >= MaxAttempts
    /\ Goes(j, "leased", "exhausted", attempts[j])

ReportedBack(j) == Goes(j, "leased", "reported", attempts[j])

Relayed(j) == Goes(j, "reported", "relayed", attempts[j])

Cancelled(j) == Goes(j, "queued", "cancelled", attempts[j])

Move(j) ==
    \/ Enqueued(j) \/ Leased(j) \/ GivenBack(j) \/ GivenUp(j)
    \/ ReportedBack(j) \/ Relayed(j) \/ Cancelled(j)

Rest(j) == state'[j] = state[j] /\ attempts'[j] = attempts[j]

\* One commit may move several jobs: a lease request reclaims every lapsed one.
Next ==
    /\ \A j \in Jobs : Move(j) \/ Rest(j)
    /\ DOMAIN state' = Jobs
    /\ DOMAIN attempts' = Jobs

Spec == Init /\ [][Next]_vars
=============================================================================
