----------------------------- MODULE ClientLoop -----------------------------
(***************************************************************************)
(* One unattended `bingo_client.py loop': rounds of lease, review and      *)
(* report, a re-attestation at half the hub's TTL, and the recovery from a *)
(* 409.  The hub and GitHub are the environment: what they answer follows  *)
(* from what they hold, and `Faults' says which of them may go wrong.      *)
(***************************************************************************)
EXTENDS Naturals

CONSTANTS
    Faults,     \* the kinds of trouble that may happen
    MaxFaults,  \* bound: how often, in all
    Expires     \* the App has expiring user tokens enabled

Fault == {"stale", "lease_lost", "check_out", "revoked", "unauthorized",
          "refresh_lapsed", "hub_error", "hub_unreachable",
          "github_unreachable", "hub_cannot_read_github", "review_fails"}

ASSUME ClientLoopAssumption ==
    /\ Faults \subseteq Fault
    /\ MaxFaults \in Nat
    /\ Expires \in BOOLEAN

\* A credential: the access token is missing, not past its expiry, or past it;
\* the refresh token is missing (or there is no App id to present it with), the
\* one GitHub honours, or one it does not.
\* `proved' (history): the hub has accepted it.
Tokens == [access : {"none", "live", "spent"}, refresh : {"none", "good", "dead"},
           proved : BOOLEAN]

NoTokens == [access |-> "none", refresh |-> "none", proved |-> FALSE]

Running == {"top", "renew", "check_in", "lease", "review", "report", "recover", "dry", "idle"}
Ended == {"exited", "failed", "unreached"}

VARIABLES
    pc,          \* where run_loop is; Ended: LOGIN_AGAIN, the reviewer's error, httpx's
    conflict,    \* renewing to answer a 409, not on schedule
    disk,        \* the GitHub credential in the state file
    keep,        \* the state file lets it be stored (store_github_token)
    held,        \* the credential this check-in presents
    renewable,   \* the state file had a credential when the loop started
    attempted,   \* attempted_at: never, within half the TTL, or before that
    knows_ttl,   \* ttl_seconds is known
    checked_in,  \* checked_in_this_run
    retries,     \* 409s answered since the loop last slept, was served or half a
                 \* TTL passed (history)
    hub,         \* what the hub holds of this client
    github,      \* whether the App is still authorized
    faults       \* how many more troubles may come, and the kinds that came since
                 \* retries was last 0 or that still last (history)

cred == <<disk, keep, held, github>>
sched == <<renewable, attempted, knows_ttl, checked_in>>
vars == <<pc, conflict, cred, sched, retries, hub, faults>>

\* status, the snapshot's age against its TTL, the lease of the job in hand, whether the
\* client row is deleted and whether the hub can read GitHub.
Hub == [status : {"in", "out"}, snapshot : {"new", "half", "stale"},
        lease : {"none", "held", "lost"},
        revoked : BOOLEAN, reads : BOOLEAN]

\* Bound: retries are counted up to this.
MaxRetries == 3

Logins == {NoTokens} \cup
          {[access |-> "live", refresh |-> r, proved |-> TRUE] : r \in {"none", "good"}}

\* The state file as `register' or `login' left it; opted out, it may still hold
\* a credential from before.
Init ==
    /\ pc = "top" /\ conflict = FALSE
    /\ disk \in Logins
    /\ keep \in BOOLEAN
    /\ held = NoTokens
    /\ renewable = (disk # NoTokens)
    /\ attempted = "never" /\ knows_ttl = FALSE /\ checked_in = FALSE
    /\ retries = 0
    /\ hub \in [status : {"in", "out"}, snapshot : {"half"},
                lease : {"none"}, revoked : {FALSE}, reads : {TRUE}]
    /\ github = TRUE
    /\ faults = [left |-> MaxFaults, seen |-> {}]

TypeOK ==
    /\ pc \in Running \cup Ended /\ conflict \in BOOLEAN
    /\ disk \in Tokens /\ keep \in BOOLEAN /\ held \in Tokens
    /\ attempted \in {"never", "recent", "old"}
    /\ renewable \in BOOLEAN /\ knows_ttl \in BOOLEAN /\ checked_in \in BOOLEAN
    /\ retries \in 0 .. MaxRetries
    /\ hub \in Hub /\ github \in BOOLEAN /\ faults \in [left : 0 .. MaxFaults, seen : SUBSET Fault]

\* One more of this kind of trouble.
Goes(wrong) ==
    /\ wrong \in Faults /\ faults.left > 0
    /\ faults' = [left |-> faults.left - 1, seen |-> faults.seen \cup {wrong}]

\* Troubles that a pause does not end: GitHub is closed to the hub, the lease of
\* the job in hand is gone, somebody checked the client out.
Lasting(h, in) ==
    {k \in Fault : \/ k = "hub_cannot_read_github" /\ ~h.reads
                   \/ k = "lease_lost" /\ h.lease = "lost"
                   \/ k = "check_out" /\ in /\ h.status = "out"}

\* The count of 409s starts again, and with it what may excuse them.
Afresh == retries' = 0 /\ faults' = [faults EXCEPT !.seen = Lasting(hub', checked_in')]

-----------------------------------------------------------------------------
(* Scheduled re-attestation, and the credential it needs *)

Due == attempted = "never" \/ (knows_ttl /\ attempted = "old")

Round ==
    /\ pc = "top"
    /\ IF renewable /\ Due
       THEN pc' = "renew" /\ attempted' = "recent"
       ELSE pc' = "lease" /\ UNCHANGED attempted
    /\ conflict' = FALSE
    /\ UNCHANGED <<cred, renewable, knows_ttl, checked_in, retries, hub, faults>>

\* Where renew_github_access returns to, having produced `tokens'.
Renewed(tokens) ==
    /\ held' = tokens
    /\ pc' = IF tokens # NoTokens THEN "check_in"
             ELSE IF conflict THEN "exited" ELSE "lease"
    /\ UNCHANGED <<conflict, keep, github, sched, retries, hub>>

\* What refresh_access_token gets from GitHub.
Refreshed == [access |-> "live", refresh |-> "good", proved |-> FALSE]

RenewStoring ==
    /\ pc = "renew"
    /\ IF disk.access = "spent" /\ disk.refresh = "good" /\ github
       THEN Renewed(Refreshed) /\ disk' = Refreshed
       ELSE Renewed(IF disk.access = "live" THEN disk ELSE NoTokens) /\ UNCHANGED disk
    /\ UNCHANGED faults

\* A stored access token is spent again until it expires; a refresh gets a new
\* pair and makes the stored refresh token useless, whoever learns of it.
Renew ==
    /\ pc = "renew"
    /\ \/ /\ disk.access # "spent"
          /\ Renewed(disk)
          /\ UNCHANGED <<disk, faults>>
       \/ /\ disk.access = "spent"
          /\ disk.refresh # "good" \/ ~github
          /\ Renewed(NoTokens)
          /\ UNCHANGED <<disk, faults>>
       \/ /\ disk.access = "spent" /\ disk.refresh = "good" /\ github
          /\ Renewed(Refreshed)
          /\ disk' = [disk EXCEPT !.refresh = "dead"]
          /\ UNCHANGED faults
       \/ /\ disk.access = "spent" /\ disk.refresh = "good"
          /\ Goes("github_unreachable")
          /\ Renewed(NoTokens)
          /\ disk' \in {disk, [disk EXCEPT !.refresh = "dead"]}

-----------------------------------------------------------------------------
(* POST /clients/check-in *)

Refused ==
    \/ hub.revoked
    \/ held # NoTokens /\ hub.reads /\ ~(github /\ held.access = "live")

\* If the hub cannot read GitHub it lets the check-in through and renews nothing.
CheckedIn ==
    [hub EXCEPT !.status = "in",
                !.snapshot = IF held # NoTokens /\ hub.reads THEN "new" ELSE @]

\* Mutant: the durable opt-out is forgotten.
PersistedAlways(tokens) ==
    IF tokens = NoTokens THEN disk ELSE [tokens EXCEPT !.proved = TRUE]

\* What the state file holds after the hub accepted a check-in with `tokens'.
Persisted(tokens) ==
    IF tokens = NoTokens THEN disk
    ELSE IF keep THEN [tokens EXCEPT !.proved = TRUE] ELSE NoTokens

\* A scheduled check-in goes on to lease, one that answers a 409 to the next round.
CheckIn ==
    /\ pc = "check_in"
    /\ ~Refused
    /\ hub' = CheckedIn
    /\ disk' = Persisted(held)
    /\ knows_ttl' = TRUE /\ checked_in' = TRUE
    /\ attempted' = IF conflict THEN "recent" ELSE attempted
    /\ pc' = IF conflict THEN "top" ELSE "lease"
    /\ held' = NoTokens
    /\ UNCHANGED <<conflict, keep, github, renewable, retries, faults>>

\* Mutant: a failed check-in is tried again at once.
CheckInFailsRetrying ==
    /\ pc = "check_in"
    /\ IF Refused THEN UNCHANGED faults ELSE Goes("hub_error")
    /\ pc' = IF conflict THEN "top" ELSE "lease"
    /\ held' = NoTokens
    /\ UNCHANGED <<conflict, disk, keep, github, sched, retries, hub>>

\* 401, or a 5xx before or after the commit: not fatal, on schedule or in recovery.
CheckInFails ==
    /\ pc = "check_in"
    /\ \/ Refused /\ UNCHANGED <<hub, faults>>
       \/ ~Refused /\ Goes("hub_error") /\ hub' \in {hub, CheckedIn}
    /\ pc' = IF conflict THEN "idle" ELSE "lease"
    /\ held' = NoTokens
    /\ UNCHANGED <<conflict, disk, keep, github, sched, retries>>

-----------------------------------------------------------------------------
(* one_round *)

Conflicts == hub.status = "out" \/ hub.snapshot = "stale"

LeaseGranted ==
    /\ pc = "lease"
    /\ ~hub.revoked /\ ~Conflicts
    /\ hub' = [hub EXCEPT !.lease = "held"]
    /\ pc' = "review"
    /\ UNCHANGED <<conflict, cred, sched>> /\ Afresh

QueueDry ==
    /\ pc = "lease"
    /\ ~hub.revoked /\ ~Conflicts
    /\ pc' = "dry"
    /\ UNCHANGED <<conflict, cred, sched, hub>> /\ Afresh

LeaseConflict ==
    /\ pc = "lease"
    /\ ~hub.revoked /\ Conflicts
    /\ pc' = "recover"
    /\ UNCHANGED <<conflict, cred, sched, retries, hub, faults>>

Review ==
    /\ pc = "review"
    /\ \/ pc' = "report" /\ UNCHANGED faults
       \/ pc' = "failed" /\ Goes("review_fails")
    /\ UNCHANGED <<conflict, cred, sched, retries, hub>>

Report ==
    /\ pc = "report"
    /\ ~hub.revoked
    /\ IF hub.lease = "held"
       THEN pc' = "top" /\ hub' = [hub EXCEPT !.lease = "none"]
       ELSE pc' = "recover" /\ UNCHANGED hub
    /\ UNCHANGED <<conflict, cred, sched, retries, faults>>

\* What the hub may have done when its answer does not arrive.
HubAfter ==
    CASE hub.revoked -> {hub}
      [] pc = "check_in" /\ ~Refused -> {hub, CheckedIn}
      [] pc = "lease" /\ ~Conflicts -> {hub, [hub EXCEPT !.lease = "held"]}
      [] pc = "report" /\ hub.lease = "held" -> {hub, [hub EXCEPT !.lease = "none"]}
      [] OTHER -> {hub}

\* An HTTP error that is not a 409: 401 of a deleted client, or a 5xx.
RoundFails ==
    /\ pc \in {"lease", "report"}
    /\ \/ hub.revoked /\ UNCHANGED <<hub, faults>>
       \/ Goes("hub_error") /\ hub' \in HubAfter
    /\ pc' = "idle"
    /\ UNCHANGED <<conflict, cred, sched, retries>>

\* No HTTP answer at all: httpx.TransportError, which nothing catches.
Unreachable ==
    /\ pc \in {"check_in", "lease", "report"}
    /\ Goes("hub_unreachable")
    /\ hub' \in HubAfter
    /\ pc' = "unreached"
    /\ UNCHANGED <<conflict, cred, sched, retries>>

\* Mutant: the heartbeat is the only answer to a 409.
RecoverByHeartbeat ==
    /\ pc = "recover"
    /\ conflict' = TRUE
    /\ retries' = IF retries < MaxRetries THEN retries + 1 ELSE retries
    /\ pc' = "check_in" /\ held' = NoTokens
    /\ UNCHANGED <<disk, keep, github, sched, hub, faults>>

\* _recover_from_lease_conflict: a heartbeat at first, a renewal from then on.
Recover ==
    /\ pc = "recover"
    /\ conflict' = TRUE
    /\ retries' = IF retries < MaxRetries THEN retries + 1 ELSE retries
    /\ pc' = IF checked_in THEN "renew" ELSE "check_in"
    /\ held' = NoTokens
    /\ UNCHANGED <<disk, keep, github, sched, hub, faults>>

Sleep ==
    /\ pc \in {"dry", "idle"}
    /\ pc' = "top"
    /\ UNCHANGED <<conflict, cred, sched, hub>> /\ Afresh

-----------------------------------------------------------------------------
(* Time, the hub, GitHub and the operator *)

\* Half the TTL has passed since the hub last re-read GitHub; since the last attempt.
Ages ==
    /\ hub.snapshot = "new"
    /\ hub' = [hub EXCEPT !.snapshot = "half"]
    /\ UNCHANGED <<pc, conflict, cred, sched>>
    /\ IF pc \in Ended THEN UNCHANGED <<retries, faults>> ELSE Afresh

HalfTtl ==
    /\ attempted = "recent"
    /\ attempted' = "old"
    /\ UNCHANGED <<pc, conflict, cred, renewable, knows_ttl, checked_in, retries, hub, faults>>

\* The access token passes its expiry, in the file and in hand.
AccessSpent ==
    /\ Expires
    /\ "live" \in {disk.access, held.access}
    /\ disk' = [disk EXCEPT !.access = IF @ = "live" THEN "spent" ELSE @]
    /\ held' = [held EXCEPT !.access = IF @ = "live" THEN "spent" ELSE @]
    /\ UNCHANGED <<pc, conflict, keep, github, sched, retries, hub, faults>>

RefreshLapses ==
    /\ Goes("refresh_lapsed")
    /\ disk' = [disk EXCEPT !.refresh = IF @ = "good" THEN "dead" ELSE @]
    /\ held' = [held EXCEPT !.refresh = IF @ = "good" THEN "dead" ELSE @]
    /\ UNCHANGED <<pc, conflict, keep, github, sched, retries, hub>>

\* The hub's side moves on: the snapshot's TTL or the lease's passes, the
\* operator checks this client out or revokes it, GitHub becomes unreadable.
HubMoves ==
    /\ \/ /\ Goes("stale") /\ hub.snapshot = "half"
          /\ hub' = [hub EXCEPT !.snapshot = "stale"]
       \/ Goes("lease_lost") /\ hub.lease = "held" /\ hub' = [hub EXCEPT !.lease = "lost"]
       \/ Goes("check_out") /\ hub' = [hub EXCEPT !.status = "out"]
       \/ Goes("revoked") /\ hub' = [hub EXCEPT !.revoked = TRUE]
       \/ Goes("hub_cannot_read_github") /\ hub' = [hub EXCEPT !.reads = FALSE]
    /\ UNCHANGED <<pc, conflict, cred, sched, retries>>

HubReadsAgain ==
    /\ ~hub.reads
    /\ hub' = [hub EXCEPT !.reads = TRUE]
    /\ UNCHANGED <<pc, conflict, cred, sched, retries, faults>>

\* The person withdraws the App's authorization.
Unauthorize ==
    /\ Goes("unauthorized")
    /\ github' = FALSE
    /\ UNCHANGED <<pc, conflict, disk, keep, held, sched, retries, hub>>

\* Whoever keeps the loop running starts it again on the same state file.
Restart ==
    /\ pc \in {"failed", "unreached"}
    /\ pc' = "top" /\ conflict' = FALSE /\ held' = NoTokens
    /\ renewable' = (disk # NoTokens)
    /\ attempted' = "never" /\ knows_ttl' = FALSE /\ checked_in' = FALSE
    /\ UNCHANGED <<disk, keep, github, hub>> /\ Afresh

-----------------------------------------------------------------------------
LoopStep ==
    \/ Round \/ Renew \/ CheckIn \/ CheckInFails
    \/ LeaseGranted \/ QueueDry \/ LeaseConflict \/ Review \/ Report
    \/ RoundFails \/ Unreachable \/ Recover \/ Sleep

Next ==
    \/ LoopStep
    \/ Ages \/ HalfTtl \/ AccessSpent \/ RefreshLapses \/ HubMoves \/ HubReadsAgain
    \/ Unauthorize \/ Restart

Spec == Init /\ [][Next]_vars

\* The loop runs, an outage ends, tokens expire, the loop is kept running.
Fairness ==
    /\ WF_vars(LoopStep) /\ WF_vars(Restart)
    /\ WF_vars(HubReadsAgain) /\ WF_vars(AccessSpent)

FairSpec == Spec /\ Fairness

-----------------------------------------------------------------------------
(* Properties *)

\* The state file holds no credential the hub has not accepted, whatever failed
\* on the way.
StoredWasAccepted == disk # NoTokens => disk.proved

\* Opted-out state never gains a credential; a stray one only ages or goes.
OptOutGainsNothing ==
    [][~keep => /\ disk'.access = "live" => disk.access = "live"
                /\ disk'.refresh = "good" => disk.refresh = "good"]_vars

\* A 409 after it has checked in is an expired attestation, unless the lease of
\* the job in hand was lost or somebody checked the client out since the loop
\* last slept, was served or saw half a TTL pass.
ConflictIsStale ==
    faults.seen \cap {"lease_lost", "check_out"} = {} =>
        (pc = "recover" /\ checked_in => hub.snapshot = "stale")

Renewable ==
    /\ github
    /\ disk.access = "live" \/ (disk.access = "spent" /\ disk.refresh = "good")

\* LOGIN_AGAIN is said only when nothing here could renew the attestation, or
\* GitHub has just not been reached.
LoginAgainMeansLogin ==
    "github_unreachable" \notin faults.seen => (pc = "exited" => ~Renewable)

\* 409s are not answered one after the other without a pause, beyond the
\* heartbeat and the renewal that a new run may need, unless in that very stretch
\* the hub let a check-in through that renewed nothing, a lease was lost or
\* somebody checked the client out. An earlier trouble is no excuse.
BacksOff ==
    faults.seen \cap {"hub_cannot_read_github", "lease_lost", "check_out"} = {} =>
        retries < MaxRetries

\* What the client's comments promise, as far as the code keeps it: each promise
\* may be broken only by the trouble it overlooks, and only while that is fresh.
KeepsItsWord == ConflictIsStale /\ LoginAgainMeansLogin /\ BacksOff

\* The loop goes on being served or says that a person has to log in; it is not
\* refused for ever, unless the client was revoked.
KeepsServing == []<>(pc \in {"review", "dry"}) \/ <>(pc = "exited") \/ <>hub.revoked

(* What the client's comments and docs say, without those exceptions *)

\* "A 409 after it has checked in is a genuinely expired attestation."
ConflictMeansStale == pc = "recover" /\ checked_in => hub.snapshot = "stale"

\* "Once this run has checked in ... If nothing can renew at that point the
\* attestation is genuinely unrecoverable": LOGIN_AGAIN is said only then.
LoginAgainIsNeeded == pc = "exited" => ~Renewable

\* "that must idle, not kill an unattended process": hub weather never ends it.
WeatherIdles == pc # "unreached"

\* "never a bare 409 loop"
NoBareLoop == retries < MaxRetries
=============================================================================
