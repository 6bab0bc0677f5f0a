---------------------------- MODULE PolicyGates ----------------------------
(***************************************************************************)
(* Repository policies and the gates a job must clear to be leased.  PUT   *)
(* /policies writes a policy in two steps (read, then UPDATE or INSERT);   *)
(* the webhook snapshots its floor and strategies onto the job it queues;  *)
(* a lease checks them and the live model allowlist, in SQL inside the     *)
(* locking SELECT and, when the job was named, in Python before it.  A row *)
(* taken by a lease or a cancel stays locked until the request commits, or *)
(* dies and is rolled back; a SELECT skips it meanwhile.                   *)
(***************************************************************************)
EXTENDS Integers

CONSTANTS
    Repos,        \* repositories on the hub
    Clients,      \* registered machines; each acts under a GitHub account
    Models,       \* model names
    Strategies,   \* review strategies: the registry and the custom ones
    Groups,       \* model-group names
    Tier,         \* the tier each client declared at registration
    Model,        \* the model each client declared at registration
    Payloads,     \* the PUT /policies bodies that arrive
    Offers,       \* the offered_strategies a check-in may bring
    Registries,   \* values of Settings.model_groups the hub is deployed with
    Snapshots,    \* repository permissions GitHub may report for an account
    Reqs,         \* handler tasks that may be in flight at the same time
    MaxJobs,      \* bound: rows ever inserted into review_job
    MaxChanges,   \* bound: PUTs, check-ins, attestations, redeploys together
    None          \* SQL NULL, Python None, a missing row

Jobs == 1 .. MaxJobs            \* ids in created_at order

\* MODEL_TIER_RANK: experimental, standard, frontier.
Tiers == 0 .. 2

Permission == {"none", "read", "admin"}

\* One repo_policy row; a JSONB list is the set of its entries.
Policy == [min_tier : Tiers, enabled : BOOLEAN,
           default_strategies : SUBSET Strategies,
           accepted_models : SUBSET Models,
           accepted_model_groups : SUBSET Groups]

\* RepoPolicyUpsert: None says the PUT did not mention the list.
Upsert == [min_tier : Tiers, enabled : BOOLEAN,
           default_strategies : (SUBSET Strategies) \cup {None},
           accepted_models : (SUBSET Models) \cup {None},
           accepted_model_groups : (SUBSET Groups) \cup {None}]

ListFields == {"default_strategies", "accepted_models", "accepted_model_groups"}
Fields == ListFields \cup {"min_tier", "enabled"}

\* A review_job row, as far as the gates read it.
Row == [state : {"absent", "queued", "leased", "done"}, repo : Repos \cup {None},
        min_tier : Tiers, requested_strategies : SUBSET Strategies,
        leased_by : Clients \cup {None}]

Absent == [state |-> "absent", repo |-> None, min_tier |-> 0,
           requested_strategies |-> {}, leased_by |-> None]

Step == {"idle", "put_read", "put_write", "insert", "checks", "scope", "lease",
         "commit", "cancel"}

\* What a handler holds: the caller and the strategies it offered when its row
\* was loaded, the repository or job it names, the body, the policy and the
\* accessible repositories it read, and the job row its transaction has written.
Task == [at : Step, client : Clients \cup {None}, offered : SUBSET Strategies,
         repo : Repos \cup {None}, job : Jobs \cup {0},
         payload : Upsert \cup {None}, policy : Policy \cup {None},
         access : SUBSET Repos, taken : Jobs \cup {0}]

Idle == [at |-> "idle", client |-> None, offered |-> {}, repo |-> None,
         job |-> 0, payload |-> None, policy |-> None, access |-> {},
         taken |-> 0]

Registry == [Groups -> (SUBSET Models) \cup {None}]

ASSUME PolicyGatesAssumption ==
    /\ MaxJobs \in Nat /\ MaxChanges \in Nat
    /\ Tier \in [Clients -> Tiers] /\ Model \in [Clients -> Models]
    /\ Payloads \subseteq Upsert
    /\ Offers \subseteq SUBSET Strategies
    /\ Registries \subseteq Registry /\ Registries # {}
    /\ Snapshots \subseteq [Repos -> Permission] /\ Snapshots # {}
    /\ None \notin Repos \cup Clients \cup Policy \cup Upsert
    /\ \A S \in (SUBSET Strategies) \cup (SUBSET Models) \cup (SUBSET Groups) : None # S

VARIABLES
    policy,    \* the committed repo_policy table
    groups,    \* settings.model_groups of the running process
    jobs,      \* the committed review_job table
    offered,   \* review_client.offered_strategies
    perm,      \* identity_repo_access: each account's permission on each repo
    stale,     \* whether that snapshot is past its TTL
    task,      \* the handler tasks
    changes    \* changes made so far, up to MaxChanges

vars == <<policy, groups, jobs, offered, perm, stale, task, changes>>

Init ==
    /\ policy = [x \in Repos |-> None]
    /\ groups \in Registries
    /\ jobs = [j \in Jobs |-> Absent]
    /\ offered = [c \in Clients |-> {}]
    /\ perm \in [Clients -> Snapshots]
    /\ stale = [c \in Clients |-> FALSE]
    /\ task = [r \in Reqs |-> Idle]
    /\ changes = 0

TypeOK ==
    /\ policy \in [Repos -> Policy \cup {None}]
    /\ groups \in Registry
    /\ jobs \in [Jobs -> Row]
    /\ offered \in [Clients -> SUBSET Strategies]
    /\ perm \in [Clients -> [Repos -> Permission]]
    /\ stale \in [Clients -> BOOLEAN]
    /\ task \in [Reqs -> Task]
    /\ changes \in 0 .. MaxChanges

Changed == changes < MaxChanges /\ changes' = changes + 1
Finish(r) == task' = [task EXCEPT ![r] = Idle]

\* Another request has written row j and not committed yet.
Locked(r, j) == \E q \in Reqs \ {r} : task[q].taken = j
-----------------------------------------------------------------------------
(* The gates, twice: as the lease query's SQL and as the Python pre-checks *)

tiers_at_or_below(t) == {u \in Tiers : u <= t}

Members(g) == IF groups[g] = None THEN {} ELSE groups[g]

model_allowed(models, named, m) ==
    \/ models = {} /\ named = {}
    \/ m \in models
    \/ \E g \in named : m \in Members(g)

strategies_overlap(requested, offer) == requested = {} \/ requested \cap offer # {}

\* The correlated subquery: a repository with no policy has empty lists.
LivePolicyList(x, f) == IF policy[x] = None THEN {} ELSE policy[x][f]

\* Mutant: each list on its own is match-any when it is empty.
ModelAllowlistClauseEither(m, x) ==
    \/ LivePolicyList(x, "accepted_models") = {}
    \/ LivePolicyList(x, "accepted_model_groups") = {}
    \/ m \in LivePolicyList(x, "accepted_models")

ModelAllowlistClause(m, x) ==
    LET matching == {g \in Groups : groups[g] # None /\ m \in Members(g)}
        models == LivePolicyList(x, "accepted_models")
        named == LivePolicyList(x, "accepted_model_groups")
    IN  \/ models = {} /\ named = {}
        \/ m \in models
        \/ matching # {} /\ \E g \in matching : g \in named

StrategyOverlap(row, offer) ==
    row.requested_strategies = {} \/ \E s \in offer : s \in row.requested_strategies

accessible_repo_names(c) == {x \in Repos : perm[c][x] # "none"}

\* The WHERE clause both lease queries share, less the state.
QueryMatches(c, offer, access, row) ==
    /\ row.min_tier \in tiers_at_or_below(Tier[c])
    /\ ModelAllowlistClause(Model[c], row.repo)
    /\ StrategyOverlap(row, offer)
    /\ row.repo \in access
-----------------------------------------------------------------------------
(* PUT /policies/{owner}/{repo} *)

\* authorize_policy_write: anyone but an admin of the repository is refused.
PutStart(r, c, x, p) ==
    /\ task[r].at = "idle" /\ Changed
    /\ perm[c][x] = "admin"
    /\ task' = [task EXCEPT ![r] = [Idle EXCEPT !.at = "put_read", !.repo = x,
                                                !.payload = p]]
    /\ UNCHANGED <<policy, groups, jobs, offered, perm, stale>>

NamedGroups(p) == IF p.accepted_model_groups = None THEN {} ELSE p.accepted_model_groups

\* UnknownModelGroupError comes before anything is read.
PutUnknownGroup(r) ==
    /\ task[r].at = "put_read"
    /\ \E g \in NamedGroups(task[r].payload) : groups[g] = None
    /\ Finish(r)
    /\ UNCHANGED <<policy, groups, jobs, offered, perm, stale, changes>>

PutRead(r) ==
    /\ task[r].at = "put_read"
    /\ \A g \in NamedGroups(task[r].payload) : groups[g] # None
    /\ task' = [task EXCEPT ![r].at = "put_write", ![r].policy = policy[task[r].repo]]
    /\ UNCHANGED <<policy, groups, jobs, offered, perm, stale, changes>>

\* The object the handler ends up with: a list that was not mentioned keeps the
\* value read, or is empty on a new row.
Desired(p, row) ==
    [f \in Fields |-> IF f \notin ListFields \/ p[f] # None THEN p[f]
                      ELSE IF row = None THEN {} ELSE row[f]]

\* Mutant: the whole object is written back, fields the PUT left alone too.
UpdateRowWhole(stored, row, wanted) == wanted

\* The ORM's UPDATE sets only the attributes that differ from the row it read.
UpdateRow(stored, row, wanted) ==
    [f \in Fields |-> IF wanted[f] # row[f] THEN wanted[f] ELSE stored[f]]

PutUpdate(r) ==
    LET t == task[r] IN
    /\ t.at = "put_write" /\ t.policy # None
    /\ policy' = [policy EXCEPT ![t.repo] = UpdateRow(@, t.policy, Desired(t.payload, t.policy))]
    /\ Finish(r)
    /\ UNCHANGED <<groups, jobs, offered, perm, stale, changes>>

\* INSERT: repo_full_name is unique, so the second first PUT fails (a 500).
PutInsert(r) ==
    LET t == task[r] IN
    /\ t.at = "put_write" /\ t.policy = None
    /\ policy' = IF policy[t.repo] # None THEN policy
                 ELSE [policy EXCEPT ![t.repo] = Desired(t.payload, None)]
    /\ Finish(r)
    /\ UNCHANGED <<groups, jobs, offered, perm, stale, changes>>
-----------------------------------------------------------------------------
(* The webhook: a job carries the policy as it was read *)

EnqueueRead(r, x) ==
    /\ task[r].at = "idle"
    /\ policy[x] # None => policy[x].enabled
    /\ \E j \in Jobs : jobs[j].state = "absent"
    /\ task' = [task EXCEPT ![r] = [Idle EXCEPT !.at = "insert", !.repo = x,
                                                !.policy = policy[x]]]
    /\ UNCHANGED <<policy, groups, jobs, offered, perm, stale, changes>>

\* Each job is for a head of its own; two rows for one head are Dispatch's.
EnqueueInsert(r) ==
    LET t == task[r] IN
    /\ t.at = "insert"
    /\ \E j \in Jobs :
         /\ jobs[j].state = "absent" /\ \A k \in 1 .. (j - 1) : jobs[k].state # "absent"
         /\ jobs' = [jobs EXCEPT ![j] = [Absent EXCEPT
              !.state = "queued", !.repo = t.repo,
              !.min_tier = IF t.policy = None THEN 0 ELSE t.policy.min_tier,
              !.requested_strategies = IF t.policy = None THEN {}
                                       ELSE t.policy.default_strategies]]
    /\ Finish(r)
    /\ UNCHANGED <<policy, groups, offered, perm, stale, changes>>

\* The PR is closed: cancel_queued_jobs_for_pr waits for the row's lock, looks
\* at its state again, and holds the lock until the webhook commits.
CancelStart(r, j) ==
    /\ task[r].at = "idle"
    /\ jobs[j].state = "queued" /\ ~Locked(r, j)
    /\ task' = [task EXCEPT ![r] = [Idle EXCEPT !.at = "cancel", !.taken = j]]
    /\ UNCHANGED <<policy, groups, jobs, offered, perm, stale, changes>>

CancelCommit(r) ==
    /\ task[r].at = "cancel"
    /\ jobs' = [jobs EXCEPT ![task[r].taken].state = "done"]
    /\ Finish(r)
    /\ UNCHANGED <<policy, groups, offered, perm, stale, changes>>
-----------------------------------------------------------------------------
(* Leasing *)

\* The client row is loaded with the credential; its offer is read once.
LeaseNextStart(r, c) ==
    /\ task[r].at = "idle"
    /\ task' = [task EXCEPT ![r] = [Idle EXCEPT !.at = "scope", !.client = c,
                                                !.offered = offered[c]]]
    /\ UNCHANGED <<policy, groups, jobs, offered, perm, stale, changes>>

\* POST /jobs/{id}/lease: 404 unless the job can be seen, 403 below its floor.
LeaseOneStart(r, c, j) ==
    /\ task[r].at = "idle"
    /\ jobs[j].state # "absent" /\ jobs[j].repo \in accessible_repo_names(c)
    /\ jobs[j].min_tier \in tiers_at_or_below(Tier[c])
    /\ task' = [task EXCEPT ![r] = [Idle EXCEPT !.at = "checks", !.client = c,
                                                !.offered = offered[c], !.job = j]]
    /\ UNCHANGED <<policy, groups, jobs, offered, perm, stale, changes>>

\* Mutant: the pre-check looks at the accepted models only.
PreChecksModelsOnly(c, offer, row, p) ==
    /\ p # None => model_allowed(p.accepted_models, {}, Model[c])
    /\ strategies_overlap(row.requested_strategies, offer)

\* The 403s after the floor's: the allowlist in the policy p just read, then
\* the strategies.
PreChecks(c, offer, row, p) ==
    /\ IF p = None THEN model_allowed({}, {}, Model[c])
       ELSE model_allowed(p.accepted_models, p.accepted_model_groups, Model[c])
    /\ strategies_overlap(row.requested_strategies, offer)

LeaseOneChecks(r) ==
    LET t == task[r]
        row == jobs[t.job]
        passes == PreChecks(t.client, t.offered, row, policy[row.repo])
    IN  /\ t.at = "checks"
        /\ task' = [task EXCEPT ![r] = IF passes THEN [t EXCEPT !.at = "scope",
                                                        !.policy = policy[row.repo]]
                                       ELSE Idle]
        /\ UNCHANGED <<policy, groups, jobs, offered, perm, stale, changes>>

\* A snapshot past its TTL: the client is told to check in.
LeaseRefusedStale(r) ==
    /\ task[r].at = "scope" /\ stale[task[r].client]
    /\ Finish(r)
    /\ UNCHANGED <<policy, groups, jobs, offered, perm, stale, changes>>

\* The accessible repositories are a query of their own, before the lease's.
LeaseScope(r) ==
    /\ task[r].at = "scope" /\ ~stale[task[r].client]
    /\ task' = [task EXCEPT ![r].at = "lease",
                            ![r].access = accessible_repo_names(task[r].client)]
    /\ UNCHANGED <<policy, groups, jobs, offered, perm, stale, changes>>

\* Mutant: naming a job skips the allowlist, which was checked already.
LeasableUnlessChecked(t, j) ==
    /\ jobs[j].state = "queued" /\ (t.job # 0 => t.job = j)
    /\ jobs[j].min_tier \in tiers_at_or_below(Tier[t.client])
    /\ t.job = 0 => ModelAllowlistClause(Model[t.client], jobs[j].repo)
    /\ StrategyOverlap(jobs[j], t.offered) /\ jobs[j].repo \in t.access

Leasable(t, j) ==
    /\ jobs[j].state = "queued" /\ (t.job # 0 => t.job = j)
    /\ QueryMatches(t.client, t.offered, t.access, jobs[j])

\* FOR UPDATE SKIP LOCKED.
Available(r, j) == Leasable(task[r], j) /\ ~Locked(r, j)

\* The locking SELECT and _hand_over: the oldest match, or the job named.
Lease(r) ==
    /\ task[r].at = "lease"
    /\ \E j \in Jobs :
         /\ Available(r, j) /\ \A k \in 1 .. (j - 1) : ~Available(r, k)
         /\ task' = [task EXCEPT ![r].at = "commit", ![r].taken = j]
    /\ UNCHANGED <<policy, groups, jobs, offered, perm, stale, changes>>

LeaseCommit(r) ==
    LET t == task[r] IN
    /\ t.at = "commit"
    /\ jobs' = [jobs EXCEPT ![t.taken].state = "leased", ![t.taken].leased_by = t.client]
    /\ Finish(r)
    /\ UNCHANGED <<policy, groups, offered, perm, stale, changes>>

\* Nothing matches: an empty body, or a 409 when a job was named.
LeaseNothing(r) ==
    /\ task[r].at = "lease" /\ \A j \in Jobs : ~Available(r, j)
    /\ Finish(r)
    /\ UNCHANGED <<policy, groups, jobs, offered, perm, stale, changes>>

\* The request dies, at whatever step, and its transaction is rolled back.
Abort(r) ==
    /\ task[r].at # "idle"
    /\ Finish(r)
    /\ UNCHANGED <<policy, groups, jobs, offered, perm, stale, changes>>
-----------------------------------------------------------------------------
(* What moves the gates under a request *)

\* check-in with strategies: an omitted list leaves the offer alone.
CheckIn(c, offer) ==
    /\ Changed /\ offered[c] # offer
    /\ offered' = [offered EXCEPT ![c] = offer]
    /\ UNCHANGED <<policy, groups, jobs, perm, stale, task>>

\* A re-attestation replaces the account's snapshot; Attestation has the detail.
Attest(c, snapshot) ==
    /\ Changed
    /\ perm' = [perm EXCEPT ![c] = snapshot]
    /\ stale' = [stale EXCEPT ![c] = FALSE]
    /\ UNCHANGED <<policy, groups, jobs, offered, task>>

SnapshotAges(c) ==
    /\ ~stale[c] /\ Changed
    /\ stale' = [stale EXCEPT ![c] = TRUE]
    /\ UNCHANGED <<policy, groups, jobs, offered, perm, task>>

\* model_groups is process configuration: a change of it is a restart, which
\* drops what was in flight.
Redeploy(registry) ==
    /\ Changed /\ groups # registry
    /\ groups' = registry
    /\ task' = [r \in Reqs |-> Idle]
    /\ UNCHANGED <<policy, jobs, offered, perm, stale>>

\* A report, or a lapsed lease that is reclaimed; Dispatch has their transactions.
LeaseEnds(j) ==
    /\ jobs[j].state = "leased"
    /\ \E s \in {"queued", "done"} :
         jobs' = [jobs EXCEPT ![j].state = s, ![j].leased_by = None]
    /\ UNCHANGED <<policy, groups, offered, perm, stale, task, changes>>

TaskStep(r) ==
    \/ PutUnknownGroup(r) \/ PutRead(r) \/ PutUpdate(r) \/ PutInsert(r)
    \/ EnqueueInsert(r) \/ CancelCommit(r)
    \/ LeaseOneChecks(r) \/ LeaseRefusedStale(r) \/ LeaseScope(r)
    \/ Lease(r) \/ LeaseCommit(r) \/ LeaseNothing(r)

Arrive(r) ==
    \/ \E c \in Clients, x \in Repos, p \in Payloads : PutStart(r, c, x, p)
    \/ \E x \in Repos : EnqueueRead(r, x)
    \/ \E c \in Clients : LeaseNextStart(r, c)
    \/ \E c \in Clients, j \in Jobs : LeaseOneStart(r, c, j)
    \/ \E j \in Jobs : CancelStart(r, j)

Environment ==
    \/ \E c \in Clients : SnapshotAges(c)
                          \/ (\E offer \in Offers : CheckIn(c, offer))
                          \/ (\E s \in Snapshots : Attest(c, s))
    \/ \E registry \in Registries : Redeploy(registry)
    \/ \E j \in Jobs : LeaseEnds(j)

Next == (\E r \in Reqs : Arrive(r) \/ TaskStep(r) \/ Abort(r)) \/ Environment

Spec == Init /\ [][Next]_vars
-----------------------------------------------------------------------------
\* The rule a lease has to obey, as the docstrings of the two services put it:
\* the floor the job was queued under, the allowlist as it stands, the
\* strategies, and the repositories the caller's account can see.
Eligible(c, offer, access, row) ==
    /\ row.min_tier <= Tier[c]
    /\ PreChecks(c, offer, row, policy[row.repo])
    /\ row.repo \in access

\* The SQL predicates and the Python pre-checks are one rule: over every
\* policy, registry and profile they admit the same clients to the same jobs.
GatesAgree ==
    \A c \in Clients, j \in Jobs : LET access == accessible_repo_names(c) IN
        jobs[j].state # "absent" =>
            (QueryMatches(c, offered[c], access, jobs[j])
                <=> Eligible(c, offered[c], access, jobs[j]))

\* Naming a job, a PUT, a redeploy or a re-attestation under way open no way
\* round a gate: a request that takes a job clears them all at that moment, the
\* offer and the access being the ones it read, and a job that comes to be
\* leased was taken by that client's request and by no other.
LeaseClearsGates ==
    [][/\ \A r \in Reqs :
             task[r].at = "lease" /\ task'[r].at = "commit" =>
                Eligible(task[r].client, task[r].offered, task[r].access, jobs[task'[r].taken])
       /\ \A j \in Jobs :
             jobs[j].state = "queued" /\ jobs'[j].state = "leased" =>
                \E r \in Reqs : /\ task[r].at = "commit" /\ task[r].taken = j
                                /\ task[r].client = jobs'[j].leased_by
                                /\ ~Locked(r, j)]_vars

\* A PUT that leaves a list out leaves that list alone, also when another PUT
\* changed it after this one read the policy.
OmittedListStands ==
    [][\A r \in Reqs : LET t == task[r] IN
          t.at = "put_write" /\ task'[r].at = "idle" /\ policy[t.repo] # None =>
             \A f \in ListFields :
                t.payload[f] = None => policy'[t.repo][f] = policy[t.repo][f]]_vars

\* A named lease that found nothing to take lost a race: if the job is queued,
\* no other request holds its row, and its policy is the one checked, then the
\* caller has lost sight of the repository since the checks that would have
\* said why.  (A request that holds the row may still be rolled back.)
RefusalIsARace ==
    [][\A r \in Reqs : LET t == task[r]
                           row == jobs[t.job] IN
          /\ LeaseNothing(r) /\ t.job # 0
          /\ row.state = "queued" /\ ~Locked(r, t.job) /\ policy[row.repo] = t.policy
          => row.repo \notin t.access]_vars

\* PUT is a full replace of min_tier and enabled: the pair a policy holds is a
\* pair that some PUT named.
PairWasPut ==
    \A x \in Repos : policy[x] # None =>
        \E p \in Payloads : /\ p.min_tier = policy[x].min_tier
                            /\ p.enabled = policy[x].enabled
=============================================================================
