------------------------- MODULE PolicyGates_proofs -------------------------
(***************************************************************************)
(* Proofs about PolicyGates: that the SQL predicates and the Python checks *)
(* are one rule, and what follows from it for leases, refusals and PUTs    *)
(* that overlap.                                                           *)
(***************************************************************************)
EXTENDS PolicyGates, TLAPS

\* What a handler at a step has in hand; a job that exists has a repository, and a
\* policy that was read stays.
Shape ==
    /\ \A j \in Jobs : jobs[j].state # "absent" => jobs[j].repo \in Repos
    /\ \A r \in Reqs :
          /\ task[r].at \in {"put_read", "put_write"} => task[r].repo \in Repos /\ task[r].payload \in Upsert
          /\ task[r].at = "put_write" /\ task[r].policy # None => policy[task[r].repo] # None
          /\ task[r].at = "insert" => task[r].repo \in Repos
          /\ task[r].at \in {"checks", "scope", "lease", "commit"} => task[r].client \in Clients
          /\ task[r].at = "checks" => task[r].job # 0

\* A named job was there and above its floor when it was looked up, and past
\* the checks it clears the other gates under the policy read for them: none of
\* that depends on anything that changes under the request.
Checked ==
    \A r \in Reqs : LET t == task[r] IN
        t.job # 0 /\ t.at \in {"checks", "scope", "lease"} =>
            /\ jobs[t.job].state # "absent"
            /\ jobs[t.job].min_tier \in tiers_at_or_below(Tier[t.client])
            /\ t.at # "checks" => PreChecks(t.client, t.offered, jobs[t.job], t.policy)

\* A row that a transaction has written is locked: it stays queued until that
\* transaction ends, and no other has written it.
Held ==
    \A r \in Reqs :
        /\ task[r].taken # 0 <=> task[r].at \in {"commit", "cancel"}
        /\ task[r].taken # 0 =>
              /\ jobs[task[r].taken].state = "queued"
              /\ ~Locked(r, task[r].taken)

GatesInv == TypeOK /\ Shape /\ Checked /\ Held

-----------------------------------------------------------------------------
(* The rule and the policy rows *)

\* The correlated subquery and the pre-check read the same lists.
LEMMA AllowlistIsOne ==
    ASSUME TypeOK, NEW m \in Models, NEW x \in Repos
    PROVE  ModelAllowlistClause(m, x) <=>
           IF policy[x] = None THEN model_allowed({}, {}, m)
           ELSE model_allowed(policy[x].accepted_models, policy[x].accepted_model_groups, m)
<1>1. policy[x] \in Policy \cup {None}
    BY DEF TypeOK
<1>2. CASE policy[x] = None
    BY <1>2 DEF ModelAllowlistClause, LivePolicyList, model_allowed
<1>3. CASE policy[x] # None
    <2> DEFINE models == policy[x].accepted_models
               named == policy[x].accepted_model_groups
    <2>1. named \subseteq Groups
        BY <1>1, <1>3 DEF Policy
    <2>2. LivePolicyList(x, "accepted_models") = models /\ LivePolicyList(x, "accepted_model_groups") = named
        BY <1>3 DEF LivePolicyList
    <2>3. (\E g \in {h \in Groups : groups[h] # None /\ m \in Members(h)} : g \in named)
          <=> (\E g \in named : m \in Members(g))
        BY <2>1 DEF Members
    <2> HIDE DEF models, named
    <2>4. ModelAllowlistClause(m, x) <=> model_allowed(models, named, m)
        BY <2>2, <2>3 DEF ModelAllowlistClause, model_allowed
    <2> QED
        BY <1>3, <2>4 DEF models, named
<1> QED
    BY <1>2, <1>3

\* The query of a lease and the checks before it admit the same clients.
LEMMA OneRule ==
    ASSUME TypeOK, NEW c \in Clients, NEW offer, NEW access,
           NEW row \in Row, row.repo \in Repos
    PROVE  QueryMatches(c, offer, access, row) <=> Eligible(c, offer, access, row)
<1>1. Tier[c] \in Tiers /\ Model[c] \in Models
    BY PolicyGatesAssumption
<1>2. row.min_tier \in tiers_at_or_below(Tier[c]) <=> row.min_tier <= Tier[c]
    BY <1>1 DEF tiers_at_or_below, Row
<1>3. StrategyOverlap(row, offer) <=> strategies_overlap(row.requested_strategies, offer)
    BY DEF StrategyOverlap, strategies_overlap
<1>4. ModelAllowlistClause(Model[c], row.repo) <=>
      IF policy[row.repo] = None THEN model_allowed({}, {}, Model[c])
      ELSE model_allowed(policy[row.repo].accepted_models, policy[row.repo].accepted_model_groups, Model[c])
    BY <1>1, AllowlistIsOne
<1> QED
    BY <1>2, <1>3, <1>4 DEF QueryMatches, Eligible, PreChecks

\* A body on a policy row, or on none, gives a policy row.
LEMMA DesiredTyped ==
    ASSUME NEW p \in Upsert, NEW row \in Policy \cup {None}
    PROVE  Desired(p, row) \in Policy
<1> DEFINE item(f) == IF f \notin ListFields \/ p[f] # None THEN p[f]
                      ELSE IF row = None THEN {} ELSE row[f]
<1>1. item("min_tier") \in Tiers /\ item("enabled") \in BOOLEAN
    BY DEF ListFields, Upsert
<1>2. /\ p.default_strategies # None => p.default_strategies \in SUBSET Strategies
      /\ p.accepted_models # None => p.accepted_models \in SUBSET Models
      /\ p.accepted_model_groups # None => p.accepted_model_groups \in SUBSET Groups
    BY DEF Upsert
<1>3. row # None => /\ row.default_strategies \in SUBSET Strategies
                    /\ row.accepted_models \in SUBSET Models
                    /\ row.accepted_model_groups \in SUBSET Groups
    BY DEF Policy
<1>4. /\ item("default_strategies") \in SUBSET Strategies
      /\ item("accepted_models") \in SUBSET Models
      /\ item("accepted_model_groups") \in SUBSET Groups
    BY <1>2, <1>3 DEF ListFields
<1>5. Desired(p, row) = [f \in Fields |-> item(f)]
    BY DEF Desired
<1> HIDE DEF item
<1> QED
    BY <1>1, <1>4, <1>5 DEF Fields, ListFields, Policy

LEMMA UpdateRowTyped ==
    ASSUME NEW stored \in Policy, NEW row \in Policy, NEW wanted \in Policy
    PROVE  UpdateRow(stored, row, wanted) \in Policy
BY DEF UpdateRow, Fields, ListFields, Policy

\* A list the body leaves out is the stored one, whatever row was read.
LEMMA UpdateLeavesOut ==
    ASSUME NEW stored \in Policy, NEW row \in Policy, row # None, NEW p \in Upsert,
           NEW f \in ListFields, p[f] = None
    PROVE  UpdateRow(stored, row, Desired(p, row))[f] = stored[f]
<1>1. Desired(p, row)[f] = row[f]
    BY DEF Desired, Fields
<1> QED
    BY <1>1 DEF UpdateRow, Fields

-----------------------------------------------------------------------------
(* The invariant *)

LEMMA IdleTyped == Idle \in Task
BY DEF Idle, Task, Step

LEMMA InitInv == Init => GatesInv
<1> SUFFICES ASSUME Init PROVE GatesInv
    OBVIOUS
<1> USE PolicyGatesAssumption
<1>1. TypeOK
    <2>1. Absent \in Row
        BY DEF Absent, Row, Tiers
    <2>2. perm \in [Clients -> [Repos -> Permission]]
        BY DEF Init
    <2>3. groups \in Registry /\ changes \in 0 .. MaxChanges
        BY DEF Init
    <2> QED
        BY <2>1, <2>2, <2>3, IdleTyped DEF Init, TypeOK
<1>2. Shape /\ Checked /\ Held
    BY DEF Init, Shape, Checked, Held, Absent, Idle
<1> QED
    BY <1>1, <1>2 DEF GatesInv

\* A handler that moves on or ends, and nothing else of the hub changes: what it
\* holds now is all there is to check.
LEMMA TaskMoves ==
    ASSUME GatesInv, NEW r \in Reqs, NEW t \in Task, NEW n \in 0 .. MaxChanges,
           task' = [task EXCEPT ![r] = t], changes' = n,
           UNCHANGED <<policy, groups, jobs, offered, perm, stale>>,
           t.at \in {"put_read", "put_write"} => t.repo \in Repos /\ t.payload \in Upsert,
           t.at = "put_write" /\ t.policy # None => policy[t.repo] # None,
           t.at = "insert" => t.repo \in Repos,
           t.at \in {"checks", "scope", "lease", "commit"} => t.client \in Clients,
           t.at = "checks" => t.job # 0,
           t.taken # 0 <=> t.at \in {"commit", "cancel"},
           t.taken # 0 => jobs[t.taken].state = "queued" /\ ~Locked(r, t.taken),
           t.job # 0 /\ t.at \in {"checks", "scope", "lease"} =>
               /\ jobs[t.job].state # "absent"
               /\ jobs[t.job].min_tier \in tiers_at_or_below(Tier[t.client])
               /\ t.at # "checks" => PreChecks(t.client, t.offered, jobs[t.job], t.policy)
    PROVE  GatesInv'
<1>1. TypeOK'
    BY DEF GatesInv, TypeOK
<1>2. \A q \in Reqs : task'[q] = IF q = r THEN t ELSE task[q]
    BY DEF GatesInv, TypeOK
<1>3. Shape'
    BY <1>2 DEF GatesInv, Shape
<1>4. \A c, offer, row, p : PreChecks(c, offer, row, p)' <=> PreChecks(c, offer, row, p)
    BY DEF PreChecks, model_allowed, Members
<1>5. Checked'
    BY <1>2, <1>4 DEF GatesInv, Checked
<1>6. Held'
    BY <1>2 DEF GatesInv, Held, Locked
<1> QED
    BY <1>1, <1>3, <1>5, <1>6 DEF GatesInv

\* Jobs whose gates stay as they were, and no job less: the checks made stand,
\* and so do the locks if no row that is held changes its state.
LEMMA JobsMove ==
    ASSUME GatesInv, NEW r \in Reqs, NEW kept \in {Idle, task[r]},
           jobs' \in [Jobs -> Row], task' = [task EXCEPT ![r] = kept],
           UNCHANGED <<policy, groups, offered, perm, stale, changes>>,
           \A q \in Reqs : task'[q].taken # 0 => jobs'[task[q].taken].state = "queued",
           \A j \in Jobs :
              /\ jobs'[j].state # "absent" => jobs'[j].repo \in Repos
              /\ jobs[j].state # "absent" =>
                    /\ jobs'[j].state # "absent"
                    /\ jobs'[j].min_tier = jobs[j].min_tier
                    /\ jobs'[j].requested_strategies = jobs[j].requested_strategies
    PROVE  GatesInv'
<1>1. kept \in Task
    BY IdleTyped DEF GatesInv, TypeOK
<1>2. TypeOK'
    BY <1>1 DEF GatesInv, TypeOK
<1>3. \A q \in Reqs : task'[q] = IF q = r THEN kept ELSE task[q]
    BY DEF GatesInv, TypeOK
<1>4. \A q \in Reqs : task'[q].job # 0 /\ task'[q].at \in {"checks", "scope", "lease"} => task'[q] = task[q]
    BY <1>3 DEF Idle
<1>5. Shape'
    BY <1>3 DEF GatesInv, Shape, Idle
<1>6. \A q \in Reqs : task[q].job # 0 => task[q].job \in Jobs
    BY DEF GatesInv, TypeOK, Task
<1>7. ASSUME NEW c, NEW offer, NEW p, NEW j \in Jobs, jobs[j].state # "absent"
      PROVE  PreChecks(c, offer, jobs[j], p) => PreChecks(c, offer, jobs[j], p)'
    BY <1>7 DEF PreChecks, model_allowed, Members, strategies_overlap
<1>8. Checked'
    <2> SUFFICES ASSUME NEW q \in Reqs, task'[q].job # 0, task'[q].at \in {"checks", "scope", "lease"}
                 PROVE  /\ jobs'[task'[q].job].state # "absent"
                        /\ jobs'[task'[q].job].min_tier \in tiers_at_or_below(Tier[task'[q].client])
                        /\ task'[q].at # "checks" =>
                              PreChecks(task[q].client, task[q].offered, jobs[task[q].job], task[q].policy)'
        BY <1>4 DEF Checked
    <2>1. task'[q] = task[q] /\ task[q].job \in Jobs
        BY <1>4, <1>6
    <2>2. /\ jobs[task[q].job].state # "absent"
          /\ jobs[task[q].job].min_tier \in tiers_at_or_below(Tier[task[q].client])
          /\ task[q].at # "checks" => PreChecks(task[q].client, task[q].offered, jobs[task[q].job], task[q].policy)
        BY <2>1 DEF GatesInv, Checked
    <2> QED
        BY <2>1, <2>2, <1>7
<1>9. Held'
    BY <1>3 DEF GatesInv, Held, Locked, Idle
<1> QED
    BY <1>2, <1>5, <1>8, <1>9 DEF GatesInv

\* A PUT that writes ends there.
LEMMA PolicyMoves ==
    ASSUME GatesInv, NEW r \in Reqs, Finish(r),
           NEW x \in Repos, NEW p \in Policy \cup {None}, policy' = [policy EXCEPT ![x] = p],
           p = None => policy[x] = None,
           UNCHANGED <<groups, jobs, offered, perm, stale, changes>>
    PROVE  GatesInv'
<1>1. TypeOK'
    BY IdleTyped DEF GatesInv, TypeOK, Finish
<1>2. \A q \in Reqs : task'[q] = IF q = r THEN Idle ELSE task[q]
    BY DEF GatesInv, TypeOK, Finish
<1>3. Shape'
    BY <1>2 DEF GatesInv, Shape, Idle
<1>4. \A c, offer, row, q : PreChecks(c, offer, row, q)' <=> PreChecks(c, offer, row, q)
    BY DEF PreChecks, model_allowed, Members
<1>5. Checked'
    BY <1>2, <1>4 DEF GatesInv, Checked, Idle
<1>6. Held'
    BY <1>2 DEF GatesInv, Held, Locked, Idle
<1> QED
    BY <1>1, <1>3, <1>5, <1>6 DEF GatesInv

\* Offers, snapshots and their age are no part of what is kept.
LEMMA ProfilesMove ==
    ASSUME GatesInv, UNCHANGED <<policy, groups, jobs, task>>, TypeOK'
    PROVE  GatesInv'
<1>1. Shape'
    BY DEF GatesInv, Shape
<1>2. \A c, offer, row, p : PreChecks(c, offer, row, p)' <=> PreChecks(c, offer, row, p)
    BY DEF PreChecks, model_allowed, Members
<1>3. Checked'
    BY <1>2 DEF GatesInv, Checked
<1>4. Held'
    BY DEF GatesInv, Held, Locked
<1> QED
    BY <1>1, <1>3, <1>4 DEF GatesInv

LEMMA PutKeepsInv ==
    ASSUME GatesInv, NEW r \in Reqs,
           \/ \E c \in Clients, x \in Repos, p \in Payloads : PutStart(r, c, x, p)
           \/ PutUnknownGroup(r) \/ PutRead(r) \/ PutUpdate(r) \/ PutInsert(r)
    PROVE  GatesInv'
<1>1. task[r] \in Task /\ changes \in 0 .. MaxChanges /\ policy \in [Repos -> Policy \cup {None}]
    BY DEF GatesInv, TypeOK
<1>2. /\ task[r].at \in {"put_read", "put_write"} => task[r].repo \in Repos /\ task[r].payload \in Upsert
      /\ task[r].at = "put_write" /\ task[r].policy # None => policy[task[r].repo] # None
    BY DEF GatesInv, Shape
<1>a. MaxChanges \in Nat /\ Payloads \subseteq Upsert /\ None \notin Policy
    BY PolicyGatesAssumption
<1>3. CASE \E c \in Clients, x \in Repos, p \in Payloads : PutStart(r, c, x, p)
    <2>1. PICK c \in Clients, x \in Repos, p \in Payloads : PutStart(r, c, x, p)
        BY <1>3
    <2> DEFINE t == [Idle EXCEPT !.at = "put_read", !.repo = x, !.payload = p]
    <2>2. p \in Upsert
        BY <1>a
    <2>3. t \in Task /\ t.at = "put_read" /\ t.repo = x /\ t.payload = p /\ t.job = 0 /\ t.taken = 0
        BY <2>2, IdleTyped DEF Task, Idle, Step
    <2>4. changes' \in 0 .. MaxChanges
        <3>1. changes < MaxChanges /\ changes' = changes + 1
            BY <2>1 DEF PutStart, Changed
        <3> QED
            BY <1>1, <1>a, <3>1
    <2>5. task' = [task EXCEPT ![r] = t] /\ UNCHANGED <<policy, groups, jobs, offered, perm, stale>>
        BY <2>1 DEF PutStart
    <2> HIDE DEF t
    <2> QED
        BY <2>2, <2>3, <2>4, <2>5, TaskMoves
<1>4. CASE PutUnknownGroup(r)
    <2>1. /\ task' = [task EXCEPT ![r] = Idle] /\ changes' = changes
          /\ UNCHANGED <<policy, groups, jobs, offered, perm, stale>>
        BY <1>4 DEF PutUnknownGroup, Finish
    <2>2. Idle.at = "idle" /\ Idle.taken = 0
        BY DEF Idle
    <2> QED
        BY <1>1, <2>1, <2>2, IdleTyped, TaskMoves
<1>5. CASE PutRead(r)
    <2> DEFINE t == [task[r] EXCEPT !.at = "put_write", !.policy = policy[task[r].repo]]
    <2>1. policy[task[r].repo] \in Policy \cup {None}
        BY <1>1, <1>2, <1>5 DEF PutRead
    <2>2. t \in Task /\ t.at = "put_write" /\ t.repo = task[r].repo /\ t.payload = task[r].payload
          /\ t.policy = policy[task[r].repo] /\ t.taken = 0
        BY <1>1, <1>5, <2>1 DEF Task, Step, PutRead, GatesInv, Held
    <2>3. task' = [task EXCEPT ![r] = t] /\ UNCHANGED <<policy, groups, jobs, offered, perm, stale>>
          /\ changes' = changes /\ task[r].at = "put_read"
        BY <1>5 DEF PutRead
    <2> HIDE DEF t
    <2>4. /\ t.repo \in Repos /\ t.payload \in Upsert
          /\ t.policy # None => policy[t.repo] # None
        BY <1>2, <2>2, <2>3
    <2> QED
        BY <1>1, <2>2, <2>3, <2>4, TaskMoves
<1>6. CASE PutUpdate(r)
    <2>1. task[r].policy \in Policy
        BY <1>1, <1>6 DEF PutUpdate, Task
    <2>2. Desired(task[r].payload, task[r].policy) \in Policy
        BY <1>2, <1>6, <2>1, DesiredTyped DEF PutUpdate
    <2> DEFINE x == task[r].repo
               p == UpdateRow(policy[x], task[r].policy, Desired(task[r].payload, task[r].policy))
    <2>3. policy[x] \in Policy
        BY <1>1, <1>2, <1>6 DEF PutUpdate
    <2>4. p \in Policy
        BY <2>1, <2>2, <2>3, UpdateRowTyped
    <2>5. x \in Repos /\ policy' = [policy EXCEPT ![x] = p] /\ Finish(r)
          /\ UNCHANGED <<groups, jobs, offered, perm, stale, changes>>
        BY <1>2, <1>6 DEF PutUpdate
    <2> HIDE DEF x, p
    <2> QED
        BY <1>a, <2>4, <2>5, PolicyMoves
<1>7. CASE PutInsert(r)
    <2> DEFINE x == task[r].repo
               p == IF policy[x] # None THEN policy[x] ELSE Desired(task[r].payload, None)
    <2>1. x \in Repos /\ policy[x] \in Policy \cup {None}
        BY <1>1, <1>2, <1>7 DEF PutInsert
    <2>2. p \in Policy \cup {None} /\ (p = None => policy[x] = None)
        BY <1>2, <1>7, <1>a, <2>1, DesiredTyped DEF PutInsert
    <2>3. policy' = [policy EXCEPT ![x] = p]
        BY <1>1, <1>7, <2>1 DEF PutInsert
    <2>4. Finish(r) /\ UNCHANGED <<groups, jobs, offered, perm, stale, changes>>
        BY <1>7 DEF PutInsert
    <2> HIDE DEF x, p
    <2> QED
        BY <2>1, <2>2, <2>3, <2>4, PolicyMoves
<1> QED
    BY <1>3, <1>4, <1>5, <1>6, <1>7

LEMMA EnqueueKeepsInv ==
    ASSUME GatesInv, NEW r \in Reqs,
           (\E x \in Repos : EnqueueRead(r, x)) \/ EnqueueInsert(r)
    PROVE  GatesInv'
<1>1. task[r] \in Task /\ changes \in 0 .. MaxChanges /\ policy \in [Repos -> Policy \cup {None}]
    BY DEF GatesInv, TypeOK
<1>2. CASE \E x \in Repos : EnqueueRead(r, x)
    <2>1. PICK x \in Repos : EnqueueRead(r, x)
        BY <1>2
    <2> DEFINE t == [Idle EXCEPT !.at = "insert", !.repo = x, !.policy = policy[x]]
    <2>2. t \in Task /\ t.at = "insert" /\ t.repo = x /\ t.job = 0 /\ t.taken = 0
        BY <1>1, IdleTyped DEF Task, Idle, Step
    <2>3. task' = [task EXCEPT ![r] = t] /\ UNCHANGED <<policy, groups, jobs, offered, perm, stale>>
          /\ changes' = changes
        BY <2>1 DEF EnqueueRead
    <2> HIDE DEF t
    <2> QED
        BY <1>1, <2>2, <2>3, TaskMoves
<1>3. CASE EnqueueInsert(r)
    <2> DEFINE t == task[r]
               row == [Absent EXCEPT
                         !.state = "queued", !.repo = t.repo,
                         !.min_tier = IF t.policy = None THEN 0 ELSE t.policy.min_tier,
                         !.requested_strategies = IF t.policy = None THEN {}
                                                  ELSE t.policy.default_strategies]
    <2>1. PICK j \in Jobs : jobs[j].state = "absent" /\ jobs' = [jobs EXCEPT ![j] = row]
        BY <1>3 DEF EnqueueInsert
    <2>2. t.repo \in Repos
        BY <1>3 DEF GatesInv, Shape, EnqueueInsert
    <2>3. t.policy \in Policy \cup {None}
        BY <1>1 DEF Task
    <2>4. row \in Row /\ row.repo \in Repos
        <3>1. (IF t.policy = None THEN 0 ELSE t.policy.min_tier) \in Tiers
            BY <2>3 DEF Policy, Tiers
        <3>2. (IF t.policy = None THEN {} ELSE t.policy.default_strategies) \in SUBSET Strategies
            BY <2>3 DEF Policy
        <3> QED
            BY <2>2, <3>1, <3>2 DEF Row, Absent
    <2>5. task' = [task EXCEPT ![r] = Idle] /\ UNCHANGED <<policy, groups, offered, perm, stale, changes>>
        BY <1>3 DEF EnqueueInsert, Finish
    <2> HIDE DEF row
    <2>6. jobs \in [Jobs -> Row] /\ \A k \in Jobs : jobs[k].state # "absent" => jobs[k].repo \in Repos
        BY DEF GatesInv, TypeOK, Shape
    <2>7. jobs' \in [Jobs -> Row] /\ \A k \in Jobs : jobs'[k] = IF k = j THEN row ELSE jobs[k]
        BY <2>1, <2>4, <2>6
    <2>8. \A q \in Reqs : task'[q].taken # 0 => jobs'[task[q].taken].state = "queued"
        <3>1. \A q \in Reqs : task'[q].taken # 0 => task[q].taken # 0
            BY <2>5 DEF GatesInv, TypeOK, Idle
        <3>2. \A q \in Reqs : task[q].taken # 0 => jobs[task[q].taken].state = "queued" /\ task[q].taken \in Jobs
            BY DEF GatesInv, TypeOK, Held, Task
        <3> QED
            BY <2>1, <2>7, <3>1, <3>2
    <2> QED
        BY <2>1, <2>4, <2>5, <2>6, <2>7, <2>8, JobsMove
<1> QED
    BY <1>2, <1>3

\* Closing a PR locks a row and later commits its cancellation.
LEMMA CancelStartKeepsInv ==
    ASSUME GatesInv, NEW r \in Reqs, NEW j \in Jobs, CancelStart(r, j)
    PROVE  GatesInv'
<1> DEFINE t == [Idle EXCEPT !.at = "cancel", !.taken = j]
<1>1. t \in Task /\ t.at = "cancel" /\ t.taken = j /\ t.job = 0
    BY IdleTyped DEF Task, Idle, Step
<1>4. j # 0
    BY PolicyGatesAssumption DEF Jobs
<1>2. task' = [task EXCEPT ![r] = t] /\ UNCHANGED <<policy, groups, jobs, offered, perm, stale>>
      /\ changes' = changes /\ jobs[j].state = "queued" /\ ~Locked(r, j)
    BY DEF CancelStart
<1>3. changes \in 0 .. MaxChanges
    BY DEF GatesInv, TypeOK
<1> HIDE DEF t
<1> QED
    BY <1>1, <1>2, <1>3, <1>4, TaskMoves

LEMMA AbortKeepsInv ==
    ASSUME GatesInv, NEW r \in Reqs, Abort(r)
    PROVE  GatesInv'
<1>1. Idle.at = "idle" /\ Idle.taken = 0
    BY DEF Idle
<1>2. /\ task' = [task EXCEPT ![r] = Idle] /\ changes' = changes /\ changes \in 0 .. MaxChanges
      /\ UNCHANGED <<policy, groups, jobs, offered, perm, stale>>
    BY DEF Abort, Finish, GatesInv, TypeOK
<1> QED
    BY <1>1, <1>2, IdleTyped, TaskMoves

LEMMA LeaseStartKeepsInv ==
    ASSUME GatesInv, NEW r \in Reqs, NEW c \in Clients,
           LeaseNextStart(r, c) \/ \E j \in Jobs : LeaseOneStart(r, c, j)
    PROVE  GatesInv'
<1>1. changes \in 0 .. MaxChanges /\ offered \in [Clients -> SUBSET Strategies]
    BY DEF GatesInv, TypeOK
<1>2. CASE LeaseNextStart(r, c)
    <2> DEFINE t == [Idle EXCEPT !.at = "scope", !.client = c, !.offered = offered[c]]
    <2>1. t \in Task /\ t.at = "scope" /\ t.client = c /\ t.job = 0 /\ t.taken = 0
        BY <1>1, IdleTyped DEF Task, Idle, Step
    <2>2. task' = [task EXCEPT ![r] = t] /\ UNCHANGED <<policy, groups, jobs, offered, perm, stale>>
          /\ changes' = changes
        BY <1>2 DEF LeaseNextStart
    <2> HIDE DEF t
    <2> QED
        BY <1>1, <2>1, <2>2, TaskMoves
<1>3. CASE \E j \in Jobs : LeaseOneStart(r, c, j)
    <2>1. PICK j \in Jobs : LeaseOneStart(r, c, j)
        BY <1>3
    <2> DEFINE t == [Idle EXCEPT !.at = "checks", !.client = c, !.offered = offered[c], !.job = j]
    <2>2. t \in Task /\ t.at = "checks" /\ t.client = c /\ t.job = j /\ t.taken = 0
        BY <1>1, IdleTyped DEF Task, Idle, Step
    <2>3. j # 0
        BY PolicyGatesAssumption DEF Jobs
    <2>4. task' = [task EXCEPT ![r] = t] /\ UNCHANGED <<policy, groups, jobs, offered, perm, stale>>
          /\ changes' = changes /\ jobs[j].state # "absent"
          /\ jobs[j].min_tier \in tiers_at_or_below(Tier[c])
        BY <2>1 DEF LeaseOneStart
    <2> HIDE DEF t
    <2> QED
        BY <1>1, <2>2, <2>3, <2>4, TaskMoves
<1> QED
    BY <1>2, <1>3

LEMMA LeaseStepKeepsInv ==
    ASSUME GatesInv, NEW r \in Reqs,
           LeaseOneChecks(r) \/ LeaseRefusedStale(r) \/ LeaseScope(r) \/ Lease(r) \/ LeaseNothing(r)
    PROVE  GatesInv'
<1>1. task[r] \in Task /\ changes \in 0 .. MaxChanges
    BY DEF GatesInv, TypeOK
<1>2. task[r].at \in {"checks", "scope", "lease"} => task[r].client \in Clients
    BY DEF GatesInv, Shape
<1>3. task[r].job # 0 /\ task[r].at \in {"checks", "scope", "lease"} =>
        /\ jobs[task[r].job].state # "absent"
        /\ jobs[task[r].job].min_tier \in tiers_at_or_below(Tier[task[r].client])
        /\ task[r].at # "checks" =>
              PreChecks(task[r].client, task[r].offered, jobs[task[r].job], task[r].policy)
    BY DEF GatesInv, Checked
<1>4. /\ Idle.at = "idle" /\ Idle.taken = 0
      /\ task[r].at \in {"checks", "scope", "lease"} => task[r].taken = 0
    BY DEF Idle, GatesInv, Held
<1>5. CASE LeaseOneChecks(r)
    <2> DEFINE row == jobs[task[r].job]
               passes == PreChecks(task[r].client, task[r].offered, row, policy[row.repo])
               t == IF passes THEN [task[r] EXCEPT !.at = "scope", !.policy = policy[row.repo]] ELSE Idle
    <2>1. task[r].at = "checks" /\ task' = [task EXCEPT ![r] = t] /\ changes' = changes
          /\ UNCHANGED <<policy, groups, jobs, offered, perm, stale>>
        BY <1>5 DEF LeaseOneChecks
    <2>2. task[r].job # 0 /\ task[r].job \in Jobs
        BY <1>1, <2>1 DEF GatesInv, Shape, Task
    <2>3. row.state # "absent" /\ row.repo \in Repos
        BY <1>3, <2>1, <2>2 DEF GatesInv, Shape
    <2>4. policy[row.repo] \in Policy \cup {None}
        BY <2>3 DEF GatesInv, TypeOK
    <2>5. CASE passes
        <3>1. t = [task[r] EXCEPT !.at = "scope", !.policy = policy[row.repo]]
            BY <2>5
        <3>2. t \in Task /\ t.at = "scope" /\ t.client = task[r].client /\ t.job = task[r].job
              /\ t.offered = task[r].offered /\ t.policy = policy[row.repo] /\ t.taken = 0
            BY <1>1, <1>4, <2>1, <2>4, <3>1 DEF Task, Step
        <3>3. PreChecks(t.client, t.offered, jobs[t.job], t.policy)
            BY <2>5, <3>2
        <3> HIDE DEF t, passes
        <3> QED
            BY <1>1, <1>2, <1>3, <2>1, <2>2, <3>2, <3>3, TaskMoves
    <2>6. CASE ~passes
        <3>1. t = Idle
            BY <2>6
        <3> HIDE DEF t, passes
        <3> QED
            BY <1>1, <1>4, <2>1, <3>1, IdleTyped, TaskMoves
    <2> QED
        BY <2>5, <2>6
<1>6. CASE LeaseRefusedStale(r) \/ LeaseNothing(r)
    <2>1. /\ task' = [task EXCEPT ![r] = Idle] /\ changes' = changes
          /\ UNCHANGED <<policy, groups, jobs, offered, perm, stale>>
        BY <1>6 DEF LeaseRefusedStale, LeaseNothing, Finish
    <2> QED
        BY <1>1, <1>4, <2>1, IdleTyped, TaskMoves
<1>7. CASE LeaseScope(r)
    <2> DEFINE t == [task[r] EXCEPT !.at = "lease", !.access = accessible_repo_names(task[r].client)]
    <2>1. accessible_repo_names(task[r].client) \in SUBSET Repos
        BY DEF accessible_repo_names
    <2>2. t \in Task /\ t.at = "lease" /\ t.client = task[r].client /\ t.job = task[r].job
          /\ t.offered = task[r].offered /\ t.policy = task[r].policy /\ t.taken = 0
        BY <1>1, <1>4, <1>7, <2>1 DEF Task, Step, LeaseScope
    <2>3. task' = [task EXCEPT ![r] = t] /\ changes' = changes /\ task[r].at = "scope"
          /\ UNCHANGED <<policy, groups, jobs, offered, perm, stale>>
        BY <1>7 DEF LeaseScope
    <2> HIDE DEF t
    <2>4. t.job # 0 => PreChecks(t.client, t.offered, jobs[t.job], t.policy)
        BY <1>3, <2>2, <2>3
    <2> QED
        BY <1>1, <1>2, <1>3, <2>2, <2>3, <2>4, TaskMoves
<1>8. CASE Lease(r)
    <2>1. PICK j \in Jobs : Available(r, j) /\ task' = [task EXCEPT ![r].at = "commit", ![r].taken = j]
        BY <1>8 DEF Lease
    <2> DEFINE t == [task[r] EXCEPT !.at = "commit", !.taken = j]
    <2>2. t \in Task /\ t.at = "commit" /\ t.client = task[r].client /\ t.taken = j
        BY <1>1 DEF Task, Step
    <2>5. j # 0
        BY PolicyGatesAssumption DEF Jobs
    <2>3. task' = [task EXCEPT ![r] = t] /\ changes' = changes /\ task[r].at = "lease"
          /\ UNCHANGED <<policy, groups, jobs, offered, perm, stale>>
        BY <1>8, <2>1 DEF Lease, GatesInv, TypeOK
    <2>4. jobs[j].state = "queued" /\ ~Locked(r, j)
        BY <2>1 DEF Available, Leasable
    <2> HIDE DEF t
    <2> QED
        BY <1>1, <1>2, <2>2, <2>3, <2>4, <2>5, TaskMoves
<1> QED
    BY <1>5, <1>6, <1>7, <1>8

LEMMA JobsKeepInv ==
    ASSUME GatesInv,
           (\E r \in Reqs : LeaseCommit(r) \/ CancelCommit(r)) \/ (\E j \in Jobs : LeaseEnds(j))
    PROVE  GatesInv'
<1>1. jobs \in [Jobs -> Row] /\ task \in [Reqs -> Task]
      /\ \A k \in Jobs : jobs[k].state # "absent" => jobs[k].repo \in Repos
    BY DEF GatesInv, TypeOK, Shape
<1>a. \A q \in Reqs : task[q].taken # 0 =>
         task[q].taken \in Jobs /\ jobs[task[q].taken].state = "queued" /\ ~Locked(q, task[q].taken)
    BY <1>1 DEF GatesInv, Held, Task
<1>2. ASSUME NEW r \in Reqs, LeaseCommit(r) \/ CancelCommit(r)
      PROVE  GatesInv'
    <2> DEFINE j == task[r].taken
               row == IF task[r].at = "commit" THEN [jobs[j] EXCEPT !.state = "leased", !.leased_by = task[r].client]
                      ELSE [jobs[j] EXCEPT !.state = "done"]
    <2>1. task[r].at \in {"commit", "cancel"} /\ j \in Jobs /\ jobs[j].state = "queued"
        BY <1>2, <1>a DEF LeaseCommit, CancelCommit, GatesInv, Held
    <2>2. task[r].at = "commit" => task[r].client \in Clients
        BY DEF GatesInv, Shape
    <2>3. row \in Row /\ row.state # "absent" /\ row.repo = jobs[j].repo
          /\ row.min_tier = jobs[j].min_tier /\ row.requested_strategies = jobs[j].requested_strategies
        BY <1>1, <2>1, <2>2 DEF Row
    <2>4. jobs' = [jobs EXCEPT ![j] = row]
        BY <1>1, <1>2, <2>1 DEF LeaseCommit, CancelCommit
    <2>5. jobs' \in [Jobs -> Row] /\ \A k \in Jobs : jobs'[k] = IF k = j THEN row ELSE jobs[k]
        BY <1>1, <2>1, <2>3, <2>4
    <2>6. task' = [task EXCEPT ![r] = Idle] /\ UNCHANGED <<policy, groups, offered, perm, stale, changes>>
        BY <1>2 DEF LeaseCommit, CancelCommit, Finish
    <2> HIDE DEF row
    <2>7. \A q \in Reqs : task'[q].taken # 0 => jobs'[task[q].taken].state = "queued"
        <3> SUFFICES ASSUME NEW q \in Reqs, task'[q].taken # 0
                     PROVE  jobs'[task[q].taken].state = "queued"
            OBVIOUS
        <3>1. q # r /\ task[q].taken # 0
            BY <1>1, <2>6 DEF Idle
        <3>2. task[q].taken \in Jobs \ {j} /\ jobs[task[q].taken].state = "queued"
            BY <1>a, <3>1 DEF Locked
        <3> QED
            BY <2>5, <3>2
    <2> HIDE DEF j
    <2> QED
        BY <1>1, <2>1, <2>3, <2>5, <2>6, <2>7, JobsMove
<1>3. ASSUME NEW j \in Jobs, LeaseEnds(j)
      PROVE  GatesInv'
    <2>1. PICK s \in {"queued", "done"} :
             jobs' = [jobs EXCEPT ![j].state = s, ![j].leased_by = None]
        BY <1>3 DEF LeaseEnds
    <2> DEFINE row == [jobs[j] EXCEPT !.state = s, !.leased_by = None]
    <2>2. row \in Row /\ row.state = s /\ row.repo = jobs[j].repo
          /\ row.min_tier = jobs[j].min_tier /\ row.requested_strategies = jobs[j].requested_strategies
        BY <1>1 DEF Row
    <2>3. jobs' \in [Jobs -> Row] /\ \A k \in Jobs : jobs'[k] = IF k = j THEN row ELSE jobs[k]
        BY <1>1, <2>1, <2>2
    <2>4. UNCHANGED <<policy, groups, offered, perm, stale, task, changes>> /\ jobs[j].state = "leased"
        BY <1>3 DEF LeaseEnds
    <2> HIDE DEF row
    <2>5. \A k \in Jobs :
              /\ jobs'[k].state # "absent" => jobs'[k].repo \in Repos
              /\ jobs[k].state # "absent" => /\ jobs'[k].state # "absent"
                                             /\ jobs'[k].min_tier = jobs[k].min_tier
                                             /\ jobs'[k].requested_strategies = jobs[k].requested_strategies
        BY <1>1, <2>2, <2>3, <2>4
    <2>8. \A q \in Reqs : task'[q].taken # 0 => jobs'[task[q].taken].state = "queued"
        BY <1>a, <2>3, <2>4
    <2>6. CASE Reqs = {}
        <3>1. TypeOK'
            BY <2>3, <2>4 DEF GatesInv, TypeOK
        <3> QED
            BY <2>5, <2>6, <3>1 DEF GatesInv, Shape, Checked, Held
    <2>7. CASE Reqs # {}
        <3>1. PICK r \in Reqs : TRUE
            BY <2>7
        <3>2. task' = [task EXCEPT ![r] = task[r]]
            BY <1>1, <2>4
        <3> QED
            BY <2>3, <2>4, <2>5, <2>8, <3>2, JobsMove
    <2> QED
        BY <2>6, <2>7
<1> QED
    BY <1>2, <1>3

LEMMA EnvironmentKeepsInv == GatesInv /\ Environment => GatesInv'
<1> SUFFICES ASSUME GatesInv, Environment PROVE GatesInv'
    OBVIOUS
<1>1. MaxChanges \in Nat
      /\ (\A offer \in Offers : offer \in SUBSET Strategies)
      /\ (\A s \in Snapshots : s \in [Repos -> Permission])
      /\ (\A registry \in Registries : registry \in Registry)
    BY PolicyGatesAssumption
<1>2. Changed => changes' \in 0 .. MaxChanges
    <2>1. changes \in 0 .. MaxChanges
        BY DEF GatesInv, TypeOK
    <2> QED
        BY <1>1, <2>1 DEF Changed
<1>3. ASSUME NEW c \in Clients, SnapshotAges(c) PROVE GatesInv'
    <2>1. TypeOK'
        BY <1>2, <1>3 DEF GatesInv, TypeOK, SnapshotAges
    <2> QED
        BY <1>3, <2>1, ProfilesMove DEF SnapshotAges
<1>4. ASSUME NEW c \in Clients, NEW offer \in Offers, CheckIn(c, offer) PROVE GatesInv'
    <2>1. TypeOK'
        BY <1>1, <1>2, <1>4 DEF GatesInv, TypeOK, CheckIn
    <2> QED
        BY <1>4, <2>1, ProfilesMove DEF CheckIn
<1>5. ASSUME NEW c \in Clients, NEW s \in Snapshots, Attest(c, s) PROVE GatesInv'
    <2>1. TypeOK'
        BY <1>1, <1>2, <1>5 DEF GatesInv, TypeOK, Attest
    <2> QED
        BY <1>5, <2>1, ProfilesMove DEF Attest
<1>6. ASSUME NEW registry \in Registries, Redeploy(registry) PROVE GatesInv'
    <2>1. TypeOK'
        BY <1>1, <1>2, <1>6, IdleTyped DEF GatesInv, TypeOK, Redeploy
    <2>2. \A r \in Reqs : task'[r] = Idle
        BY <1>6 DEF Redeploy
    <2>3. Shape' /\ Checked' /\ Held'
        BY <1>6, <2>2 DEF GatesInv, Shape, Checked, Held, Locked, Idle, Redeploy
    <2> QED
        BY <2>1, <2>3 DEF GatesInv
<1> QED
    BY <1>3, <1>4, <1>5, <1>6, JobsKeepInv DEF Environment

LEMMA StepInv == GatesInv /\ [Next]_vars => GatesInv'
<1> SUFFICES ASSUME GatesInv, [Next]_vars PROVE GatesInv'
    OBVIOUS
<1>1. ASSUME NEW r \in Reqs, Arrive(r) PROVE GatesInv'
    BY <1>1, PutKeepsInv, EnqueueKeepsInv, CancelStartKeepsInv, LeaseStartKeepsInv DEF Arrive
<1>2. ASSUME NEW r \in Reqs, TaskStep(r) PROVE GatesInv'
    BY <1>2, PutKeepsInv, EnqueueKeepsInv, LeaseStepKeepsInv, JobsKeepInv DEF TaskStep
<1>3. CASE Environment
    BY <1>3, EnvironmentKeepsInv
<1>4. CASE UNCHANGED vars
    <2>1. TypeOK'
        BY <1>4 DEF GatesInv, TypeOK, vars
    <2> QED
        BY <1>4, <2>1, ProfilesMove DEF vars
<1> QED
    BY <1>1, <1>2, <1>3, <1>4, AbortKeepsInv DEF Next

THEOREM InvHolds == Spec => []GatesInv
BY InitInv, StepInv, PTL DEF Spec

\* Policies, jobs and handlers are well typed, for any number of each.
THEOREM Typed == Spec => []TypeOK
<1>1. GatesInv => TypeOK
    BY DEF GatesInv
<1> QED
    BY <1>1, InvHolds, PTL

-----------------------------------------------------------------------------
(* What follows *)

\* The lease query and the checks of a named lease are one rule, for every
\* policy, registry of groups and profile of a client.
THEOREM GatesAreOne == Spec => []GatesAgree
<1>1. GatesInv => GatesAgree
    <2> SUFFICES ASSUME GatesInv, NEW c \in Clients, NEW j \in Jobs, jobs[j].state # "absent"
                 PROVE  QueryMatches(c, offered[c], accessible_repo_names(c), jobs[j])
                        <=> Eligible(c, offered[c], accessible_repo_names(c), jobs[j])
        BY DEF GatesAgree
    <2>1. TypeOK /\ jobs[j] \in Row /\ jobs[j].repo \in Repos
        BY DEF GatesInv, TypeOK, Shape
    <2> QED
        BY <2>1, OneRule
<1> QED
    BY <1>1, InvHolds, PTL

\* Only the commit of a lease takes a job from queued to leased.
LEMMA OnlyCommitsLease ==
    ASSUME GatesInv, [Next]_vars, NEW j \in Jobs, jobs[j].state = "queued", jobs'[j].state = "leased"
    PROVE  \E r \in Reqs : LeaseCommit(r) /\ task[r].taken = j
<1>1. jobs \in [Jobs -> Row]
    BY DEF GatesInv, TypeOK
<1>2. ASSUME NEW r \in Reqs, TaskStep(r) PROVE LeaseCommit(r) /\ task[r].taken = j
    <2>1. CASE EnqueueInsert(r)
        <3>1. PICK k \in Jobs : jobs[k].state = "absent" /\ \A l \in Jobs \ {k} : jobs'[l] = jobs[l]
            BY <1>1, <2>1 DEF EnqueueInsert
        <3> QED
            BY <3>1
    <2>2. CASE LeaseCommit(r)
        BY <1>1, <2>2 DEF LeaseCommit
    <2>3. CASE CancelCommit(r)
        BY <1>1, <2>3 DEF CancelCommit
    <2> QED
        BY <1>2, <2>1, <2>2, <2>3 DEF TaskStep, PutUnknownGroup, PutRead, PutUpdate, PutInsert,
                          LeaseOneChecks, LeaseRefusedStale, LeaseScope, Lease, LeaseNothing
<1>3. ASSUME NEW r \in Reqs, Arrive(r) \/ Abort(r) PROVE FALSE
    BY <1>3 DEF Arrive, PutStart, EnqueueRead, CancelStart, LeaseNextStart, LeaseOneStart, Abort
<1>4. ASSUME Environment PROVE FALSE
    <2>1. ASSUME NEW k \in Jobs, LeaseEnds(k) PROVE FALSE
        BY <1>1, <2>1 DEF LeaseEnds
    <2> QED
        BY <1>4, <2>1 DEF Environment, SnapshotAges, CheckIn, Attest, Redeploy
<1>5. CASE UNCHANGED vars
    BY <1>5 DEF vars
<1> QED
    BY <1>2, <1>3, <1>4, <1>5 DEF Next

\* A request at its lease that comes to a commit has just taken a row.
LEMMA OnlyLeaseTakes ==
    ASSUME GatesInv, [Next]_vars, NEW r \in Reqs, task[r].at = "lease", task'[r].at = "commit"
    PROVE  Lease(r)
<1>1. task \in [Reqs -> Task] /\ task'[r] # task[r] /\ Idle.at = "idle"
    BY DEF GatesInv, TypeOK, Idle
<1>2. ASSUME NEW q \in Reqs, TaskStep(q) PROVE Lease(r)
    BY <1>1, <1>2 DEF TaskStep, PutUnknownGroup, PutRead, PutUpdate, PutInsert, EnqueueInsert, CancelCommit,
                      LeaseOneChecks, LeaseRefusedStale, LeaseScope, Lease, LeaseCommit, LeaseNothing, Finish
<1>3. ASSUME NEW q \in Reqs, Arrive(q) \/ Abort(q) PROVE FALSE
    BY <1>1, <1>3 DEF Arrive, PutStart, EnqueueRead, CancelStart, LeaseNextStart, LeaseOneStart, Abort, Finish
<1>4. ASSUME Environment PROVE FALSE
    BY <1>1, <1>4 DEF Environment, SnapshotAges, CheckIn, Attest, Redeploy, LeaseEnds
<1>5. UNCHANGED vars => FALSE
    BY <1>1 DEF vars
<1> QED
    BY <1>2, <1>3, <1>4, <1>5 DEF Next

\* However PUTs, deliveries, redeploys and leases overlap, whoever takes a job
\* clears its floor, the allowlist of that moment, the strategies and the access,
\* and the job goes to the one request that took it.
THEOREM LeasesClearGates == Spec => LeaseClearsGates
<1>1. GatesInv /\ [Next]_vars =>
        [/\ \A r \in Reqs :
               task[r].at = "lease" /\ task'[r].at = "commit" =>
                  Eligible(task[r].client, task[r].offered, task[r].access, jobs[task'[r].taken])
         /\ \A j \in Jobs :
               jobs[j].state = "queued" /\ jobs'[j].state = "leased" =>
                  \E r \in Reqs : /\ task[r].at = "commit" /\ task[r].taken = j
                                  /\ task[r].client = jobs'[j].leased_by
                                  /\ ~Locked(r, j)]_vars
    <2> SUFFICES ASSUME GatesInv, [Next]_vars
                 PROVE  /\ \A r \in Reqs :
                              task[r].at = "lease" /\ task'[r].at = "commit" =>
                                 Eligible(task[r].client, task[r].offered, task[r].access, jobs[task'[r].taken])
                        /\ \A j \in Jobs :
                              jobs[j].state = "queued" /\ jobs'[j].state = "leased" =>
                                 \E r \in Reqs : /\ task[r].at = "commit" /\ task[r].taken = j
                                                 /\ task[r].client = jobs'[j].leased_by
                                                 /\ ~Locked(r, j)
        OBVIOUS
    <2>1. ASSUME NEW r \in Reqs, task[r].at = "lease", task'[r].at = "commit"
          PROVE  Eligible(task[r].client, task[r].offered, task[r].access, jobs[task'[r].taken])
        <3>1. Lease(r)
            BY <2>1, OnlyLeaseTakes
        <3>2. PICK k \in Jobs : Available(r, k) /\ task' = [task EXCEPT ![r].at = "commit", ![r].taken = k]
            BY <3>1 DEF Lease
        <3>3. task'[r].taken = k
            BY <3>2 DEF GatesInv, TypeOK, Task
        <3>4. QueryMatches(task[r].client, task[r].offered, task[r].access, jobs[k]) /\ jobs[k].state = "queued"
            BY <3>2 DEF Available, Leasable
        <3>5. TypeOK /\ task[r].client \in Clients /\ jobs[k] \in Row /\ jobs[k].repo \in Repos
            BY <2>1, <3>4 DEF GatesInv, TypeOK, Shape
        <3> QED
            BY <3>3, <3>4, <3>5, OneRule
    <2>2. ASSUME NEW j \in Jobs, jobs[j].state = "queued", jobs'[j].state = "leased"
          PROVE  \E r \in Reqs : /\ task[r].at = "commit" /\ task[r].taken = j
                                 /\ task[r].client = jobs'[j].leased_by
                                 /\ ~Locked(r, j)
        <3>1. PICK r \in Reqs : LeaseCommit(r) /\ task[r].taken = j
            BY <2>2, OnlyCommitsLease
        <3>2. task[r].at = "commit" /\ jobs'[j].leased_by = task[r].client
            BY <3>1 DEF LeaseCommit, GatesInv, TypeOK, Row
        <3>3. ~Locked(r, j)
            BY <3>1, <3>2 DEF GatesInv, Held
        <3> QED
            BY <3>1, <3>2, <3>3
    <2> QED
        BY <2>1, <2>2
<1> QED
    BY <1>1, InvHolds, PTL DEF Spec, LeaseClearsGates

\* A PUT of some fields never undoes another's change of a list it left out.
THEOREM OmissionsStand == Spec => OmittedListStands
<1>1. GatesInv /\ [Next]_vars =>
        [\A r \in Reqs : LET t == task[r] IN
            t.at = "put_write" /\ task'[r].at = "idle" /\ policy[t.repo] # None =>
               \A f \in ListFields :
                  t.payload[f] = None => policy'[t.repo][f] = policy[t.repo][f]]_vars
    <2> SUFFICES ASSUME GatesInv, [Next]_vars, NEW r \in Reqs,
                        task[r].at = "put_write", policy[task[r].repo] # None,
                        task'[r].at = "idle",
                        NEW f \in ListFields, task[r].payload[f] = None
                 PROVE  policy'[task[r].repo][f] = policy[task[r].repo][f]
        OBVIOUS
    <2> DEFINE x == task[r].repo
    <2>1. /\ x \in Repos /\ task[r].payload \in Upsert /\ task \in [Reqs -> Task]
          /\ policy \in [Repos -> Policy \cup {None}]
        BY DEF GatesInv, TypeOK, Shape
    <2>2. CASE policy' = policy
        BY <2>2
    <2>3. CASE PutUpdate(r)
        <3>1. task[r].policy \in Policy /\ task[r].policy # None
            BY <2>1, <2>3 DEF PutUpdate, Task
        <3>2. policy'[x] = UpdateRow(policy[x], task[r].policy, Desired(task[r].payload, task[r].policy))
            BY <2>1, <2>3 DEF PutUpdate
        <3>3. policy[x] \in Policy
            BY <2>1
        <3> QED
            BY <2>1, <3>1, <3>2, <3>3, UpdateLeavesOut
    <2>4. CASE PutInsert(r)
        BY <2>4 DEF PutInsert
    <2>5. ASSUME NEW q \in Reqs, q # r, PutUpdate(q) \/ PutInsert(q) PROVE FALSE
        BY <2>1, <2>5 DEF PutUpdate, PutInsert, Finish
    <2>6. ASSUME NEW q \in Reqs, TaskStep(q), q # r \/ ~(PutUpdate(q) \/ PutInsert(q))
          PROVE  policy' = policy
        BY <2>5, <2>6 DEF TaskStep, PutUnknownGroup, PutRead, EnqueueInsert, CancelCommit,
                          LeaseOneChecks, LeaseRefusedStale, LeaseScope, Lease, LeaseCommit, LeaseNothing
    <2>7. ASSUME NEW q \in Reqs, Arrive(q) \/ Abort(q) PROVE policy' = policy
        BY <2>7 DEF Arrive, PutStart, EnqueueRead, CancelStart, LeaseNextStart, LeaseOneStart, Abort
    <2>8. ASSUME Environment PROVE policy' = policy
        BY <2>8 DEF Environment, SnapshotAges, CheckIn, Attest, Redeploy, LeaseEnds
    <2>9. UNCHANGED vars => policy' = policy
        BY DEF vars
    <2> QED
        BY <2>2, <2>3, <2>4, <2>6, <2>7, <2>8, <2>9 DEF Next
<1> QED
    BY <1>1, InvHolds, PTL DEF Spec, OmittedListStands

\* A named lease that finds its job queued, free and under the policy it was
\* checked against, and finds nothing to take, has lost its access meanwhile:
\* every other gate was cleared before and has not moved.
THEOREM RefusalsAreRaces == Spec => RefusalIsARace
<1>1. GatesInv /\ [Next]_vars =>
        [\A r \in Reqs : LET t == task[r]
                             row == jobs[t.job] IN
            /\ LeaseNothing(r) /\ t.job # 0
            /\ row.state = "queued" /\ ~Locked(r, t.job) /\ policy[row.repo] = t.policy
            => row.repo \notin t.access]_vars
    <2> SUFFICES ASSUME GatesInv, NEW r \in Reqs, LeaseNothing(r), task[r].job # 0,
                        jobs[task[r].job].state = "queued", ~Locked(r, task[r].job),
                        policy[jobs[task[r].job].repo] = task[r].policy,
                        jobs[task[r].job].repo \in task[r].access
                 PROVE  FALSE
        OBVIOUS
    <2> DEFINE t == task[r]
               j == task[r].job
    <2>1. /\ TypeOK /\ j \in Jobs /\ jobs \in [Jobs -> Row] /\ t.client \in Clients
          /\ jobs[j].repo \in Repos /\ t.at = "lease"
        BY DEF GatesInv, TypeOK, Shape, Task, LeaseNothing
    <2>2. /\ jobs[j].min_tier \in tiers_at_or_below(Tier[t.client])
          /\ PreChecks(t.client, t.offered, jobs[j], policy[jobs[j].repo])
        BY <2>1 DEF GatesInv, Checked
    <2>3. jobs[j].min_tier <= Tier[t.client]
        BY <2>2 DEF tiers_at_or_below
    <2>4. QueryMatches(t.client, t.offered, t.access, jobs[j])
        BY <2>1, <2>2, <2>3, OneRule DEF Eligible
    <2>5. Available(r, j)
        BY <2>4 DEF Available, Leasable
    <2> QED
        BY <2>1, <2>5 DEF LeaseNothing
<1> QED
    BY <1>1, InvHolds, PTL DEF Spec, RefusalIsARace
=============================================================================
