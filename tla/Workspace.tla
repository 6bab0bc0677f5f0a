------------------------------ MODULE Workspace ------------------------------
(***************************************************************************)
(* Users, organizations and memberships: the endpoints that change them,   *)
(* the tenant and role check in front of them, and the gauge that counts   *)
(* memberships.  A request is a few statements of one transaction; what    *)
(* it wrote shows at its commit, and the row locks it took until then make *)
(* the others wait.  Documents.tla adds the requests on documents.         *)
(***************************************************************************)
EXTENDS Integers, FiniteSets

CONSTANTS
    Users, Orgs,     \* ids of users and of organizations, each used once
    Rows,            \* ids of memberships, each used once
    Docs,            \* ids of documents
    EmailOf,         \* [Users -> emails]
    Seeded,          \* the users there at the start
    Home,            \* the organization there at the start,
    Founder,         \* its owner, and
    FirstRow,        \* the membership that says so
    Reqs,            \* requests that may overlap
    MaxAborts,       \* bound: how many requests die
    Mixes,           \* which kinds of request arrive together
    None

Role == {"member", "admin", "owner"}
Life == {"never", "there", "gone"}

Unused == [life |-> "never", user |-> None, org |-> None, role |-> "member"]
Membership == [life : {"there", "gone"}, user : Users, org : Orgs, role : Role]

\* What one request is at: `by' is the caller, the other fields its target.
Op == {"create_user", "update_user", "delete_user", "create_org", "update_org", "delete_org",
       "create_membership", "update_membership", "delete_membership",
       "upload", "download", "delete_document"}
Step == {"idle", "admitted", "read", "flushed", "stored", "unlinking", "committed"}

ASSUME WorkspaceAssumption ==
    /\ Seeded \subseteq Users /\ Founder \in Seeded
    /\ Home \in Orgs /\ FirstRow \in Rows
    /\ Mixes \subseteq SUBSET Op /\ MaxAborts \in Nat
    /\ None \notin Users \cup Orgs \cup Rows \cup Docs \cup Op
    /\ Rows \cap Docs = {} /\ IsFiniteSet(Rows) /\ IsFiniteSet(Reqs)

Task == [op : Op \cup {None}, step : Step, by : Users \cup {None}, user : Users \cup {None},
         org : Orgs \cup {None}, row : Rows \cup {None}, role : Role, count : 0 .. Cardinality(Rows),
         doc : Docs \cup {None}]

Idle == [op |-> None, step |-> "idle", by |-> None, user |-> None, org |-> None, row |-> None,
         role |-> "member", count |-> 0, doc |-> None]

VARIABLES
    users,    \* [Users -> Life]
    orgs,     \* [Orgs -> Life]
    rows,     \* the membership table
    gauge,    \* active_memberships_gauge, from what it showed at the start
    task,     \* [Reqs -> Task]
    mix,      \* the kinds of request that arrive
    said,     \* the answer the last step gave, if it gave one (history)
    aborts,   \* requests that died (history)
    strays    \* what else happened that the gauge does not follow (history)

tenants == <<users, orgs, rows, gauge, aborts, strays, mix>>

Stray == {"org_created", "org_deleted", "user_deleted"}
Quiet == [what |-> "nothing", of |-> None]
Answer == {"nothing", "created", "conflict", "changed", "deleted", "missing", "failed",
           "served", "redirected", "unavailable"}

Member(m) == rows[m].life = "there"

Init ==
    /\ users = [u \in Users |-> IF u \in Seeded THEN "there" ELSE "never"]
    /\ orgs = [o \in Orgs |-> IF o = Home THEN "there" ELSE "never"]
    /\ rows = [m \in Rows |-> IF m = FirstRow
                                 THEN [life |-> "there", user |-> Founder, org |-> Home, role |-> "owner"]
                                 ELSE Unused]
    /\ gauge = 1
    /\ mix \in Mixes
    /\ task = [r \in Reqs |-> Idle]
    /\ said = Quiet
    /\ aborts = 0 /\ strays = {}

-----------------------------------------------------------------------------
(* Answers and transactions *)

\* `of' is what was created or deleted, where a property asks.
Say(r, what, of) == task' = [task EXCEPT ![r] = Idle] /\ said' = [what |-> what, of |-> of]

Answers(r, what) == Say(r, what, None)

Goes(r, step) == task' = [task EXCEPT ![r].step = step] /\ said' = Quiet

At(r, op, step) == task[r].op = op /\ task[r].step = step

\* A flushed request has written its row and holds it until it ends.
Wrote(ops) == {r \in Reqs : task[r].op \in ops /\ task[r].step # "idle"
                            /\ task[r].step \notin {"admitted", "read"}}

\* A row that refers to a user or an organization keeps it from being deleted.
Inserts == {"create_membership", "upload"}

UserLocked(u, r) == \E q \in Wrote({"update_user", "delete_user"}) \ {r} : task[q].user = u
OrgLocked(o, r) == \E q \in Wrote({"update_org", "delete_org"}) \ {r} : task[q].org = o
RowLocked(m, r) ==
    \/ \E q \in Wrote({"update_membership", "delete_membership"}) \ {r} : task[q].row = m
    \/ rows[m].user # None /\ \E q \in Wrote({"delete_user"}) \ {r} : task[q].user = rows[m].user
    \/ rows[m].org # None /\ \E q \in Wrote({"delete_org"}) \ {r} : task[q].org = rows[m].org
UserReferred(u) == \E q \in Wrote({"create_membership"}) : task[q].user = u
OrgReferred(o) == \E q \in Wrote(Inserts) : task[q].step # "committed" /\ task[q].org = o

\* The rows a cascade deletes with their user or their organization.
Without(gone) == [m \in Rows |-> IF Member(m) /\ gone[m] THEN [rows[m] EXCEPT !.life = "gone"]
                                 ELSE rows[m]]

-----------------------------------------------------------------------------
(* Who may ask *)

\* _role_hierarchy_check
Rank == [member |-> 1, admin |-> 2, owner |-> 3]
RoleSatisfies(role, required) == Rank[role] >= Rank[required]

Required(op) == CASE op \in {"delete_org", "update_membership"} -> "owner"
                  [] op \in {"update_org", "create_membership", "delete_membership"} -> "admin"
                  [] OTHER -> "member"

RolesIn(u, o) == {rows[m].role : m \in {n \in Rows : Member(n) /\ rows[n].user = u /\ rows[n].org = o}}

\* The tenant is the token's, the path's or the query's: not always the target.
Validated(u, o, op) == \E role \in RolesIn(u, o) : RoleSatisfies(role, Required(op))

\* TenantIsolationMiddleware finds the caller's membership and keeps its role
\* for the rest of the request; require_role compares that.
Admit(r, op, u, o) ==
    /\ task[r].step = "idle"
    /\ op \in mix \ {"create_user", "update_user", "delete_user"}
    /\ Validated(u, o, op)
    /\ task' = [task EXCEPT ![r] = [Idle EXCEPT !.op = op, !.step = "admitted", !.by = u, !.org = o]]
    /\ said' = Quiet
    /\ UNCHANGED tenants

\* A request that dies takes its transaction with it, but not what it counted.
Abort(r) ==
    /\ task[r].step # "idle"
    /\ task' = [task EXCEPT ![r] = Idle] /\ said' = Quiet
    /\ aborts < MaxAborts /\ aborts' = aborts + 1
    /\ UNCHANGED <<users, orgs, rows, gauge, strays, mix>>

-----------------------------------------------------------------------------
(* Users *)

SameEmail(u, v) == EmailOf[u] = EmailOf[v]

\* The INSERT waits for another row of the same email to be committed or gone.
CreateUser(r, u) ==
    /\ task[r].step = "idle" /\ "create_user" \in mix
    /\ users[u] = "never" /\ \A q \in Reqs : task[q].user # u
    /\ ~\E q \in Wrote({"create_user", "delete_user"}) : SameEmail(u, task[q].user)
    /\ IF \E v \in Users : users[v] = "there" /\ SameEmail(u, v)
       THEN UNCHANGED task /\ said' = [what |-> "conflict", of |-> None]
       ELSE /\ task' = [task EXCEPT ![r] = [Idle EXCEPT !.op = "create_user", !.step = "flushed", !.user = u]]
            /\ said' = Quiet
    /\ UNCHANGED tenants

CreateUserCommit(r) ==
    /\ At(r, "create_user", "flushed")
    /\ users' = [users EXCEPT ![task[r].user] = "there"]
    /\ Answers(r, "created")
    /\ UNCHANGED <<orgs, rows, gauge, aborts, strays, mix>>

\* People change and delete themselves only.
ReadUser(r, op, u) ==
    /\ task[r].step = "idle" /\ op \in mix \cap {"update_user", "delete_user"}
    /\ users[u] = "there"
    /\ task' = [task EXCEPT ![r] = [Idle EXCEPT !.op = op, !.step = "read", !.by = u, !.user = u]]
    /\ said' = Quiet
    /\ UNCHANGED tenants

UserFree(r) == ~UserLocked(task[r].user, r)

UpdateUser(r) ==
    /\ At(r, "update_user", "read") /\ UserFree(r)
    /\ IF users[task[r].user] = "there" THEN Goes(r, "flushed") ELSE Answers(r, "failed")
    /\ UNCHANGED tenants

\* PATCH /users/{user_id} answers and commits nothing: the change is rolled back.
UpdateUserEnds(r) ==
    /\ At(r, "update_user", "flushed")
    /\ Answers(r, "changed")
    /\ UNCHANGED tenants

\* The second of two deletes finds no row, which only warns.
DeleteUser(r) ==
    /\ At(r, "delete_user", "read") /\ UserFree(r) /\ ~UserReferred(task[r].user)
    /\ \A m \in Rows : Member(m) /\ rows[m].user = task[r].user => ~RowLocked(m, r)
    /\ Goes(r, "flushed")
    /\ UNCHANGED tenants

DeleteUserCommit(r) ==
    /\ At(r, "delete_user", "flushed")
    /\ users' = [users EXCEPT ![task[r].user] = "gone"]
    /\ rows' = Without([m \in Rows |-> rows[m].user = task[r].user])
    /\ strays' = strays \cup {"user_deleted"}
    /\ Answers(r, "deleted")
    /\ UNCHANGED <<orgs, gauge, aborts, mix>>

-----------------------------------------------------------------------------
(* Organizations *)

\* The new organization and its owner's membership are one transaction, which
\* waits for the caller's row; the gauge is not told.
CreateOrg(r, o, m) ==
    /\ At(r, "create_org", "admitted")
    /\ orgs[o] = "never" /\ rows[m].life = "never" /\ \A q \in Reqs : task[q].row # m
    /\ ~\E q \in Wrote({"delete_user"}) : task[q].user = task[r].by
    /\ IF users[task[r].by] = "there"
       THEN /\ orgs' = [orgs EXCEPT ![o] = "there"]
            /\ rows' = [rows EXCEPT ![m] = [life |-> "there", user |-> task[r].by, org |-> o, role |-> "owner"]]
            /\ strays' = strays \cup {"org_created"}
            /\ Answers(r, "created")
       ELSE Answers(r, "failed") /\ UNCHANGED <<orgs, rows, strays>>
    /\ UNCHANGED <<users, gauge, aborts, mix>>

Belongs(u, o) == orgs[o] = "there" /\ \E m \in Rows : Member(m) /\ rows[m].user = u /\ rows[m].org = o

\* get_organization looks for the caller's membership again; a delete then
\* counts the memberships.
ReadOrg(r, o) ==
    /\ task[r].op \in {"update_org", "delete_org"} /\ task[r].step = "admitted"
    /\ IF Belongs(task[r].by, o)
       THEN /\ task' = [task EXCEPT ![r].step = "read", ![r].org = o,
                           ![r].count = Cardinality({m \in Rows : Member(m) /\ rows[m].org = o})]
            /\ said' = Quiet
       ELSE Answers(r, "missing")
    /\ UNCHANGED tenants

UpdateOrg(r) ==
    /\ At(r, "update_org", "read") /\ ~OrgLocked(task[r].org, r)
    /\ IF orgs[task[r].org] = "there" THEN Goes(r, "flushed") ELSE Answers(r, "failed")
    /\ UNCHANGED tenants

UpdateOrgCommit(r) ==
    /\ At(r, "update_org", "flushed")
    /\ Answers(r, "changed")
    /\ UNCHANGED tenants

DeleteOrg(r) ==
    /\ At(r, "delete_org", "read")
    /\ ~OrgLocked(task[r].org, r) /\ ~OrgReferred(task[r].org)
    /\ \A m \in Rows : Member(m) /\ rows[m].org = task[r].org => ~RowLocked(m, r)
    /\ gauge' = gauge - task[r].count
    /\ strays' = strays \cup {"org_deleted"}
    /\ Goes(r, "flushed")
    /\ UNCHANGED <<users, orgs, rows, aborts, mix>>

DeleteOrgCommit(r) ==
    /\ At(r, "delete_org", "flushed")
    /\ orgs' = [orgs EXCEPT ![task[r].org] = "gone"]
    /\ rows' = Without([m \in Rows |-> rows[m].org = task[r].org])
    /\ Answers(r, "deleted")
    /\ UNCHANGED <<users, gauge, aborts, strays, mix>>

-----------------------------------------------------------------------------
(* Memberships *)

\* The user and the organization are looked up before the INSERT.
ReadTargets(r, u, o) ==
    /\ At(r, "create_membership", "admitted")
    /\ IF users[u] = "there" /\ orgs[o] = "there"
       THEN task' = [task EXCEPT ![r].step = "read", ![r].user = u, ![r].org = o] /\ said' = Quiet
       ELSE Answers(r, "missing")
    /\ UNCHANGED tenants

Pair(m, u, o) == rows[m].user = u /\ rows[m].org = o
Taken(u, o) == \E m \in Rows : Member(m) /\ Pair(m, u, o)

\* The INSERT waits for another of the same pair, for a delete of that one and
\* for a delete of either parent.
InsertFree(r) ==
    LET u == task[r].user o == task[r].org IN
    /\ ~\E q \in Wrote({"create_membership"}) : task[q].user = u /\ task[q].org = o
    /\ \A m \in Rows : Member(m) /\ Pair(m, u, o) => ~RowLocked(m, r)
    /\ ~\E q \in Wrote({"delete_user"}) : task[q].user = u
    /\ ~\E q \in Wrote({"delete_org"}) : task[q].org = o

\* A taken pair is refused, and so is a parent that went between read and INSERT.
CreateMembershipRefused(r) ==
    /\ At(r, "create_membership", "read") /\ InsertFree(r)
    /\ \/ Taken(task[r].user, task[r].org) /\ Answers(r, "conflict")
       \/ /\ ~Taken(task[r].user, task[r].org)
          /\ users[task[r].user] # "there" \/ orgs[task[r].org] # "there"
          /\ Answers(r, "failed")
    /\ UNCHANGED tenants

CreateMembership(r, m) ==
    /\ At(r, "create_membership", "read") /\ InsertFree(r)
    /\ rows[m].life = "never" /\ \A q \in Reqs : task[q].row # m
    /\ ~Taken(task[r].user, task[r].org)
    /\ users[task[r].user] = "there" /\ orgs[task[r].org] = "there"
    /\ gauge' = gauge + 1
    /\ task' = [task EXCEPT ![r].step = "flushed", ![r].row = m] /\ said' = Quiet
    /\ UNCHANGED <<users, orgs, rows, aborts, strays, mix>>

CreateMembershipCommit(r) ==
    /\ At(r, "create_membership", "flushed")
    /\ rows' = [rows EXCEPT ![task[r].row] = [life |-> "there", user |-> task[r].user,
                                              org |-> task[r].org, role |-> "member"]]
    /\ Say(r, "created", task[r].row)
    /\ UNCHANGED <<users, orgs, gauge, aborts, strays, mix>>

\* get_membership; nobody changes a role of their own.
ReadMembership(r, m) ==
    /\ task[r].op \in {"update_membership", "delete_membership"} /\ task[r].step = "admitted"
    /\ rows[m].life # "never"
    /\ IF Member(m) /\ ~(task[r].op = "update_membership" /\ rows[m].user = task[r].by)
       THEN task' = [task EXCEPT ![r].step = "read", ![r].row = m] /\ said' = Quiet
       ELSE Answers(r, "missing")
    /\ UNCHANGED tenants

UpdateMembership(r, role) ==
    /\ At(r, "update_membership", "read") /\ ~RowLocked(task[r].row, r)
    /\ IF Member(task[r].row)
       THEN task' = [task EXCEPT ![r].step = "flushed", ![r].role = role] /\ said' = Quiet
       ELSE Answers(r, "failed")
    /\ UNCHANGED tenants

UpdateMembershipCommit(r) ==
    /\ At(r, "update_membership", "flushed")
    /\ rows' = [rows EXCEPT ![task[r].row].role = task[r].role]
    /\ Answers(r, "changed")
    /\ UNCHANGED <<users, orgs, gauge, aborts, strays, mix>>

\* Mutant: the row count of the DELETE is not looked at.
DeleteMembershipUncounted(r) ==
    /\ At(r, "delete_membership", "read") /\ ~RowLocked(task[r].row, r)
    /\ gauge' = gauge - 1
    /\ Goes(r, "flushed")
    /\ UNCHANGED <<users, orgs, rows, aborts, strays, mix>>

\* The DELETE waits for the row, and its row count says whether it was still there.
DeleteMembership(r) ==
    /\ At(r, "delete_membership", "read") /\ ~RowLocked(task[r].row, r)
    /\ IF Member(task[r].row)
       THEN gauge' = gauge - 1 /\ Goes(r, "flushed")
       ELSE Answers(r, "missing") /\ UNCHANGED gauge
    /\ UNCHANGED <<users, orgs, rows, aborts, strays, mix>>

DeleteMembershipCommit(r) ==
    /\ At(r, "delete_membership", "flushed")
    /\ rows' = [rows EXCEPT ![task[r].row].life = "gone"]
    /\ Say(r, "deleted", task[r].row)
    /\ UNCHANGED <<users, orgs, gauge, aborts, strays, mix>>

-----------------------------------------------------------------------------
TenantRequest(r) ==
    \/ \E u \in Users : CreateUser(r, u) \/ \E op \in Op : ReadUser(r, op, u)
    \/ \E o \in Orgs : ReadOrg(r, o) \/ \E m \in Rows : CreateOrg(r, o, m)
    \/ \E u \in Users, o \in Orgs : ReadTargets(r, u, o) \/ \E op \in Op : Admit(r, op, u, o)
    \/ \E m \in Rows : CreateMembership(r, m) \/ ReadMembership(r, m)
    \/ \E role \in Role : UpdateMembership(r, role)
    \/ CreateUserCommit(r) \/ UpdateUser(r) \/ UpdateUserEnds(r)
    \/ DeleteUser(r) \/ DeleteUserCommit(r)
    \/ UpdateOrg(r) \/ UpdateOrgCommit(r) \/ DeleteOrg(r) \/ DeleteOrgCommit(r)
    \/ CreateMembershipRefused(r) \/ CreateMembershipCommit(r) \/ UpdateMembershipCommit(r)
    \/ DeleteMembership(r) \/ DeleteMembershipCommit(r)

=============================================================================
