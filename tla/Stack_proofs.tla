---------------------------- MODULE Stack_proofs ----------------------------
(***************************************************************************)
(* Whatever the handlers do behind it, the middleware keeps its promises;  *)
(* and what the handlers promise of users, memberships and documents, for  *)
(* any number of requests that overlap.                                    *)
(***************************************************************************)
EXTENDS Stack, Bearer_proofs, FiniteSetTheorems

\* The handlers leave the middleware's state alone.
LEMMA StackIsBearer == StackSpec => BearerSpec
<1>1. StackInit => BearerInit
    BY DEF StackInit
<1>2. [StackNext]_<<vars, bearer>> => [BearerNext]_bearer
    BY DEF StackNext, bearer
<1> QED
    BY <1>1, <1>2, PTL DEF StackSpec, BearerSpec

\* The cache of key sets stays recent with all of the hub behind the middleware.
THEOREM StackCacheStaysRecent == StackSpec => []CacheIsRecent
BY StackIsBearer, CacheStaysRecent

\* Nobody gets to the hub's handlers without a good token.
THEOREM StackAdmitted == StackSpec => AdmittedWasVouched
BY StackIsBearer, Admitted

\* And nobody with a good token is refused without a cause.
THEOREM StackRefused == StackSpec => RefusedForCause
BY StackIsBearer, Refused
-----------------------------------------------------------------------------
(* The handlers: what their shared state and their requests agree on *)

Flushed(t, op) == t.op = op /\ t.step = "flushed"

\* The row of an upload is inserted and not committed.
Uploading(t) == t.op = "upload" /\ t.step \in {"flushed", "stored"}

\* What a request t relies on between its statements: its targets exist, the row
\* it inserts is nobody's yet, and its file is as it left it.
TaskOK(t) ==
    /\ t.op \notin {None, "create_user", "update_user", "delete_user"} =>
          t.by \in Users /\ t.org \in Orgs
    /\ t.op = "create_membership" /\ t.step # "admitted" => t.user \in Users
    /\ t.op \in {"create_membership", "update_membership", "delete_membership"} =>
          t.step \in {"admitted", "read", "flushed"}
    /\ t.op \in {"update_membership", "delete_membership"} /\ t.step # "admitted" => t.row # None
    /\ Flushed(t, "create_membership") => t.row # None
    /\ t.row # None => (rows[t.row].life = "never" <=> Flushed(t, "create_membership"))
    /\ Flushed(t, "delete_membership") => Member(t.row)
    /\ Flushed(t, "delete_org") => "org_deleted" \in strays
    /\ t.op = "upload" /\ t.step # "admitted" => t.doc # None
    /\ t.op \in {"download", "delete_document"} /\ t.step # "admitted" => t.doc # None
    /\ t.doc # None => (docs[t.doc] = "never" <=> Uploading(t))
    /\ t.op = "upload" /\ t.step = "stored" => files[t.doc] = "whole"
    /\ t.op = "download" /\ t.doc # None => files[t.doc] # "torn"
    /\ t.op = "delete_document" /\ t.doc # None => t.doc \in condemned
    /\ t.op = "delete_document" /\ t.step = "stored" => files[t.doc] = "none"

\* Two requests never insert the same row, and what one deletes no other takes
\* along with its user or its organization.
Apart(s, t) ==
    /\ Flushed(s, "create_membership") /\ Flushed(t, "create_membership") => s.row # t.row
    /\ Uploading(s) /\ Uploading(t) => s.doc # t.doc
    /\ Flushed(s, "delete_membership") =>
          /\ Flushed(t, "delete_membership") => s.row # t.row
          /\ Flushed(t, "delete_user") => t.user # rows[s.row].user
          /\ Flushed(t, "delete_org") => t.org # rows[s.row].org

\* RowsHaveFiles, and no committed row has half a file.
DocOK(d) ==
    /\ docs[d] = "there" => files[d] # "torn" /\ (d \in condemned \/ files[d] = "whole")
    /\ orgs[home[d]] # "never"

DeletedOrgs == "org_deleted" \notin strays => \A o \in Orgs : orgs[o] # "gone"

HubInv ==
    /\ TypeOK
    /\ \A r \in Reqs : TaskOK(task[r])
    /\ \A q, r \in Reqs : q # r => Apart(task[q], task[r])
    /\ \A d \in Docs : DocOK(d)
    /\ DeletedOrgs

-----------------------------------------------------------------------------
(* One step of one request *)

Others(r) == \A q \in Reqs \ {r} : task'[q] = task[q]

LEMMA IdleTyped == Idle \in Task
  <1>1. Cardinality(Rows) \in Nat
    BY WorkspaceAssumption, FS_CardinalityType
  <1> QED
    BY <1>1 DEF Idle, Task, Role, Step

\* An answer ends its request.
LEMMA SayEnds ==
    ASSUME TypeOK, NEW r \in Reqs, NEW what \in Answer,
           NEW of \in Users \cup Orgs \cup Rows \cup Docs \cup {None}, Say(r, what, of)
    PROVE  /\ task' \in [Reqs -> Task] /\ task'[r] = Idle /\ Others(r)
           /\ said' \in [what : Answer, of : Users \cup Orgs \cup Rows \cup Docs \cup {None}]
           /\ said'.what = what /\ said'.of = of
  BY IdleTyped DEF Say, TypeOK, Others

LEMMA QuietTyped ==
    Quiet \in [what : Answer, of : Users \cup Orgs \cup Rows \cup Docs \cup {None}]
  BY DEF Quiet, Answer

\* A request goes on.
LEMMA GoesOn ==
    ASSUME TypeOK, NEW r \in Reqs, NEW t \in Task, task' = [task EXCEPT ![r] = t], said' = Quiet
    PROVE  /\ task' \in [Reqs -> Task] /\ task'[r] = t /\ Others(r)
           /\ said' \in [what : Answer, of : Users \cup Orgs \cup Rows \cup Docs \cup {None}]
  BY QuietTyped DEF TypeOK, Others

LEMMA GoesTo ==
    ASSUME TypeOK, NEW r \in Reqs, NEW step \in Step, Goes(r, step)
    PROVE  /\ task' \in [Reqs -> Task] /\ Others(r)
           /\ task'[r] = [task[r] EXCEPT !.step = step]
           /\ said' \in [what : Answer, of : Users \cup Orgs \cup Rows \cup Docs \cup {None}]
  <1> DEFINE t == [task[r] EXCEPT !.step = step]
  <1>1. task[r] \in Task
    BY DEF TypeOK
  <1>2. t \in Task
    BY <1>1 DEF Task
  <1>3. task' = [task EXCEPT ![r] = t] /\ said' = Quiet
    BY <1>1 DEF Goes, TypeOK
  <1> HIDE DEF t
  <1>4. task' \in [Reqs -> Task] /\ task'[r] = t /\ Others(r)
        /\ said' \in [what : Answer, of : Users \cup Orgs \cup Rows \cup Docs \cup {None}]
    BY <1>2, <1>3, GoesOn
  <1> QED
    BY <1>4 DEF t

\* What no step takes back.
Steady ==
    /\ strays \subseteq strays' /\ condemned \subseteq condemned'
    /\ \A m \in Rows : rows[m].life # "never" =>
          rows'[m].life # "never" /\ rows'[m].user = rows[m].user /\ rows'[m].org = rows[m].org
    /\ \A d \in Docs : docs[d] # "never" => docs'[d] # "never" /\ files'[d] \in {files[d], "none"}

\* What the step of another request leaves to q.
Undisturbed(q) ==
    /\ \A m \in Rows : task[q].row = m /\ rows[m].life = "never" => rows'[m].life = "never"
    /\ Flushed(task[q], "delete_membership") => rows'[task[q].row].life = "there"
    /\ \A d \in Docs : task[q].doc = d /\ docs[d] = "never" => docs'[d] = "never" /\ files'[d] = files[d]

LEMMA OtherRests ==
    ASSUME HubInv, NEW q \in Reqs, task'[q] = task[q], Steady, Undisturbed(q)
    PROVE  TaskOK(task[q])'
  <1>0. PICK t \in Task : t = task[q]
    BY DEF HubInv, TypeOK
  <1>1. TaskOK(t)
    BY <1>0 DEF HubInv
  <1>2. /\ t.row \in Rows \cup {None} /\ t.doc \in Docs \cup {None}
    BY DEF Task
  <1>3. t.row # None => (rows'[t.row].life = "never" <=> rows[t.row].life = "never")
    BY <1>0, <1>2 DEF Steady, Undisturbed
  <1>4. t.doc # None => /\ docs'[t.doc] = "never" <=> docs[t.doc] = "never"
                        /\ files'[t.doc] = files[t.doc] \/ (files'[t.doc] = "none" /\ ~Uploading(t))
    BY <1>0, <1>1, <1>2 DEF Steady, Undisturbed, TaskOK
  <1>5. /\ Flushed(t, "delete_membership") => rows'[t.row].life = "there"
        /\ strays \subseteq strays' /\ condemned \subseteq condemned'
    BY <1>0 DEF Steady, Undisturbed
  <1>6. TaskOK(t)'
    BY <1>1, <1>3, <1>4, <1>5 DEF TaskOK, Flushed, Uploading, Member
  <1> QED
    BY <1>0, <1>6 DEF TaskOK

-----------------------------------------------------------------------------
(* What is left of HubInv to show for one step *)

Said == [what : Answer, of : Users \cup Orgs \cup Rows \cup Docs \cup {None}]

\* A request that has written what others have to keep away from.
Claims(t) ==
    \/ \E op \in {"create_membership", "delete_membership", "delete_user", "delete_org"} : Flushed(t, op)
    \/ Uploading(t)

LEMMA Unclaimed ==
    ASSUME NEW s, NEW t, ~Claims(t)
    PROVE  Apart(s, t) /\ Apart(t, s) /\ Apart(s, t)' /\ Apart(t, s)'
  BY DEF Claims, Apart

\* Two requests that were apart stay apart.
LEMMA ApartStays ==
    ASSUME HubInv, Steady, NEW p \in Reqs, NEW q \in Reqs, p # q,
           task'[p] = task[p], task'[q] = task[q]
    PROVE  Apart(task[p], task[q])'
  <1>1. PICK s \in Task : s = task[p]
    BY DEF HubInv, TypeOK
  <1>2. PICK t \in Task : t = task[q]
    BY DEF HubInv, TypeOK
  <1>3. Apart(s, t) /\ TaskOK(s)
    BY <1>1, <1>2 DEF HubInv
  <1>4. Flushed(s, "delete_membership") =>
            rows'[s.row].user = rows[s.row].user /\ rows'[s.row].org = rows[s.row].org
    <2> SUFFICES ASSUME Flushed(s, "delete_membership")
                 PROVE  rows'[s.row].user = rows[s.row].user /\ rows'[s.row].org = rows[s.row].org
      OBVIOUS
    <2>1. s.row \in Rows /\ Member(s.row)
      BY <1>3 DEF TaskOK, Flushed, Task
    <2> QED
      BY <2>1 DEF Steady, Member
  <1>5. Apart(s, t)'
    BY <1>3, <1>4 DEF Apart
  <1> QED
    BY <1>1, <1>2, <1>5 DEF Apart

\* One request took a step, and the others rest.
LEMMA StepKeeps ==
    ASSUME HubInv, NEW r \in Reqs, Others(r), Steady, TypeOK', TaskOK(task[r])',
           \A q \in Reqs \ {r} : /\ Undisturbed(q)
                                 /\ Apart(task[q], task[r])' /\ Apart(task[r], task[q])',
           \A d \in Docs : DocOK(d)', DeletedOrgs'
    PROVE  HubInv'
  <1>1. ASSUME NEW q \in Reqs PROVE TaskOK(task[q])'
    <2>1. CASE q = r
      BY <2>1
    <2>2. CASE q # r
      BY <2>2, OtherRests DEF Others
    <2> QED
      BY <2>1, <2>2
  <1>2. ASSUME NEW p \in Reqs, NEW q \in Reqs, p # q PROVE Apart(task[p], task[q])'
    <2>1. CASE p # r /\ q # r
      BY <2>1, <1>2, ApartStays DEF Others
    <2>2. CASE p = r
      BY <2>2, <1>2
    <2>3. CASE q = r
      BY <2>3, <1>2
    <2> QED
      BY <2>1, <2>2, <2>3
  <1> QED
    BY <1>1, <1>2 DEF HubInv

\* The task of a step that claims nothing.
Settles(r) ==
    \E t \in Task : task' = [task EXCEPT ![r] = t] /\ ~Claims(t) /\ TaskOK(t)

LEMMA IdleOK == ~Claims(Idle) /\ TaskOK(Idle) /\ TaskOK(Idle)'
  <1>1. Idle.op = None /\ Idle.row = None /\ Idle.doc = None
    BY DEF Idle
  <1>2. None \notin Op
    BY WorkspaceAssumption
  <1> HIDE DEF Idle
  <1> QED
    BY <1>1, <1>2 DEF Claims, TaskOK, Flushed, Uploading, Op

LEMMA SaySettles ==
    ASSUME NEW r \in Reqs, NEW what \in Answer,
           NEW of \in Users \cup Orgs \cup Rows \cup Docs \cup {None}, Say(r, what, of)
    PROVE  Settles(r) /\ said' \in Said
  BY IdleTyped, IdleOK DEF Say, Settles, Said

LEMMA AnswersSettles ==
    ASSUME NEW r \in Reqs, NEW what \in Answer, Answers(r, what)
    PROVE  Settles(r) /\ said' \in Said
  BY SaySettles DEF Answers

LEMMA GoesOnSettles ==
    ASSUME NEW r \in Reqs, NEW t \in Task, task' = [task EXCEPT ![r] = t], said' = Quiet,
           ~Claims(t), TaskOK(t)
    PROVE  Settles(r) /\ said' \in Said
  BY QuietTyped DEF Settles, Said

\* A cascade takes rows away and nothing else.
Fades == \A d \in Docs : docs'[d] = docs[d] \/ (docs[d] = "there" /\ docs'[d] = "gone")

LEMMA CascadeFades ==
    ASSUME TypeOK, Cascade
    PROVE  docs' \in [Docs -> Life] /\ Fades
  BY DEF TypeOK, Cascade, Fades, Life

\* A step that writes neither organizations nor memberships.
LEMMA TablesKept ==
    ASSUME HubInv, NEW r \in Reqs, NEW t \in Task, task' = [task EXCEPT ![r] = t], TaskOK(t)',
           \A q \in Reqs \ {r} : Apart(task[q], t) /\ Apart(t, task[q]),
           said' \in Said, users' \in [Users -> Life], gauge' \in Int,
           strays \subseteq strays', strays' \subseteq Stray, UNCHANGED <<orgs, rows, aborts, mix>>,
           Cascade, UNCHANGED <<home, files, provider, faults, condemned>>
    PROVE  HubInv'
  <1>1. docs' \in [Docs -> Life] /\ Fades /\ TypeOK
    BY CascadeFades DEF HubInv
  <1>2. TypeOK' /\ task'[r] = t /\ Others(r)
    BY <1>1 DEF TypeOK, Others, Said
  <1>3. Steady
    BY <1>1 DEF Steady, Fades
  <1>4. TaskOK(task[r])'
    BY <1>2 DEF TaskOK
  <1>5. ASSUME NEW q \in Reqs \ {r}
        PROVE  Undisturbed(q) /\ Apart(task[q], task[r])' /\ Apart(task[r], task[q])'
    <2>1. Apart(task[q], task[r])' /\ Apart(task[r], task[q])'
      BY <1>2 DEF Apart, Others
    <2>2. Flushed(task[q], "delete_membership") => Member(task[q].row)
      BY DEF HubInv, TaskOK
    <2>3. Undisturbed(q)
      BY <1>1, <2>2 DEF Undisturbed, Fades, Member
    <2> QED
      BY <2>1, <2>3
  <1>6. (\A d \in Docs : DocOK(d)') /\ DeletedOrgs'
    BY <1>1 DEF HubInv, DocOK, DeletedOrgs, Fades
  <1> QED
    BY <1>2, <1>3, <1>4, <1>5, <1>6, StepKeeps

LEMMA QuietKeeps ==
    ASSUME HubInv, NEW r \in Reqs, NEW t \in Task, task' = [task EXCEPT ![r] = t], TaskOK(t),
           \A q \in Reqs \ {r} : Apart(task[q], t) /\ Apart(t, task[q]),
           said' \in Said, users' \in [Users -> Life], gauge' \in Int,
           UNCHANGED <<orgs, rows, aborts, strays, mix>>,
           Cascade, UNCHANGED <<home, files, provider, faults, condemned>>
    PROVE  HubInv'
  <1>1. docs' \in [Docs -> Life] /\ Fades
    BY CascadeFades DEF HubInv
  <1>2. t.doc # None => (docs'[t.doc] = "never" <=> docs[t.doc] = "never")
    BY <1>1 DEF Fades, Task
  <1>3. TaskOK(t)'
    BY <1>2 DEF TaskOK, Member
  <1>4. strays \subseteq strays' /\ strays' \subseteq Stray
    BY DEF HubInv, TypeOK
  <1> QED
    BY <1>3, <1>4, TablesKept

\* What claims nothing is apart from everybody.
LEMMA SettlingKeeps ==
    ASSUME HubInv, NEW r \in Reqs, Settles(r), said' \in Said, users' \in [Users -> Life],
           UNCHANGED <<orgs, rows, gauge, aborts, strays, mix>>,
           Cascade, UNCHANGED <<home, files, provider, faults, condemned>>
    PROVE  HubInv'
  <1>1. PICK t \in Task : task' = [task EXCEPT ![r] = t] /\ ~Claims(t) /\ TaskOK(t)
    BY DEF Settles
  <1>2. \A q \in Reqs \ {r} : Apart(task[q], t) /\ Apart(t, task[q])
    BY <1>1, Unclaimed
  <1>3. gauge' \in Int
    BY DEF HubInv, TypeOK
  <1> QED
    BY <1>1, <1>2, <1>3, QuietKeeps

LEMMA HubInit == DocumentsInit => HubInv
  <1> SUFFICES ASSUME DocumentsInit PROVE HubInv
    OBVIOUS
  <1>0. Init
    BY DEF DocumentsInit
  <1>1. users \in [Users -> Life] /\ orgs \in [Orgs -> Life] /\ gauge \in Int
    BY <1>0 DEF Init, Life
  <1>2. rows \in [Rows -> {Unused} \cup Membership]
    BY <1>0, WorkspaceAssumption DEF Init, Membership, Role
  <1>4. task \in [Reqs -> Task] /\ \A r \in Reqs : task[r] = Idle
    BY <1>0, IdleTyped DEF Init
  <1>5. /\ said \in [what : Answer, of : Users \cup Orgs \cup Rows \cup Docs \cup {None}]
        /\ aborts \in 0 .. MaxAborts /\ strays \subseteq Stray /\ mix \in Mixes
    BY <1>0, WorkspaceAssumption DEF Init, Quiet, Answer
  <1>6. /\ docs \in [Docs -> Life] /\ home \in [Docs -> Orgs]
        /\ files \in [Docs -> File] /\ provider \in Providers
        /\ faults \in 0 .. MaxFaults /\ condemned \subseteq Docs
    BY WorkspaceAssumption, DocumentsAssumption DEF DocumentsInit, Life, File, Providers
  <1>7. TypeOK
    BY <1>1, <1>2, <1>4, <1>5, <1>6 DEF TypeOK
  <1>8. \A r \in Reqs : TaskOK(task[r])
    BY <1>4, IdleOK
  <1>9. \A q, r \in Reqs : Apart(task[q], task[r])
    BY <1>4, IdleOK, Unclaimed
  <1>10. \A d \in Docs : DocOK(d)
    BY <1>0, WorkspaceAssumption DEF DocumentsInit, Init, DocOK
  <1>11. DeletedOrgs
    BY <1>0 DEF Init, DeletedOrgs
  <1> QED
    BY <1>7, <1>8, <1>9, <1>10, <1>11 DEF HubInv

-----------------------------------------------------------------------------
(* The steps that only move their request *)

Settled(r) == Settles(r) /\ said' \in Said

LEMMA AdmitSettles ==
    ASSUME NEW r \in Reqs, NEW op \in Op, NEW u \in Users, NEW o \in Orgs, Admit(r, op, u, o)
    PROVE  Settled(r)
  <1> DEFINE t == [Idle EXCEPT !.op = op, !.step = "admitted", !.by = u, !.org = o]
  <1>1. /\ t \in Task /\ t.op = op /\ t.step = "admitted" /\ t.row = None /\ t.doc = None
        /\ t.by = u /\ t.org = o
    BY IdleTyped DEF Idle, Task, Step
  <1>2. task' = [task EXCEPT ![r] = t] /\ said' = Quiet
    BY DEF Admit
  <1>3. None \notin Op
    BY WorkspaceAssumption
  <1> HIDE DEF t
  <1>4. ~Claims(t) /\ TaskOK(t)
    BY <1>1, <1>3 DEF Claims, TaskOK, Flushed, Uploading
  <1> QED
    BY <1>1, <1>2, <1>4, GoesOnSettles DEF Settled

LEMMA ReadUserSettles ==
    ASSUME NEW r \in Reqs, NEW op \in Op, NEW u \in Users, ReadUser(r, op, u)
    PROVE  Settled(r)
  <1> DEFINE t == [Idle EXCEPT !.op = op, !.step = "read", !.by = u, !.user = u]
  <1>1. t \in Task /\ t.op = op /\ t.step = "read" /\ t.row = None /\ t.doc = None
    BY IdleTyped DEF Idle, Task, Step
  <1>2. task' = [task EXCEPT ![r] = t] /\ said' = Quiet /\ op \in {"update_user", "delete_user"}
    BY DEF ReadUser
  <1> HIDE DEF t
  <1>3. ~Claims(t) /\ TaskOK(t)
    BY <1>1, <1>2 DEF Claims, TaskOK, Flushed, Uploading
  <1> QED
    BY <1>1, <1>2, <1>3, GoesOnSettles DEF Settled

LEMMA CreateUserSettles ==
    ASSUME HubInv, NEW r \in Reqs, NEW u \in Users, CreateUser(r, u)
    PROVE  Settled(r)
  <1>1. CASE UNCHANGED task /\ said' = [what |-> "conflict", of |-> None]
    <2>1. PICK t \in Task : t = task[r] /\ TaskOK(t) /\ t.step = "idle"
      BY DEF HubInv, TypeOK, CreateUser
    <2>2. task' = [task EXCEPT ![r] = t]
      BY <1>1, <2>1 DEF HubInv, TypeOK
    <2>3. ~Claims(t)
      BY <2>1 DEF Claims, Flushed, Uploading
    <2>4. said' \in Said
      BY <1>1 DEF Said, Answer
    <2> QED
      BY <2>1, <2>2, <2>3, <2>4 DEF Settled, Settles
  <1>2. CASE task' = [task EXCEPT ![r] = [Idle EXCEPT !.op = "create_user", !.step = "flushed", !.user = u]]
             /\ said' = Quiet
    <2> DEFINE t == [Idle EXCEPT !.op = "create_user", !.step = "flushed", !.user = u]
    <2>1. t \in Task /\ t.op = "create_user" /\ t.row = None /\ t.doc = None
      BY IdleTyped DEF Idle, Task, Step, Op
    <2> HIDE DEF t
    <2>2. ~Claims(t) /\ TaskOK(t)
      BY <2>1 DEF Claims, TaskOK, Flushed, Uploading
    <2>3. task' = [task EXCEPT ![r] = t]
      BY <1>2 DEF t
    <2> QED
      BY <1>2, <2>1, <2>2, <2>3, GoesOnSettles DEF Settled
  <1> QED
    BY <1>1, <1>2 DEF CreateUser

\* Changing one's row, or its organization's, claims nothing.
LEMMA UpdatesSettle ==
    ASSUME HubInv, NEW r \in Reqs,
           UpdateUser(r) \/ UpdateOrg(r) \/ \E role \in Role : UpdateMembership(r, role)
    PROVE  Settled(r)
  <1>1. CASE Answers(r, "failed")
    BY <1>1, AnswersSettles DEF Settled, Answer
  <1>2. CASE \E role \in Role : /\ task' = [task EXCEPT ![r].step = "flushed", ![r].role = role]
                                /\ said' = Quiet
                                /\ task[r].op \in {"update_user", "update_org", "update_membership"}
                                /\ task[r].step = "read"
    <2>1. PICK role \in Role : task' = [task EXCEPT ![r].step = "flushed", ![r].role = role]
      BY <1>2
    <2> DEFINE t == [task[r] EXCEPT !.step = "flushed", !.role = role]
    <2>2. PICK s \in Task : s = task[r] /\ TaskOK(s)
      BY DEF HubInv, TypeOK
    <2>3. /\ t \in Task /\ t.op = s.op /\ t.row = s.row /\ t.doc = s.doc /\ t.step = "flushed"
          /\ t.by = s.by /\ t.org = s.org /\ task' = [task EXCEPT ![r] = t]
      BY <2>1, <2>2 DEF Task, HubInv, TypeOK, Step
    <2> HIDE DEF t
    <2>4. ~Claims(t) /\ TaskOK(t)
      BY <1>2, <2>2, <2>3 DEF Claims, TaskOK, Flushed, Uploading
    <2> QED
      BY <1>2, <2>3, <2>4, GoesOnSettles DEF Settled
  <1>3. CASE Goes(r, "flushed") /\ task[r].op \in {"update_user", "update_org"} /\ task[r].step = "read"
    <2>1. task[r].role \in Role
      BY DEF HubInv, TypeOK, Task
    <2>2. task' = [task EXCEPT ![r].step = "flushed", ![r].role = task[r].role] /\ said' = Quiet
      BY <1>3 DEF Goes, HubInv, TypeOK, Task
    <2> QED
      BY <1>2, <1>3, <2>1, <2>2
  <1> QED
    BY <1>1, <1>2, <1>3 DEF UpdateUser, UpdateOrg, UpdateMembership, At

LEMMA ReadOrgSettles ==
    ASSUME HubInv, NEW r \in Reqs, NEW o \in Orgs, ReadOrg(r, o)
    PROVE  Settled(r)
  <1>1. CASE Answers(r, "missing")
    BY <1>1, AnswersSettles DEF Settled, Answer
  <1>2. CASE ~Answers(r, "missing")
    <2> DEFINE n == Cardinality({m \in Rows : Member(m) /\ rows[m].org = o})
               t == [task[r] EXCEPT !.step = "read", !.org = o, !.count = n]
    <2>1. PICK s \in Task : s = task[r] /\ TaskOK(s)
      BY DEF HubInv, TypeOK
    <2>2. n \in 0 .. Cardinality(Rows)
      BY WorkspaceAssumption, FS_Subset, FS_CardinalityType
    <2>3. /\ task' = [task EXCEPT ![r].step = "read", ![r].org = o, ![r].count = n]
          /\ said' = Quiet /\ s.op \in {"update_org", "delete_org"}
      BY <1>2, <2>1 DEF ReadOrg
    <2> HIDE DEF n
    <2>4. /\ t \in Task /\ t.op = s.op /\ t.row = s.row /\ t.doc = s.doc /\ t.step = "read"
          /\ t.by = s.by /\ t.org = o /\ task' = [task EXCEPT ![r] = t]
      BY <2>1, <2>2, <2>3 DEF Task, HubInv, TypeOK, Step
    <2> HIDE DEF t
    <2>5. ~Claims(t) /\ TaskOK(t)
      BY <2>1, <2>3, <2>4 DEF Claims, TaskOK, Flushed, Uploading
    <2> QED
      BY <2>3, <2>4, <2>5, GoesOnSettles DEF Settled
  <1> QED
    BY <1>1, <1>2

LEMMA ReadTargetsSettles ==
    ASSUME HubInv, NEW r \in Reqs, NEW u \in Users, NEW o \in Orgs, ReadTargets(r, u, o)
    PROVE  Settled(r)
  <1>1. CASE Answers(r, "missing")
    BY <1>1, AnswersSettles DEF Settled, Answer
  <1>2. CASE ~Answers(r, "missing")
    <2> DEFINE t == [task[r] EXCEPT !.step = "read", !.user = u, !.org = o]
    <2>1. PICK s \in Task : s = task[r] /\ TaskOK(s)
      BY DEF HubInv, TypeOK
    <2>2. /\ task' = [task EXCEPT ![r].step = "read", ![r].user = u, ![r].org = o]
          /\ said' = Quiet /\ s.op = "create_membership" /\ s.step = "admitted"
      BY <1>2, <2>1 DEF ReadTargets, At
    <2>3. /\ t \in Task /\ t.op = s.op /\ t.row = s.row /\ t.doc = s.doc /\ t.step = "read"
          /\ t.by = s.by /\ t.org = o /\ t.user = u /\ task' = [task EXCEPT ![r] = t]
      BY <2>1, <2>2 DEF Task, HubInv, TypeOK, Step
    <2> HIDE DEF t
    <2>4. ~Claims(t) /\ TaskOK(t)
      BY <2>1, <2>2, <2>3 DEF Claims, TaskOK, Flushed, Uploading
    <2> QED
      BY <2>2, <2>3, <2>4, GoesOnSettles DEF Settled
  <1> QED
    BY <1>1, <1>2

LEMMA ReadMembershipSettles ==
    ASSUME HubInv, NEW r \in Reqs, NEW m \in Rows, ReadMembership(r, m)
    PROVE  Settled(r)
  <1>1. CASE Answers(r, "missing")
    BY <1>1, AnswersSettles DEF Settled, Answer
  <1>2. CASE ~Answers(r, "missing")
    <2> DEFINE t == [task[r] EXCEPT !.step = "read", !.row = m]
    <2>1. PICK s \in Task : s = task[r] /\ TaskOK(s)
      BY DEF HubInv, TypeOK
    <2>2. /\ task' = [task EXCEPT ![r].step = "read", ![r].row = m] /\ said' = Quiet
          /\ s.op \in {"update_membership", "delete_membership"} /\ Member(m)
      BY <1>2, <2>1 DEF ReadMembership
    <2>3. /\ t \in Task /\ t.op = s.op /\ t.row = m /\ t.doc = s.doc /\ t.step = "read"
          /\ t.by = s.by /\ t.org = s.org /\ task' = [task EXCEPT ![r] = t]
      BY <2>1, <2>2 DEF Task, HubInv, TypeOK, Step
    <2>4. m # None
      BY WorkspaceAssumption
    <2> HIDE DEF t
    <2>5. ~Claims(t) /\ TaskOK(t)
      BY <2>1, <2>2, <2>3, <2>4 DEF Claims, TaskOK, Flushed, Uploading, Member
    <2> QED
      BY <2>2, <2>3, <2>5, GoesOnSettles DEF Settled
  <1> QED
    BY <1>1, <1>2

LEMMA AnswersOnly ==
    ASSUME NEW r \in Reqs,
           UpdateUserEnds(r) \/ UpdateOrgCommit(r) \/ CreateUserCommit(r) \/ CreateMembershipRefused(r)
    PROVE  Settled(r)
  <1>1. \E what \in Answer : Answers(r, what)
    BY DEF UpdateUserEnds, UpdateOrgCommit, CreateUserCommit, CreateMembershipRefused, Answer
  <1> QED
    BY <1>1, AnswersSettles DEF Settled

-----------------------------------------------------------------------------
(* The steps that claim something *)

\* A delete waits for the rows it would take along, and an insert for a delete.
LEMMA DeleteUserKeeps ==
    ASSUME HubInv, NEW r \in Reqs, DeleteUser(r), Cascade,
           UNCHANGED <<home, files, provider, faults, condemned>>
    PROVE  HubInv'
  <1> DEFINE t == [task[r] EXCEPT !.step = "flushed"]
  <1>1. PICK s \in Task : s = task[r] /\ TaskOK(s)
    BY DEF HubInv, TypeOK
  <1>2. s.op = "delete_user" /\ Goes(r, "flushed") /\ UNCHANGED tenants
    BY <1>1 DEF DeleteUser, At
  <1>3. /\ t \in Task /\ t.op = s.op /\ t.row = s.row /\ t.doc = s.doc /\ t.step = "flushed"
        /\ t.user = s.user /\ task' = [task EXCEPT ![r] = t] /\ said' \in Said
    BY <1>1, <1>2, QuietTyped DEF Task, HubInv, TypeOK, Step, Goes, Said
  <1> HIDE DEF t
  <1>4. TaskOK(t)
    BY <1>1, <1>2, <1>3 DEF TaskOK, Flushed, Uploading
  <1>5. ASSUME NEW q \in Reqs \ {r} PROVE Apart(task[q], t) /\ Apart(t, task[q])
    <2>1. Flushed(task[q], "delete_membership") => s.user # rows[task[q].row].user
      <3> SUFFICES ASSUME Flushed(task[q], "delete_membership"), s.user = rows[task[q].row].user
                   PROVE  FALSE
        OBVIOUS
      <3> DEFINE m == task[q].row
      <3>1. m \in Rows /\ Member(m)
        BY DEF HubInv, TypeOK, TaskOK, Flushed, Task
      <3>2. RowLocked(m, r)
        BY DEF RowLocked, Wrote, Flushed
      <3>3. rows[m].user = task[r].user
        BY <1>1
      <3> QED
        BY <3>1, <3>2, <3>3 DEF DeleteUser
    <2> QED
      BY <1>2, <1>3, <2>1 DEF Apart, Flushed, Uploading
  <1>6. users' \in [Users -> Life] /\ gauge' \in Int /\ UNCHANGED <<orgs, rows, aborts, strays, mix>>
    BY <1>2 DEF HubInv, TypeOK, tenants
  <1> QED
    BY <1>3, <1>4, <1>5, <1>6, QuietKeeps

LEMMA DeleteOrgKeeps ==
    ASSUME HubInv, NEW r \in Reqs, DeleteOrg(r), Cascade,
           UNCHANGED <<home, files, provider, faults, condemned>>
    PROVE  HubInv'
  <1>1. PICK s \in Task : s = task[r] /\ TaskOK(s)
    BY DEF HubInv, TypeOK
  <1>2. /\ s.op = "delete_org" /\ Goes(r, "flushed") /\ strays' = strays \cup {"org_deleted"}
        /\ UNCHANGED <<users, orgs, rows, aborts, mix>> /\ gauge' = gauge - s.count
    BY <1>1 DEF DeleteOrg, At
  <1>3. PICK t \in Task : t = [task[r] EXCEPT !.step = "flushed"]
    BY <1>1 DEF Task, Step
  <1>4. /\ t.op = s.op /\ t.row = s.row /\ t.doc = s.doc /\ t.step = "flushed"
        /\ t.by = s.by /\ t.org = s.org /\ task' = [task EXCEPT ![r] = t] /\ said' \in Said
    BY <1>1, <1>2, <1>3, QuietTyped DEF Task, HubInv, TypeOK, Step, Goes, Said
  <1>5. t.doc # None => (docs'[t.doc] = "never" <=> docs[t.doc] = "never")
    BY CascadeFades DEF HubInv, Fades, Task
  <1>6. TaskOK(t)'
    BY <1>1, <1>2, <1>4, <1>5 DEF TaskOK, Flushed, Uploading, Member
  <1>7. ASSUME NEW q \in Reqs \ {r} PROVE Apart(task[q], t) /\ Apart(t, task[q])
    <2>1. Flushed(task[q], "delete_membership") => s.org # rows[task[q].row].org
      <3> SUFFICES ASSUME Flushed(task[q], "delete_membership"), s.org = rows[task[q].row].org
                   PROVE  FALSE
        OBVIOUS
      <3> DEFINE m == task[q].row
      <3>1. m \in Rows /\ Member(m)
        BY DEF HubInv, TypeOK, TaskOK, Flushed, Task
      <3>2. RowLocked(m, r)
        BY DEF RowLocked, Wrote, Flushed
      <3>3. rows[m].org = task[r].org
        BY <1>1
      <3> QED
        BY <3>1, <3>2, <3>3 DEF DeleteOrg
    <2> QED
      BY <1>2, <1>4, <2>1 DEF Apart, Flushed, Uploading
  <1>8. /\ users' \in [Users -> Life] /\ gauge' \in Int
        /\ strays \subseteq strays' /\ strays' \subseteq Stray
    <2>1. Cardinality(Rows) \in Nat /\ s.count \in 0 .. Cardinality(Rows)
      BY WorkspaceAssumption, FS_CardinalityType DEF Task
    <2> QED
      BY <1>2, <2>1 DEF HubInv, TypeOK, Stray
  <1> QED
    BY <1>2, <1>4, <1>6, <1>7, <1>8, TablesKept

LEMMA CreateMembershipKeeps ==
    ASSUME HubInv, NEW r \in Reqs, NEW m \in Rows, CreateMembership(r, m), Cascade,
           UNCHANGED <<home, files, provider, faults, condemned>>
    PROVE  HubInv'
  <1> DEFINE t == [task[r] EXCEPT !.step = "flushed", !.row = m]
  <1>1. PICK s \in Task : s = task[r] /\ TaskOK(s)
    BY DEF HubInv, TypeOK
  <1>2. /\ s.op = "create_membership" /\ s.step = "read" /\ rows[m].life = "never"
        /\ \A q \in Reqs : task[q].row # m
        /\ task' = [task EXCEPT ![r].step = "flushed", ![r].row = m] /\ said' = Quiet
        /\ UNCHANGED <<users, orgs, rows, aborts, strays, mix>> /\ gauge' = gauge + 1
    BY <1>1 DEF CreateMembership, At
  <1>3. /\ t \in Task /\ t.op = s.op /\ t.row = m /\ t.doc = s.doc /\ t.step = "flushed"
        /\ t.by = s.by /\ t.org = s.org /\ t.user = s.user
        /\ task' = [task EXCEPT ![r] = t] /\ said' \in Said
    BY <1>1, <1>2, QuietTyped DEF Task, HubInv, TypeOK, Step, Said
  <1>4. m # None
    BY WorkspaceAssumption
  <1> HIDE DEF t
  <1>5. TaskOK(t)
    BY <1>1, <1>2, <1>3, <1>4 DEF TaskOK, Flushed, Uploading
  <1>6. ASSUME NEW q \in Reqs \ {r} PROVE Apart(task[q], t) /\ Apart(t, task[q])
    BY <1>2, <1>3 DEF Apart, Flushed, Uploading
  <1>7. users' \in [Users -> Life] /\ gauge' \in Int
    BY <1>2 DEF HubInv, TypeOK
  <1> QED
    BY <1>2, <1>3, <1>5, <1>6, <1>7, QuietKeeps

LEMMA DeleteMembershipKeeps ==
    ASSUME HubInv, NEW r \in Reqs, DeleteMembership(r), Cascade,
           UNCHANGED <<home, files, provider, faults, condemned>>
    PROVE  HubInv'
  <1> DEFINE t == [task[r] EXCEPT !.step = "flushed"]
  <1>1. PICK s \in Task : s = task[r] /\ TaskOK(s)
    BY DEF HubInv, TypeOK
  <1>2. /\ s.op = "delete_membership" /\ s.step = "read" /\ ~RowLocked(s.row, r)
        /\ UNCHANGED <<users, orgs, rows, aborts, strays, mix>>
    BY <1>1 DEF DeleteMembership, At
  <1>3. CASE ~Member(s.row)
    <2>1. Answers(r, "missing") /\ UNCHANGED gauge
      BY <1>1, <1>3 DEF DeleteMembership
    <2>2. Settles(r) /\ said' \in Said
      BY <2>1, AnswersSettles DEF Answer
    <2> QED
      BY <1>2, <2>1, <2>2, SettlingKeeps DEF HubInv, TypeOK
  <1>4. CASE Member(s.row)
    <2>1. gauge' = gauge - 1 /\ Goes(r, "flushed")
      BY <1>1, <1>4 DEF DeleteMembership
    <2>2. /\ t \in Task /\ t.op = s.op /\ t.row = s.row /\ t.doc = s.doc /\ t.step = "flushed"
          /\ t.by = s.by /\ t.org = s.org /\ task' = [task EXCEPT ![r] = t] /\ said' \in Said
      BY <1>1, <2>1, QuietTyped DEF Task, HubInv, TypeOK, Step, Goes, Said
    <2> HIDE DEF t
    <2>3. TaskOK(t)
      BY <1>1, <1>2, <1>4, <2>2 DEF TaskOK, Flushed, Uploading, Member
    <2>4. s.row \in Rows /\ rows[s.row].user # None /\ rows[s.row].org # None
      <3>1. s.row \in Rows
        BY <1>1, <1>2 DEF TaskOK, Task
      <3>2. rows[s.row] \in Membership
        BY <3>1, <1>4 DEF HubInv, TypeOK, Member, Unused
      <3> QED
        BY <3>1, <3>2, WorkspaceAssumption DEF Membership
    <2>5. ASSUME NEW q \in Reqs \ {r} PROVE Apart(task[q], t) /\ Apart(t, task[q])
      <3>1. /\ Flushed(task[q], "delete_membership") => task[q].row # s.row
            /\ Flushed(task[q], "delete_user") => task[q].user # rows[s.row].user
            /\ Flushed(task[q], "delete_org") => task[q].org # rows[s.row].org
        BY <1>2, <2>4 DEF RowLocked, Wrote, Flushed
      <3> QED
        BY <1>2, <2>2, <3>1 DEF Apart, Flushed, Uploading
    <2>6. users' \in [Users -> Life] /\ gauge' \in Int
      BY <1>2, <2>1 DEF HubInv, TypeOK
    <2> QED
      BY <1>2, <2>2, <2>3, <2>5, <2>6, QuietKeeps
  <1> QED
    BY <1>3, <1>4

-----------------------------------------------------------------------------
(* The commits *)

\* The membership rows that the others look at: what there was stays who it is,
\* what is inserted stays to be inserted, and what is deleted stays to be deleted.
RowsSteady(r) ==
    /\ \A m \in Rows : rows[m].life # "never" =>
          rows'[m].life # "never" /\ rows'[m].user = rows[m].user /\ rows'[m].org = rows[m].org
    /\ \A q \in Reqs \ {r} :
          /\ \A m \in Rows : task[q].row = m /\ rows[m].life = "never" => rows'[m].life = "never"
          /\ Flushed(task[q], "delete_membership") => rows'[task[q].row].life = "there"

LEMMA CommitKeeps ==
    ASSUME HubInv, NEW r \in Reqs, NEW what \in Answer,
           NEW of \in Users \cup Orgs \cup Rows \cup Docs \cup {None}, Say(r, what, of),
           RowsSteady(r), users' \in [Users -> Life], orgs' \in [Orgs -> Life],
           rows' \in [Rows -> {Unused} \cup Membership],
           strays \subseteq strays', strays' \subseteq Stray, UNCHANGED <<gauge, aborts, mix>>,
           Cascade, UNCHANGED <<home, files, provider, faults, condemned>>,
           \A o \in Orgs : orgs[o] # "never" => orgs'[o] # "never", DeletedOrgs'
    PROVE  HubInv'
  <1>1. docs' \in [Docs -> Life] /\ Fades /\ TypeOK
    BY CascadeFades DEF HubInv
  <1>2. task' \in [Reqs -> Task] /\ task'[r] = Idle /\ Others(r) /\ said' \in Said
    BY <1>1, SayEnds DEF Said
  <1>3. TypeOK'
    BY <1>1, <1>2 DEF TypeOK, Said
  <1>4. Steady
    BY <1>1 DEF Steady, Fades, RowsSteady
  <1>5. TaskOK(task[r])'
    BY <1>2, IdleOK
  <1>6. ASSUME NEW q \in Reqs \ {r}
        PROVE  Undisturbed(q) /\ Apart(task[q], task[r])' /\ Apart(task[r], task[q])'
    <2>1. Apart(task[q], task[r])' /\ Apart(task[r], task[q])'
      <3>1. PICK s \in Task : s = task'[q]
        BY <1>2
      <3>2. Apart(s, Idle)' /\ Apart(Idle, s)'
        BY IdleOK, Unclaimed
      <3> QED
        BY <1>2, <3>1, <3>2 DEF Apart
    <2>2. Undisturbed(q)
      BY <1>1 DEF Undisturbed, Fades, RowsSteady
    <2> QED
      BY <2>1, <2>2
  <1>7. \A d \in Docs : DocOK(d)'
    BY <1>1 DEF HubInv, DocOK, Fades, TypeOK
  <1> QED
    BY <1>2, <1>3, <1>4, <1>5, <1>6, <1>7, StepKeeps

\* A membership is a row that was used.
LEMMA UsedRow ==
    ASSUME HubInv, NEW m \in Rows, rows[m].life # "never"
    PROVE  rows[m] \in Membership
  BY DEF HubInv, TypeOK, Unused

LEMMA OwnTask ==
    ASSUME HubInv, NEW r \in Reqs
    PROVE  \E t \in Task : t = task[r] /\ TaskOK(t)
  BY DEF HubInv, TypeOK

\* A membership that is being deleted is there.
LEMMA DeletedRow ==
    ASSUME HubInv, NEW q \in Reqs, Flushed(task[q], "delete_membership")
    PROVE  task[q].row \in Rows /\ Member(task[q].row)
  <1>1. PICK t \in Task : t = task[q] /\ TaskOK(t)
    BY OwnTask
  <1> QED
    BY <1>1 DEF TaskOK, Flushed, Task

\* What is deleted by nobody's leave stays, and what a cascade takes was there.
LEMMA WithoutSteady ==
    ASSUME HubInv, NEW r \in Reqs, NEW gone \in [Rows -> BOOLEAN], rows' = Without(gone),
           \A q \in Reqs \ {r} : Flushed(task[q], "delete_membership") => ~gone[task[q].row]
    PROVE  RowsSteady(r) /\ rows' \in [Rows -> {Unused} \cup Membership]
  <1>1. ASSUME NEW m \in Rows
        PROVE  /\ rows'[m] \in {Unused} \cup Membership
               /\ rows[m].life = "never" => rows'[m] = rows[m]
               /\ rows[m].life # "never" => /\ rows'[m].life # "never"
                                            /\ rows'[m].user = rows[m].user /\ rows'[m].org = rows[m].org
               /\ ~gone[m] => rows'[m] = rows[m]
    <2>1. CASE Member(m) /\ gone[m]
      <3>1. rows'[m] = [rows[m] EXCEPT !.life = "gone"] /\ rows[m] \in Membership
        BY <2>1, UsedRow DEF Without, Member
      <3> QED
        BY <2>1, <3>1 DEF Membership, Member
    <2>2. CASE ~(Member(m) /\ gone[m])
      BY <2>2 DEF Without, HubInv, TypeOK
    <2> QED
      BY <2>1, <2>2
  <1>2. \A q \in Reqs \ {r} : Flushed(task[q], "delete_membership") =>
            task[q].row \in Rows /\ Member(task[q].row)
    BY DeletedRow
  <1>3. RowsSteady(r)
    BY <1>1, <1>2 DEF RowsSteady, Member
  <1>4. rows' = [m \in Rows |-> rows'[m]]
    BY DEF Without
  <1> QED
    BY <1>1, <1>3, <1>4

LEMMA DeleteUserCommitKeeps ==
    ASSUME HubInv, NEW r \in Reqs, DeleteUserCommit(r), Cascade,
           UNCHANGED <<home, files, provider, faults, condemned>>
    PROVE  HubInv'
  <1> DEFINE gone == [m \in Rows |-> rows[m].user = task[r].user]
  <1>1. /\ Flushed(task[r], "delete_user") /\ Say(r, "deleted", None)
        /\ users' = [users EXCEPT ![task[r].user] = "gone"]
        /\ rows' = Without(gone) /\ strays' = strays \cup {"user_deleted"}
        /\ UNCHANGED <<orgs, gauge, aborts, mix>>
    BY DEF DeleteUserCommit, At, Flushed, Answers
  <1>2. gone \in [Rows -> BOOLEAN]
    OBVIOUS
  <1>3. \A q \in Reqs \ {r} : Flushed(task[q], "delete_membership") => ~gone[task[q].row]
    <2> SUFFICES ASSUME NEW q \in Reqs \ {r}, Flushed(task[q], "delete_membership")
                 PROVE  ~gone[task[q].row]
      OBVIOUS
    <2>1. task[q].row \in Rows
      BY DeletedRow
    <2>2. Apart(task[q], task[r])
      BY DEF HubInv
    <2> QED
      BY <1>1, <2>1, <2>2 DEF Apart
  <1> HIDE DEF gone
  <1>4. RowsSteady(r) /\ rows' \in [Rows -> {Unused} \cup Membership]
    BY <1>1, <1>2, <1>3, WithoutSteady
  <1>5. users' \in [Users -> Life] /\ orgs' \in [Orgs -> Life]
    BY <1>1 DEF HubInv, TypeOK, Life
  <1>6. strays \subseteq strays' /\ strays' \subseteq Stray /\ DeletedOrgs'
    BY <1>1 DEF HubInv, TypeOK, Stray, DeletedOrgs
  <1>7. "deleted" \in Answer /\ None \in Users \cup Orgs \cup Rows \cup Docs \cup {None}
    BY DEF Answer
  <1> QED
    BY <1>1, <1>4, <1>5, <1>6, <1>7, CommitKeeps

LEMMA DeleteOrgCommitKeeps ==
    ASSUME HubInv, NEW r \in Reqs, DeleteOrgCommit(r), Cascade,
           UNCHANGED <<home, files, provider, faults, condemned>>
    PROVE  HubInv'
  <1> DEFINE gone == [m \in Rows |-> rows[m].org = task[r].org]
  <1>1. /\ Flushed(task[r], "delete_org") /\ Say(r, "deleted", None)
        /\ orgs' = [orgs EXCEPT ![task[r].org] = "gone"]
        /\ rows' = Without(gone) /\ UNCHANGED <<users, gauge, aborts, strays, mix>>
    BY DEF DeleteOrgCommit, At, Flushed, Answers
  <1>2. gone \in [Rows -> BOOLEAN]
    OBVIOUS
  <1>3. \A q \in Reqs \ {r} : Flushed(task[q], "delete_membership") => ~gone[task[q].row]
    <2> SUFFICES ASSUME NEW q \in Reqs \ {r}, Flushed(task[q], "delete_membership")
                 PROVE  ~gone[task[q].row]
      OBVIOUS
    <2>1. task[q].row \in Rows
      BY DeletedRow
    <2>2. Apart(task[q], task[r])
      BY DEF HubInv
    <2> QED
      BY <1>1, <2>1, <2>2 DEF Apart
  <1> HIDE DEF gone
  <1>4. RowsSteady(r) /\ rows' \in [Rows -> {Unused} \cup Membership]
    BY <1>1, <1>2, <1>3, WithoutSteady
  <1>5. /\ users' \in [Users -> Life] /\ orgs' \in [Orgs -> Life]
        /\ \A o \in Orgs : orgs[o] # "never" => orgs'[o] # "never"
    BY <1>1 DEF HubInv, TypeOK, Life
  <1>6. strays \subseteq strays' /\ strays' \subseteq Stray
    BY <1>1 DEF HubInv, TypeOK
  <1>7. DeletedOrgs'
    BY <1>1 DEF HubInv, TaskOK, Flushed, DeletedOrgs
  <1>8. "deleted" \in Answer /\ None \in Users \cup Orgs \cup Rows \cup Docs \cup {None}
    BY DEF Answer
  <1> QED
    BY <1>1, <1>4, <1>5, <1>6, <1>7, <1>8, CommitKeeps

LEMMA CreateOrgKeeps ==
    ASSUME HubInv, NEW r \in Reqs, NEW o \in Orgs, NEW m \in Rows, CreateOrg(r, o, m), Cascade,
           UNCHANGED <<home, files, provider, faults, condemned>>
    PROVE  HubInv'
  <1>1. CASE users[task[r].by] # "there"
    <2>1. Answers(r, "failed") /\ UNCHANGED <<users, orgs, rows, gauge, aborts, strays, mix>>
      BY <1>1 DEF CreateOrg
    <2>2. Settles(r) /\ said' \in Said
      BY <2>1, AnswersSettles DEF Answer
    <2> QED
      BY <2>1, <2>2, SettlingKeeps DEF HubInv, TypeOK
  <1>2. CASE users[task[r].by] = "there"
    <2> DEFINE new == [life |-> "there", user |-> task[r].by, org |-> o, role |-> "owner"]
    <2>1. /\ Say(r, "created", None) /\ orgs[o] = "never" /\ orgs' = [orgs EXCEPT ![o] = "there"]
          /\ rows[m].life = "never" /\ \A q \in Reqs : task[q].row # m
          /\ rows' = [rows EXCEPT ![m] = new] /\ strays' = strays \cup {"org_created"}
          /\ UNCHANGED <<users, gauge, aborts, mix>>
      BY <1>2 DEF CreateOrg, Answers
    <2>2. task[r].by \in Users
      <3>1. At(r, "create_org", "admitted") /\ None \notin Op
        BY WorkspaceAssumption DEF CreateOrg
      <3>2. TaskOK(task[r])
        BY DEF HubInv
      <3> QED
        BY <3>1, <3>2 DEF TaskOK, At, Op
    <2>3. new \in Membership /\ new.life = "there"
      BY <2>2 DEF Membership, Role
    <2> HIDE DEF new
    <2>4. rows' \in [Rows -> {Unused} \cup Membership]
      BY <2>1, <2>3 DEF HubInv, TypeOK
    <2>5. RowsSteady(r)
      <3>1. \A q \in Reqs : Flushed(task[q], "delete_membership") =>
                task[q].row \in Rows /\ Member(task[q].row)
        BY DeletedRow
      <3>2. \A n \in Rows : rows'[n] = IF n = m THEN new ELSE rows[n]
        BY <2>1 DEF HubInv, TypeOK
      <3> QED
        BY <2>1, <3>1, <3>2 DEF RowsSteady, Member
    <2>6. /\ users' \in [Users -> Life] /\ orgs' \in [Orgs -> Life]
          /\ \A x \in Orgs : orgs[x] # "never" => orgs'[x] # "never"
      BY <2>1 DEF HubInv, TypeOK, Life
    <2>7. strays \subseteq strays' /\ strays' \subseteq Stray /\ DeletedOrgs'
      BY <2>1 DEF HubInv, TypeOK, Stray, DeletedOrgs
    <2>8. "created" \in Answer /\ None \in Users \cup Orgs \cup Rows \cup Docs \cup {None}
      BY DEF Answer
    <2> QED
      BY <2>1, <2>4, <2>5, <2>6, <2>7, <2>8, CommitKeeps
  <1> QED
    BY <1>1, <1>2

LEMMA CreateMembershipCommitKeeps ==
    ASSUME HubInv, NEW r \in Reqs, CreateMembershipCommit(r), Cascade,
           UNCHANGED <<home, files, provider, faults, condemned>>
    PROVE  HubInv'
  <1>1. PICK s \in Task : s = task[r] /\ TaskOK(s)
    BY OwnTask
  <1> DEFINE new == [life |-> "there", user |-> s.user, org |-> s.org, role |-> "member"]
  <1>2. /\ Flushed(s, "create_membership") /\ Say(r, "created", s.row)
        /\ rows' = [rows EXCEPT ![s.row] = new] /\ UNCHANGED <<users, orgs, gauge, aborts, strays, mix>>
    BY <1>1 DEF CreateMembershipCommit, At, Flushed
  <1>3. s.row \in Rows /\ rows[s.row].life = "never" /\ s.user \in Users /\ s.org \in Orgs
    BY <1>1, <1>2, WorkspaceAssumption DEF TaskOK, Flushed, Task, Op
  <1>4. new \in Membership /\ new.life = "there"
    BY <1>3 DEF Membership, Role
  <1> HIDE DEF new
  <1>5. rows' \in [Rows -> {Unused} \cup Membership]
    BY <1>2, <1>3, <1>4 DEF HubInv, TypeOK
  <1>6. RowsSteady(r)
    <2>1. ASSUME NEW q \in Reqs \ {r}
          PROVE  /\ Flushed(task[q], "delete_membership") =>
                       task[q].row \in Rows /\ Member(task[q].row)
                 /\ task[q].row # s.row
      <3>1. TaskOK(task[q]) /\ Apart(task[q], task[r])
        BY DEF HubInv
      <3>2. task[q].row \in Rows \cup {None} /\ s.row # None
        BY <1>3, WorkspaceAssumption DEF HubInv, TypeOK, Task
      <3>3. task[q].row # s.row
        BY <1>1, <1>2, <1>3, <3>1, <3>2 DEF TaskOK, Apart
      <3> QED
        BY <3>1, <3>2, <3>3 DEF TaskOK, Flushed
    <2> QED
      BY <1>2, <1>3, <2>1 DEF RowsSteady, HubInv, TypeOK, Member
  <1>7. users' \in [Users -> Life] /\ orgs' \in [Orgs -> Life] /\ strays' \subseteq Stray /\ DeletedOrgs'
    BY <1>2 DEF HubInv, TypeOK, DeletedOrgs
  <1>8. "created" \in Answer
    BY DEF Answer
  <1> QED
    BY <1>2, <1>3, <1>5, <1>6, <1>7, <1>8, CommitKeeps

\* The row a membership request has read.
LEMMA TargetRow ==
    ASSUME HubInv, NEW r \in Reqs, task[r].op \in {"update_membership", "delete_membership"},
           task[r].step = "flushed"
    PROVE  task[r].row \in Rows /\ rows[task[r].row] \in Membership
  <1>1. PICK s \in Task : s = task[r] /\ TaskOK(s)
    BY OwnTask
  <1>2. s.row \in Rows /\ rows[s.row].life # "never"
    BY <1>1 DEF TaskOK, Flushed, Task
  <1> QED
    BY <1>1, <1>2, UsedRow

LEMMA UpdateMembershipCommitKeeps ==
    ASSUME HubInv, NEW r \in Reqs, UpdateMembershipCommit(r), Cascade,
           UNCHANGED <<home, files, provider, faults, condemned>>
    PROVE  HubInv'
  <1>1. PICK s \in Task : s = task[r] /\ TaskOK(s)
    BY OwnTask
  <1>2. /\ Flushed(s, "update_membership") /\ Say(r, "changed", None)
        /\ rows' = [rows EXCEPT ![s.row].role = s.role] /\ UNCHANGED <<users, orgs, gauge, aborts, strays, mix>>
    BY <1>1 DEF UpdateMembershipCommit, At, Flushed, Answers
  <1>3. s.row \in Rows /\ rows[s.row] \in Membership
    BY <1>1, <1>2, TargetRow DEF Flushed
  <1>4. PICK new \in Membership : new = [rows[s.row] EXCEPT !.role = s.role]
    BY <1>3 DEF Membership, Task
  <1>5. /\ rows' = [rows EXCEPT ![s.row] = new] /\ new.life = rows[s.row].life
        /\ new.user = rows[s.row].user /\ new.org = rows[s.row].org
    BY <1>2, <1>3, <1>4 DEF HubInv, TypeOK, Membership
  <1>6. rows' \in [Rows -> {Unused} \cup Membership]
    BY <1>3, <1>5 DEF HubInv, TypeOK
  <1>7. RowsSteady(r)
    <2>1. \A q \in Reqs : Flushed(task[q], "delete_membership") =>
              task[q].row \in Rows /\ Member(task[q].row)
      BY DeletedRow
    <2> QED
      BY <1>3, <1>5, <2>1 DEF RowsSteady, HubInv, TypeOK, Member
  <1>8. users' \in [Users -> Life] /\ orgs' \in [Orgs -> Life] /\ strays' \subseteq Stray /\ DeletedOrgs'
    BY <1>2 DEF HubInv, TypeOK, DeletedOrgs
  <1>9. "changed" \in Answer /\ None \in Users \cup Orgs \cup Rows \cup Docs \cup {None}
    BY DEF Answer
  <1> QED
    BY <1>2, <1>6, <1>7, <1>8, <1>9, CommitKeeps

LEMMA DeleteMembershipCommitKeeps ==
    ASSUME HubInv, NEW r \in Reqs, DeleteMembershipCommit(r), Cascade,
           UNCHANGED <<home, files, provider, faults, condemned>>
    PROVE  HubInv'
  <1>1. PICK s \in Task : s = task[r] /\ TaskOK(s)
    BY OwnTask
  <1>2. /\ Flushed(s, "delete_membership") /\ Say(r, "deleted", s.row)
        /\ rows' = [rows EXCEPT ![s.row].life = "gone"] /\ UNCHANGED <<users, orgs, gauge, aborts, strays, mix>>
    BY <1>1 DEF DeleteMembershipCommit, At, Flushed
  <1>3. s.row \in Rows /\ rows[s.row] \in Membership
    BY <1>1, <1>2, TargetRow DEF Flushed
  <1>4. PICK new \in Membership : new = [rows[s.row] EXCEPT !.life = "gone"]
    BY <1>3 DEF Membership
  <1>5. /\ rows' = [rows EXCEPT ![s.row] = new] /\ new.life = "gone"
        /\ new.user = rows[s.row].user /\ new.org = rows[s.row].org
    BY <1>2, <1>3, <1>4 DEF HubInv, TypeOK, Membership
  <1>6. rows' \in [Rows -> {Unused} \cup Membership]
    BY <1>3, <1>5 DEF HubInv, TypeOK
  <1>7. RowsSteady(r)
    <2>1. ASSUME NEW q \in Reqs \ {r}, Flushed(task[q], "delete_membership")
          PROVE  task[q].row \in Rows /\ Member(task[q].row) /\ task[q].row # s.row
      BY <1>1, <1>2, <2>1 DEF HubInv, TypeOK, TaskOK, Flushed, Task, Apart
    <2>2. rows[s.row].life # "never"
      BY <1>3 DEF Membership
    <2> QED
      BY <1>3, <1>5, <2>1, <2>2 DEF RowsSteady, HubInv, TypeOK, Member
  <1>8. users' \in [Users -> Life] /\ orgs' \in [Orgs -> Life] /\ strays' \subseteq Stray /\ DeletedOrgs'
    BY <1>2 DEF HubInv, TypeOK, DeletedOrgs
  <1>9. "deleted" \in Answer
    BY DEF Answer
  <1> QED
    BY <1>2, <1>3, <1>6, <1>7, <1>8, <1>9, CommitKeeps

-----------------------------------------------------------------------------
(* Any step of a request on users, organizations or memberships *)

LEMMA TenantKeeps ==
    ASSUME HubInv, NEW r \in Reqs, TenantRequest(r), Cascade,
           UNCHANGED <<home, files, provider, faults, condemned>>
    PROVE  HubInv'
  <1>0. ASSUME Settled(r), users' \in [Users -> Life],
               UNCHANGED <<orgs, rows, gauge, aborts, strays, mix>>
        PROVE  HubInv'
    BY <1>0, SettlingKeeps DEF Settled
  <1>1. users \in [Users -> Life]
    BY DEF HubInv, TypeOK
  <1>2. ASSUME NEW u \in Users, CreateUser(r, u) PROVE HubInv'
    BY <1>0, <1>1, <1>2, CreateUserSettles DEF CreateUser, tenants
  <1>3. ASSUME NEW u \in Users, NEW op \in Op, ReadUser(r, op, u) PROVE HubInv'
    BY <1>0, <1>1, <1>3, ReadUserSettles DEF ReadUser, tenants
  <1>4. ASSUME NEW o \in Orgs, ReadOrg(r, o) PROVE HubInv'
    BY <1>0, <1>1, <1>4, ReadOrgSettles DEF ReadOrg, tenants
  <1>5. ASSUME NEW u \in Users, NEW o \in Orgs, ReadTargets(r, u, o) PROVE HubInv'
    BY <1>0, <1>1, <1>5, ReadTargetsSettles DEF ReadTargets, tenants
  <1>6. ASSUME NEW u \in Users, NEW o \in Orgs, NEW op \in Op, Admit(r, op, u, o) PROVE HubInv'
    BY <1>0, <1>1, <1>6, AdmitSettles DEF Admit, tenants
  <1>7. ASSUME NEW m \in Rows, ReadMembership(r, m) PROVE HubInv'
    BY <1>0, <1>1, <1>7, ReadMembershipSettles DEF ReadMembership, tenants
  <1>8. CASE UpdateUser(r) \/ UpdateOrg(r) \/ \E role \in Role : UpdateMembership(r, role)
    <2>1. UNCHANGED tenants
      BY <1>8 DEF UpdateUser, UpdateOrg, UpdateMembership
    <2> QED
      BY <1>0, <1>1, <1>8, <2>1, UpdatesSettle DEF tenants
  <1>9. CASE UpdateUserEnds(r) \/ UpdateOrgCommit(r) \/ CreateMembershipRefused(r)
    <2>1. UNCHANGED tenants
      BY <1>9 DEF UpdateUserEnds, UpdateOrgCommit, CreateMembershipRefused
    <2> QED
      BY <1>0, <1>1, <1>9, <2>1, AnswersOnly DEF tenants
  <1>10. CASE CreateUserCommit(r)
    <2>1. users' \in [Users -> Life] /\ UNCHANGED <<orgs, rows, gauge, aborts, strays, mix>>
      BY <1>1, <1>10 DEF CreateUserCommit, Life
    <2> QED
      BY <1>0, <1>10, <2>1, AnswersOnly
  <1>11. CASE DeleteUser(r) \/ DeleteUserCommit(r) \/ DeleteOrg(r) \/ DeleteOrgCommit(r)
    BY <1>11, DeleteUserKeeps, DeleteUserCommitKeeps, DeleteOrgKeeps, DeleteOrgCommitKeeps
  <1>12. ASSUME NEW o \in Orgs, NEW m \in Rows, CreateOrg(r, o, m) PROVE HubInv'
    BY <1>12, CreateOrgKeeps
  <1>13. ASSUME NEW m \in Rows, CreateMembership(r, m) PROVE HubInv'
    BY <1>13, CreateMembershipKeeps
  <1>14. CASE CreateMembershipCommit(r) \/ UpdateMembershipCommit(r)
              \/ DeleteMembership(r) \/ DeleteMembershipCommit(r)
    BY <1>14, CreateMembershipCommitKeeps, UpdateMembershipCommitKeeps,
       DeleteMembershipKeeps, DeleteMembershipCommitKeeps
  <1> QED
    BY <1>2, <1>3, <1>4, <1>5, <1>6, <1>7, <1>8, <1>9, <1>10, <1>11, <1>12, <1>13, <1>14 DEF TenantRequest

-----------------------------------------------------------------------------
(* Requests on documents *)

LEMMA StoreKept ==
    ASSUME HubInv, NEW r \in Reqs, NEW t \in Task, task' = [task EXCEPT ![r] = t], TaskOK(t)',
           \A q \in Reqs \ {r} : Apart(task[q], t) /\ Apart(t, task[q]),
           said' \in Said, UNCHANGED tenants, UNCHANGED provider,
           docs' \in [Docs -> Life], home' \in [Docs -> Orgs], files' \in [Docs -> File],
           faults' \in 0 .. MaxFaults, condemned \subseteq condemned', condemned' \subseteq Docs,
           \A d \in Docs : docs[d] # "never" => docs'[d] # "never" /\ files'[d] \in {files[d], "none"},
           \A q \in Reqs \ {r}, d \in Docs : task[q].doc = d /\ docs[d] = "never" =>
              docs'[d] = "never" /\ files'[d] = files[d],
           \A d \in Docs : DocOK(d)'
    PROVE  HubInv'
  <1>1. TypeOK /\ UNCHANGED <<users, orgs, rows, gauge, aborts, strays, mix>>
    BY DEF HubInv, tenants
  <1>2. TypeOK' /\ task'[r] = t /\ Others(r)
    BY <1>1 DEF TypeOK, Others, Said
  <1>3. Steady
    BY <1>1 DEF Steady
  <1>4. TaskOK(task[r])'
    BY <1>2 DEF TaskOK
  <1>5. ASSUME NEW q \in Reqs \ {r}
        PROVE  Undisturbed(q) /\ Apart(task[q], task[r])' /\ Apart(task[r], task[q])'
    <2>1. Apart(task[q], task[r])' /\ Apart(task[r], task[q])'
      BY <1>1, <1>2 DEF Apart, Others
    <2>2. Undisturbed(q)
      BY <1>1, DeletedRow DEF Undisturbed, Member
    <2> QED
      BY <2>1, <2>2
  <1>6. DeletedOrgs'
    BY <1>1 DEF HubInv, DeletedOrgs
  <1> QED
    BY <1>2, <1>3, <1>4, <1>5, <1>6, StepKeeps

\* A request touches the document it is about, and no other.
FileStep(r, d, x, f) ==
    /\ task[r].doc = d /\ docs' = [docs EXCEPT ![d] = x] /\ files' = [files EXCEPT ![d] = f]
    /\ UNCHANGED tenants /\ UNCHANGED <<home, provider, condemned>> /\ faults' \in 0 .. MaxFaults
    /\ x = "never" => docs[d] = "never"
    /\ docs[d] # "never" => f \in {files[d], "none"}
    /\ x = "there" => f # "torn" /\ (d \in condemned \/ f = "whole")

\* It keeps its claim to it or ends it.
LEMMA FileKeeps ==
    ASSUME HubInv, NEW r \in Reqs, NEW d \in Docs, NEW x \in Life, NEW f \in File, FileStep(r, d, x, f),
           NEW t \in Task, task' = [task EXCEPT ![r] = t], TaskOK(t)', said' \in Said,
           Claims(t) => Uploading(t) /\ Uploading(task[r]) /\ t.doc = d
    PROVE  HubInv'
  <1>0. /\ task[r].doc = d /\ docs' = [docs EXCEPT ![d] = x] /\ files' = [files EXCEPT ![d] = f]
        /\ UNCHANGED tenants /\ UNCHANGED <<home, provider, condemned>> /\ faults' \in 0 .. MaxFaults
        /\ x = "never" => docs[d] = "never"
        /\ docs[d] # "never" => f \in {files[d], "none"}
        /\ x = "there" => f # "torn" /\ (d \in condemned \/ f = "whole")
    BY DEF FileStep
  <1>1. TypeOK /\ TaskOK(task[r]) /\ d # None
    BY WorkspaceAssumption DEF HubInv
  <1>2. /\ docs' \in [Docs -> Life] /\ home' \in [Docs -> Orgs] /\ files' \in [Docs -> File]
        /\ condemned \subseteq condemned' /\ condemned' \subseteq Docs
    BY <1>0, <1>1 DEF TypeOK
  <1>3. \A e \in Docs : /\ docs'[e] = IF e = d THEN x ELSE docs[e]
                        /\ files'[e] = IF e = d THEN f ELSE files[e]
    BY <1>0, <1>1 DEF TypeOK
  <1>4. \A e \in Docs : docs[e] # "never" => docs'[e] # "never" /\ files'[e] \in {files[e], "none"}
    BY <1>0, <1>3
  <1>5. \A e \in Docs : DocOK(e)'
    <2>1. orgs' = orgs
      BY <1>0 DEF tenants
    <2> QED
      BY <1>0, <1>3, <2>1 DEF HubInv, DocOK
  <1>6. ASSUME NEW q \in Reqs \ {r}, NEW e \in Docs, task[q].doc = e, docs[e] = "never"
        PROVE  docs'[e] = "never" /\ files'[e] = files[e]
    <2>1. e # None
      BY WorkspaceAssumption
    <2>2. TaskOK(task[q]) /\ Apart(task[q], task[r])
      BY DEF HubInv
    <2>3. Uploading(task[q])
      BY <1>6, <2>1, <2>2 DEF TaskOK
    <2>4. e # d
      BY <1>0, <1>1, <1>6, <2>2, <2>3 DEF TaskOK, Apart
    <2> QED
      BY <1>3, <1>6, <2>4
  <1>7. \A q \in Reqs \ {r} : Apart(task[q], t) /\ Apart(t, task[q])
    <2> SUFFICES ASSUME NEW q \in Reqs \ {r} PROVE Apart(task[q], t) /\ Apart(t, task[q])
      OBVIOUS
    <2>1. CASE ~Claims(t)
      BY <2>1, Unclaimed
    <2>2. CASE Claims(t)
      <3>1. Apart(task[q], task[r]) /\ Apart(task[r], task[q])
        BY DEF HubInv
      <3> QED
        BY <1>0, <2>2, <3>1 DEF Apart, Flushed, Uploading
    <2> QED
      BY <2>1, <2>2
  <1> QED
    <2>1. \A q \in Reqs \ {r}, e \in Docs : task[q].doc = e /\ docs[e] = "never" =>
              docs'[e] = "never" /\ files'[e] = files[e]
      BY <1>6
    <2>2. UNCHANGED provider
      BY <1>0
    <2> QED
      BY <1>0, <1>2, <1>4, <1>5, <1>7, <2>1, <2>2, StoreKept

LEMMA OwnDoc ==
    ASSUME HubInv, NEW r \in Reqs, task[r].op \in {"upload", "download", "delete_document"},
           task[r].step # "admitted"
    PROVE  task[r].doc \in Docs
  <1>1. PICK s \in Task : s = task[r] /\ TaskOK(s)
    BY OwnTask
  <1> QED
    BY <1>1 DEF TaskOK, Task

LEMMA FaultsTyped ==
    ASSUME HubInv, \/ \E ok \in BOOLEAN : StoreAnswers(ok)
                   \/ StoreFails
                   \/ UNCHANGED faults
    PROVE  faults' \in 0 .. MaxFaults
  BY DocumentsAssumption DEF HubInv, TypeOK, StoreAnswers, StoreFails

\* A request that ends, or goes on by a step, with its document as it is now.
LEMMA StepTask ==
    ASSUME HubInv, NEW r \in Reqs, NEW step \in Step, Goes(r, step)
    PROVE  \E t \in Task : /\ task' = [task EXCEPT ![r] = t] /\ said' \in Said
                           /\ t.op = task[r].op /\ t.step = step /\ t.doc = task[r].doc
                           /\ t.row = task[r].row /\ t.by = task[r].by /\ t.org = task[r].org
                           /\ t.user = task[r].user
  <1>1. PICK s \in Task : s = task[r] /\ TaskOK(s)
    BY OwnTask
  <1>2. PICK t \in Task : t = [s EXCEPT !.step = step]
    BY DEF Task
  <1>3. task' = [task EXCEPT ![r] = t] /\ said' \in Said
    BY <1>1, <1>2, QuietTyped DEF Goes, HubInv, TypeOK, Said, Task
  <1> QED
    BY <1>1, <1>2, <1>3 DEF Task

LEMMA SayTask ==
    ASSUME NEW r \in Reqs, NEW what \in Answer,
           NEW of \in Users \cup Orgs \cup Rows \cup Docs \cup {None}, Say(r, what, of)
    PROVE  task' = [task EXCEPT ![r] = Idle] /\ said' \in Said
  BY DEF Say, Said

\* A document request ends.
LEMMA EndKeeps ==
    ASSUME HubInv, NEW r \in Reqs, NEW d \in Docs, NEW x \in Life, NEW f \in File, FileStep(r, d, x, f),
           NEW what \in Answer, NEW of \in Users \cup Orgs \cup Rows \cup Docs \cup {None},
           Say(r, what, of)
    PROVE  HubInv'
  <1>1. task' = [task EXCEPT ![r] = Idle] /\ said' \in Said
    BY SayTask
  <1>2. Idle \in Task /\ TaskOK(Idle)' /\ ~Claims(Idle)
    BY IdleOK, IdleTyped
  <1> QED
    BY <1>1, <1>2, FileKeeps

\* A document request ends and leaves the document as it is.
LEMMA EndsOnly ==
    ASSUME HubInv, NEW r \in Reqs, NEW what \in Answer,
           NEW of \in Users \cup Orgs \cup Rows \cup Docs \cup {None}, Say(r, what, of),
           task[r].doc \in Docs, UNCHANGED tenants,
           UNCHANGED <<docs, files, home, provider, condemned>>, faults' \in 0 .. MaxFaults
    PROVE  HubInv'
  <1>1. PICK d \in Docs : d = task[r].doc
    OBVIOUS
  <1>2. PICK x \in Life, f \in File : x = docs[d] /\ f = files[d]
    BY DEF HubInv, TypeOK
  <1>3. docs' = [docs EXCEPT ![d] = x] /\ files' = [files EXCEPT ![d] = f] /\ DocOK(d)
    BY <1>2 DEF HubInv, TypeOK
  <1>4. FileStep(r, d, x, f)
    BY <1>1, <1>2, <1>3 DEF FileStep, DocOK
  <1> QED
    BY <1>4, EndKeeps

-----------------------------------------------------------------------------
(* The steps of a document request, one by one *)

LEMMA UploadInsertKeeps ==
    ASSUME HubInv, NEW r \in Reqs, NEW d \in Docs, UploadInsert(r, d), UNCHANGED tenants
    PROVE  HubInv'
  <1>0. TypeOK /\ TaskOK(task[r])
    BY DEF HubInv
  <1>1. /\ At(r, "upload", "admitted") /\ docs[d] = "never" /\ \A q \in Reqs : task[q].doc # d
        /\ UNCHANGED <<docs, files, provider, faults, condemned>>
    BY DEF UploadInsert
  <1>2. CASE orgs[task[r].org] = "there"
    <2>1. PICK s \in Task : s = task[r] /\ TaskOK(s)
      BY OwnTask
    <2>2. PICK t \in Task : t = [s EXCEPT !.step = "flushed", !.doc = d]
      BY DEF Task, Step
    <2>3. /\ task' = [task EXCEPT ![r].step = "flushed", ![r].doc = d] /\ said' = Quiet
          /\ home' = [home EXCEPT ![d] = s.org] /\ orgs[s.org] = "there"
      BY <1>2, <2>1 DEF UploadInsert
    <2>4. /\ task' = [task EXCEPT ![r] = t] /\ said' \in Said
          /\ t.op = "upload" /\ t.step = "flushed" /\ t.doc = d /\ t.row = s.row
          /\ t.by = s.by /\ t.org = s.org /\ s.op = "upload" /\ s.step = "admitted"
      BY <1>0, <1>1, <2>1, <2>2, <2>3, QuietTyped DEF TypeOK, Task, Said, At
    <2>5. s.org \in Orgs
      BY <2>1, <2>4, WorkspaceAssumption DEF TaskOK, Op
    <2>6. TaskOK(t)'
      <3>1. UNCHANGED <<rows, strays, docs, files, condemned>>
        BY <1>1 DEF tenants
      <3>2. TaskOK(t)
        BY <1>1, <2>1, <2>4, WorkspaceAssumption DEF TaskOK, Flushed, Uploading
      <3> QED
        BY <3>1, <3>2 DEF TaskOK, Member
    <2>7. ASSUME NEW q \in Reqs \ {r} PROVE Apart(task[q], t) /\ Apart(t, task[q])
      BY <1>1, <2>4 DEF Apart, Flushed, Uploading
    <2>8. /\ docs' \in [Docs -> Life] /\ home' \in [Docs -> Orgs] /\ files' \in [Docs -> File]
          /\ faults' \in 0 .. MaxFaults /\ condemned' \subseteq Docs
      BY <1>0, <1>1, <2>3, <2>5 DEF TypeOK
    <2>9. \A e \in Docs : DocOK(e)'
      <3>1. orgs' = orgs
        BY DEF tenants
      <3> QED
        BY <1>0, <1>1, <2>3, <2>5, <3>1 DEF HubInv, DocOK, TypeOK
    <2> QED
      BY <1>1, <2>4, <2>6, <2>7, <2>8, <2>9, StoreKept
  <1>3. CASE orgs[task[r].org] # "there"
    <2>1. Answers(r, "failed") /\ UNCHANGED home
      BY <1>3 DEF UploadInsert
    <2>2. Settles(r) /\ said' \in Said
      BY <2>1, AnswersSettles DEF Answer
    <2>3. PICK t \in Task : task' = [task EXCEPT ![r] = t] /\ ~Claims(t) /\ TaskOK(t)
      BY <2>2 DEF Settles
    <2>4. UNCHANGED <<orgs, rows, strays>>
      BY DEF tenants
    <2>5. TaskOK(t)'
      BY <1>1, <2>3, <2>4 DEF TaskOK, Member
    <2>6. \A q \in Reqs \ {r} : Apart(task[q], t) /\ Apart(t, task[q])
      BY <2>3, Unclaimed
    <2>7. /\ docs' \in [Docs -> Life] /\ home' \in [Docs -> Orgs] /\ files' \in [Docs -> File]
          /\ faults' \in 0 .. MaxFaults /\ condemned' \subseteq Docs
      BY <1>0, <1>1, <2>1 DEF TypeOK
    <2>8. \A e \in Docs : DocOK(e)'
      BY <1>1, <2>1, <2>4 DEF HubInv, DocOK
    <2> QED
      BY <1>1, <2>2, <2>3, <2>5, <2>6, <2>7, <2>8, StoreKept
  <1> QED
    BY <1>2, <1>3

LEMMA UploadedTyped ==
    ASSUME TypeOK, NEW ok \in BOOLEAN
    PROVE  Uploaded(ok) \subseteq File /\ (ok => Uploaded(ok) = {"whole"})
  BY DEF TypeOK, Providers, Uploaded, LocalUpload, AzureUpload, S3Upload, GcsUpload, File

LEMMA UploadStoreKeeps ==
    ASSUME HubInv, NEW r \in Reqs, UploadStore(r), UNCHANGED tenants
    PROVE  HubInv'
  <1>1. /\ task[r].op = "upload" /\ task[r].step = "flushed"
        /\ UNCHANGED <<home, provider, condemned>>
    BY DEF UploadStore, At
  <1>2. PICK d \in Docs : task[r].doc = d
    BY <1>1, OwnDoc
  <1>3. PICK ok \in BOOLEAN :
           /\ StoreAnswers(ok) /\ \E f \in Uploaded(ok) : files' = [files EXCEPT ![d] = f]
           /\ IF ok THEN Goes(r, "stored") ELSE Answers(r, "unavailable")
           /\ docs' = IF ok THEN docs ELSE [docs EXCEPT ![d] = "gone"]
    BY <1>2 DEF UploadStore
  <1>4. PICK f \in File : files' = [files EXCEPT ![d] = f] /\ (ok => f = "whole")
    BY <1>3, UploadedTyped DEF HubInv
  <1>5. faults' \in 0 .. MaxFaults
    BY <1>3, FaultsTyped
  <1>6. TypeOK /\ TaskOK(task[r]) /\ d # None
    BY WorkspaceAssumption DEF HubInv
  <1>7. docs[d] = "never"
    BY <1>1, <1>2, <1>6 DEF TaskOK, Uploading
  <1>8. CASE ok
    <2>1. PICK t \in Task : /\ task' = [task EXCEPT ![r] = t] /\ said' \in Said
                            /\ t.op = "upload" /\ t.step = "stored" /\ t.doc = d
                            /\ t.row = task[r].row /\ t.by = task[r].by /\ t.org = task[r].org
      BY <1>1, <1>2, <1>3, <1>8, StepTask DEF Step
    <2>2. UNCHANGED <<rows, strays>>
      BY DEF tenants
    <2>3. files'[d] = "whole" /\ docs' = docs
      BY <1>3, <1>4, <1>6, <1>8 DEF TypeOK
    <2>4. TaskOK(t)'
      BY <1>1, <1>6, <1>7, <2>1, <2>2, <2>3 DEF TaskOK, Flushed, Uploading, Member
    <2>5. Claims(t) => Uploading(t) /\ Uploading(task[r]) /\ t.doc = d
      BY <1>1, <2>1 DEF Claims, Flushed, Uploading
    <2>6. PICK x \in Life : x = "never" /\ docs' = [docs EXCEPT ![d] = x]
      BY <1>6, <1>7, <2>3 DEF TypeOK, Life
    <2> QED
      <3>1. FileStep(r, d, x, f)
        BY <1>1, <1>2, <1>4, <1>5, <1>7, <2>6 DEF FileStep
      <3> QED
        BY <2>1, <2>4, <2>5, <3>1, FileKeeps
  <1>9. CASE ~ok
    <2>1. Say(r, "unavailable", None) /\ docs' = [docs EXCEPT ![d] = "gone"]
      BY <1>3, <1>9 DEF Answers
    <2>2. "unavailable" \in Answer /\ "gone" \in Life
      BY DEF Answer, Life
    <2> QED
      <3>1. FileStep(r, d, "gone", f)
        BY <1>1, <1>2, <1>4, <1>5, <1>7, <2>1 DEF FileStep
      <3> QED
        BY <2>1, <2>2, <3>1, EndKeeps
  <1> QED
    BY <1>8, <1>9

LEMMA UploadCommitKeeps ==
    ASSUME HubInv, NEW r \in Reqs, UploadCommit(r), UNCHANGED tenants
    PROVE  HubInv'
  <1>1. /\ task[r].op = "upload" /\ task[r].step = "stored" /\ Goes(r, "committed")
        /\ UNCHANGED <<home, files, provider, faults, condemned>>
        /\ docs' = [docs EXCEPT ![task[r].doc] = "there"]
    BY DEF UploadCommit, At
  <1>2. PICK d \in Docs : task[r].doc = d
    BY <1>1, OwnDoc
  <1>3. PICK t \in Task : /\ task' = [task EXCEPT ![r] = t] /\ said' \in Said
                          /\ t.op = "upload" /\ t.step = "committed" /\ t.doc = d
                          /\ t.row = task[r].row /\ t.by = task[r].by /\ t.org = task[r].org
    BY <1>1, <1>2, StepTask DEF Step
  <1>4. TypeOK /\ TaskOK(task[r]) /\ d # None
    BY WorkspaceAssumption DEF HubInv
  <1>5. UNCHANGED <<rows, strays>> /\ docs'[d] = "there"
    BY <1>1, <1>2, <1>4 DEF tenants, TypeOK
  <1>6. TaskOK(t)'
    BY <1>1, <1>3, <1>4, <1>5 DEF TaskOK, Flushed, Uploading, Member
  <1>7. docs[d] = "never" /\ files[d] = "whole"
    BY <1>1, <1>2, <1>4 DEF TaskOK, Uploading
  <1>8. PICK x \in Life, f \in File : /\ x = "there" /\ f = "whole"
                                      /\ docs' = [docs EXCEPT ![d] = x] /\ files' = [files EXCEPT ![d] = f]
    BY <1>1, <1>2, <1>4, <1>7 DEF TypeOK, Life, File
  <1>9. ~Claims(t)
    BY <1>3 DEF Claims, Flushed, Uploading
  <1>10. faults' \in 0 .. MaxFaults
    BY <1>1, FaultsTyped
  <1>11. FileStep(r, d, x, f)
    BY <1>1, <1>2, <1>7, <1>8, <1>10 DEF FileStep
  <1> QED
    BY <1>3, <1>6, <1>9, <1>11, FileKeeps

LEMMA UploadAnswerKeeps ==
    ASSUME HubInv, NEW r \in Reqs, UploadAnswer(r), UNCHANGED tenants
    PROVE  HubInv'
  <1>1. /\ task[r].op = "upload" /\ task[r].step = "committed" /\ UNCHANGED stored
        /\ \E what \in Answer : Say(r, what, task[r].doc)
    BY DEF UploadAnswer, At, Answer
  <1>2. task[r].doc \in Docs
    BY <1>1, OwnDoc
  <1>3. faults' \in 0 .. MaxFaults
    BY <1>1, FaultsTyped DEF stored
  <1> QED
    BY <1>1, <1>2, <1>3, EndsOnly DEF stored

LEMMA FindDocumentKeeps ==
    ASSUME HubInv, NEW r \in Reqs, NEW d \in Docs, FindDocument(r, d), UNCHANGED tenants
    PROVE  HubInv'
  <1>0. TypeOK /\ TaskOK(task[r]) /\ DocOK(d)
    BY DEF HubInv
  <1>1. /\ task[r].op \in {"download", "delete_document"} /\ task[r].step = "admitted"
        /\ UNCHANGED <<docs, home, files, provider, faults>>
    BY DEF FindDocument
  <1>2. UNCHANGED <<orgs, rows, strays>>
    BY DEF tenants
  <1>3. \E t \in Task : /\ task' = [task EXCEPT ![r] = t] /\ said' \in Said /\ ~Claims(t) /\ TaskOK(t)'
                        /\ condemned \subseteq condemned' /\ condemned' \subseteq Docs
    <2>1. CASE docs[d] = "there" /\ home[d] = task[r].org
      <3>1. PICK s \in Task : s = task[r] /\ TaskOK(s)
        BY OwnTask
      <3>2. PICK t \in Task : t = [s EXCEPT !.step = "read", !.doc = d]
        BY DEF Task, Step
      <3>3. /\ task' = [task EXCEPT ![r].step = "read", ![r].doc = d] /\ said' = Quiet
            /\ condemned' = IF s.op = "delete_document" THEN condemned \cup {d} ELSE condemned
        BY <2>1, <3>1 DEF FindDocument
      <3>4. /\ task' = [task EXCEPT ![r] = t] /\ said' \in Said
            /\ t.op = s.op /\ t.step = "read" /\ t.doc = d /\ t.row = s.row
            /\ t.by = s.by /\ t.org = s.org
        BY <1>0, <3>1, <3>2, <3>3, QuietTyped DEF TypeOK, Task, Said
      <3>5. ~Claims(t)
        BY <3>4 DEF Claims, Flushed, Uploading
      <3>6. TaskOK(t)'
        <4>1. UNCHANGED <<docs, files, rows, strays>> /\ condemned \subseteq condemned'
          BY <1>1, <1>2, <3>3
        <4>2. docs[d] = "there" /\ files[d] # "torn"
          BY <1>0, <2>1 DEF DocOK
        <4>3. s.op = "delete_document" => d \in condemned'
          BY <3>3
        <4>4. s.op \in {"download", "delete_document"} /\ s.step = "admitted"
          BY <1>1, <3>1
        <4> QED
          BY <3>1, <3>4, <4>1, <4>2, <4>3, <4>4, WorkspaceAssumption DEF TaskOK, Flushed, Uploading, Member
      <3>7. condemned \subseteq condemned' /\ condemned' \subseteq Docs
        BY <1>0, <3>3 DEF TypeOK
      <3> QED
        BY <3>4, <3>5, <3>6, <3>7
    <2>2. CASE ~(docs[d] = "there" /\ home[d] = task[r].org)
      <3>1. Answers(r, "missing") /\ UNCHANGED condemned
        BY <2>2 DEF FindDocument
      <3>2. task' = [task EXCEPT ![r] = Idle] /\ said' \in Said
        BY <3>1, SayTask DEF Answers, Answer
      <3> QED
        BY <1>0, <3>1, <3>2, IdleOK, IdleTyped DEF TypeOK
    <2> QED
      BY <2>1, <2>2
  <1>4. PICK t \in Task : /\ task' = [task EXCEPT ![r] = t] /\ said' \in Said /\ ~Claims(t) /\ TaskOK(t)'
                          /\ condemned \subseteq condemned' /\ condemned' \subseteq Docs
    BY <1>3
  <1>5. \A q \in Reqs \ {r} : Apart(task[q], t) /\ Apart(t, task[q])
    BY <1>4, Unclaimed
  <1>6. \A e \in Docs : DocOK(e)'
    BY <1>1, <1>2, <1>4 DEF HubInv, DocOK
  <1>7. /\ docs' \in [Docs -> Life] /\ home' \in [Docs -> Orgs] /\ files' \in [Docs -> File]
        /\ faults' \in 0 .. MaxFaults
    BY <1>0, <1>1 DEF TypeOK
  <1>8. \A e \in Docs : docs[e] # "never" => docs'[e] # "never" /\ files'[e] \in {files[e], "none"}
    BY <1>1
  <1> QED
    BY <1>1, <1>4, <1>5, <1>6, <1>7, <1>8, StoreKept

\* A download answers and leaves everything as it is.
LEMMA DownloadKeeps ==
    ASSUME HubInv, NEW r \in Reqs, Redirect(r) \/ Serve(r), UNCHANGED tenants
    PROVE  HubInv'
  <1>1. /\ task[r].op = "download" /\ task[r].step = "read"
        /\ UNCHANGED <<docs, home, files, provider, condemned>>
    BY DEF Redirect, Serve, At
  <1>2. PICK d \in Docs : task[r].doc = d
    BY <1>1, OwnDoc
  <1>3. \E ok \in BOOLEAN : StoreAnswers(ok) \/ UNCHANGED faults
    BY DEF Redirect, Serve, CloudSigns, AzureSigns, S3Signs, GcsSigns
  <1>4. faults' \in 0 .. MaxFaults
    BY <1>3, FaultsTyped
  <1>5. PICK what \in Answer, of \in Users \cup Orgs \cup Rows \cup Docs \cup {None} : Say(r, what, of)
    BY <1>2 DEF Redirect, Serve, Answers, Answer
  <1> QED
    BY <1>1, <1>2, <1>4, <1>5, EndsOnly

\* A delete request goes on with the file as it has left it.
LEMMA UnlinkKeeps ==
    ASSUME HubInv, NEW r \in Reqs, task[r].op = "delete_document", task[r].step # "admitted",
           NEW f \in File, NEW step \in {"stored", "unlinking"}, Goes(r, step),
           files' = [files EXCEPT ![task[r].doc] = f], f \in {files[task[r].doc], "none"},
           step = "stored" => f = "none",
           UNCHANGED tenants, UNCHANGED <<docs, home, provider, condemned>>, faults' \in 0 .. MaxFaults
    PROVE  HubInv'
  <1>1. PICK d \in Docs : task[r].doc = d
    BY OwnDoc
  <1>2. TypeOK /\ TaskOK(task[r]) /\ DocOK(d) /\ d # None
    BY WorkspaceAssumption DEF HubInv
  <1>3. docs[d] # "never" /\ d \in condemned
    BY <1>1, <1>2 DEF TaskOK, Uploading
  <1>4. PICK t \in Task : /\ task' = [task EXCEPT ![r] = t] /\ said' \in Said
                          /\ t.op = "delete_document" /\ t.step = step /\ t.doc = d
                          /\ t.row = task[r].row /\ t.by = task[r].by /\ t.org = task[r].org
    BY <1>1, StepTask DEF Step
  <1>5. files'[d] = f /\ UNCHANGED <<docs, rows, strays, condemned>>
    BY <1>1, <1>2 DEF TypeOK, tenants
  <1>6. TaskOK(t)'
    BY <1>2, <1>3, <1>4, <1>5 DEF TaskOK, Flushed, Uploading, Member
  <1>7. PICK x \in Life : x = docs[d] /\ docs' = [docs EXCEPT ![d] = x]
    BY <1>2 DEF TypeOK
  <1>8. ~Claims(t)
    BY <1>4 DEF Claims, Flushed, Uploading
  <1>9. FileStep(r, d, x, f)
    BY <1>1, <1>2, <1>3, <1>7 DEF FileStep, DocOK
  <1> QED
    BY <1>4, <1>6, <1>8, <1>9, FileKeeps

\* A delete request ends with an answer that it failed.
LEMMA UnlinkFails ==
    ASSUME HubInv, NEW r \in Reqs, task[r].op = "delete_document", task[r].step # "admitted",
           NEW f \in File, Answers(r, "unavailable"),
           files' = [files EXCEPT ![task[r].doc] = f], f \in {files[task[r].doc], "none"},
           UNCHANGED tenants, UNCHANGED <<docs, home, provider, condemned>>, faults' \in 0 .. MaxFaults
    PROVE  HubInv'
  <1>1. PICK d \in Docs : task[r].doc = d
    BY OwnDoc
  <1>2. TypeOK /\ TaskOK(task[r]) /\ DocOK(d) /\ d # None
    BY WorkspaceAssumption DEF HubInv
  <1>3. d \in condemned
    BY <1>1, <1>2 DEF TaskOK
  <1>4. PICK x \in Life : x = docs[d] /\ docs' = [docs EXCEPT ![d] = x]
    BY <1>2 DEF TypeOK
  <1>5. Say(r, "unavailable", None) /\ "unavailable" \in Answer
    BY DEF Answers, Answer
  <1>6. FileStep(r, d, x, f)
    BY <1>1, <1>2, <1>3, <1>4 DEF FileStep, DocOK
  <1> QED
    BY <1>5, <1>6, EndKeeps

LEMMA CloudUnlinkKeeps ==
    ASSUME HubInv, NEW r \in Reqs, CloudUnlink(r), UNCHANGED tenants
    PROVE  HubInv'
  <1>1. /\ task[r].op = "delete_document" /\ task[r].step = "read" /\ provider # "local"
        /\ UNCHANGED <<docs, home, provider, condemned>>
    BY DEF CloudUnlink, At
  <1>2. PICK ok \in BOOLEAN :
           /\ StoreAnswers(ok)
           /\ \E f \in CloudDeleted(ok, files[task[r].doc]) : files' = [files EXCEPT ![task[r].doc] = f]
           /\ IF ok THEN Goes(r, "stored") ELSE Answers(r, "unavailable")
    BY DEF CloudUnlink
  <1>3. task[r].doc \in Docs
    BY <1>1, OwnDoc
  <1>4. PICK f \in File : /\ files' = [files EXCEPT ![task[r].doc] = f] /\ (ok => f = "none")
                          /\ f \in {files[task[r].doc], "none"}
    BY <1>1, <1>2, <1>3 DEF HubInv, TypeOK, Providers, CloudDeleted, AzureDelete, S3Delete, GcsDelete, File
  <1>5. faults' \in 0 .. MaxFaults
    BY <1>2, FaultsTyped
  <1> QED
    BY <1>1, <1>2, <1>4, <1>5, UnlinkKeeps, UnlinkFails

LEMMA LocalExistsKeeps ==
    ASSUME HubInv, NEW r \in Reqs, LocalExists(r), UNCHANGED tenants
    PROVE  HubInv'
  <1>1. /\ task[r].op = "delete_document" /\ task[r].step = "read"
        /\ UNCHANGED <<docs, home, files, provider, condemned>> /\ UNCHANGED faults
    BY DEF LocalExists, At, stored
  <1>2. task[r].doc \in Docs
    BY <1>1, OwnDoc
  <1>3. PICK f \in File : f = files[task[r].doc] /\ files' = [files EXCEPT ![task[r].doc] = f]
    BY <1>1, <1>2 DEF HubInv, TypeOK
  <1>4. PICK step \in {"stored", "unlinking"} : Goes(r, step) /\ (step = "stored" => f = "none")
    BY <1>3 DEF LocalExists
  <1>5. faults' \in 0 .. MaxFaults
    BY <1>1, FaultsTyped
  <1> QED
    BY <1>1, <1>3, <1>4, <1>5, UnlinkKeeps

LEMMA LocalUnlinkKeeps ==
    ASSUME HubInv, NEW r \in Reqs, LocalUnlink(r), UNCHANGED tenants
    PROVE  HubInv'
  <1>1. /\ task[r].op = "delete_document" /\ task[r].step = "unlinking"
        /\ UNCHANGED <<docs, home, provider, condemned>>
    BY DEF LocalUnlink, At
  <1>2. task[r].doc \in Docs
    BY <1>1, OwnDoc
  <1>3. faults' \in 0 .. MaxFaults
    BY FaultsTyped DEF LocalUnlink
  <1>4. CASE Answers(r, "unavailable") /\ UNCHANGED files
    <2>1. PICK f \in File : f = files[task[r].doc] /\ files' = [files EXCEPT ![task[r].doc] = f]
      BY <1>2, <1>4 DEF HubInv, TypeOK
    <2> QED
      BY <1>1, <1>3, <1>4, <2>1, UnlinkFails
  <1>5. CASE Goes(r, "stored") /\ files' = [files EXCEPT ![task[r].doc] = "none"]
    <2>1. "none" \in File
      BY DEF File
    <2> QED
      BY <1>1, <1>3, <1>5, <2>1, UnlinkKeeps
  <1> QED
    BY <1>4, <1>5 DEF LocalUnlink

LEMMA DeleteRowKeeps ==
    ASSUME HubInv, NEW r \in Reqs, DeleteRow(r), UNCHANGED tenants
    PROVE  HubInv'
  <1>1. /\ task[r].op = "delete_document" /\ task[r].step = "stored"
        /\ UNCHANGED <<home, provider, condemned>> /\ UNCHANGED files /\ UNCHANGED faults
        /\ docs' = [docs EXCEPT ![task[r].doc] = "gone"] /\ Say(r, "deleted", task[r].doc)
    BY DEF DeleteRow, At
  <1>2. PICK d \in Docs : task[r].doc = d
    BY <1>1, OwnDoc
  <1>3. PICK x \in Life, f \in File : /\ x = "gone" /\ docs' = [docs EXCEPT ![d] = x]
                                      /\ f = files[d] /\ files' = [files EXCEPT ![d] = f]
    BY <1>1, <1>2 DEF HubInv, TypeOK, Life
  <1>4. faults' \in 0 .. MaxFaults
    BY <1>1, FaultsTyped
  <1>5. Say(r, "deleted", d) /\ "deleted" \in Answer
    BY <1>1, <1>2 DEF Answer
  <1>6. FileStep(r, d, x, f)
    BY <1>1, <1>2, <1>3, <1>4 DEF FileStep
  <1> QED
    BY <1>5, <1>6, EndKeeps

LEMMA DocumentKeeps ==
    ASSUME HubInv, NEW r \in Reqs, DocumentRequest(r)
    PROVE  HubInv'
  <1>1. UNCHANGED tenants
    BY DEF DocumentRequest
  <1>2. ASSUME NEW d \in Docs, UploadInsert(r, d) PROVE HubInv'
    BY <1>1, <1>2, UploadInsertKeeps
  <1>3. ASSUME NEW d \in Docs, FindDocument(r, d) PROVE HubInv'
    BY <1>1, <1>3, FindDocumentKeeps
  <1>4. CASE UploadStore(r) \/ UploadCommit(r) \/ UploadAnswer(r)
    BY <1>1, <1>4, UploadStoreKeeps, UploadCommitKeeps, UploadAnswerKeeps
  <1>5. CASE Redirect(r) \/ Serve(r)
    BY <1>1, <1>5, DownloadKeeps
  <1>6. CASE CloudUnlink(r) \/ LocalExists(r) \/ LocalUnlink(r) \/ DeleteRow(r)
    BY <1>1, <1>6, CloudUnlinkKeeps, LocalExistsKeeps, LocalUnlinkKeeps, DeleteRowKeeps
  <1> QED
    BY <1>2, <1>3, <1>4, <1>5, <1>6 DEF DocumentRequest

-----------------------------------------------------------------------------
(* A request that dies *)

LEMMA AbortKeeps ==
    ASSUME HubInv, NEW r \in Reqs, Abort(r), AbortUpload(r), UNCHANGED <<home, provider, faults, condemned>>
    PROVE  HubInv'
  <1>1. /\ task' = [task EXCEPT ![r] = Idle] /\ said' = Quiet
        /\ aborts < MaxAborts /\ aborts' = aborts + 1
        /\ UNCHANGED <<users, orgs, rows, gauge, strays, mix>>
    BY DEF Abort
  <1>2. TypeOK /\ TaskOK(task[r])
    BY DEF HubInv
  <1>3. docs' \in [Docs -> Life] /\ \A d \in Docs :
           docs'[d] = IF task[r].op = "upload" /\ task[r].doc = d /\ docs[d] = "never" THEN "gone" ELSE docs[d]
    BY <1>2 DEF TypeOK, AbortUpload, Life
  <1>4. /\ files' \in [Docs -> File]
        /\ \A d \in Docs : files'[d] = files[d] \/ (task[r].doc = d /\ At(r, "upload", "flushed"))
    <2>1. CASE At(r, "upload", "flushed")
      <3>1. PICK f \in Uploaded(TRUE) \cup Uploaded(FALSE) : files' = [files EXCEPT ![task[r].doc] = f]
        BY <2>1 DEF AbortUpload
      <3>2. f \in File
        BY <1>2, UploadedTyped
      <3> QED
        BY <1>2, <2>1, <3>1, <3>2 DEF TypeOK
    <2>2. CASE ~At(r, "upload", "flushed")
      BY <1>2, <2>2 DEF AbortUpload, TypeOK
    <2> QED
      BY <2>1, <2>2
  <1>5. \A d \in Docs : task[r].doc = d /\ At(r, "upload", "flushed") => docs[d] = "never"
    BY <1>2, WorkspaceAssumption DEF TaskOK, Uploading, At
  <1>6. /\ TypeOK' /\ task'[r] = Idle /\ Others(r)
    BY <1>1, <1>2, <1>3, <1>4, IdleTyped, QuietTyped, WorkspaceAssumption DEF TypeOK, Others
  <1>7. Steady
    BY <1>1, <1>3, <1>4, <1>5 DEF Steady
  <1>8. TaskOK(task[r])'
    BY <1>6, IdleOK
  <1>9. ASSUME NEW q \in Reqs \ {r}
        PROVE  Undisturbed(q) /\ Apart(task[q], task[r])' /\ Apart(task[r], task[q])'
    <2>1. Apart(task[q], task[r])' /\ Apart(task[r], task[q])'
      <3>1. PICK s \in Task : s = task'[q]
        BY <1>6 DEF TypeOK
      <3>2. Apart(s, Idle)' /\ Apart(Idle, s)'
        BY IdleOK, Unclaimed
      <3> QED
        BY <1>6, <3>1, <3>2 DEF Apart
    <2>2. ASSUME NEW d \in Docs, task[q].doc = d, docs[d] = "never"
          PROVE  docs'[d] = "never" /\ files'[d] = files[d]
      <3>1. TaskOK(task[q]) /\ Apart(task[q], task[r]) /\ d # None
        BY WorkspaceAssumption DEF HubInv
      <3>2. Uploading(task[q])
        BY <2>2, <3>1 DEF TaskOK
      <3>3. ~(task[r].op = "upload" /\ task[r].doc = d)
        BY <1>2, <2>2, <3>1, <3>2 DEF TaskOK, Apart
      <3> QED
        BY <1>3, <1>4, <2>2, <3>3 DEF At
    <2>3. Undisturbed(q)
      <3>1. Flushed(task[q], "delete_membership") => rows'[task[q].row].life = "there"
        BY <1>1, DeletedRow DEF Member
      <3> QED
        BY <1>1, <2>2, <3>1 DEF Undisturbed
    <2> QED
      BY <2>1, <2>3
  <1>10. ASSUME NEW d \in Docs PROVE DocOK(d)'
    <2>1. DocOK(d) /\ UNCHANGED <<orgs, home, condemned>>
      BY <1>1 DEF HubInv
    <2>2. docs'[d] = "there" => docs[d] = "there" /\ files'[d] = files[d]
      BY <1>3, <1>4, <1>5
    <2> QED
      BY <2>1, <2>2 DEF DocOK
  <1>11. DeletedOrgs'
    BY <1>1 DEF HubInv, DeletedOrgs
  <1> QED
    BY <1>6, <1>7, <1>8, <1>9, <1>10, <1>11, StepKeeps

LEMMA HubStutter ==
    ASSUME HubInv, UNCHANGED vars
    PROVE  HubInv'
  <1>1. UNCHANGED <<users, orgs, rows, gauge, aborts, strays, mix, task, said,
                    docs, home, files, provider, faults, condemned>>
    BY DEF vars, tenants, stored
  <1> QED
    BY <1>1 DEF HubInv, TypeOK, TaskOK, Apart, DocOK, DeletedOrgs, Member

LEMMA HubStep == HubInv /\ [Next]_vars => HubInv'
  <1>1. ASSUME HubInv, Next PROVE HubInv'
    <2>1. PICK r \in Reqs :
             \/ DocumentRequest(r)
             \/ TenantRequest(r) /\ Cascade /\ UNCHANGED <<home, files, provider, faults, condemned>>
             \/ Abort(r) /\ AbortUpload(r) /\ UNCHANGED <<home, provider, faults, condemned>>
      BY <1>1 DEF Next
    <2> QED
      BY <1>1, <2>1, DocumentKeeps, TenantKeeps, AbortKeeps
  <1> QED
    BY <1>1, HubStutter

LEMMA HubInvariant == Spec => []HubInv
BY HubInit, HubStep, PTL DEF Spec

-----------------------------------------------------------------------------
(* What is proved of the handlers *)

\* The middleware leaves the handlers' state alone.
LEMMA StackIsDocuments == StackSpec => Spec
<1>1. StackInit => DocumentsInit
    BY DEF StackInit
<1>2. [StackNext]_<<vars, bearer>> => [Next]_vars
    BY DEF StackNext
<1> QED
    BY <1>1, <1>2, PTL DEF StackSpec, Spec

\* Whatever the handlers do, their tables and requests are well typed.
THEOREM HubTyped == StackSpec => []TypeOK
<1>1. HubInv => TypeOK
    BY DEF HubInv
<1> QED
    BY <1>1, StackIsDocuments, HubInvariant, PTL

\* A committed document has its whole file until somebody asks to delete it,
\* whatever the store answers, whoever dies and whichever upload is under way.
THEOREM DocumentsHaveFiles == StackSpec => []RowsHaveFiles
<1>1. HubInv => RowsHaveFiles
    BY DEF HubInv, DocOK, RowsHaveFiles
<1> QED
    BY <1>1, StackIsDocuments, HubInvariant, PTL

-----------------------------------------------------------------------------
(* What an answer says *)

\* Of the tenant's requests, only those on memberships say of what they speak.
LEMMA TenantSpeaks ==
    ASSUME NEW r \in Reqs, TenantRequest(r)
    PROVE  said'.of = None \/ CreateMembershipCommit(r) \/ DeleteMembershipCommit(r)
  <1>1. ASSUME NEW u \in Users, CreateUser(r, u) PROVE said'.of = None
    BY <1>1 DEF CreateUser, Quiet
  <1>2. ASSUME NEW u \in Users, NEW op \in Op, ReadUser(r, op, u) PROVE said'.of = None
    BY <1>2 DEF ReadUser, Quiet
  <1>3. ASSUME NEW o \in Orgs, ReadOrg(r, o) PROVE said'.of = None
    BY <1>3 DEF ReadOrg, Answers, Say, Quiet
  <1>4. ASSUME NEW u \in Users, NEW o \in Orgs, ReadTargets(r, u, o) PROVE said'.of = None
    BY <1>4 DEF ReadTargets, Answers, Say, Quiet
  <1>5. ASSUME NEW u \in Users, NEW o \in Orgs, NEW op \in Op, Admit(r, op, u, o) PROVE said'.of = None
    BY <1>5 DEF Admit, Quiet
  <1>6. ASSUME NEW m \in Rows, ReadMembership(r, m) \/ CreateMembership(r, m) PROVE said'.of = None
    BY <1>6 DEF ReadMembership, CreateMembership, Answers, Say, Quiet
  <1>7. ASSUME NEW o \in Orgs, NEW m \in Rows, CreateOrg(r, o, m) PROVE said'.of = None
    BY <1>7 DEF CreateOrg, Answers, Say
  <1>8. CASE UpdateUser(r) \/ UpdateOrg(r) \/ \E role \in Role : UpdateMembership(r, role)
    BY <1>8 DEF UpdateUser, UpdateOrg, UpdateMembership, Goes, Answers, Say, Quiet
  <1>9. CASE UpdateUserEnds(r) \/ UpdateOrgCommit(r) \/ CreateMembershipRefused(r) \/ CreateUserCommit(r)
    BY <1>9 DEF UpdateUserEnds, UpdateOrgCommit, CreateMembershipRefused, CreateUserCommit, Answers, Say
  <1>10. CASE DeleteUser(r) \/ DeleteOrg(r) \/ DeleteMembership(r)
    BY <1>10 DEF DeleteUser, DeleteOrg, DeleteMembership, Goes, Answers, Say, Quiet
  <1>11. CASE DeleteUserCommit(r) \/ DeleteOrgCommit(r) \/ UpdateMembershipCommit(r)
    BY <1>11 DEF DeleteUserCommit, DeleteOrgCommit, UpdateMembershipCommit, Answers, Say
  <1> QED
    BY <1>1, <1>2, <1>3, <1>4, <1>5, <1>6, <1>7, <1>8, <1>9, <1>10, <1>11 DEF TenantRequest

LEMMA DocumentSpeaks ==
    ASSUME NEW r \in Reqs, DocumentRequest(r)
    PROVE  said'.of = None \/ UploadAnswer(r) \/ Serve(r) \/ DeleteRow(r)
  <1>1. ASSUME NEW d \in Docs, UploadInsert(r, d) \/ FindDocument(r, d) PROVE said'.of = None
    BY <1>1 DEF UploadInsert, FindDocument, Answers, Say, Quiet
  <1>2. CASE UploadStore(r) \/ UploadCommit(r) \/ Redirect(r)
    BY <1>2 DEF UploadStore, UploadCommit, Redirect, Goes, Answers, Say, Quiet
  <1>3. CASE CloudUnlink(r) \/ LocalExists(r) \/ LocalUnlink(r)
    BY <1>3 DEF CloudUnlink, LocalExists, LocalUnlink, Goes, Answers, Say, Quiet
  <1> QED
    BY <1>1, <1>2, <1>3 DEF DocumentRequest

\* What the three answers about a document are worth.
LEMMA DocumentAnswerTrue ==
    ASSUME HubInv, NEW r \in Reqs, UploadAnswer(r) \/ Serve(r) \/ DeleteRow(r),
           NEW d \in Docs, said'.of = d
    PROVE  /\ said'.what = "deleted" => docs'[d] = "gone" /\ files'[d] = "none"
           /\ said'.what = "created" => docs'[d] = "there" /\ (files'[d] = "whole" \/ d \in condemned)
           /\ said'.what = "served" => files'[d] = "whole"
  <1>1. TypeOK /\ TaskOK(task[r]) /\ DocOK(d) /\ d # None
    BY WorkspaceAssumption DEF HubInv
  <1>2. CASE UploadAnswer(r)
    <2>1. task[r].doc = d /\ UNCHANGED <<docs, files>>
      BY <1>2 DEF UploadAnswer, Say, stored
    <2>2. said'.what = IF docs[d] = "there" THEN "created" ELSE "failed"
      BY <1>2, <2>1 DEF UploadAnswer, Say
    <2> QED
      BY <1>1, <2>1, <2>2 DEF DocOK
  <1>3. CASE Serve(r)
    <2>1. /\ task[r].doc = d /\ UNCHANGED <<docs, files>> /\ task[r].op = "download"
          /\ said'.what \in {"unavailable", "missing", "served"}
          /\ said'.what = "served" => files[d] # "none"
      BY <1>3 DEF Serve, Say, At
    <2>2. files[d] # "torn" /\ files[d] \in File
      BY <1>1, <2>1 DEF TaskOK, TypeOK
    <2> QED
      BY <2>1, <2>2 DEF File
  <1>4. CASE DeleteRow(r)
    <2>1. /\ task[r].doc = d /\ docs' = [docs EXCEPT ![d] = "gone"] /\ UNCHANGED files
          /\ said'.what = "deleted" /\ task[r].op = "delete_document" /\ task[r].step = "stored"
      BY <1>4 DEF DeleteRow, Say, At
    <2> QED
      BY <1>1, <2>1 DEF TaskOK, TypeOK
  <1> QED
    BY <1>2, <1>3, <1>4

LEMMA OwnRemoval ==
    ASSUME HubInv, NEW r \in Reqs, CreateMembershipCommit(r) \/ DeleteMembershipCommit(r),
           NEW m \in Rows, said'.of = m
    PROVE  /\ said'.what = "deleted" => Member(m) /\ ~Member(m)'
           /\ said'.what = "created" => ~Member(m) /\ Member(m)'
  <1>1. TypeOK /\ TaskOK(task[r]) /\ m # None
    BY WorkspaceAssumption DEF HubInv
  <1>2. CASE CreateMembershipCommit(r)
    <2>1. /\ task[r].row = m /\ Flushed(task[r], "create_membership") /\ said'.what = "created"
          /\ rows' = [rows EXCEPT ![m] = [life |-> "there", user |-> task[r].user,
                                          org |-> task[r].org, role |-> "member"]]
      BY <1>2 DEF CreateMembershipCommit, Say, At, Flushed
    <2>2. rows[m].life = "never"
      BY <1>1, <2>1 DEF TaskOK
    <2> QED
      BY <1>1, <2>1, <2>2 DEF TypeOK, Member
  <1>3. CASE DeleteMembershipCommit(r)
    <2>1. /\ task[r].row = m /\ Flushed(task[r], "delete_membership") /\ said'.what = "deleted"
          /\ rows' = [rows EXCEPT ![m].life = "gone"]
      BY <1>3 DEF DeleteMembershipCommit, Say, At, Flushed
    <2>2. Member(m) /\ rows[m] \in Membership
      BY <1>1, <2>1, UsedRow DEF TaskOK, Member
    <2>3. rows'[m].life = "gone"
      BY <1>1, <2>1, <2>2 DEF TypeOK, Membership
    <2> QED
      BY <2>1, <2>2, <2>3 DEF Member
  <1> QED
    BY <1>2, <1>3

\* Rows are no documents: what one kind of answer is about the other never is.
LEMMA DocOfAnswer ==
    ASSUME HubInv, NEW r \in Reqs, UploadAnswer(r) \/ Serve(r) \/ DeleteRow(r)
    PROVE  said'.of \in Docs
  <1>1. task[r].op \in {"upload", "download", "delete_document"} /\ task[r].step # "admitted"
        /\ said'.of = task[r].doc
    BY DEF UploadAnswer, Serve, DeleteRow, Say, At
  <1> QED
    BY <1>1, OwnDoc

LEMMA RowOfAnswer ==
    ASSUME HubInv, NEW r \in Reqs, CreateMembershipCommit(r) \/ DeleteMembershipCommit(r)
    PROVE  said'.of \in Rows
  <1>1. TaskOK(task[r]) /\ task[r].row \in Rows \cup {None} /\ None \notin Op
    BY WorkspaceAssumption DEF HubInv, TypeOK, Task
  <1>2. /\ Flushed(task[r], "create_membership") \/ Flushed(task[r], "delete_membership")
        /\ said'.of = task[r].row
    BY DEF CreateMembershipCommit, DeleteMembershipCommit, Say, At, Flushed
  <1> QED
    BY <1>1, <1>2 DEF TaskOK, Flushed

\* Who answers at a step.
LEMMA Speakers ==
    ASSUME HubInv, Next, said'.of # None
    PROVE  \E r \in Reqs : \/ UploadAnswer(r) \/ Serve(r) \/ DeleteRow(r)
                           \/ CreateMembershipCommit(r) \/ DeleteMembershipCommit(r)
  <1>1. PICK r \in Reqs : DocumentRequest(r) \/ TenantRequest(r) \/ Abort(r)
    BY DEF Next
  <1>2. ~Abort(r)
    BY DEF Abort, Quiet
  <1> QED
    BY <1>1, <1>2, TenantSpeaks, DocumentSpeaks

\* 204 says that this very request removed the membership, 201 that it added it,
\* however requests overlap and whatever else deletes memberships meanwhile.
THEOREM RemovalsAreOwn == StackSpec => RemovalIsOwn
<1> DEFINE A == \A m \in Rows : said'.of = m =>
                   /\ said'.what = "deleted" => Member(m) /\ ~Member(m)'
                   /\ said'.what = "created" => ~Member(m) /\ Member(m)'
<1>1. ASSUME HubInv, Next PROVE A
  <2> SUFFICES ASSUME NEW m \in Rows, said'.of = m
               PROVE  /\ said'.what = "deleted" => Member(m) /\ ~Member(m)'
                      /\ said'.what = "created" => ~Member(m) /\ Member(m)'
    OBVIOUS
  <2>1. m # None /\ m \notin Docs
    BY WorkspaceAssumption
  <2>2. PICK r \in Reqs : \/ UploadAnswer(r) \/ Serve(r) \/ DeleteRow(r)
                          \/ CreateMembershipCommit(r) \/ DeleteMembershipCommit(r)
    BY <1>1, <2>1, Speakers
  <2>3. CreateMembershipCommit(r) \/ DeleteMembershipCommit(r)
    BY <1>1, <2>1, <2>2, DocOfAnswer
  <2> QED
    BY <1>1, <2>3, OwnRemoval
<1>2. HubInv /\ [Next]_vars => [A]_vars
  BY <1>1
<1> QED
  BY <1>2, StackIsDocuments, HubInvariant, PTL DEF Spec, RemovalIsOwn

\* An answer about a document is true when it is given.
THEOREM AnswersTrue == StackSpec => AnswersAreTrue
<1> DEFINE A == \A d \in Docs : said'.of = d =>
                   /\ said'.what = "deleted" => docs'[d] = "gone" /\ files'[d] = "none"
                   /\ said'.what = "created" => docs'[d] = "there" /\ (files'[d] = "whole" \/ d \in condemned)
                   /\ said'.what = "served" => files'[d] = "whole"
<1>1. ASSUME HubInv, Next PROVE A
  <2> SUFFICES ASSUME NEW d \in Docs, said'.of = d
               PROVE  /\ said'.what = "deleted" => docs'[d] = "gone" /\ files'[d] = "none"
                      /\ said'.what = "created" => docs'[d] = "there" /\ (files'[d] = "whole" \/ d \in condemned)
                      /\ said'.what = "served" => files'[d] = "whole"
    OBVIOUS
  <2>1. d # None /\ d \notin Rows
    BY WorkspaceAssumption
  <2>2. PICK r \in Reqs : \/ UploadAnswer(r) \/ Serve(r) \/ DeleteRow(r)
                          \/ CreateMembershipCommit(r) \/ DeleteMembershipCommit(r)
    BY <1>1, <2>1, Speakers
  <2>3. UploadAnswer(r) \/ Serve(r) \/ DeleteRow(r)
    BY <1>1, <2>1, <2>2, RowOfAnswer
  <2> QED
    BY <1>1, <2>3, DocumentAnswerTrue
<1>2. HubInv /\ [Next]_vars => [A]_vars
  BY <1>1
<1> QED
  BY <1>2, StackIsDocuments, HubInvariant, PTL DEF Spec, AnswersAreTrue

-----------------------------------------------------------------------------
(* What a step on users, organizations or memberships leaves as it was *)

\* A membership request that has written and not committed.
Pending(t) == Flushed(t, "create_membership") \/ Flushed(t, "delete_membership")

LEMMA IdlePends == ~Pending(Idle)
  <1>1. Idle.step = "idle"
    BY DEF Idle
  <1> HIDE DEF Idle
  <1> QED
    BY <1>1 DEF Pending, Flushed

\* What answers or goes on by a step is its own request.
LEMMA EndsAside ==
    ASSUME TypeOK, NEW r \in Reqs, NEW what, NEW of, Say(r, what, of)
    PROVE  Others(r) /\ ~Pending(task'[r])
  BY IdlePends DEF TypeOK, Say, Others

LEMMA GoesAside ==
    ASSUME TypeOK, NEW r \in Reqs, NEW step, Goes(r, step),
           task[r].op \notin {"create_membership", "delete_membership"} \/ step # "flushed"
    PROVE  Others(r) /\ ~Pending(task'[r])
  BY DEF TypeOK, Task, Goes, Others, Pending, Flushed

\* All but the four steps that insert or delete a membership.
LEMMA TenantAside ==
    ASSUME HubInv, NEW r \in Reqs, TenantRequest(r)
    PROVE  /\ Others(r) /\ ~At(r, "upload", "stored")
           /\ \/ ~Pending(task[r]) /\ ~Pending(task'[r])
              \/ \E m \in Rows : CreateMembership(r, m)
              \/ CreateMembershipCommit(r) \/ DeleteMembership(r) \/ DeleteMembershipCommit(r)
  <1> DEFINE A == Others(r) /\ ~At(r, "upload", "stored") /\ ~Pending(task[r]) /\ ~Pending(task'[r])
  <1>0. TypeOK /\ None \notin Op
    BY WorkspaceAssumption DEF HubInv
  <1>1. ASSUME NEW u \in Users, CreateUser(r, u) PROVE A
    <2>1. task[r].step = "idle"
      BY <1>1 DEF CreateUser
    <2>2. \/ UNCHANGED task
          \/ task' = [task EXCEPT ![r] = [Idle EXCEPT !.op = "create_user", !.step = "flushed", !.user = u]]
      BY <1>1 DEF CreateUser
    <2> QED
      BY <1>0, <2>1, <2>2 DEF TypeOK, Idle, Others, Pending, Flushed, At
  <1>2. ASSUME NEW u \in Users, NEW op \in Op, ReadUser(r, op, u) PROVE A
    BY <1>0, <1>2 DEF ReadUser, TypeOK, Idle, Others, Pending, Flushed, At
  <1>3. ASSUME NEW o \in Orgs, ReadOrg(r, o) PROVE A
    <2>1. task[r].step = "admitted"
      BY <1>3 DEF ReadOrg
    <2>2. \/ \E n : task' = [task EXCEPT ![r].step = "read", ![r].org = o, ![r].count = n]
          \/ Answers(r, "missing")
      BY <1>3 DEF ReadOrg
    <2> QED
      BY <1>0, <2>1, <2>2, EndsAside DEF Answers, TypeOK, Task, Others, Pending, Flushed, At
  <1>4. ASSUME NEW u \in Users, NEW o \in Orgs, ReadTargets(r, u, o) PROVE A
    <2>1. task[r].step = "admitted"
      BY <1>4 DEF ReadTargets, At
    <2>2. \/ task' = [task EXCEPT ![r].step = "read", ![r].user = u, ![r].org = o]
          \/ Answers(r, "missing")
      BY <1>4 DEF ReadTargets
    <2> QED
      BY <1>0, <2>1, <2>2, EndsAside DEF Answers, TypeOK, Task, Others, Pending, Flushed, At
  <1>5. ASSUME NEW u \in Users, NEW o \in Orgs, NEW op \in Op, Admit(r, op, u, o) PROVE A
    BY <1>0, <1>5 DEF Admit, TypeOK, Idle, Others, Pending, Flushed, At
  <1>6. ASSUME NEW m \in Rows, ReadMembership(r, m) PROVE A
    <2>1. task[r].step = "admitted"
      BY <1>6 DEF ReadMembership
    <2>2. \/ task' = [task EXCEPT ![r].step = "read", ![r].row = m]
          \/ Answers(r, "missing")
      BY <1>6 DEF ReadMembership
    <2> QED
      BY <1>0, <2>1, <2>2, EndsAside DEF Answers, TypeOK, Task, Others, Pending, Flushed, At
  <1>7. ASSUME NEW m \in Rows, CreateMembership(r, m) PROVE Others(r) /\ ~At(r, "upload", "stored")
    BY <1>0, <1>7 DEF CreateMembership, TypeOK, Task, Others, At
  <1>8. ASSUME NEW o \in Orgs, NEW m \in Rows, CreateOrg(r, o, m) PROVE A
    <2>1. At(r, "create_org", "admitted") /\ \E what \in Answer : Answers(r, what)
      BY <1>8 DEF CreateOrg, Answer
    <2> QED
      BY <1>0, <2>1, EndsAside DEF Answers, Pending, Flushed, At
  <1>9. CASE UpdateUser(r) \/ UpdateOrg(r)
    <2>1. At(r, "update_user", "read") \/ At(r, "update_org", "read")
      BY <1>9 DEF UpdateUser, UpdateOrg
    <2>2. Goes(r, "flushed") \/ Answers(r, "failed")
      BY <1>9 DEF UpdateUser, UpdateOrg
    <2> QED
      BY <1>0, <2>1, <2>2, EndsAside, GoesAside DEF Answers, Pending, Flushed, At
  <1>10. ASSUME NEW role \in Role, UpdateMembership(r, role) PROVE A
    <2>1. At(r, "update_membership", "read")
      BY <1>10 DEF UpdateMembership
    <2>2. \/ task' = [task EXCEPT ![r].step = "flushed", ![r].role = role]
          \/ Answers(r, "failed")
      BY <1>10 DEF UpdateMembership
    <2> QED
      BY <1>0, <2>1, <2>2, EndsAside DEF Answers, TypeOK, Task, Others, Pending, Flushed, At
  <1>11. CASE \/ UpdateUserEnds(r) \/ UpdateOrgCommit(r) \/ CreateMembershipRefused(r) \/ CreateUserCommit(r)
              \/ DeleteUserCommit(r) \/ DeleteOrgCommit(r) \/ UpdateMembershipCommit(r)
    <2>1. \/ \E op \in {"update_user", "update_org", "create_user", "delete_user", "delete_org",
                        "update_membership"} : At(r, op, "flushed")
          \/ At(r, "create_membership", "read")
      BY <1>11 DEF UpdateUserEnds, UpdateOrgCommit, CreateMembershipRefused, CreateUserCommit,
         DeleteUserCommit, DeleteOrgCommit, UpdateMembershipCommit
    <2>2. \E what \in Answer : Answers(r, what)
      BY <1>11 DEF UpdateUserEnds, UpdateOrgCommit, CreateMembershipRefused, CreateUserCommit,
         DeleteUserCommit, DeleteOrgCommit, UpdateMembershipCommit, Answer
    <2> QED
      BY <1>0, <2>1, <2>2, EndsAside DEF Answers, Pending, Flushed, At
  <1>12. CASE DeleteUser(r) \/ DeleteOrg(r)
    <2>1. At(r, "delete_user", "read") \/ At(r, "delete_org", "read")
      BY <1>12 DEF DeleteUser, DeleteOrg
    <2>2. Goes(r, "flushed")
      BY <1>12 DEF DeleteUser, DeleteOrg
    <2> QED
      BY <1>0, <2>1, <2>2, GoesAside DEF Pending, Flushed, At
  <1>13. CASE CreateMembershipCommit(r) \/ DeleteMembership(r) \/ DeleteMembershipCommit(r)
    <2>1. task[r].op \in {"create_membership", "delete_membership"}
      BY <1>13 DEF CreateMembershipCommit, DeleteMembership, DeleteMembershipCommit, At
    <2>2. Goes(r, "flushed") \/ \E what, of : Say(r, what, of)
      BY <1>13 DEF CreateMembershipCommit, DeleteMembership, DeleteMembershipCommit, Answers, Answer
    <2>3. Others(r)
      BY <1>0, <2>2 DEF Goes, Say, Others, TypeOK
    <2> QED
      BY <1>13, <2>1, <2>3 DEF At
  <1> QED
    BY <1>1, <1>2, <1>3, <1>4, <1>5, <1>6, <1>7, <1>8, <1>9, <1>10, <1>11, <1>12, <1>13 DEF TenantRequest

-----------------------------------------------------------------------------
(* What the store keeps *)

\* No request died, no organization was deleted and no store failed.
Undamaged == aborts = 0 /\ "org_deleted" \notin strays /\ faults = MaxFaults

\* What accounts for a file.
Accounted(d) == docs[d] = "there" \/ \E r \in Reqs : At(r, "upload", "stored") /\ task[r].doc = d

\* The counts of what went wrong only grow.
LEMMA TenantCounters ==
    ASSUME NEW r \in Reqs, TenantRequest(r)
    PROVE  aborts' = aborts /\ strays \subseteq strays'
  <1>1. ASSUME NEW u \in Users, CreateUser(r, u) PROVE UNCHANGED <<aborts, strays>>
    BY <1>1 DEF CreateUser, tenants
  <1>2. ASSUME NEW u \in Users, NEW op \in Op, ReadUser(r, op, u) PROVE UNCHANGED <<aborts, strays>>
    BY <1>2 DEF ReadUser, tenants
  <1>3. ASSUME NEW o \in Orgs, ReadOrg(r, o) PROVE UNCHANGED <<aborts, strays>>
    BY <1>3 DEF ReadOrg, tenants
  <1>4. ASSUME NEW u \in Users, NEW o \in Orgs, ReadTargets(r, u, o) PROVE UNCHANGED <<aborts, strays>>
    BY <1>4 DEF ReadTargets, tenants
  <1>5. ASSUME NEW u \in Users, NEW o \in Orgs, NEW op \in Op, Admit(r, op, u, o)
        PROVE  UNCHANGED <<aborts, strays>>
    BY <1>5 DEF Admit, tenants
  <1>6. ASSUME NEW m \in Rows, ReadMembership(r, m) \/ CreateMembership(r, m)
        PROVE  UNCHANGED <<aborts, strays>>
    BY <1>6 DEF ReadMembership, CreateMembership, tenants
  <1>7. ASSUME NEW o \in Orgs, NEW m \in Rows, CreateOrg(r, o, m)
        PROVE  aborts' = aborts /\ strays \subseteq strays'
    BY <1>7 DEF CreateOrg
  <1>8. CASE UpdateUser(r) \/ UpdateOrg(r) \/ \E role \in Role : UpdateMembership(r, role)
    BY <1>8 DEF UpdateUser, UpdateOrg, UpdateMembership, tenants
  <1>9. CASE UpdateUserEnds(r) \/ UpdateOrgCommit(r) \/ CreateMembershipRefused(r) \/ CreateUserCommit(r)
    BY <1>9 DEF UpdateUserEnds, UpdateOrgCommit, CreateMembershipRefused, CreateUserCommit, tenants
  <1>10. CASE DeleteUser(r) \/ DeleteOrg(r) \/ DeleteMembership(r)
    BY <1>10 DEF DeleteUser, DeleteOrg, DeleteMembership, tenants
  <1>11. CASE \/ DeleteUserCommit(r) \/ DeleteOrgCommit(r) \/ UpdateMembershipCommit(r)
              \/ CreateMembershipCommit(r) \/ DeleteMembershipCommit(r)
    BY <1>11 DEF DeleteUserCommit, DeleteOrgCommit, UpdateMembershipCommit,
       CreateMembershipCommit, DeleteMembershipCommit
  <1> QED
    BY <1>1, <1>2, <1>3, <1>4, <1>5, <1>6, <1>7, <1>8, <1>9, <1>10, <1>11 DEF TenantRequest

\* It stays undamaged only if it was, and while organizations are there a cascade
\* finds nothing.
LEMMA DamageStays ==
    ASSUME HubInv, HubInv', Next, Undamaged'
    PROVE  Undamaged
  <1>1. PICK r \in Reqs :
           \/ DocumentRequest(r)
           \/ TenantRequest(r) /\ Cascade /\ UNCHANGED <<home, files, provider, faults, condemned>>
           \/ Abort(r) /\ AbortUpload(r) /\ UNCHANGED <<home, provider, faults, condemned>>
    BY DEF Next
  <1>2. /\ aborts \in Nat /\ faults \in 0 .. MaxFaults /\ MaxFaults \in Nat
        /\ aborts' = 0 /\ "org_deleted" \notin strays' /\ faults' = MaxFaults
    BY WorkspaceAssumption, DocumentsAssumption DEF HubInv, TypeOK, Undamaged
  <1>3. ~Abort(r)
    BY <1>2 DEF Abort
  <1>4. CASE DocumentRequest(r)
    <2>1. UNCHANGED tenants
      BY <1>4 DEF DocumentRequest
    <2>2. UNCHANGED faults \/ StoreFails
      BY <1>4 DEF DocumentRequest, UploadInsert, FindDocument, UploadStore, UploadCommit, UploadAnswer,
         Redirect, Serve, CloudUnlink, LocalExists, LocalUnlink, DeleteRow, stored,
         StoreAnswers, CloudSigns, AzureSigns, S3Signs, GcsSigns
    <2> QED
      BY <1>2, <2>1, <2>2 DEF tenants, StoreFails, Undamaged
  <1>5. CASE TenantRequest(r) /\ UNCHANGED faults
    <2>1. aborts' = aborts /\ strays \subseteq strays'
      BY <1>5, TenantCounters
    <2> QED
      BY <1>2, <1>5, <2>1 DEF Undamaged
  <1> QED
    BY <1>1, <1>3, <1>4, <1>5

LEMMA TenantAccounts ==
    ASSUME HubInv, HubInv', NEW r \in Reqs, TenantRequest(r), Cascade,
           UNCHANGED <<home, files>>, "org_deleted" \notin strays',
           NEW d \in Docs, Accounted(d)
    PROVE  Accounted(d)'
  <1>1. Others(r) /\ ~At(r, "upload", "stored")
    BY TenantAside
  <1>2. docs[d] = "there" => docs'[d] = "there"
    <2>1. home[d] \in Orgs /\ home' = home
      BY DEF HubInv, TypeOK
    <2>2. orgs'[home[d]] \in Life
      BY <2>1 DEF HubInv, TypeOK
    <2>3. orgs'[home[d]] # "gone"
      BY <2>1 DEF HubInv, DeletedOrgs
    <2>4. orgs'[home[d]] # "never"
      BY <2>1 DEF HubInv, DocOK
    <2> QED
      BY <2>2, <2>3, <2>4 DEF Cascade, Life
  <1> QED
    BY <1>1, <1>2 DEF Accounted, At, Others

LEMMA DocumentAccounts ==
    ASSUME HubInv, NEW r \in Reqs, DocumentRequest(r), ~StoreFails, NEW d \in Docs,
           files[d] # "none" => Accounted(d), files'[d] # "none"
    PROVE  Accounted(d)'
  <1>1. TypeOK /\ TaskOK(task[r]) /\ d # None
    BY WorkspaceAssumption DEF HubInv
  <1>2. ASSUME Others(r), docs'[d] = docs[d], files[d] # "none", ~At(r, "upload", "stored") PROVE Accounted(d)'
    BY <1>2 DEF Accounted, At, Others
  <1>3. ASSUME NEW e \in Docs, UploadInsert(r, e) \/ FindDocument(r, e) PROVE Accounted(d)'
    <2>1. /\ \/ \E step : task' = [task EXCEPT ![r].step = step, ![r].doc = e]
             \/ Answers(r, "failed") \/ Answers(r, "missing")
          /\ UNCHANGED <<docs, files>> /\ task[r].step = "admitted"
      BY <1>3 DEF UploadInsert, FindDocument, At
    <2>2. Others(r)
      BY <1>1, <2>1, EndsAside DEF Answers, TypeOK, Others
    <2> QED
      BY <1>2, <2>1, <2>2 DEF At
  <1>4. CASE UploadStore(r)
    <2>1. PICK ok \in BOOLEAN :
             /\ StoreAnswers(ok)
             /\ \E f \in Uploaded(ok) : files' = [files EXCEPT ![task[r].doc] = f]
             /\ ok => Goes(r, "stored") /\ docs' = docs
      BY <1>4 DEF UploadStore
    <2>2. ok /\ At(r, "upload", "flushed")
      BY <1>4, <2>1 DEF StoreAnswers, UploadStore
    <2>3. Others(r) /\ At(r, "upload", "stored")' /\ task'[r].doc = task[r].doc
      BY <1>1, <2>1, <2>2 DEF Goes, TypeOK, Task, Others, At
    <2>4. CASE task[r].doc = d
      BY <2>3, <2>4 DEF Accounted
    <2>5. CASE task[r].doc # d
      <3>1. files'[d] = files[d]
        BY <1>1, <2>1, <2>5 DEF TypeOK
      <3> QED
        BY <1>2, <2>1, <2>2, <2>3, <3>1 DEF At
    <2> QED
      BY <2>4, <2>5
  <1>5. CASE UploadCommit(r)
    <2>1. /\ docs' = [docs EXCEPT ![task[r].doc] = "there"] /\ Goes(r, "committed") /\ UNCHANGED files
      BY <1>5 DEF UploadCommit
    <2>2. Others(r)
      BY <1>1, <2>1 DEF Goes, TypeOK, Others
    <2>3. CASE task[r].doc = d
      BY <1>1, <2>1, <2>3 DEF TypeOK, Accounted
    <2>4. CASE task[r].doc # d
      <3>1. docs'[d] = docs[d]
        BY <1>1, <2>1, <2>4 DEF TypeOK
      <3> QED
        BY <2>1, <2>2, <2>4, <3>1 DEF Accounted, At, Others
    <2> QED
      BY <2>3, <2>4
  <1>6. CASE UploadAnswer(r) \/ Serve(r) \/ Redirect(r)
    <2>1. /\ \E what, of : Say(r, what, of) /\ UNCHANGED <<docs, files>>
          /\ task[r].step # "stored"
      BY <1>6 DEF UploadAnswer, Serve, Redirect, Answers, stored, At
    <2>2. Others(r)
      BY <1>1, <2>1, EndsAside
    <2> QED
      BY <1>2, <2>1, <2>2 DEF At
  <1>7. CASE CloudUnlink(r) \/ LocalExists(r) \/ LocalUnlink(r)
    <2>1. task[r].op = "delete_document" /\ task[r].step # "admitted" /\ UNCHANGED docs
      BY <1>7 DEF CloudUnlink, LocalExists, LocalUnlink, stored, At
    <2>2. task[r].doc \in Docs
      BY <2>1, OwnDoc
    <2>3. Others(r)
      <3>1. (\E step : Goes(r, step)) \/ (\E what, of : Say(r, what, of))
        BY <1>7 DEF CloudUnlink, LocalExists, LocalUnlink, Answers
      <3> QED
        BY <1>1, <3>1, EndsAside DEF Goes, TypeOK, Others
    <2>4. files'[d] \in {files[d], "none"}
      <3>1. CASE UNCHANGED files
        BY <3>1
      <3>2. CASE LocalUnlink(r) /\ files' = [files EXCEPT ![task[r].doc] = "none"]
        BY <1>1, <3>2 DEF TypeOK
      <3>3. CASE CloudUnlink(r)
        <4>1. provider # "local"
          BY <3>3 DEF CloudUnlink
        <4>2. PICK ok \in BOOLEAN : \E f \in CloudDeleted(ok, files[task[r].doc]) :
                 files' = [files EXCEPT ![task[r].doc] = f]
          BY <3>3 DEF CloudUnlink
        <4>3. CloudDeleted(ok, files[task[r].doc]) \subseteq {"none", files[task[r].doc]}
          BY <1>1, <4>1 DEF TypeOK, Providers, CloudDeleted, AzureDelete, S3Delete, GcsDelete
        <4> QED
          BY <1>1, <2>2, <4>2, <4>3 DEF TypeOK
      <3> QED
        BY <1>7, <3>1, <3>2, <3>3 DEF LocalExists, LocalUnlink, stored
    <2> QED
      BY <1>2, <2>1, <2>3, <2>4 DEF At
  <1>8. CASE DeleteRow(r)
    <2>1. /\ task[r].op = "delete_document" /\ task[r].step = "stored" /\ UNCHANGED files
          /\ docs' = [docs EXCEPT ![task[r].doc] = "gone"] /\ Say(r, "deleted", task[r].doc)
      BY <1>8 DEF DeleteRow, At
    <2>2. Others(r)
      BY <1>1, <2>1, EndsAside
    <2>3. task[r].doc # d
      BY <1>1, <2>1 DEF TaskOK
    <2>4. docs'[d] = docs[d]
      BY <1>1, <2>1, <2>3 DEF TypeOK
    <2> QED
      BY <1>2, <2>1, <2>2, <2>4 DEF At
  <1> QED
    BY <1>3, <1>4, <1>5, <1>6, <1>7, <1>8 DEF DocumentRequest

LEMMA AccountStep == HubInv /\ HubInv' /\ [Next]_vars /\ NothingLeftOver => NothingLeftOver'
  <1>1. ASSUME HubInv, HubInv', Next, NothingLeftOver PROVE NothingLeftOver'
    <2> SUFFICES ASSUME Undamaged', NEW d \in Docs, files'[d] # "none" PROVE Accounted(d)'
      BY DEF NothingLeftOver, Undamaged, Accounted
    <2>1. Undamaged
      BY <1>1, DamageStays
    <2>2. files[d] # "none" => Accounted(d)
      BY <1>1, <2>1 DEF NothingLeftOver, Undamaged, Accounted
    <2>3. PICK r \in Reqs :
             \/ DocumentRequest(r)
             \/ TenantRequest(r) /\ Cascade /\ UNCHANGED <<home, files, provider, faults, condemned>>
             \/ Abort(r) /\ AbortUpload(r) /\ UNCHANGED <<home, provider, faults, condemned>>
      BY <1>1 DEF Next
    <2>4. ~StoreFails
      BY <2>1, DocumentsAssumption DEF StoreFails, Undamaged
    <2>5. ~Abort(r)
      BY <2>1 DEF Abort, Undamaged
    <2>6. "org_deleted" \notin strays'
      BY DEF Undamaged
    <2> QED
      BY <1>1, <2>2, <2>3, <2>4, <2>5, <2>6, TenantAccounts, DocumentAccounts
  <1>2. ASSUME NothingLeftOver, UNCHANGED vars PROVE NothingLeftOver'
    BY <1>2 DEF NothingLeftOver, vars, tenants, stored, At
  <1> QED
    BY <1>1, <1>2

\* As long as the store does not fail, no request dies and no organization is
\* deleted, every file is some row's or some upload's in flight.
THEOREM NothingIsLeftOver == StackSpec => []NothingLeftOver
<1>1. DocumentsInit => NothingLeftOver
  BY DEF DocumentsInit, NothingLeftOver
<1> QED
  BY <1>1, AccountStep, StackIsDocuments, HubInvariant, PTL DEF Spec

-----------------------------------------------------------------------------
(* What the gauge counts *)

Members == {m \in Rows : Member(m)}
Adding == {r \in Reqs : Flushed(task[r], "create_membership")}
Removing == {r \in Reqs : Flushed(task[r], "delete_membership")}

\* GaugeCounts with the requests that have written told by their step.
Gauged == gauge = Cardinality(Members) + Cardinality(Adding) - Cardinality(Removing)

LEMMA Writers ==
    ASSUME HubInv
    PROVE  Wrote({"create_membership"}) = Adding /\ Wrote({"delete_membership"}) = Removing
  <1>1. ASSUME NEW r \in Reqs PROVE task[r].op \in {"create_membership", "delete_membership"} =>
                                      task[r].step \in {"admitted", "read", "flushed"}
    BY DEF HubInv, TaskOK
  <1> QED
    BY <1>1 DEF Wrote, Adding, Removing, Flushed

LEMMA GaugeIsGauged == HubInv => (GaugeCounts <=> (aborts = 0 /\ strays = {} => Gauged))
  BY Writers DEF GaugeCounts, Gauged, Members

LEMMA CountsFinite ==
    /\ IsFiniteSet(Members) /\ IsFiniteSet(Adding) /\ IsFiniteSet(Removing)
    /\ Cardinality(Members) \in Nat /\ Cardinality(Adding) \in Nat /\ Cardinality(Removing) \in Nat
  <1>1. Members \subseteq Rows /\ Adding \subseteq Reqs /\ Removing \subseteq Reqs
    BY DEF Members, Adding, Removing
  <1> QED
    BY <1>1, WorkspaceAssumption, FS_Subset, FS_CardinalityType

\* A step that neither changes who is a member nor whose membership is pending.
LEMMA CountsKept ==
    ASSUME NEW r \in Reqs, Others(r), ~Pending(task[r]), ~Pending(task'[r]),
           \A m \in Rows : Member(m)' <=> Member(m), gauge' = gauge, Gauged
    PROVE  Gauged'
  <1>1. Members' = Members
    BY DEF Members
  <1>2. Adding' = Adding /\ Removing' = Removing
    BY DEF Adding, Removing, Pending, Others
  <1> QED
    BY <1>1, <1>2 DEF Gauged

\* All but the four steps on memberships leave the gauge and the members alone, unless
\* they are counted as strays.
LEMMA GaugeLeft ==
    ASSUME HubInv, NEW r \in Reqs, TenantRequest(r), strays' = {}
    PROVE  \/ gauge' = gauge /\ \A m \in Rows : Member(m)' <=> Member(m)
           \/ \E m \in Rows : CreateMembership(r, m)
           \/ CreateMembershipCommit(r) \/ DeleteMembership(r) \/ DeleteMembershipCommit(r)
  <1> DEFINE A == gauge' = gauge /\ \A m \in Rows : Member(m)' <=> Member(m)
  <1>0. strays = {}
    BY TenantCounters
  <1>1. ASSUME UNCHANGED <<rows, gauge>> PROVE A
    BY <1>1 DEF Member
  <1>2. ASSUME NEW u \in Users, CreateUser(r, u) PROVE A
    BY <1>1, <1>2 DEF CreateUser, tenants
  <1>3. ASSUME NEW u \in Users, NEW op \in Op, ReadUser(r, op, u) PROVE A
    BY <1>1, <1>3 DEF ReadUser, tenants
  <1>4. ASSUME NEW o \in Orgs, ReadOrg(r, o) PROVE A
    BY <1>1, <1>4 DEF ReadOrg, tenants
  <1>5. ASSUME NEW u \in Users, NEW o \in Orgs, ReadTargets(r, u, o) PROVE A
    BY <1>1, <1>5 DEF ReadTargets, tenants
  <1>6. ASSUME NEW u \in Users, NEW o \in Orgs, NEW op \in Op, Admit(r, op, u, o) PROVE A
    BY <1>1, <1>6 DEF Admit, tenants
  <1>7. ASSUME NEW m \in Rows, ReadMembership(r, m) PROVE A
    BY <1>1, <1>7 DEF ReadMembership, tenants
  <1>8. ASSUME NEW o \in Orgs, NEW m \in Rows, CreateOrg(r, o, m) PROVE A
    BY <1>1, <1>8 DEF CreateOrg
  <1>9. CASE UpdateUser(r) \/ UpdateOrg(r) \/ (\E role \in Role : UpdateMembership(r, role)) \/ DeleteUser(r)
    BY <1>1, <1>9 DEF UpdateUser, UpdateOrg, UpdateMembership, DeleteUser, tenants
  <1>10. CASE UpdateUserEnds(r) \/ UpdateOrgCommit(r) \/ CreateMembershipRefused(r) \/ CreateUserCommit(r)
    BY <1>1, <1>10 DEF UpdateUserEnds, UpdateOrgCommit, CreateMembershipRefused, CreateUserCommit, tenants
  <1>11. ~DeleteOrg(r) /\ ~DeleteUserCommit(r)
    BY DEF DeleteOrg, DeleteUserCommit
  <1>12. ~DeleteOrgCommit(r)
    <2>1. TaskOK(task[r])
      BY DEF HubInv
    <2> QED
      BY <1>0, <2>1 DEF DeleteOrgCommit, At, TaskOK, Flushed
  <1>13. CASE UpdateMembershipCommit(r)
    <2>1. /\ rows' = [rows EXCEPT ![task[r].row].role = task[r].role] /\ gauge' = gauge
          /\ task[r].row \in Rows /\ rows[task[r].row] \in Membership
      BY <1>13, TargetRow DEF UpdateMembershipCommit, At
    <2>2. rows'[task[r].row].life = rows[task[r].row].life
      BY <2>1 DEF HubInv, TypeOK, Membership
    <2> QED
      BY <2>1, <2>2 DEF Member, HubInv, TypeOK
  <1> QED
    BY <1>2, <1>3, <1>4, <1>5, <1>6, <1>7, <1>8, <1>9, <1>10, <1>11, <1>12, <1>13 DEF TenantRequest

LEMMA GaugeCreates ==
    ASSUME HubInv, NEW r \in Reqs, NEW m \in Rows, CreateMembership(r, m), Gauged
    PROVE  Gauged'
  <1>1. /\ task[r].op = "create_membership" /\ task[r].step = "read" /\ TypeOK
        /\ task' = [task EXCEPT ![r].step = "flushed", ![r].row = m]
        /\ gauge' = gauge + 1 /\ UNCHANGED rows
    BY DEF CreateMembership, At, HubInv
  <1>2. task'[r].op = "create_membership" /\ task'[r].step = "flushed" /\ \A q \in Reqs \ {r} : task'[q] = task[q]
    BY <1>1 DEF TypeOK, Task
  <1>3. Members' = Members
    BY <1>1 DEF Members, Member
  <1>4. r \notin Adding /\ Adding' = Adding \cup {r} /\ Removing' = Removing
    <2>1. ~Flushed(task[r], "create_membership") /\ ~Flushed(task[r], "delete_membership")
      BY <1>1 DEF Flushed
    <2>2. Flushed(task'[r], "create_membership") /\ ~Flushed(task'[r], "delete_membership")
      BY <1>2 DEF Flushed
    <2>3. r \notin Adding /\ Adding' = Adding \cup {r}
      BY <1>2, <2>1, <2>2 DEF Adding
    <2>4. Removing' = Removing
      BY <1>2, <2>1, <2>2 DEF Removing
    <2> QED
      BY <2>3, <2>4
  <1>5. Cardinality(Adding') = Cardinality(Adding) + 1
    BY <1>4, CountsFinite, FS_AddElement
  <1> QED
    BY <1>1, <1>3, <1>4, <1>5, CountsFinite DEF Gauged

LEMMA GaugeCreated ==
    ASSUME HubInv, NEW r \in Reqs, CreateMembershipCommit(r), Gauged
    PROVE  Gauged'
  <1>1. PICK s \in Task : s = task[r] /\ TaskOK(s)
    BY OwnTask
  <1>2. /\ Flushed(s, "create_membership") /\ Say(r, "created", s.row) /\ UNCHANGED gauge /\ TypeOK
        /\ rows' = [rows EXCEPT ![s.row] = [life |-> "there", user |-> s.user, org |-> s.org, role |-> "member"]]
    BY <1>1 DEF CreateMembershipCommit, At, Flushed, HubInv
  <1>3. s.row \in Rows /\ rows[s.row].life = "never"
    BY <1>1, <1>2 DEF TaskOK, Flushed, Task
  <1>4. s.row \notin Members /\ Members' = Members \cup {s.row}
    BY <1>2, <1>3 DEF Members, Member, TypeOK
  <1>5. Others(r) /\ ~Pending(task'[r])
    BY <1>2, EndsAside
  <1>6. r \in Adding /\ Adding' = Adding \ {r} /\ Removing' = Removing
    <2>1. Flushed(task[r], "create_membership") /\ ~Flushed(task[r], "delete_membership")
      BY <1>1, <1>2 DEF Flushed
    <2>2. ~Flushed(task'[r], "create_membership") /\ ~Flushed(task'[r], "delete_membership")
      BY <1>5 DEF Pending
    <2>3. \A q \in Reqs \ {r} : task'[q] = task[q]
      BY <1>5 DEF Others
    <2>4. r \in Adding /\ Adding' = Adding \ {r}
      BY <2>1, <2>2, <2>3 DEF Adding
    <2>5. Removing' = Removing
      BY <2>1, <2>2, <2>3 DEF Removing
    <2> QED
      BY <2>4, <2>5
  <1>7. Cardinality(Members') = Cardinality(Members) + 1
    BY <1>4, CountsFinite, FS_AddElement
  <1>8. Cardinality(Adding') = Cardinality(Adding) - 1
    BY <1>6, CountsFinite, FS_RemoveElement
  <1> QED
    BY <1>2, <1>6, <1>7, <1>8, CountsFinite DEF Gauged

LEMMA GaugeDeletes ==
    ASSUME HubInv, NEW r \in Reqs, DeleteMembership(r), Gauged
    PROVE  Gauged'
  <1>1. /\ task[r].op = "delete_membership" /\ task[r].step = "read" /\ TypeOK /\ UNCHANGED rows
    BY DEF DeleteMembership, At, HubInv
  <1>2. CASE Answers(r, "missing") /\ UNCHANGED gauge
    BY <1>1, <1>2, EndsAside, CountsKept DEF Answers, Member, Pending, Flushed
  <1>3. CASE gauge' = gauge - 1 /\ Goes(r, "flushed")
    <2>1. task'[r].op = "delete_membership" /\ task'[r].step = "flushed" /\ \A q \in Reqs \ {r} : task'[q] = task[q]
      BY <1>1, <1>3 DEF TypeOK, Task, Goes
    <2>2. Members' = Members
      BY <1>1 DEF Members, Member
    <2>3. r \notin Removing /\ Removing' = Removing \cup {r} /\ Adding' = Adding
      <3>1. ~Flushed(task[r], "create_membership") /\ ~Flushed(task[r], "delete_membership")
        BY <1>1 DEF Flushed
      <3>2. Flushed(task'[r], "delete_membership") /\ ~Flushed(task'[r], "create_membership")
        BY <2>1 DEF Flushed
      <3>3. r \notin Removing /\ Removing' = Removing \cup {r}
        BY <2>1, <3>1, <3>2 DEF Removing
      <3>4. Adding' = Adding
        BY <2>1, <3>1, <3>2 DEF Adding
      <3> QED
        BY <3>3, <3>4
    <2>4. Cardinality(Removing') = Cardinality(Removing) + 1
      BY <2>3, CountsFinite, FS_AddElement
    <2> QED
      BY <1>3, <2>2, <2>3, <2>4, CountsFinite DEF Gauged
  <1> QED
    BY <1>2, <1>3 DEF DeleteMembership

LEMMA GaugeDeleted ==
    ASSUME HubInv, NEW r \in Reqs, DeleteMembershipCommit(r), Gauged
    PROVE  Gauged'
  <1>1. PICK s \in Task : s = task[r] /\ TaskOK(s)
    BY OwnTask
  <1>2. /\ Flushed(s, "delete_membership") /\ Say(r, "deleted", s.row) /\ UNCHANGED gauge /\ TypeOK
        /\ rows' = [rows EXCEPT ![s.row].life = "gone"]
    BY <1>1 DEF DeleteMembershipCommit, At, Flushed, HubInv
  <1>3. s.row \in Rows /\ Member(s.row) /\ rows[s.row] \in Membership
    BY <1>1, <1>2, DeletedRow, TargetRow DEF Flushed
  <1>4. rows'[s.row].life = "gone"
    BY <1>2, <1>3 DEF TypeOK, Membership
  <1>5. s.row \in Members /\ Members' = Members \ {s.row}
    BY <1>2, <1>3, <1>4 DEF Members, Member, TypeOK
  <1>6. Others(r) /\ ~Pending(task'[r])
    BY <1>2, EndsAside
  <1>7. r \in Removing /\ Removing' = Removing \ {r} /\ Adding' = Adding
    <2>1. Flushed(task[r], "delete_membership") /\ ~Flushed(task[r], "create_membership")
      BY <1>1, <1>2 DEF Flushed
    <2>2. ~Flushed(task'[r], "create_membership") /\ ~Flushed(task'[r], "delete_membership")
      BY <1>6 DEF Pending
    <2>3. \A q \in Reqs \ {r} : task'[q] = task[q]
      BY <1>6 DEF Others
    <2>4. r \in Removing /\ Removing' = Removing \ {r}
      BY <2>1, <2>2, <2>3 DEF Removing
    <2>5. Adding' = Adding
      BY <2>1, <2>2, <2>3 DEF Adding
    <2> QED
      BY <2>4, <2>5
  <1>8. Cardinality(Members') = Cardinality(Members) - 1
    BY <1>5, CountsFinite, FS_RemoveElement
  <1>9. Cardinality(Removing') = Cardinality(Removing) - 1
    BY <1>7, CountsFinite, FS_RemoveElement
  <1> QED
    BY <1>2, <1>7, <1>8, <1>9, CountsFinite DEF Gauged

\* A request on documents is no membership's.
LEMMA DocumentAside ==
    ASSUME HubInv, NEW r \in Reqs, DocumentRequest(r)
    PROVE  Others(r) /\ ~Pending(task[r]) /\ ~Pending(task'[r])
  <1>0. TypeOK
    BY DEF HubInv
  <1>1. task[r].op \in {"upload", "download", "delete_document"}
    BY DEF DocumentRequest, UploadInsert, FindDocument, UploadStore, UploadCommit, UploadAnswer,
       Redirect, Serve, CloudUnlink, LocalExists, LocalUnlink, DeleteRow, At
  <1>2. ASSUME NEW d \in Docs, UploadInsert(r, d) \/ FindDocument(r, d) PROVE Others(r) /\ ~Pending(task'[r])
    <2>1. \/ \E step : task' = [task EXCEPT ![r].step = step, ![r].doc = d]
          \/ Answers(r, "failed") \/ Answers(r, "missing")
      BY <1>2 DEF UploadInsert, FindDocument
    <2>2. CASE \E step : task' = [task EXCEPT ![r].step = step, ![r].doc = d]
      BY <1>0, <1>1, <2>2 DEF TypeOK, Task, Others, Pending, Flushed
    <2> QED
      BY <1>0, <2>1, <2>2, EndsAside DEF Answers
  <1>3. ASSUME (\E step : Goes(r, step)) \/ (\E what, of : Say(r, what, of))
        PROVE  Others(r) /\ ~Pending(task'[r])
    BY <1>0, <1>1, <1>3, EndsAside, GoesAside
  <1>4. ~Pending(task[r])
    BY <1>1 DEF Pending, Flushed
  <1>5. CASE UploadStore(r) \/ UploadCommit(r) \/ UploadAnswer(r) \/ Redirect(r) \/ Serve(r)
    BY <1>3, <1>4, <1>5 DEF UploadStore, UploadCommit, UploadAnswer, Redirect, Serve, Answers
  <1>6. CASE CloudUnlink(r) \/ LocalExists(r) \/ LocalUnlink(r) \/ DeleteRow(r)
    BY <1>3, <1>4, <1>6 DEF CloudUnlink, LocalExists, LocalUnlink, DeleteRow, Answers
  <1> QED
    BY <1>2, <1>4, <1>5, <1>6 DEF DocumentRequest

LEMMA WritersPrimed ==
    ASSUME HubInv'
    PROVE  Wrote({"create_membership"})' = Adding' /\ Wrote({"delete_membership"})' = Removing'
  <1>1. ASSUME NEW r \in Reqs
        PROVE  task'[r].op \in {"create_membership", "delete_membership"} =>
                  task'[r].step \in {"admitted", "read", "flushed"}
    BY DEF HubInv, TaskOK
  <1> QED
    BY <1>1 DEF Wrote, Adding, Removing, Flushed

LEMMA GaugeStep == HubInv /\ HubInv' /\ [Next]_vars /\ GaugeCounts => GaugeCounts'
  <1>1. ASSUME HubInv, HubInv', Next, GaugeCounts PROVE GaugeCounts'
    <2> SUFFICES ASSUME aborts' = 0, strays' = {} PROVE Gauged'
      BY <1>1, WritersPrimed DEF GaugeCounts, Gauged, Members
    <2>1. PICK r \in Reqs :
             \/ DocumentRequest(r)
             \/ TenantRequest(r) /\ Cascade /\ UNCHANGED <<home, files, provider, faults, condemned>>
             \/ Abort(r) /\ AbortUpload(r) /\ UNCHANGED <<home, provider, faults, condemned>>
      BY <1>1 DEF Next
    <2>2. ~Abort(r)
      BY <1>1, WorkspaceAssumption DEF Abort, HubInv, TypeOK
    <2>3. CASE DocumentRequest(r)
      <3>1. UNCHANGED <<rows, gauge, aborts, strays>>
        BY <2>3 DEF DocumentRequest, tenants
      <3>2. Gauged
        BY <1>1, <3>1, GaugeIsGauged
      <3> QED
        BY <1>1, <2>3, <3>1, <3>2, DocumentAside, CountsKept DEF Member
    <2>4. CASE TenantRequest(r)
      <3>1. aborts = 0 /\ strays = {}
        BY <2>4, TenantCounters
      <3>2. Gauged
        BY <1>1, <3>1, GaugeIsGauged
      <3>3. CASE \/ \E m \in Rows : CreateMembership(r, m)
                 \/ CreateMembershipCommit(r) \/ DeleteMembership(r) \/ DeleteMembershipCommit(r)
        BY <1>1, <3>2, <3>3, GaugeCreates, GaugeCreated, GaugeDeletes, GaugeDeleted
      <3>4. CASE ~\/ \E m \in Rows : CreateMembership(r, m)
                  \/ CreateMembershipCommit(r) \/ DeleteMembership(r) \/ DeleteMembershipCommit(r)
        BY <1>1, <2>4, <3>2, <3>4, TenantAside, GaugeLeft, CountsKept
      <3> QED
        BY <3>3, <3>4
    <2> QED
      BY <2>1, <2>2, <2>3, <2>4
  <1>2. ASSUME GaugeCounts, UNCHANGED vars PROVE GaugeCounts'
    BY <1>2 DEF GaugeCounts, vars, tenants, Wrote, Member
  <1> QED
    BY <1>1, <1>2

\* The gauge is the number of memberships, but for what is not committed yet, as long
\* as memberships come and go by their own endpoints and no request dies.
THEOREM GaugeIsRight == StackSpec => []GaugeCounts
<1>1. DocumentsInit => GaugeCounts
  <2> SUFFICES ASSUME DocumentsInit PROVE Gauged
    BY HubInit, GaugeIsGauged
  <2>1. Init
    BY DEF DocumentsInit
  <2>2. Members = {FirstRow}
    BY <2>1, WorkspaceAssumption DEF Init, Members, Member, Unused
  <2>3. Adding = {} /\ Removing = {}
    BY <2>1, IdlePends DEF Init, Adding, Removing, Pending
  <2>4. Cardinality({FirstRow}) = 1 /\ Cardinality({}) = 0
    BY FS_Singleton, FS_EmptySet
  <2> QED
    BY <2>1, <2>2, <2>3, <2>4 DEF Init, Gauged
<1> QED
  BY <1>1, GaugeStep, StackIsDocuments, HubInvariant, PTL DEF Spec

=============================================================================
