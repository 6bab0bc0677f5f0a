---------------------------- MODULE Attestation ----------------------------
(***************************************************************************)
(* How the hub comes to believe what a GitHub account can reach.           *)
(* Enrolment, check-in with a token and dashboard login each read GitHub   *)
(* (who the token belongs to, then the installations it reaches, then the  *)
(* repos of each, all page by page) and replace the account's access      *)
(* snapshot.  GitHub goes on granting and withdrawing     *)
(* access meanwhile and tells the hub nothing, so a snapshot is believed   *)
(* for identity_access_ttl_seconds and no longer.  This is github mode: in *)
(* dev mode there are no accounts and access is not scoped.                *)
(***************************************************************************)
EXTENDS Sequences, Integers, FiniteSets

CONSTANTS
    Users,       \* GitHub accounts
    Repos,       \* repositories the App is installed on: GitHub's ids, its order
    Home,        \* the installation (an id again) each of them belongs to
    PageSize,    \* PAGE_SIZE: items on a page GitHub answers with
    Clients,     \* machines
    Legacy,      \* clients registered before accounts were: linked to none
    Ops,         \* bound: the kinds of request that come
    Reqs,        \* handler tasks that may be in flight at the same time
    MaxChanges,  \* bound: times GitHub grants or withdraws a repo
    None         \* SQL NULL, and "no row"

Kind == {"none", "enrol", "check_in", "login"}
Step == {"idle", "user", "installations", "repos", "find", "write", "commit"}

Homes(S) == {Home[x] : x \in S}

\* A task: the account its token belongs to, the client it serves and the
\* account the loaded client row was linked to, the installations collected
\* and not yet gone through, how many items the pages of the list being read
\* have had, the repos found, whether the account's row was missing, and
\* (history only) the epochs GitHub was read between.
Task == [kind : Kind, at : Step, user : Users \cup {None},
         client : Clients \cup {None}, linked : Users \cup {None},
         homes : SUBSET Homes(Repos), past : Nat, found : SUBSET Repos,
         new : BOOLEAN, since : Nat, until : Nat]

Idle == [kind |-> "none", at |-> "idle", user |-> None, client |-> None,
         linked |-> None, homes |-> {}, past |-> 0, found |-> {}, new |-> FALSE,
         since |-> 0, until |-> 0]

\* github_identity with its identity_repo_access rows.  `fresh' abstracts
\* access_refreshed_at: still inside the TTL.
Identity == [repos : SUBSET Repos, fresh : BOOLEAN, since : Nat, until : Nat]

\* review_client rows: not inserted yet, deleted, or the account linked to.
Row == {"unregistered", "gone", None} \cup Users

ASSUME AttestationAssumption ==
    /\ Legacy \subseteq Clients
    /\ Repos \subseteq Nat /\ IsFiniteSet(Repos)
    /\ Home \in [Repos -> Nat]
    /\ PageSize \in Nat \ {0}
    /\ MaxChanges \in Nat
    /\ None \notin Users \cup Clients \cup Identity
    /\ {"unregistered", "gone"} \cap (Users \cup {None}) = {}

VARIABLES
    history,   \* what GitHub granted each account, epoch by epoch
    identity,  \* the snapshots
    client,    \* the review_client table
    session,   \* accounts with a live dashboard session
    task       \* the handler tasks

vars == <<history, identity, client, session, task>>

Init ==
    /\ history \in {<<g>> : g \in [Users -> SUBSET Repos]}
    /\ identity = [u \in Users |-> None]
    /\ client = [c \in Clients |-> IF c \in Legacy THEN None ELSE "unregistered"]
    /\ session = {}
    /\ task = [r \in Reqs |-> Idle]

TypeOK ==
    /\ history \in Seq([Users -> SUBSET Repos])
    /\ identity \in [Users -> Identity \cup {None}]
    /\ client \in [Clients -> Row]
    /\ session \subseteq Users
    /\ task \in [Reqs -> Task]

Now == Len(history)

Finish(r) == task' = [task EXCEPT ![r] = Idle]

\* Another open transaction has written u's row and not committed yet.
IdentityLocked(r, u) ==
    \E q \in Reqs \ {r} : task[q].user = u /\ task[q].at = "commit"
-----------------------------------------------------------------------------
(* A request arrives with a token of account u *)

Start(r, kind, u, c, linked) ==
    /\ task[r].at = "idle" /\ kind \in Ops
    /\ task' = [task EXCEPT ![r] = [Idle EXCEPT !.kind = kind, !.at = "user", !.user = u,
                                                !.client = c, !.linked = linked]]
    /\ UNCHANGED <<history, identity, client, session>>

StartEnrol(r, u) == Start(r, "enrol", u, None, None)

StartLogin(r, u) == Start(r, "login", u, None, None)

\* get_current_client loads the row; its link is not read again.
StartCheckIn(r, u, c) ==
    /\ client[c] \in Users \cup {None}
    /\ Start(r, "check_in", u, c, client[c])
-----------------------------------------------------------------------------
(* _read_github_identity *)

ReadUser(r) ==
    /\ task[r].at = "user"
    /\ task' = [task EXCEPT ![r].at = "installations", ![r].since = Now, ![r].until = Now]
    /\ UNCHANGED <<history, identity, client, session>>

\* GitHub's list S, asked for by page number: the page that follows the first
\* `past' items as the list stands now, and whether that page is short.
Page(S, past) ==
    {x \in S : Cardinality({y \in S : y < x}) \in past .. past + PageSize - 1}

\* Mutant: `<=' for `<' in the code's test, so that a full page ends the walk.
LastEvenFull(S, past) == TRUE

Last(S, past) == Cardinality(S) < past + PageSize

\* One page of /user/installations.
ReadInstallations(r) ==
    LET t == task[r]
        S == Homes(history[Now][t.user])
        homes == t.homes \cup Page(S, t.past)
    IN  /\ t.at = "installations"
        /\ \/ /\ ~Last(S, t.past)
              /\ task' = [task EXCEPT ![r] = [t EXCEPT !.homes = homes, !.until = Now,
                                                       !.past = @ + PageSize]]
           \/ /\ Last(S, t.past)
              /\ task' = [task EXCEPT ![r] = [t EXCEPT !.homes = homes, !.until = Now,
                                                       !.past = 0,
                             !.at = IF homes = {} THEN "find" ELSE "repos"]]
        /\ UNCHANGED <<history, identity, client, session>>

First(S) == CHOOSE i \in S : \A k \in S : i <= k

\* The repos among S that are of installation i.
Of(S, i) == {x \in S : Home[x] = i}

\* One page of the repositories of the next installation.
ReadRepos(r) ==
    LET t == task[r]
        i == First(t.homes)
        S == Of(history[Now][t.user], i)
        found == t.found \cup Page(S, t.past)
    IN  /\ t.at = "repos"
        /\ \/ /\ ~Last(S, t.past)
              /\ task' = [task EXCEPT ![r] = [t EXCEPT !.found = found, !.until = Now,
                                                       !.past = @ + PageSize]]
           \/ /\ Last(S, t.past)
              /\ task' = [task EXCEPT ![r] = [t EXCEPT !.found = found, !.until = Now,
                                                       !.homes = @ \ {i}, !.past = 0,
                             !.at = IF t.homes = {i} THEN "find" ELSE "repos"]]
        /\ UNCHANGED <<history, identity, client, session>>

\* Mutants: an outage lets an enrolment through, as it does a check-in; an
\* outage renews the snapshot that is there.
GithubFailsOpen(r) ==
    /\ task[r].at \in {"user", "installations", "repos"}
    /\ IF task[r].kind = "enrol"
       THEN \E c \in Clients : client[c] = "unregistered"
                               /\ client' = [client EXCEPT ![c] = task[r].user]
       ELSE UNCHANGED client
    /\ Finish(r)
    /\ UNCHANGED <<history, identity, session>>

GithubFailsRenewing(r) ==
    /\ task[r].at \in {"user", "installations", "repos"}
    /\ identity' = [identity EXCEPT
         ![task[r].user] = IF @ = None THEN @ ELSE [@ EXCEPT !.fresh = TRUE]]
    /\ Finish(r)
    /\ UNCHANGED <<history, client, session>>

\* Rejected (401) or unreachable (503, or a check-in that goes on without):
\* either way nothing is written.
GithubFails(r) ==
    /\ task[r].at \in {"user", "installations", "repos"}
    /\ Finish(r)
    /\ UNCHANGED <<history, identity, client, session>>
-----------------------------------------------------------------------------
(* get_or_create_identity and the commit of the request *)

\* reattest_identity: the token is not of the account the client is linked to.
Mismatch(r) ==
    task[r].kind = "check_in" /\ task[r].linked \notin {None, task[r].user}

Refuse(r) ==
    /\ task[r].at = "find"
    /\ Mismatch(r)
    /\ Finish(r)
    /\ UNCHANGED <<history, identity, client, session>>

FindIdentity(r) ==
    /\ task[r].at = "find"
    /\ ~Mismatch(r)
    /\ task' = [task EXCEPT ![r].at = "write", ![r].new = identity[task[r].user] = None]
    /\ UNCHANGED <<history, identity, client, session>>

\* The flush: an UPDATE that takes the row lock, or an INSERT.
WriteIdentity(r) ==
    /\ task[r].at = "write"
    /\ ~IdentityLocked(r, task[r].user)
    /\ task[r].new => identity[task[r].user] = None
    /\ task' = [task EXCEPT ![r].at = "commit"]
    /\ UNCHANGED <<history, identity, client, session>>

\* Somebody inserted the account first: unique violation, the request fails.
InsertedTwice(r) ==
    /\ task[r].at = "write"
    /\ ~IdentityLocked(r, task[r].user)
    /\ task[r].new /\ identity[task[r].user] # None
    /\ Finish(r)
    /\ UNCHANGED <<history, identity, client, session>>

\* Mutant: repos are put into the snapshot, never taken out.
SnapshotMerged(t) ==
    [repos |-> t.found \cup (IF identity[t.user] = None THEN {} ELSE identity[t.user].repos),
     fresh |-> TRUE, since |-> t.since, until |-> t.until]

\* The rows the transaction leaves: delete, then insert what was read.
Snapshot(t) ==
    [repos |-> t.found, fresh |-> TRUE, since |-> t.since, until |-> t.until]

Replaced(t) == identity' = [identity EXCEPT ![t.user] = Snapshot(t)]

EnrolCommit(r) ==
    /\ task[r].at = "commit" /\ task[r].kind = "enrol"
    /\ Replaced(task[r])
    /\ \E c \in Clients :
        /\ client[c] = "unregistered"
        /\ client' = [client EXCEPT ![c] = task[r].user]
    /\ Finish(r)
    /\ UNCHANGED <<history, session>>

\* A client that was linked to no account when it was loaded is linked now.
CheckInCommit(r) ==
    LET t == task[r]
    IN  /\ t.at = "commit" /\ t.kind = "check_in"
        /\ client[t.client] # "gone"
        /\ Replaced(t)
        /\ client' = [client EXCEPT ![t.client] = IF t.linked = None THEN t.user ELSE @]
        /\ Finish(r)
        /\ UNCHANGED <<history, session>>

\* The client was revoked meanwhile: its UPDATE fails and all is rolled back.
CheckInGone(r) ==
    /\ task[r].at = "commit" /\ task[r].kind = "check_in"
    /\ client[task[r].client] = "gone"
    /\ Finish(r)
    /\ UNCHANGED <<history, identity, client, session>>

LoginCommit(r) ==
    /\ task[r].at = "commit" /\ task[r].kind = "login"
    /\ Replaced(task[r])
    /\ session' = session \cup {task[r].user}
    /\ Finish(r)
    /\ UNCHANGED <<history, client>>
-----------------------------------------------------------------------------
(* The world outside the request *)

\* GitHub grants or withdraws one repo.
Change(u, x) ==
    /\ Now <= MaxChanges
    /\ LET had == history[Now][u]
       IN  history' = Append(history, [history[Now] EXCEPT
                        ![u] = IF x \in had THEN had \ {x} ELSE had \cup {x}])
    /\ UNCHANGED <<identity, client, session, task>>

\* identity_access_ttl_seconds after the last re-read.
Expire(u) ==
    /\ identity[u] # None /\ identity[u].fresh
    /\ identity' = [identity EXCEPT ![u].fresh = FALSE]
    /\ UNCHANGED <<history, client, session, task>>

SessionExpires(u) ==
    /\ u \in session
    /\ session' = session \ {u}
    /\ UNCHANGED <<history, identity, client, task>>

\* authorize_client_revoke: by a credential of the same account, the client's
\* own token being one; a client linked to no account cannot be revoked.
Revoke(c) ==
    /\ client[c] \in Users
    /\ client' = [client EXCEPT ![c] = "gone"]
    /\ UNCHANGED <<history, identity, session, task>>

\* The task dies and its transaction is rolled back.
Abort(r) ==
    /\ task[r].at # "idle"
    /\ Finish(r)
    /\ UNCHANGED <<history, identity, client, session>>
-----------------------------------------------------------------------------
TaskStep(r) ==
    \/ ReadUser(r) \/ GithubFails(r) \/ Refuse(r)
    \/ ReadInstallations(r) \/ ReadRepos(r)
    \/ FindIdentity(r) \/ WriteIdentity(r) \/ InsertedTwice(r)
    \/ EnrolCommit(r) \/ CheckInCommit(r) \/ CheckInGone(r) \/ LoginCommit(r)

Arrive(r) ==
    \E u \in Users :
        \/ StartEnrol(r, u) \/ StartLogin(r, u)
        \/ \E c \in Clients : StartCheckIn(r, u, c)

Environment ==
    \/ \E u \in Users, x \in Repos : Change(u, x)
    \/ \E u \in Users : Expire(u) \/ SessionExpires(u)
    \/ \E c \in Clients : Revoke(c)

Next ==
    \/ \E r \in Reqs : Arrive(r) \/ TaskStep(r) \/ Abort(r)
    \/ Environment

Spec == Init /\ [][Next]_vars

\* Requests end, one way or another, and time passes.  Nobody has to check in.
Fairness ==
    /\ \A r \in Reqs : WF_vars(TaskStep(r))
    /\ \A u \in Users : WF_vars(Expire(u))

FairSpec == Spec /\ Fairness
-----------------------------------------------------------------------------
(* Properties *)

\* A repo is in a snapshot only if GitHub granted it at some moment of the
\* read the snapshot came from: nothing of an older snapshot survives.
SnapshotWasTrue ==
    \A u \in Users : identity[u] # None =>
        \A x \in identity[u].repos :
            \E e \in identity[u].since .. identity[u].until :
                e \in 1 .. Now /\ x \in history[e][u]

\* Between epochs a and b GitHub withdrew nothing from u.
NothingWithdrawn(u, a, b) ==
    \A d, e \in a .. b : d <= e => history[d][u] \subseteq history[e][u]

\* Pages are asked for by number while the list may grow: as long as nothing
\* was withdrawn during the read, no repo that was granted when the read began
\* is missing from the snapshot.
SnapshotIsWhole ==
    \A u \in Users :
        identity[u] # None /\ NothingWithdrawn(u, identity[u].since, identity[u].until)
            => history[identity[u].since][u] \subseteq identity[u].repos

\* "Walk a GitHub envelope-paginated collection to exhaustion": a repo granted
\* during the whole read is in the snapshot.
GrantedIsSeen ==
    \A u \in Users, x \in Repos :
        /\ identity[u] # None
        /\ \A e \in identity[u].since .. identity[u].until : x \in history[e][u]
        => x \in identity[u].repos

\* "Fails closed": outside the legacy rows, whoever holds a client row or a
\* session was admitted by GitHub, and has a snapshot to be scoped by.
AdmittedByGithub ==
    /\ \A c \in Clients \ Legacy : client[c] # None
    /\ \A c \in Clients : client[c] \in Users => identity[client[c]] # None
    /\ \A u \in session : identity[u] # None

\* "Relinking here would quietly turn check-in into an account-transfer
\* endpoint": a linked client stays with its account until it is revoked.
LinkIsForGood ==
    [][\A c \in Clients : client[c] \in Users => client'[c] \in {client[c], "gone"}]_vars

\* access_refreshed_at says when the snapshot was last re-read: a later
\* snapshot does not come from an earlier reading.
SnapshotsMoveForward ==
    [][\A u \in Users : identity[u] # None => identity'[u].since >= identity[u].since]_vars

CanLease(u, x) == identity[u] # None /\ identity[u].fresh /\ x \in identity[u].repos

\* Access GitHub has withdrawn for good ends at the hub for good, even if the
\* account never checks in again or GitHub cannot be reached.
LossEnds ==
    \A u \in Users, x \in Repos :
        <>[](x \notin history[Now][u]) => <>[]~CanLease(u, x)
=============================================================================
