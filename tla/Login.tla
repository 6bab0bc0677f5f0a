-------------------------------- MODULE Login --------------------------------
(***************************************************************************)
(* Signing in.  GitHub's device flow opens a code that a person grants or  *)
(* denies; whoever polls for it spends it.  On the one side the dashboard  *)
(* page polls through the hub, which mints a session; a timer drives that, *)
(* another reads the hub every PollEvery seconds, and requests may be      *)
(* under way together.  On the other side the commands of the client poll  *)
(* GitHub themselves, enrol or check in, and share one state file.         *)
(* Attestation.tla has what the hub does with the token it is given.       *)
(***************************************************************************)
EXTENDS Naturals, FiniteSets

CONSTANTS
    Users, Machines,   \* GitHub accounts; ids of clients of the grid
    Codes, Tokens,     \* device codes and session tokens, each used once
    PageCodes,         \* bound: the codes the page may open
    Saved, Visitor,    \* a session of an earlier visit, and whose it is
    OwnerOf,           \* [Machines -> Users \cup {None, "nobody"}] at the start
    Near,              \* [Users -> SUBSET Users]: who shares a repo with whom
    Flights,           \* requests the page has under way at most
    Procs,             \* commands of the client that run at once
    OldFile,           \* the state file at the start: a registration's, or None
    Intervals,         \* seconds between two polls, as GitHub dictates
    PollEvery,         \* POLL_MS, in seconds
    Sides,             \* "page", "client": what a behaviour looks at
    MaxLost,           \* bound: how many requests get no answer
    None

State == [machine : Machines, of : Users \cup {None}, keeps : BOOLEAN]

ASSUME LoginAssumption ==
    /\ PageCodes \subseteq Codes /\ Saved \in Tokens /\ Visitor \in Users /\ Near \in [Users -> SUBSET Users]
    /\ OwnerOf \in [Machines -> Users \cup {None, "nobody"}]
    /\ Intervals \subseteq Nat \ {0} /\ PollEvery \in Nat \ {0} /\ MaxLost \in Nat
    /\ OldFile \in State \cup {None} /\ None \notin State
    /\ None \notin Users \cup Machines \cup Codes \cup Tokens
    /\ {None, "nobody", "gone"} \cap Users = {} /\ None \notin {"nobody", "gone", "poll", "cycle", "revoke"}

VARIABLES
    side,      \* which of Sides this behaviour looks at
    code,      \* [Codes -> Grant]: at GitHub
    token,     \* [Tokens -> Session]: dashboard_session
    machine,   \* [Machines -> Users, None for no account, "nobody", "gone"]
    page,      \* what the page keeps
    flight,    \* [Flights -> Request]
    proc,      \* [Procs -> Command]
    file,      \* the state file
    lost       \* requests that got no answer (history)

Grant == [st : {"unused", "pending", "granted", "denied", "expired", "spent"}, by : Users \cup {None}]
Session == [life : {"unminted", "live", "expired"}, user : Users \cup {None}, code : Codes \cup {None}]
Page == [session : Tokens \cup {None}, panel : BOOLEAN, button : BOOLEAN, timer : Codes \cup {None},
         left : Nat, tick : 0 .. PollEvery, own : SUBSET Machines]
Kind == {"start", "poll", "cycle", "revoke", None}
Request == [kind : Kind, what : {"sent", "minting", "granted", "pending", "authorized", "refused",
                                 "unauthorized", "roster", "revoked", "missing", "lost"},
            token : Tokens \cup {None}, code : Codes \cup {None}, user : Users \cup {None},
            machine : Machines \cup {None}, own : SUBSET Machines]
Command == [cmd : {"login", "check_in", "loop", None},
            at : {"idle", "poll", "spend", "wait", "asked", "save"},
            code : Codes \cup {None}, user : Users \cup {None}, mem : State \cup {None},
            linked : Users \cup {None}]

vars == <<side, code, token, machine, page, flight, proc, file, lost>>
hub == <<code, token, machine>>
client == <<proc, file>>

NoFlight == [kind |-> None, what |-> "sent", token |-> None, code |-> None, user |-> None,
             machine |-> None, own |-> {}]
NoCommand == [cmd |-> None, at |-> "idle", code |-> None, user |-> None, mem |-> None,
              linked |-> None]

\* loadSession: the session of an earlier visit, if it is still there.
Init ==
    /\ side \in Sides
    /\ code = [c \in Codes |-> [st |-> "unused", by |-> None]]
    /\ token = [t \in Tokens |-> IF t = Saved THEN [life |-> "live", user |-> Visitor, code |-> None]
                                 ELSE [life |-> "unminted", user |-> None, code |-> None]]
    /\ machine = OwnerOf
    /\ page = [session |-> IF side = "page" THEN Saved ELSE None, panel |-> FALSE, button |-> TRUE,
               timer |-> None, left |-> 0, tick |-> 0, own |-> {}]
    /\ flight = [f \in Flights |-> NoFlight]
    /\ proc = [p \in Procs |-> NoCommand]
    /\ file = OldFile
    /\ lost = 0

-----------------------------------------------------------------------------
(* GitHub *)

Opened(c) == code[c].st = "unused" /\ code' = [code EXCEPT ![c].st = "pending"]

\* The person types the user code and grants or denies; a code lapses.
Decide(c, u) ==
    /\ code[c].st = "pending"
    /\ \/ code' = [code EXCEPT ![c] = [st |-> "granted", by |-> u]]
       \/ code' = [code EXCEPT ![c].st = "denied"]
    /\ UNCHANGED <<side, token, machine, page, flight, client, lost>>

Lapse(c) ==
    /\ code[c].st \in {"pending", "granted", "denied"}
    /\ code' = [code EXCEPT ![c].st = "expired"]
    /\ UNCHANGED <<side, token, machine, page, flight, client, lost>>

\* One poll: a granted code gives its access token to one of those who ask.
Spends(c) == code[c].st = "granted" /\ code' = [code EXCEPT ![c].st = "spent"]

-----------------------------------------------------------------------------
(* The hub *)

Answers(f, what) == flight' = [flight EXCEPT ![f].what = what]

Sent(f, kind) == flight[f].kind = kind /\ flight[f].what = "sent"

\* POST /auth/device/start
HubStart(f) ==
    /\ Sent(f, "start")
    /\ \/ \E c \in PageCodes : Opened(c) /\ flight' = [flight EXCEPT ![f].what = "granted", ![f].code = c]
       \/ Answers(f, "refused") /\ UNCHANGED code
    /\ UNCHANGED <<side, token, machine, page, client, lost>>

\* poll_device_token: a terminal refusal, an error code nobody defined and an
\* unreachable GitHub are errors; slow_down is one more way of not yet.
PollAnswers(c) == {"refused"} \cup (IF code[c].st = "pending" THEN {"pending"} ELSE {})

\* POST /auth/device/poll
HubPoll(f) ==
    /\ Sent(f, "poll")
    /\ \/ /\ Spends(flight[f].code)
          /\ flight' = [flight EXCEPT ![f].what = "minting", ![f].user = code[flight[f].code].by]
       \/ \E what \in PollAnswers(flight[f].code) : Answers(f, what) /\ UNCHANGED code
    /\ UNCHANGED <<side, token, machine, page, client, lost>>

\* create_session: a new token, of the account and for this answer only.
Minted(t, f) ==
    /\ token[t].life = "unminted"
    /\ token' = [token EXCEPT ![t] = [life |-> "live", user |-> flight[f].user, code |-> flight[f].code]]
    /\ flight' = [flight EXCEPT ![f].what = "authorized", ![f].token = t]

\* Mutant: a mint whose commit was not confirmed is tried again.
HubMintAgain(f) ==
    /\ flight[f].what = "minting"
    /\ \/ \E t \in Tokens : Minted(t, f)
       \/ /\ \E t \in Tokens : token[t].life = "unminted" /\ token' = [token EXCEPT
                ![t] = [life |-> "live", user |-> flight[f].user, code |-> flight[f].code]]
          /\ UNCHANGED flight
       \/ Answers(f, "refused") /\ UNCHANGED token
    /\ UNCHANGED <<side, code, machine, page, client, lost>>

\* _mint_session: the identity is read from GitHub and the session committed,
\* or nothing is; the code is spent either way.
HubMint(f) ==
    /\ flight[f].what = "minting"
    /\ \/ \E t \in Tokens : Minted(t, f)
       \/ Answers(f, "refused") /\ UNCHANGED token
    /\ UNCHANGED <<side, code, machine, page, client, lost>>

SessionExpires(t) ==
    /\ token[t].life = "live"
    /\ token' = [token EXCEPT ![t].life = "expired"]
    /\ UNCHANGED <<side, code, machine, page, flight, client, lost>>

\* get_identity_id_for_token: an expired row answers as one never issued.
Live(t) == token[t].life = "live"

Enrolled(m) == machine[m] \in Users \cup {None}

\* resolve_scoped_caller: a live session's identity, then a client's; {} is 401.
Caller(cred) ==
    IF cred \in Tokens
    THEN {[identity |-> token[t].user, client |-> None] : t \in {s \in {cred} : Live(s)}}
    ELSE {[identity |-> machine[m], client |-> m] : m \in {n \in {cred} : Enrolled(n)}}

\* list_clients: machines of accounts that share a repo, and the caller's own.
Roster(who) ==
    {m \in Machines : /\ Enrolled(m)
                      /\ \/ m = who.client
                         \/ who.identity # None /\ machine[m] \in Near[who.identity]}

\* Mutant: the guard against NULL = NULL is missing.
IsOwnUnguarded(who, m) == machine[m] = who.identity

\* list_clients_with_attestation
IsOwn(who, m) == who.identity # None /\ machine[m] = who.identity

\* authorize_client_revoke; None is answered 404.
RevokeAdmits(who, m) == Enrolled(m) /\ ~(who.identity = None \/ machine[m] # who.identity)

\* GET /jobs, /clients, /auth/me and /policies with one credential.
HubRead(f) ==
    /\ Sent(f, "cycle")
    /\ \/ Caller(flight[f].token) = {} /\ Answers(f, "unauthorized")
       \/ \E who \in Caller(flight[f].token) :
             flight' = [flight EXCEPT ![f].what = "roster", ![f].own = {m \in Roster(who) : IsOwn(who, m)}]
    /\ UNCHANGED <<side, hub, page, client, lost>>

\* DELETE /clients/{client_id}
HubRevoke(f) ==
    /\ Sent(f, "revoke")
    /\ \/ Caller(flight[f].token) = {} /\ Answers(f, "unauthorized") /\ UNCHANGED machine
       \/ \E who \in Caller(flight[f].token) :
             IF RevokeAdmits(who, flight[f].machine)
             THEN machine' = [machine EXCEPT ![flight[f].machine] = "gone"] /\ Answers(f, "revoked")
             ELSE Answers(f, "missing") /\ UNCHANGED machine
    /\ UNCHANGED <<side, code, token, page, client, lost>>

\* The same by somebody else's hand: another tab, or curl.
RevokeElsewhere(m) ==
    /\ machine[m] \in Users
    /\ machine' = [machine EXCEPT ![m] = "gone"]
    /\ UNCHANGED <<side, code, token, page, flight, client, lost>>

\* The request or its answer is lost, or the hub fails: what it did stays done.
Lose(f) ==
    /\ flight[f].kind # None /\ flight[f].what \notin {"minting", "lost"} /\ lost < MaxLost
    /\ lost' = lost + 1
    /\ Answers(f, "lost")
    /\ UNCHANGED <<side, hub, page, client>>

-----------------------------------------------------------------------------
(* The page *)

Fresh(kind, t, c, m) == [NoFlight EXCEPT !.kind = kind, !.token = t, !.code = c, !.machine = m]

Sends(f, kind, t, c, m) == flight' = [flight EXCEPT ![f] = Fresh(kind, t, c, m)]

Free(f) == flight[f].kind = None

Lands(f, kind, answers) == flight[f].kind = kind /\ flight[f].what \in answers

Done(f) == flight' = [flight EXCEPT ![f] = NoFlight]

\* showLogin clears the login timer and gives the button back, whatever for.
ShowLogin(p) == [p EXCEPT !.timer = None, !.left = 0, !.panel = TRUE, !.button = TRUE]

ClearSession(p) == ShowLogin([p EXCEPT !.session = None])

LoginFailed(p) == [p EXCEPT !.timer = None, !.left = 0, !.button = TRUE]

\* poll() on f, of a page that is otherwise p
Polls(f, p) ==
    IF p.session = None THEN page' = ShowLogin(p) /\ Done(f)
    ELSE page' = p /\ Sends(f, "cycle", p.session, None, None)

\* setInterval(poll, POLL_MS)
Interval ==
    /\ page.tick = 0
    /\ LET later == [page EXCEPT !.tick = PollEvery] IN
       IF page.session = None THEN page' = ShowLogin(later) /\ UNCHANGED flight
       ELSE \E f \in Flights : Free(f) /\ Polls(f, later)
    /\ UNCHANGED <<side, hub, client, lost>>

TimerDue == page.timer # None /\ page.left = 0

\* Timers that are due fire before time goes on.
Second ==
    /\ page.tick > 0 /\ ~TimerDue
    /\ page' = [page EXCEPT !.tick = @ - 1, !.left = IF page.timer = None THEN 0 ELSE @ - 1]
    /\ UNCHANGED <<side, hub, flight, client, lost>>

\* startLogin
ClickSignIn(f) ==
    /\ page.panel /\ page.button /\ Free(f)
    /\ page' = [page EXCEPT !.button = FALSE]
    /\ Sends(f, "start", None, None, None)
    /\ UNCHANGED <<side, hub, client, lost>>

\* pollLogin: one timer, whatever was set before.
PollLater(c) == \E n \in Intervals : page' = [page EXCEPT !.timer = c, !.left = n]

StartLands(f) ==
    /\ \/ Lands(f, "start", {"granted"}) /\ PollLater(flight[f].code)
       \/ Lands(f, "start", {"refused", "lost"}) /\ page' = LoginFailed(page)
    /\ Done(f)
    /\ UNCHANGED <<side, hub, client, lost>>

LoginTimer(f) ==
    /\ TimerDue /\ Free(f)
    /\ Sends(f, "poll", None, page.timer, None)
    /\ page' = [page EXCEPT !.timer = None]
    /\ UNCHANGED <<side, hub, client, lost>>

\* authorized: saveSession, then poll().
PollLands(f) ==
    /\ \/ Lands(f, "poll", {"pending"}) /\ PollLater(flight[f].code) /\ Done(f)
       \/ Lands(f, "poll", {"refused", "lost"}) /\ page' = LoginFailed(page) /\ Done(f)
       \/ /\ Lands(f, "poll", {"authorized"})
          /\ Polls(f, [page EXCEPT !.session = flight[f].token, !.panel = FALSE])
    /\ UNCHANGED <<side, hub, client, lost>>

\* Mutant: a session that is over is one more failure to report.
CycleLandsAnyway(f) ==
    /\ \/ Lands(f, "cycle", {"unauthorized", "lost"}) /\ UNCHANGED page
       \/ Lands(f, "cycle", {"roster"}) /\ page' = [page EXCEPT !.own = flight[f].own]
    /\ Done(f)
    /\ UNCHANGED <<side, hub, client, lost>>

\* The rest of poll()
CycleLands(f) ==
    /\ \/ Lands(f, "cycle", {"unauthorized"}) /\ page' = ClearSession(page)
       \/ Lands(f, "cycle", {"lost"}) /\ UNCHANGED page
       \/ Lands(f, "cycle", {"roster"}) /\ page' = [page EXCEPT !.own = flight[f].own]
    /\ Done(f)
    /\ UNCHANGED <<side, hub, client, lost>>

\* revokeClient: a row has a button if it is the caller's own; while its
\* request is under way the button is off.
ClickRevoke(f, m) ==
    /\ m \in page.own /\ page.session # None /\ Free(f)
    /\ \A g \in Flights : flight[g].kind = "revoke" => flight[g].machine # m
    /\ Sends(f, "revoke", page.session, None, m)
    /\ UNCHANGED <<side, hub, page, client, lost>>

\* 204 and 404 alike take the row off the page.
RevokeLands(f) ==
    /\ \/ Lands(f, "revoke", {"unauthorized"}) /\ page' = ClearSession(page) /\ Done(f)
       \/ Lands(f, "revoke", {"lost"}) /\ UNCHANGED page /\ Done(f)
       \/ /\ Lands(f, "revoke", {"revoked", "missing"})
          /\ Polls(f, [page EXCEPT !.own = @ \ {flight[f].machine}])
    /\ UNCHANGED <<side, hub, client, lost>>

-----------------------------------------------------------------------------
(* The commands of the client *)

Becomes(p, c) == proc' = [proc EXCEPT ![p] = c]

Exits(p) == Becomes(p, NoCommand)

\* _request_device_code
RequestCode(p, cmd) ==
    /\ proc[p].cmd = None /\ cmd \in {"login", "check_in"}
    /\ \E c \in Codes : Opened(c) /\ Becomes(p, [NoCommand EXCEPT !.cmd = cmd, !.at = "poll", !.code = c])
    /\ UNCHANGED <<side, token, machine, page, flight, file, lost>>

\* Mutant: every answer but a token means not yet.
PollGithubForEver(p) ==
    /\ proc[p].at = "poll"
    /\ Spends(proc[p].code)
    /\ Becomes(p, [proc[p] EXCEPT !.at = "spend", !.user = code[proc[p].code].by])
    /\ UNCHANGED <<side, token, machine, page, flight, file, lost>>

\* _poll_for_access_token: pending and slow_down go on, all else ends it, an
\* HTTP error too.
PollGithub(p) ==
    /\ proc[p].at = "poll"
    /\ \/ /\ Spends(proc[p].code)
          /\ Becomes(p, [proc[p] EXCEPT !.at = "spend", !.user = code[proc[p].code].by])
          /\ UNCHANGED lost
       \/ code[proc[p].code].st \in {"denied", "expired"} /\ Exits(p) /\ UNCHANGED <<code, lost>>
       \/ lost < MaxLost /\ lost' = lost + 1 /\ Exits(p) /\ UNCHANGED code
    /\ UNCHANGED <<side, token, machine, page, flight, file>>

\* POST /clients with the token of an account: always a new row.
Registers(m, u) == machine[m] = "nobody" /\ machine' = [machine EXCEPT ![m] = u]

\* cmd_login, which may opt out of keeping tokens. An answer that is lost
\* leaves a row that nobody has the token of.
Enrol(p, m) ==
    /\ proc[p].cmd = "login" /\ proc[p].at = "spend"
    /\ Registers(m, proc[p].user)
    /\ \/ \E keep \in BOOLEAN :
             Becomes(p, [proc[p] EXCEPT !.at = "save", !.mem = [machine |-> m, of |-> None, keeps |-> keep]])
          /\ UNCHANGED lost
       \/ lost < MaxLost /\ lost' = lost + 1 /\ Exits(p)
    /\ UNCHANGED <<side, code, token, page, flight, file>>

EnrolRefused(p) ==
    /\ proc[p].cmd = "login" /\ proc[p].at = "spend"
    /\ Exits(p)
    /\ UNCHANGED <<side, hub, page, flight, file, lost>>

\* The state file is read after the flow; without one the command exits.
LoadState(p) ==
    /\ \/ proc[p].cmd = "check_in" /\ proc[p].at = "spend"
          /\ IF file = None THEN Exits(p) ELSE Becomes(p, [proc[p] EXCEPT !.at = "wait", !.mem = file])
       \/ proc[p].cmd = None /\ file # None
          /\ Becomes(p, [NoCommand EXCEPT !.cmd = "loop", !.at = "wait", !.user = file.of, !.mem = file])
    /\ UNCHANGED <<side, hub, page, flight, file, lost>>

\* POST /clients/check-in with a token: the handler loads the client's row, and
\* only then asks GitHub whose the token is.
CheckInAsks(p) ==
    /\ proc[p].at = "wait" /\ proc[p].user # None
    /\ Enrolled(proc[p].mem.machine)
    /\ Becomes(p, [proc[p] EXCEPT !.at = "asked", !.linked = machine[proc[p].mem.machine]])
    /\ UNCHANGED <<side, hub, page, flight, file, lost>>

Answered(p) == Becomes(p, [proc[p] EXCEPT !.at = "save", !.linked = None])

\* reattest_identity: a token of the account the row was linked to, or the
\* first one of a row without an account, which it is linked to.
CheckIn(p) ==
    LET m == proc[p].mem.machine IN
    /\ proc[p].at = "asked" /\ proc[p].linked \in {proc[p].user, None} /\ Enrolled(m)
    /\ machine' = IF proc[p].linked = None THEN [machine EXCEPT ![m] = proc[p].user] ELSE machine
    /\ Answered(p)
    /\ UNCHANGED <<side, code, token, page, flight, file, lost>>

\* GitHub cannot be reached: the hub lets the check-in through, whosever the
\* token is, and the client cannot tell that answer from the other.
CheckInLetThrough(p) ==
    /\ proc[p].at = "asked" /\ Enrolled(proc[p].mem.machine) /\ lost < MaxLost
    /\ lost' = lost + 1
    /\ Answered(p)
    /\ UNCHANGED <<side, hub, page, flight, file>>

\* A token of another account or one that GitHub refuses, a machine that is
\* gone, an error of the hub: the command ends, the loop goes on.
CheckInRefused(p) ==
    /\ proc[p].at \in {"wait", "asked"} /\ proc[p].user # None
    /\ IF proc[p].cmd = "loop" THEN Becomes(p, [proc[p] EXCEPT !.at = "wait", !.linked = None]) ELSE Exits(p)
    /\ UNCHANGED <<side, hub, page, flight, file, lost>>

\* _persist_github_tokens writes the whole of what this process holds.
Save(p) ==
    LET kept == [proc[p].mem EXCEPT !.of = IF proc[p].mem.keeps THEN proc[p].user ELSE None] IN
    /\ proc[p].at = "save"
    /\ file' = kept
    /\ IF proc[p].cmd = "loop" THEN Becomes(p, [proc[p] EXCEPT !.at = "wait", !.mem = kept]) ELSE Exits(p)
    /\ UNCHANGED <<side, hub, page, flight, lost>>

\* A process is killed, at any step.
Kill(p) ==
    /\ proc[p].cmd # None
    /\ Exits(p)
    /\ UNCHANGED <<side, hub, page, flight, file, lost>>

-----------------------------------------------------------------------------
PageStep(f) == LoginTimer(f) \/ StartLands(f) \/ PollLands(f) \/ CycleLands(f) \/ RevokeLands(f)

HubStep(f) == HubStart(f) \/ HubPoll(f) \/ HubMint(f) \/ HubRead(f) \/ HubRevoke(f)

CommandStep(p) == PollGithub(p) \/ (\E m \in Machines : Enrol(p, m)) \/ EnrolRefused(p)
               \/ (proc[p].cmd # None /\ LoadState(p)) \/ Save(p)
               \/ CheckInAsks(p) \/ CheckIn(p) \/ CheckInLetThrough(p) \/ CheckInRefused(p)

Next ==
    \/ \E c \in Codes : Lapse(c) \/ \E u \in Users : Decide(c, u)
    \/ side = "page" /\ (Interval \/ Second)
    \/ side = "page" /\ \E f \in Flights : PageStep(f) \/ HubStep(f) \/ ClickSignIn(f) \/ Lose(f)
    \/ side = "page" /\ \E f \in Flights, m \in Machines : ClickRevoke(f, m)
    \/ side = "page" /\ \E t \in Tokens : SessionExpires(t)
    \/ \E m \in Machines : RevokeElsewhere(m)
    \/ side = "client" /\ \E p \in Procs :
          CommandStep(p) \/ LoadState(p) \/ Kill(p) \/ \E cmd \in {"login", "check_in"} : RequestCode(p, cmd)

Spec == Init /\ [][Next]_vars

\* Timers fire, requests are answered, commands go on, GitHub's codes lapse.
\* Nobody has to click, and no session has to expire.
Fairness ==
    /\ WF_vars(side = "page" /\ (Interval \/ Second))
    /\ \A f \in Flights : WF_vars(side = "page" /\ (PageStep(f) \/ HubStep(f)))
    /\ \A p \in Procs : WF_vars(side = "client" /\ CommandStep(p))
    /\ \A c \in Codes : WF_vars(Lapse(c))

FairSpec == Spec /\ Fairness

TypeOK ==
    /\ side \in Sides /\ lost \in 0 .. MaxLost
    /\ code \in [Codes -> Grant] /\ token \in [Tokens -> Session]
    /\ machine \in [Machines -> Users \cup {None, "nobody", "gone"}]
    /\ page \in Page /\ flight \in [Flights -> Request]
    /\ proc \in [Procs -> Command] /\ file \in State \cup {None}

-----------------------------------------------------------------------------
(* Properties *)

\* Polls may be repeated, answers lost and mints fail: a code gives one session
\* at most, and that is of the account that granted it.
CodeGivesOneSession ==
    \A t \in Tokens : token[t].code # None =>
          /\ code[token[t].code] = [st |-> "spent", by |-> token[t].user]
          /\ \A s \in Tokens \ {t} : token[s].code # token[t].code

\* The roster says "yours" of exactly the machines that a DELETE with the same
\* credential would be granted, and only those rows get a button: a revoke is
\* never answered 404 while the machine is one of the caller's account.
OwnIsRevocable ==
    /\ \A cred \in Tokens \cup Machines : \A who \in Caller(cred) :
          \A m \in Roster(who) : IsOwn(who, m) <=> RevokeAdmits(who, m)
    /\ \A f \in Flights : Lands(f, "revoke", {"missing"}) =>
          machine[flight[f].machine] # token[flight[f].token].user

\* Nobody is left waiting by the page: a login that was clicked ends or gives
\* the button back, whatever became of the code; a session that is over is
\* dropped, and a machine that is gone leaves a signed-in page for good.
NobodyWaitsForEver ==
    /\ (page.panel /\ ~page.button) ~> (page.button \/ ~page.panel)
    /\ (page.session # None /\ ~Live(page.session)) ~> (page.session = None \/ Live(page.session))
    /\ \A m \in Machines : <>[](machine[m] = "gone") => <>[](m \notin page.own \/ page.session = None)

\* A login or a check-in on the command line ends, even if the person denies or
\* forgets it, somebody else revokes the machine meanwhile, or GitHub is away.
CommandsEnd ==
    \A p \in Procs : proc[p].cmd \in {"login", "check_in"} ~> proc[p].cmd \notin {"login", "check_in"}

(* What the docs say, and the page and the client do not do *)

\* "Stored only once the hub accepted them: a token it refused is not one `loop'
\* should later find on disk": the tokens in the state file are of the account
\* of the machine beside them.
StoredOnlyAccepted == file # None => file.of = None \/ machine[file.machine] \in {file.of, "gone"}

\* "or just re-run `login', which overwrites what is stored": from then on only
\* another login changes which machine the file is of and whether it keeps
\* tokens.
LoginOverwrites ==
    [][file # None /\ [file' EXCEPT !.of = file.of] # file =>
          \E p \in Procs : proc[p].at = "save" /\ proc[p].cmd = "login" /\ proc'[p] = NoCommand]_vars

\* "it asks the hub to open the flow and then polls the hub"
ThenPolls ==
    \A c \in Codes : page.timer = c ~> \E f \in Flights : flight[f].kind = "poll" /\ flight[f].code = c

\* "Expired or revoked. Drop it": only a session the hub refuses is dropped.
DropsOnlyRefused ==
    [][page.session # None /\ page'.session = None => token[page.session].life = "expired"]_vars

\* "from the rail, either one means the row is gone"
MissingMeansGone ==
    \A f \in Flights : Lands(f, "revoke", {"missing"}) => machine[flight[f].machine] = "gone"
=============================================================================
