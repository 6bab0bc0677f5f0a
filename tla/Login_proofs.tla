---------------------------- MODULE Login_proofs ----------------------------
(***************************************************************************)
(* What Login.tla promises of its credentials, for every value of its      *)
(* constants: as many accounts, codes, sessions, requests and commands as  *)
(* one likes.  The liveness of signing in is left to TLC.                  *)
(***************************************************************************)
EXTENDS Login, TLAPS

-----------------------------------------------------------------------------
(* The inductive invariant *)

\* A code that was granted is somebody's.
GrantOK(c) == code[c].st \in {"granted", "spent"} => code[c].by \in Users

\* A session there is, or was, is an account's, and the only one of its code.
SessionOK(t) ==
    /\ token[t].life # "unminted" => token[t].user \in Users
    /\ token[t].code # None =>
          /\ code[token[t].code] = [st |-> "spent", by |-> token[t].user]
          /\ \A s \in Tokens \ {t} : token[s].code # token[t].code

\* Between spending a code and minting its session a request alone holds it.
MintingOK(f) ==
    flight[f].what = "minting" =>
       /\ flight[f].code # None /\ flight[f].user \in Users
       /\ code[flight[f].code] = [st |-> "spent", by |-> flight[f].user]
       /\ \A t \in Tokens : token[t].code # flight[f].code
       /\ \A g \in Flights \ {f} : flight[g].what = "minting" => flight[g].code # flight[f].code

\* A token the page has, or has sent, was minted.
MintedOnce(t) == t # None /\ token[t].life # "unminted"

\* What a request carries; a revoke answered 404 is of a machine that is not
\* the caller's, and on the page's side no machine is linked to anybody later.
RequestOK(r) ==
    /\ r.kind = "poll" => r.code # None
    /\ r.kind \in {"cycle", "revoke"} \/ r.what = "authorized" => MintedOnce(r.token)
    /\ r.kind = "revoke" => r.machine # None
    /\ r.kind = "revoke" /\ r.what = "missing" => machine[r.machine] # token[r.token].user

\* A command that polls has a code, one that is past its flow a state.
CommandOK(d) ==
    /\ d.at = "poll" => d.code # None
    /\ d.at \in {"wait", "asked", "save"} => d.mem \in State

LoginInv ==
    /\ TypeOK
    /\ \A c \in Codes : GrantOK(c)
    /\ \A t \in Tokens : SessionOK(t)
    /\ \A f \in Flights : MintingOK(f) /\ RequestOK(flight[f])
    /\ side # "page" => \A f \in Flights : flight[f] = NoFlight
    /\ page.session # None => MintedOnce(page.session)
    /\ \A p \in Procs : CommandOK(proc[p])


-----------------------------------------------------------------------------
(* The operators of the page *)

\* What the page does to itself keeps it a page; only ClearSession drops the session.
LEMMA PageTypes ==
    ASSUME NEW p \in Page
    PROVE  /\ ShowLogin(p) \in Page /\ ShowLogin(p).session = p.session
           /\ ClearSession(p) \in Page /\ ClearSession(p).session = None
           /\ LoginFailed(p) \in Page /\ LoginFailed(p).session = p.session
<1>1. 0 \in Nat
  OBVIOUS
<1>2. ShowLogin(p) \in Page /\ ShowLogin(p).session = p.session
  BY <1>1 DEF ShowLogin, Page
<1>3. LoginFailed(p) \in Page /\ LoginFailed(p).session = p.session
  BY <1>1 DEF LoginFailed, Page
<1>4. [p EXCEPT !.session = None] \in Page /\ [p EXCEPT !.session = None].session = None
  BY DEF Page
<1>5. ClearSession(p) \in Page /\ ClearSession(p).session = None
  BY <1>1, <1>4 DEF ClearSession, ShowLogin, Page
<1> QED
  BY <1>2, <1>3, <1>5

\* A request as the page sends it: what it asks with is what the page has.
Asks(r) ==
    /\ r \in Request /\ r.what = "sent"
    /\ r.kind = "poll" => r.code # None
    /\ r.kind \in {"cycle", "revoke"} => MintedOnce(r.token)
    /\ r.kind = "revoke" => r.machine # None

\* A request that was just sent is one.
LEMMA FreshAsks ==
    ASSUME LoginAssumption,
           NEW kind \in Kind, NEW t \in Tokens \cup {None}, NEW c \in Codes \cup {None},
           NEW m \in Machines \cup {None},
           kind = "poll" => c # None,
           kind \in {"cycle", "revoke"} => MintedOnce(t),
           kind = "revoke" => m # None
    PROVE  Asks(Fresh(kind, t, c, m))
BY DEF Asks, Fresh, NoFlight, Request, Kind

\* No request asks for nothing.
LEMMA NoFlightAsks ==
    ASSUME LoginAssumption
    PROVE  Asks(NoFlight)
BY DEF Asks, NoFlight, Request, Kind, LoginAssumption

\* The page changes itself, and answers give way to requests it may send; it
\* touches neither the hub nor the client.
LEMMA PageMoves ==
    ASSUME LoginAssumption, LoginInv, side = "page", UNCHANGED <<side, hub, client, lost>>,
           page' \in Page, page'.session # None => MintedOnce(page'.session),
           flight' \in [Flights -> Request],
           \A f \in Flights : flight'[f] = flight[f] \/ Asks(flight'[f])
    PROVE  LoginInv'
<1> USE DEF LoginInv
<1>1. TypeOK'
  BY DEF TypeOK, hub, client
<1>2. \A c \in Codes : GrantOK(c)'
  BY DEF GrantOK, hub
<1>3. \A t \in Tokens : SessionOK(t)'
  BY DEF SessionOK, hub
<1>4. ASSUME NEW f \in Flights
      PROVE  MintingOK(f)' /\ RequestOK(flight[f])'
  <2>1. CASE flight'[f] = flight[f]
    <3>1. \A g \in Flights : flight'[g].what = "minting" => flight'[g] = flight[g]
      BY DEF Asks
    <3>2. MintingOK(f)'
      BY <2>1, <3>1 DEF MintingOK, hub
    <3>3. RequestOK(flight[f])'
      BY <2>1 DEF RequestOK, MintedOnce, Lands, hub
    <3> QED
      BY <3>2, <3>3
  <2>2. CASE Asks(flight'[f])
    BY <2>2 DEF Asks, MintingOK, RequestOK, MintedOnce, Lands, hub
  <2> QED
    BY <2>1, <2>2
<1>5. page'.session # None => MintedOnce(page.session)'
  BY DEF MintedOnce, hub
<1>6. \A p \in Procs : CommandOK(proc[p])'
  BY DEF CommandOK, hub, client
<1> QED
  BY <1>1, <1>2, <1>3, <1>4, <1>5, <1>6

\* The same where one request is the only one to change.
LEMMA PageMovesOne ==
    ASSUME LoginAssumption, LoginInv, side = "page", UNCHANGED <<side, hub, client, lost>>,
           page' \in Page, page'.session # None => MintedOnce(page'.session),
           NEW f \in Flights, NEW r, Asks(r), flight' = [flight EXCEPT ![f] = r]
    PROVE  LoginInv'
<1>1. flight \in [Flights -> Request] /\ r \in Request
  BY DEF LoginInv, TypeOK, Asks
<1>2. flight' \in [Flights -> Request] /\ \A g \in Flights : flight'[g] = flight[g] \/ Asks(flight'[g])
  BY <1>1
<1> QED
  BY <1>2, PageMoves


\* A cycle starts with the session the page has, or shows the login.
LEMMA PollsMoves ==
    ASSUME LoginAssumption, LoginInv, side = "page", UNCHANGED <<side, hub, client, lost>>,
           NEW f \in Flights, NEW p \in Page, p.session # None => MintedOnce(p.session), Polls(f, p)
    PROVE  LoginInv'
<1>1. CASE p.session = None
  <2>1. page' = ShowLogin(p) /\ flight' = [flight EXCEPT ![f] = NoFlight]
    BY <1>1 DEF Polls, Done
  <2>2. page' \in Page /\ page'.session = None
    BY <1>1, <2>1, PageTypes
  <2> QED
    BY <2>1, <2>2, NoFlightAsks, PageMovesOne
<1>2. CASE p.session # None
  <2>1. page' = p /\ flight' = [flight EXCEPT ![f] = Fresh("cycle", p.session, None, None)]
    BY <1>2 DEF Polls, Sends
  <2>2. p.session \in Tokens \cup {None} /\ "cycle" \in Kind
    BY DEF Page, Kind
  <2>3. Asks(Fresh("cycle", p.session, None, None))
    BY <1>2, <2>2, FreshAsks
  <2> QED
    BY <2>1, <2>3, PageMovesOne
<1> QED
  BY <1>1, <1>2

-----------------------------------------------------------------------------
(* What the page does *)

\* The page of a state of the system is a page, and has what it was given.
LEMMA PageThere ==
    ASSUME LoginInv
    PROVE  page \in Page /\ (page.session # None => MintedOnce(page.session))
BY DEF LoginInv, TypeOK

LEMMA IntervalKeeps ==
    ASSUME LoginAssumption, LoginInv, side = "page", Interval
    PROVE  LoginInv'
<1>1. PICK later \in Page : later = [page EXCEPT !.tick = PollEvery] /\ later.session = page.session
  <2>1. [page EXCEPT !.tick = PollEvery] \in Page /\ [page EXCEPT !.tick = PollEvery].session = page.session
    BY PageThere DEF Page, LoginAssumption
  <2> QED
    BY <2>1
<1>2. CASE page.session = None
  <2>1. page' = ShowLogin(later) /\ UNCHANGED flight
    BY <1>1, <1>2 DEF Interval
  <2>2. page' \in Page /\ page'.session = None
    BY <1>1, <1>2, <2>1, PageTypes
  <2>3. flight' \in [Flights -> Request]
    BY <2>1 DEF LoginInv, TypeOK
  <2>4. UNCHANGED <<side, hub, client, lost>> /\ \A f \in Flights : flight'[f] = flight[f]
    BY <2>1 DEF Interval
  <2> QED
    BY <2>2, <2>3, <2>4, PageMoves
<1>3. CASE page.session # None
  <2>1. PICK f \in Flights : Polls(f, later)
    BY <1>1, <1>3 DEF Interval
  <2> QED
    BY <1>1, <2>1, PageThere, PollsMoves DEF Interval
<1> QED
  BY <1>2, <1>3

LEMMA SecondKeeps ==
    ASSUME LoginAssumption, LoginInv, side = "page", Second
    PROVE  LoginInv'
<1>1. page \in Page
  BY PageThere
<1>2. PICK left \in Nat : page' = [page EXCEPT !.tick = page.tick - 1, !.left = left]
  <2>1. CASE page.timer = None
    BY <2>1 DEF Second
  <2>2. CASE page.timer # None
    <3>1. page.left \in Nat /\ page.left # 0
      BY <1>1, <2>2 DEF Second, TimerDue, Page
    <3>2. page.left - 1 \in Nat
      BY <3>1
    <3>3. page' = [page EXCEPT !.tick = page.tick - 1, !.left = page.left - 1]
      BY <2>2, <1>1 DEF Second, Page
    <3> QED
      BY <3>2, <3>3
  <2> QED
    BY <2>1, <2>2
<1>3. page.tick - 1 \in 0 .. PollEvery
  BY <1>1 DEF Second, Page, LoginAssumption
<1>4. page' \in Page /\ page'.session = page.session
  BY <1>1, <1>2, <1>3 DEF Page
<1>5. flight' = flight /\ flight' \in [Flights -> Request] /\ UNCHANGED <<side, hub, client, lost>>
  BY DEF Second, LoginInv, TypeOK
<1> QED
  BY <1>4, <1>5, PageThere, PageMoves

LEMMA ClickSignInKeeps ==
    ASSUME LoginAssumption, LoginInv, side = "page", NEW f \in Flights, ClickSignIn(f)
    PROVE  LoginInv'
<1>1. page' \in Page /\ page'.session = page.session
  BY PageThere DEF ClickSignIn, Page
<1>2. Asks(Fresh("start", None, None, None))
  BY FreshAsks DEF Kind
<1> QED
  BY <1>1, <1>2, PageThere, PageMovesOne DEF ClickSignIn, Sends

LEMMA PollLaterMoves ==
    ASSUME LoginAssumption, NEW p \in Page, p = page, NEW c \in Codes \cup {None}, PollLater(c)
    PROVE  page' \in Page /\ page'.session = p.session
<1>1. PICK n \in Intervals : page' = [p EXCEPT !.timer = c, !.left = n]
  BY DEF PollLater
<1>2. n \in Nat
  BY DEF LoginAssumption
<1> QED
  BY <1>1, <1>2 DEF Page

\* What a request of the page carries.
LEMMA Carries ==
    ASSUME LoginInv, NEW f \in Flights
    PROVE  /\ flight[f] \in Request
           /\ flight[f].code \in Codes \cup {None} /\ flight[f].token \in Tokens \cup {None}
           /\ flight[f].machine \in Machines \cup {None} /\ flight[f].own \subseteq Machines
           /\ flight[f].user \in Users \cup {None}
<1>1. flight[f] \in Request
  BY DEF LoginInv, TypeOK
<1> QED
  BY <1>1 DEF Request

LEMMA StartLandsKeeps ==
    ASSUME LoginAssumption, LoginInv, side = "page", NEW f \in Flights, StartLands(f)
    PROVE  LoginInv'
<1>1. page' \in Page /\ page'.session = page.session
  BY PageThere, PageTypes, PollLaterMoves, Carries DEF StartLands
<1> QED
  BY <1>1, PageThere, NoFlightAsks, PageMovesOne DEF StartLands, Done

LEMMA LoginTimerKeeps ==
    ASSUME LoginAssumption, LoginInv, side = "page", NEW f \in Flights, LoginTimer(f)
    PROVE  LoginInv'
<1>1. page' \in Page /\ page'.session = page.session
  BY PageThere DEF LoginTimer, Page
<1>2. page.timer \in Codes \cup {None} /\ page.timer # None
  BY PageThere DEF LoginTimer, TimerDue, Page
<1>3. Asks(Fresh("poll", None, page.timer, None))
  BY <1>2, FreshAsks DEF Kind
<1> QED
  BY <1>1, <1>3, PageThere, PageMovesOne DEF LoginTimer, Sends

LEMMA PollLandsKeeps ==
    ASSUME LoginAssumption, LoginInv, side = "page", NEW f \in Flights, PollLands(f)
    PROVE  LoginInv'
<1>1. CASE Done(f) /\ (PollLater(flight[f].code) \/ page' = LoginFailed(page))
  <2>1. page' \in Page /\ page'.session = page.session
    BY <1>1, PageThere, PageTypes, PollLaterMoves, Carries
  <2>2. flight' = [flight EXCEPT ![f] = NoFlight] /\ UNCHANGED <<side, hub, client, lost>>
    BY <1>1 DEF PollLands, Done
  <2>3. page'.session # None => MintedOnce(page'.session)
    BY <2>1, PageThere
  <2> QED
    BY <2>1, <2>2, <2>3, NoFlightAsks, PageMovesOne
<1>2. CASE Lands(f, "poll", {"authorized"})
           /\ Polls(f, [page EXCEPT !.session = flight[f].token, !.panel = FALSE])
  <2>1. MintedOnce(flight[f].token)
    BY <1>2 DEF LoginInv, RequestOK, Lands
  <2>2. PICK p \in Page : /\ p = [page EXCEPT !.session = flight[f].token, !.panel = FALSE]
                          /\ p.session = flight[f].token
    <3>1. /\ [page EXCEPT !.session = flight[f].token, !.panel = FALSE] \in Page
          /\ [page EXCEPT !.session = flight[f].token, !.panel = FALSE].session = flight[f].token
      BY PageThere, Carries DEF Page
    <3> QED
      BY <3>1
  <2>3. Polls(f, p)
    BY <1>2, <2>2
  <2> QED
    BY <2>1, <2>2, <2>3, PollsMoves DEF PollLands
<1> QED
  BY <1>1, <1>2 DEF PollLands

LEMMA CycleLandsKeeps ==
    ASSUME LoginAssumption, LoginInv, side = "page", NEW f \in Flights, CycleLands(f)
    PROVE  LoginInv'
<1>1. page' \in Page /\ page'.session \in {None, page.session}
  <2>1. [page EXCEPT !.own = flight[f].own] \in Page
        /\ [page EXCEPT !.own = flight[f].own].session = page.session
    BY PageThere, Carries DEF Page
  <2> QED
    BY <2>1, PageThere, PageTypes DEF CycleLands
<1> QED
  BY <1>1, PageThere, NoFlightAsks, PageMovesOne DEF CycleLands, Done

LEMMA ClickRevokeKeeps ==
    ASSUME LoginAssumption, LoginInv, side = "page", NEW f \in Flights, NEW m \in Machines, ClickRevoke(f, m)
    PROVE  LoginInv'
<1>1. page.session \in Tokens \cup {None} /\ page.session # None
  BY PageThere DEF ClickRevoke, Page
<1>2. m # None
  BY DEF LoginAssumption
<1>3. Asks(Fresh("revoke", page.session, None, m))
  BY <1>1, <1>2, PageThere, FreshAsks DEF Kind
<1> QED
  BY <1>3, PageThere, PageMovesOne DEF ClickRevoke, Sends

LEMMA RevokeLandsKeeps ==
    ASSUME LoginAssumption, LoginInv, side = "page", NEW f \in Flights, RevokeLands(f)
    PROVE  LoginInv'
<1>1. CASE Done(f) /\ (page' = ClearSession(page) \/ page' = page)
  <2>1. page' \in Page /\ page'.session \in {None, page.session}
    BY <1>1, PageThere, PageTypes
  <2>2. flight' = [flight EXCEPT ![f] = NoFlight] /\ UNCHANGED <<side, hub, client, lost>>
    BY <1>1 DEF RevokeLands, Done
  <2>3. page'.session # None => MintedOnce(page'.session)
    BY <2>1, PageThere
  <2> QED
    BY <2>1, <2>2, <2>3, NoFlightAsks, PageMovesOne
<1>2. CASE Polls(f, [page EXCEPT !.own = @ \ {flight[f].machine}])
  <2>1. PICK p \in Page : /\ p = [page EXCEPT !.own = @ \ {flight[f].machine}]
                          /\ p.session = page.session
    <3>1. /\ [page EXCEPT !.own = page.own \ {flight[f].machine}] \in Page
          /\ [page EXCEPT !.own = page.own \ {flight[f].machine}].session = page.session
      BY PageThere DEF Page
    <3> QED
      BY <3>1
  <2>2. Polls(f, p)
    BY <1>2, <2>1
  <2> QED
    BY <2>1, <2>2, PageThere, PollsMoves DEF RevokeLands
<1> QED
  BY <1>1, <1>2 DEF RevokeLands


-----------------------------------------------------------------------------
(* What GitHub and the hub do *)

\* A code is spent for good.
SpentStays == \A c \in Codes : code[c].st = "spent" => code'[c] = code[c]

\* Codes that go on, all else as it was.
LEMMA CodesMove ==
    ASSUME LoginAssumption, LoginInv, UNCHANGED <<side, token, machine, page, flight, client, lost>>,
           code' \in [Codes -> Grant], SpentStays, \A c \in Codes : GrantOK(c)'
    PROVE  LoginInv'
<1> USE DEF LoginInv
<1>1. TypeOK'
  BY DEF TypeOK, client
<1>2. \A t \in Tokens : SessionOK(t)'
  <2> SUFFICES ASSUME NEW t \in Tokens PROVE SessionOK(t)'
    OBVIOUS
  <2>1. token[t].code \in Codes \cup {None}
    BY DEF TypeOK, Session
  <2> QED
    BY <2>1 DEF SessionOK, SpentStays
<1>3. \A f \in Flights : MintingOK(f)' /\ RequestOK(flight[f])'
  <2> SUFFICES ASSUME NEW f \in Flights PROVE MintingOK(f)' /\ RequestOK(flight[f])'
    OBVIOUS
  <2>1. flight[f].code \in Codes \cup {None}
    BY Carries
  <2>2. MintingOK(f)'
    BY <2>1 DEF MintingOK, SpentStays
  <2>3. RequestOK(flight[f])'
    BY DEF RequestOK, MintedOnce, Lands
  <2> QED
    BY <2>2, <2>3
<1>4. (page.session # None => MintedOnce(page.session))'
  BY DEF MintedOnce
<1>5. \A p \in Procs : CommandOK(proc[p])'
  BY DEF CommandOK, client
<1> QED
  BY <1>1, <1>2, <1>3, <1>4, <1>5

LEMMA DecideKeeps ==
    ASSUME LoginAssumption, LoginInv, NEW c \in Codes, NEW u \in Users, Decide(c, u)
    PROVE  LoginInv'
<1>1. code \in [Codes -> Grant]
  BY DEF LoginInv, TypeOK
<1>2. PICK g \in Grant : code' = [code EXCEPT ![c] = g] /\ (g.st \in {"granted", "spent"} => g.by \in Users)
  <2>1. [st |-> "granted", by |-> u] \in Grant
    BY DEF Grant
  <2>2. [code[c] EXCEPT !.st = "denied"] \in Grant /\ [code[c] EXCEPT !.st = "denied"].st = "denied"
    BY <1>1 DEF Grant
  <2>3. CASE code' = [code EXCEPT ![c].st = "denied"]
    BY <2>2, <2>3
  <2>4. CASE code' = [code EXCEPT ![c] = [st |-> "granted", by |-> u]]
    BY <2>1, <2>4
  <2> QED
    BY <2>3, <2>4 DEF Decide
<1>3. code' \in [Codes -> Grant] /\ SpentStays
  BY <1>1, <1>2 DEF SpentStays, Decide
<1>4. \A d \in Codes : GrantOK(d)'
  BY <1>1, <1>2 DEF GrantOK, LoginInv
<1> QED
  BY <1>3, <1>4, CodesMove DEF Decide

LEMMA LapseKeeps ==
    ASSUME LoginAssumption, LoginInv, NEW c \in Codes, Lapse(c)
    PROVE  LoginInv'
<1>1. code \in [Codes -> Grant]
  BY DEF LoginInv, TypeOK
<1>2. PICK g \in Grant : code' = [code EXCEPT ![c] = g] /\ g.st = "expired"
  <2>1. [code[c] EXCEPT !.st = "expired"] \in Grant /\ [code[c] EXCEPT !.st = "expired"].st = "expired"
    BY <1>1 DEF Grant
  <2> QED
    BY <2>1 DEF Lapse
<1>3. code' \in [Codes -> Grant] /\ SpentStays
  BY <1>1, <1>2 DEF SpentStays, Lapse
<1>4. \A d \in Codes : GrantOK(d)'
  BY <1>1, <1>2 DEF GrantOK, LoginInv
<1> QED
  BY <1>3, <1>4, CodesMove DEF Lapse

\* What opening a code and spending it do to the codes.
LEMMA OpenedCodes ==
    ASSUME LoginInv, NEW c \in Codes, Opened(c)
    PROVE  code' \in [Codes -> Grant] /\ SpentStays /\ \A d \in Codes : GrantOK(d)'
<1>1. code \in [Codes -> Grant]
  BY DEF LoginInv, TypeOK
<1>2. PICK g \in Grant : code' = [code EXCEPT ![c] = g] /\ g.st = "pending"
  <2>1. [code[c] EXCEPT !.st = "pending"] \in Grant /\ [code[c] EXCEPT !.st = "pending"].st = "pending"
    BY <1>1 DEF Grant
  <2> QED
    BY <2>1 DEF Opened
<1> QED
  BY <1>1, <1>2 DEF Opened, SpentStays, GrantOK, LoginInv

LEMMA SpentCodes ==
    ASSUME LoginInv, NEW c \in Codes, Spends(c)
    PROVE  /\ code' \in [Codes -> Grant] /\ SpentStays /\ \A d \in Codes : GrantOK(d)'
           /\ code[c].st = "granted" /\ code[c].by \in Users
           /\ code'[c] = [st |-> "spent", by |-> code[c].by]
<1>1. code \in [Codes -> Grant] /\ code[c].st = "granted" /\ code[c].by \in Users
  BY DEF LoginInv, TypeOK, Spends, GrantOK
<1>2. PICK g \in Grant : code' = [code EXCEPT ![c] = g] /\ g = [st |-> "spent", by |-> code[c].by]
  <2>1. /\ [code[c] EXCEPT !.st = "spent"] \in Grant
        /\ [code[c] EXCEPT !.st = "spent"] = [st |-> "spent", by |-> code[c].by]
    BY <1>1 DEF Grant
  <2> QED
    BY <2>1 DEF Spends
<1> QED
  BY <1>1, <1>2 DEF SpentStays, GrantOK, LoginInv


-----------------------------------------------------------------------------
(* What the hub does *)

\* A machine is taken off the grid, or none is.
SomeGone == machine' = machine \/ \E m \in Machines : machine' = [machine EXCEPT ![m] = "gone"]

\* A machine that is gone is nobody's, and no other changes hands with it.
LEMMA GoneKeeps ==
    ASSUME LoginAssumption, LoginInv, SomeGone
    PROVE  /\ machine' \in [Machines -> Users \cup {None, "nobody", "gone"}]
           /\ \A m \in Machines : machine'[m] \in {machine[m], "gone"}
<1>1. machine \in [Machines -> Users \cup {None, "nobody", "gone"}]
  BY DEF LoginInv, TypeOK
<1> QED
  BY <1>1 DEF SomeGone

\* A session that was minted is an account's.
LEMMA MintedUser ==
    ASSUME LoginInv, NEW t \in Tokens \cup {None}, MintedOnce(t)
    PROVE  t \in Tokens /\ token[t].user \in Users
BY DEF LoginInv, SessionOK, MintedOnce

\* What every request may be, whoever answered it, but one that is minting.
Fits(r) == r \in Request /\ r.what # "minting" /\ RequestOK(r)

\* What the hub does leaves the commands what they are.
LEMMA ClientKept ==
    ASSUME LoginInv, UNCHANGED client
    PROVE  (\A p \in Procs : CommandOK(proc[p]))'
BY DEF LoginInv, CommandOK, client

\* One request is answered; a code may be opened or spent and a machine taken
\* off the grid with it.
LEMMA HubMoves ==
    ASSUME LoginAssumption, LoginInv, side = "page", UNCHANGED <<side, token, page, client>>,
           lost' \in 0 .. MaxLost, SomeGone,
           code' \in [Codes -> Grant], SpentStays, \A c \in Codes : GrantOK(c)',
           NEW f \in Flights, NEW r, Fits(r), flight' = [flight EXCEPT ![f] = r]
    PROVE  LoginInv'
<1>1. TypeOK'
  BY GoneKeeps DEF LoginInv, TypeOK, client, Fits
<1>2. \A t \in Tokens : SessionOK(t)'
  <2> SUFFICES ASSUME NEW t \in Tokens PROVE SessionOK(t)'
    OBVIOUS
  <2>1. token[t].code \in Codes \cup {None} /\ SessionOK(t)
    BY DEF LoginInv, TypeOK, Session
  <2> QED
    BY <2>1 DEF SessionOK, SpentStays
<1>3. flight'[f] = r /\ \A g \in Flights \ {f} : flight'[g] = flight[g]
  BY DEF LoginInv, TypeOK
<1>4. ASSUME NEW g \in Flights
      PROVE  MintingOK(g)'
  <2>1. CASE g = f
    BY <1>3, <2>1 DEF MintingOK, Fits
  <2>2. CASE g # f
    <3>1. flight'[g] = flight[g] /\ MintingOK(g) /\ flight[g].code \in Codes \cup {None}
      BY <1>3, <2>2, Carries DEF LoginInv
    <3>2. \A h \in Flights : flight'[h].what = "minting" => flight'[h] = flight[h]
      BY <1>3 DEF Fits
    <3> QED
      BY <3>1, <3>2 DEF MintingOK, SpentStays
  <2> QED
    BY <2>1, <2>2
<1>5. ASSUME NEW g \in Flights
      PROVE  RequestOK(flight[g])'
  <2>1. PICK s \in Request : s = flight'[g] /\ RequestOK(s)
    BY <1>3, Carries DEF Fits, LoginInv
  <2>2. RequestOK(s)'
    BY <2>1, MintedUser, GoneKeeps DEF RequestOK, MintedOnce, Request, LoginAssumption
  <2> QED
    BY <2>1, <2>2
<1>6. (page.session # None => MintedOnce(page.session))'
  BY DEF MintedOnce, LoginInv
<1>7. (side # "page" => \A g \in Flights : flight[g] = NoFlight)'
  OBVIOUS
<1> QED
  BY <1>1, <1>2, <1>4, <1>5, <1>6, <1>7, ClientKept DEF LoginInv


\* An answer of the hub is a request with another "what": one that promises
\* nothing, or a 404 on a machine that is not the caller's.
LEMMA AnswerFits ==
    ASSUME LoginAssumption, LoginInv, NEW s \in Request, RequestOK(s),
           NEW what \in {"granted", "pending", "refused", "unauthorized", "roster", "revoked", "missing", "lost"},
           NEW c \in Codes \cup {None}, NEW own \in SUBSET Machines,
           s.kind = "poll" => c # None,
           what = "missing" => machine[s.machine] # token[s.token].user
    PROVE  Fits([s EXCEPT !.what = what, !.code = c, !.own = own])
<1>1. [s EXCEPT !.what = what, !.code = c, !.own = own] \in Request
  BY DEF Request
<1> QED
  BY <1>1 DEF Fits, RequestOK, Request

\* The same where only "what" changes.
LEMMA AnswersFit ==
    ASSUME LoginAssumption, LoginInv, NEW f \in Flights,
           NEW what \in {"granted", "pending", "refused", "unauthorized", "roster", "revoked", "missing", "lost"},
           what = "missing" => machine[flight[f].machine] # token[flight[f].token].user,
           Answers(f, what)
    PROVE  \E r \in Request : Fits(r) /\ flight' = [flight EXCEPT ![f] = r]
<1>1. PICK s \in Request : s = flight[f] /\ RequestOK(s)
  BY Carries DEF LoginInv
<1>2. [s EXCEPT !.what = what] \in Request
  BY DEF Request
<1>3. RequestOK([s EXCEPT !.what = what])
  BY <1>1 DEF RequestOK, Request
<1>4. Fits([s EXCEPT !.what = what])
  BY <1>2, <1>3 DEF Fits, Request
<1>5. flight' = [flight EXCEPT ![f] = [s EXCEPT !.what = what]]
  BY <1>1 DEF Answers
<1> QED
  BY <1>2, <1>4, <1>5

\* The codes stay.
LEMMA CodesStay ==
    ASSUME LoginInv, UNCHANGED code
    PROVE  code' \in [Codes -> Grant] /\ SpentStays /\ \A c \in Codes : GrantOK(c)'
BY DEF LoginInv, TypeOK, SpentStays, GrantOK

\* So does the count of what was lost.
LEMMA LostStays ==
    ASSUME LoginInv, UNCHANGED lost
    PROVE  lost' \in 0 .. MaxLost
BY DEF LoginInv, TypeOK

LEMMA HubStartKeeps ==
    ASSUME LoginAssumption, LoginInv, side = "page", NEW f \in Flights, HubStart(f)
    PROVE  LoginInv'
<1>1. UNCHANGED <<side, token, page, client>> /\ lost' \in 0 .. MaxLost /\ SomeGone
  BY LostStays DEF HubStart, SomeGone
<1>2. CASE \E c \in PageCodes : Opened(c) /\ flight' = [flight EXCEPT ![f].what = "granted", ![f].code = c]
  <2>1. PICK c \in Codes : Opened(c) /\ flight' = [flight EXCEPT ![f].what = "granted", ![f].code = c]
    BY <1>2 DEF LoginAssumption
  <2>2. PICK s \in Request : s = flight[f] /\ RequestOK(s)
    BY Carries DEF LoginInv
  <2>3. c # None
    BY DEF LoginAssumption
  <2>4. Fits([s EXCEPT !.what = "granted", !.code = c, !.own = s.own])
    BY <2>2, <2>3, AnswerFits DEF Request
  <2>5. [s EXCEPT !.what = "granted", !.code = c, !.own = s.own] = [s EXCEPT !.what = "granted", !.code = c]
    BY DEF Request
  <2>6. flight' = [flight EXCEPT ![f] = [s EXCEPT !.what = "granted", !.code = c]]
    BY <2>1, <2>2
  <2> QED
    BY <1>1, <2>1, <2>4, <2>5, <2>6, OpenedCodes, HubMoves
<1>3. CASE Answers(f, "refused") /\ UNCHANGED code
  BY <1>1, <1>3, AnswersFit, CodesStay, HubMoves
<1> QED
  BY <1>2, <1>3 DEF HubStart

LEMMA HubReadKeeps ==
    ASSUME LoginAssumption, LoginInv, side = "page", NEW f \in Flights, HubRead(f)
    PROVE  LoginInv'
<1>1. /\ UNCHANGED <<side, token, page, client>> /\ lost' \in 0 .. MaxLost /\ SomeGone
      /\ code' \in [Codes -> Grant] /\ SpentStays /\ \A c \in Codes : GrantOK(c)'
  BY LostStays, CodesStay DEF HubRead, SomeGone, hub
<1>2. CASE Answers(f, "unauthorized")
  BY <1>1, <1>2, AnswersFit, HubMoves
<1>3. CASE \E own \in SUBSET Machines : flight' = [flight EXCEPT ![f].what = "roster", ![f].own = own]
  <2>1. PICK own \in SUBSET Machines : flight' = [flight EXCEPT ![f].what = "roster", ![f].own = own]
    BY <1>3
  <2>2. PICK s \in Request : s = flight[f] /\ RequestOK(s)
    BY Carries DEF LoginInv
  <2>3. Fits([s EXCEPT !.what = "roster", !.code = s.code, !.own = own])
    BY <2>2, AnswerFits DEF RequestOK, Request
  <2>4. [s EXCEPT !.what = "roster", !.code = s.code, !.own = own] = [s EXCEPT !.what = "roster", !.own = own]
    BY DEF Request
  <2>5. flight' = [flight EXCEPT ![f] = [s EXCEPT !.what = "roster", !.own = own]]
    BY <2>1, <2>2
  <2> QED
    BY <1>1, <2>3, <2>4, <2>5, HubMoves
<1>4. \A who : {m \in Roster(who) : IsOwn(who, m)} \in SUBSET Machines
  BY DEF Roster
<1> QED
  BY <1>2, <1>3, <1>4 DEF HubRead

\* Whoever has a token of the page is an account.
LEMMA CallerIsAccount ==
    ASSUME LoginAssumption, LoginInv, NEW t \in Tokens, MintedOnce(t), NEW who \in Caller(t)
    PROVE  who.identity = token[t].user /\ who.identity \in Users
BY MintedUser DEF Caller

LEMMA HubRevokeKeeps ==
    ASSUME LoginAssumption, LoginInv, side = "page", NEW f \in Flights, HubRevoke(f)
    PROVE  LoginInv'
<1>1. /\ UNCHANGED <<side, token, page, client>> /\ lost' \in 0 .. MaxLost
      /\ code' \in [Codes -> Grant] /\ SpentStays /\ \A c \in Codes : GrantOK(c)'
  BY LostStays, CodesStay DEF HubRevoke
<1>2. PICK t \in Tokens, m \in Machines : t = flight[f].token /\ m = flight[f].machine /\ MintedOnce(t)
  <2>1. RequestOK(flight[f]) /\ flight[f].kind = "revoke"
    BY DEF HubRevoke, Sent, LoginInv
  <2> QED
    BY <2>1, Carries DEF RequestOK, MintedOnce
<1>3. CASE Answers(f, "unauthorized") /\ UNCHANGED machine
  BY <1>1, <1>3, AnswersFit, HubMoves DEF SomeGone
<1>4. CASE \E who \in Caller(t) : RevokeAdmits(who, m) /\ machine' = [machine EXCEPT ![m] = "gone"] /\ Answers(f, "revoked")
  BY <1>1, <1>4, AnswersFit, HubMoves DEF SomeGone
<1>5. CASE \E who \in Caller(t) : ~RevokeAdmits(who, m) /\ Answers(f, "missing") /\ UNCHANGED machine
  <2>1. PICK who \in Caller(t) : ~RevokeAdmits(who, m) /\ Answers(f, "missing") /\ UNCHANGED machine
    BY <1>5
  <2>2. who.identity = token[t].user /\ who.identity \in Users /\ who.identity # None
    BY <1>2, CallerIsAccount DEF LoginAssumption
  <2>3. machine[m] # token[t].user
    BY <2>1, <2>2 DEF RevokeAdmits, Enrolled
  <2> QED
    BY <1>1, <1>2, <2>1, <2>3, AnswersFit, HubMoves DEF SomeGone
<1> QED
  BY <1>2, <1>3, <1>4, <1>5 DEF HubRevoke

LEMMA LoseKeeps ==
    ASSUME LoginAssumption, LoginInv, side = "page", NEW f \in Flights, Lose(f)
    PROVE  LoginInv'
<1>1. lost' \in 0 .. MaxLost
  BY DEF Lose, LoginInv, TypeOK, LoginAssumption
<1>2. /\ UNCHANGED <<side, token, page, client>> /\ SomeGone
      /\ code' \in [Codes -> Grant] /\ SpentStays /\ \A c \in Codes : GrantOK(c)'
  BY CodesStay DEF Lose, SomeGone, hub
<1> QED
  BY <1>1, <1>2, AnswersFit, HubMoves DEF Lose


\* Polling with a code that was granted: the request now alone holds it.
LEMMA HubSpendKeeps ==
    ASSUME LoginAssumption, LoginInv, side = "page", NEW f \in Flights, Sent(f, "poll"), Spends(flight[f].code),
           flight' = [flight EXCEPT ![f].what = "minting", ![f].user = code[flight[f].code].by],
           UNCHANGED <<side, token, machine, page, client, lost>>
    PROVE  LoginInv'
<1>1. PICK s \in Request, c \in Codes : s = flight[f] /\ c = s.code /\ s.kind = "poll" /\ s.what = "sent"
  <2>1. RequestOK(flight[f]) /\ flight[f].code # None
    BY DEF LoginInv, RequestOK, Sent
  <2> QED
    BY <2>1, Carries DEF Sent
<1>2. /\ code' \in [Codes -> Grant] /\ SpentStays /\ \A d \in Codes : GrantOK(d)'
      /\ code[c].st = "granted" /\ code[c].by \in Users
      /\ code'[c] = [st |-> "spent", by |-> code[c].by]
  BY <1>1, SpentCodes
<1>3. PICK r \in Request : /\ flight' = [flight EXCEPT ![f] = r]
                           /\ r.what = "minting" /\ r.user = code[c].by /\ r.code = c /\ r.kind = "poll"
  <2>1. /\ [s EXCEPT !.what = "minting", !.user = code[c].by] \in Request
        /\ [s EXCEPT !.what = "minting", !.user = code[c].by].what = "minting"
        /\ [s EXCEPT !.what = "minting", !.user = code[c].by].user = code[c].by
        /\ [s EXCEPT !.what = "minting", !.user = code[c].by].code = c
        /\ [s EXCEPT !.what = "minting", !.user = code[c].by].kind = "poll"
    BY <1>1, <1>2 DEF Request
  <2>2. flight' = [flight EXCEPT ![f] = [s EXCEPT !.what = "minting", !.user = code[c].by]]
    BY <1>1
  <2> QED
    BY <2>1, <2>2
<1>4. flight'[f] = r /\ \A g \in Flights \ {f} : flight'[g] = flight[g]
  BY <1>3 DEF LoginInv, TypeOK
<1>5. TypeOK'
  <2>1. flight' \in [Flights -> Request]
    BY <1>3 DEF LoginInv, TypeOK
  <2> QED
    BY <1>2, <2>1 DEF LoginInv, TypeOK, client
<1>6. \A t \in Tokens : SessionOK(t)' /\ token[t].code # c
  <2> SUFFICES ASSUME NEW t \in Tokens PROVE SessionOK(t)' /\ token[t].code # c
    OBVIOUS
  <2>1. token[t].code \in Codes \cup {None} /\ SessionOK(t)
    BY DEF LoginInv, TypeOK, Session
  <2>2. token[t].code # c
    BY <1>2, <2>1 DEF SessionOK, LoginAssumption
  <2> QED
    BY <1>2, <2>1, <2>2 DEF SessionOK, SpentStays
<1>7. ASSUME NEW g \in Flights, flight[g].what = "minting"
      PROVE  flight[g].code # c
  <2>1. code[flight[g].code] = [st |-> "spent", by |-> flight[g].user]
    BY <1>7 DEF LoginInv, MintingOK
  <2>2. code[flight[g].code].st = "spent"
    BY <2>1
  <2> QED
    BY <1>2, <2>2
<1>8. ASSUME NEW g \in Flights
      PROVE  MintingOK(g)'
  <2>1. CASE g = f
    <3>1. c # None
      BY DEF LoginAssumption
    <3>2. \A h \in Flights \ {f} : flight'[h].what = "minting" => flight'[h].code # c
      BY <1>4, <1>7
    <3>3. /\ flight'[f].code = c /\ flight'[f].user = code[c].by
          /\ \A t \in Tokens : token'[t].code # c
      BY <1>3, <1>4, <1>6
    <3> QED
      BY <1>2, <2>1, <3>1, <3>2, <3>3 DEF MintingOK
  <2>2. CASE g # f
    <3>1. flight'[g] = flight[g] /\ MintingOK(g) /\ flight[g].code \in Codes \cup {None}
      BY <1>4, <2>2, Carries DEF LoginInv
    <3>2. \A h \in Flights \ {g} : flight'[h].what = "minting" /\ flight[g].what = "minting" => flight'[h].code # flight[g].code
      <4> SUFFICES ASSUME NEW h \in Flights \ {g}, flight'[h].what = "minting", flight[g].what = "minting"
                   PROVE  flight'[h].code # flight[g].code
        OBVIOUS
      <4>1. CASE h = f
        BY <1>3, <1>4, <1>7, <2>2, <4>1
      <4>2. CASE h # f
        BY <1>4, <3>1, <4>2 DEF MintingOK
      <4> QED
        BY <4>1, <4>2
    <3>3. flight[g].what = "minting" => code'[flight[g].code] = code[flight[g].code] /\ flight[g].code # None
      <4> SUFFICES ASSUME flight[g].what = "minting"
                   PROVE  code'[flight[g].code] = code[flight[g].code] /\ flight[g].code # None
        OBVIOUS
      <4>1. code[flight[g].code].st = "spent" /\ flight[g].code \in Codes
        BY <3>1 DEF MintingOK
      <4> QED
        BY <1>2, <4>1, <3>1 DEF SpentStays, MintingOK
    <3> QED
      BY <3>1, <3>2, <3>3 DEF MintingOK
  <2> QED
    BY <2>1, <2>2
<1>9. ASSUME NEW g \in Flights
      PROVE  RequestOK(flight[g])'
  <2>1. PICK q \in Request : q = flight'[g] /\ RequestOK(q)
    <3>1. CASE g = f
      <4>1. RequestOK(r)
        BY <1>3 DEF RequestOK, LoginAssumption
      <4> QED
        BY <1>4, <3>1, <4>1
    <3>2. CASE g # f
      BY <1>4, <3>2, Carries DEF LoginInv
    <3> QED
      BY <3>1, <3>2
  <2> QED
    BY <2>1 DEF RequestOK, MintedOnce
<1>10. (page.session # None => MintedOnce(page.session))'
  BY DEF MintedOnce, LoginInv
<1>11. (side # "page" => \A g \in Flights : flight[g] = NoFlight)'
  OBVIOUS
<1> QED
  BY <1>2, <1>5, <1>6, <1>8, <1>9, <1>10, <1>11, ClientKept DEF LoginInv

LEMMA HubPollKeeps ==
    ASSUME LoginAssumption, LoginInv, side = "page", NEW f \in Flights, HubPoll(f)
    PROVE  LoginInv'
<1>1. CASE Spends(flight[f].code) /\ flight' = [flight EXCEPT ![f].what = "minting", ![f].user = code[flight[f].code].by]
  BY <1>1, HubSpendKeeps DEF HubPoll
<1>2. CASE \E what \in PollAnswers(flight[f].code) : Answers(f, what) /\ UNCHANGED code
  <2>1. PICK what \in {"refused", "pending"} : Answers(f, what) /\ UNCHANGED code
    BY <1>2 DEF PollAnswers
  <2>2. /\ UNCHANGED <<side, token, page, client>> /\ lost' \in 0 .. MaxLost /\ SomeGone
        /\ code' \in [Codes -> Grant] /\ SpentStays /\ \A c \in Codes : GrantOK(c)'
    BY <2>1, CodesStay, LostStays DEF HubPoll, SomeGone
  <2> QED
    BY <2>1, <2>2, AnswersFit, HubMoves
<1> QED
  BY <1>1, <1>2 DEF HubPoll

\* The session that a spent code gives: the request lets go of the code as the
\* session takes it.
LEMMA MintedKeeps ==
    ASSUME LoginAssumption, LoginInv, side = "page", NEW f \in Flights, NEW t \in Tokens,
           flight[f].what = "minting", Minted(t, f), UNCHANGED <<side, code, machine, page, client, lost>>
    PROVE  LoginInv'
<1>1. PICK s \in Request, c \in Codes, u \in Users :
          s = flight[f] /\ c = s.code /\ u = s.user /\ RequestOK(s) /\ code[c] = [st |-> "spent", by |-> u]
  <2>1. MintingOK(f) /\ RequestOK(flight[f])
    BY DEF LoginInv
  <2> QED
    BY <2>1, Carries DEF MintingOK
<1>2. /\ \A x \in Tokens : token[x].code # c
      /\ \A g \in Flights \ {f} : flight[g].what = "minting" => flight[g].code # c
  BY <1>1 DEF LoginInv, MintingOK
<1>3. PICK n \in Session : n = [life |-> "live", user |-> u, code |-> c] /\ token' = [token EXCEPT ![t] = n]
  BY <1>1 DEF Minted, Session
<1>4. token \in [Tokens -> Session] /\ token[t].life = "unminted"
  BY DEF LoginInv, TypeOK, Minted
<1>5. token'[t] = n /\ \A x \in Tokens \ {t} : token'[x] = token[x]
  BY <1>3, <1>4
<1>6. PICK r \in Request : flight' = [flight EXCEPT ![f] = r] /\ r = [s EXCEPT !.what = "authorized", !.token = t]
  <2>1. [s EXCEPT !.what = "authorized", !.token = t] \in Request
    BY DEF Request
  <2>2. flight' = [flight EXCEPT ![f] = [s EXCEPT !.what = "authorized", !.token = t]]
    BY <1>1 DEF Minted
  <2> QED
    BY <2>1, <2>2
<1>7. flight'[f] = r /\ \A g \in Flights \ {f} : flight'[g] = flight[g]
  BY <1>6 DEF LoginInv, TypeOK
<1>8. TypeOK'
  BY <1>3, <1>6 DEF LoginInv, TypeOK, client
<1>9. ASSUME NEW x \in Tokens
      PROVE  SessionOK(x)'
  <2>1. CASE x = t
    BY <1>1, <1>2, <1>3, <1>5, <2>1 DEF SessionOK
  <2>2. CASE x # t
    <3>1. token'[x] = token[x] /\ SessionOK(x) /\ token[x].code # c
      BY <1>2, <1>5, <2>2 DEF LoginInv
    <3>2. token'[t].code = c
      BY <1>3, <1>5
    <3> QED
      BY <1>5, <3>1, <3>2 DEF SessionOK
  <2> QED
    BY <2>1, <2>2
<1>10. ASSUME NEW g \in Flights
       PROVE  MintingOK(g)'
  <2>1. CASE g = f
    <3>1. r.what = "authorized"
      BY <1>6 DEF Request
    <3> QED
      BY <1>7, <2>1, <3>1 DEF MintingOK
  <2>2. CASE g # f
    <3>1. flight'[g] = flight[g] /\ MintingOK(g) /\ (flight[g].what = "minting" => flight[g].code # c)
      BY <1>2, <1>7, <2>2 DEF LoginInv
    <3>2. r.what = "authorized"
      BY <1>6 DEF Request
    <3>3. \A h \in Flights : flight'[h].what = "minting" => flight'[h] = flight[h]
      BY <1>7, <3>2
    <3>4. \A x \in Tokens : token'[x].code \in {token[x].code, c}
      BY <1>3, <1>5
    <3> QED
      BY <3>1, <3>3, <3>4 DEF MintingOK
  <2> QED
    BY <2>1, <2>2
<1>11. \A x \in Tokens : MintedOnce(x) => token'[x] = token[x] /\ MintedOnce(x)'
  BY <1>4, <1>5 DEF MintedOnce
<1>12. MintedOnce(t)'
  BY <1>3, <1>5 DEF MintedOnce, LoginAssumption
<1>13. ASSUME NEW g \in Flights
       PROVE  RequestOK(flight[g])'
  <2>1. CASE g # f
    <3>1. PICK q \in Request : q = flight'[g] /\ RequestOK(q)
      BY <1>7, <2>1, Carries DEF LoginInv
    <3>2. RequestOK(q)'
      BY <1>11, <3>1, MintedUser DEF RequestOK, Request
    <3> QED
      BY <3>1, <3>2
  <2>2. CASE g = f
    <3>1. /\ r.token = t /\ r.what = "authorized" /\ r.kind = s.kind /\ r.code = s.code /\ r.machine = s.machine
      BY <1>6 DEF Request
    <3>2. RequestOK(r)'
      BY <1>1, <1>12, <3>1 DEF RequestOK
    <3> QED
      BY <1>7, <2>2, <3>2
  <2> QED
    BY <2>1, <2>2
<1>14. (page.session # None => MintedOnce(page.session))'
  BY <1>11, MintedUser DEF LoginInv, TypeOK, Page
<1>15. (side # "page" => \A g \in Flights : flight[g] = NoFlight)' /\ \A d \in Codes : GrantOK(d)'
  BY DEF LoginInv, GrantOK
<1> QED
  BY <1>8, <1>9, <1>10, <1>13, <1>14, <1>15, ClientKept DEF LoginInv

LEMMA HubMintKeeps ==
    ASSUME LoginAssumption, LoginInv, side = "page", NEW f \in Flights, HubMint(f)
    PROVE  LoginInv'
<1>1. CASE \E t \in Tokens : Minted(t, f)
  BY <1>1, MintedKeeps DEF HubMint
<1>2. CASE Answers(f, "refused") /\ UNCHANGED token
  <2>1. /\ UNCHANGED <<side, token, page, client>> /\ lost' \in 0 .. MaxLost /\ SomeGone
        /\ code' \in [Codes -> Grant] /\ SpentStays /\ \A c \in Codes : GrantOK(c)'
    BY <1>2, CodesStay, LostStays DEF HubMint, SomeGone
  <2> QED
    BY <1>2, <2>1, AnswersFit, HubMoves
<1> QED
  BY <1>1, <1>2 DEF HubMint


\* A session that expires stays its account's.
LEMMA SessionExpiresKeeps ==
    ASSUME LoginAssumption, LoginInv, side = "page", NEW t \in Tokens, SessionExpires(t)
    PROVE  LoginInv'
<1>1. token \in [Tokens -> Session] /\ token[t].life = "live"
  BY DEF LoginInv, TypeOK, SessionExpires
<1>2. PICK n \in Session : /\ token' = [token EXCEPT ![t] = n]
                           /\ n.life = "expired" /\ n.user = token[t].user /\ n.code = token[t].code
  <2>1. PICK s \in Session : s = token[t]
    BY <1>1
  <2>2. /\ [s EXCEPT !.life = "expired"] \in Session /\ [s EXCEPT !.life = "expired"].life = "expired"
        /\ [s EXCEPT !.life = "expired"].user = s.user /\ [s EXCEPT !.life = "expired"].code = s.code
    BY DEF Session
  <2>3. token' = [token EXCEPT ![t] = [s EXCEPT !.life = "expired"]]
    BY <2>1 DEF SessionExpires
  <2> QED
    BY <2>1, <2>2, <2>3
<1>3. /\ token' \in [Tokens -> Session]
      /\ \A x \in Tokens : /\ token'[x].user = token[x].user /\ token'[x].code = token[x].code
                           /\ token'[x].life = "unminted" <=> token[x].life = "unminted"
  BY <1>1, <1>2
<1>4. UNCHANGED <<side, code, machine, page, flight, lost>> /\ UNCHANGED client
  BY DEF SessionExpires
<1>5. TypeOK' /\ \A c \in Codes : GrantOK(c)'
  BY <1>3, <1>4 DEF LoginInv, TypeOK, GrantOK, client
<1>6. \A x \in Tokens : SessionOK(x)'
  BY <1>3, <1>4 DEF LoginInv, SessionOK
<1>7. \A x \in Tokens \cup {None} : MintedOnce(x) => MintedOnce(x)' /\ token'[x].user = token[x].user
  BY <1>3, MintedUser DEF MintedOnce
<1>8. ASSUME NEW f \in Flights
      PROVE  MintingOK(f)' /\ RequestOK(flight[f])'
  <2>1. MintingOK(f)'
    BY <1>3, <1>4 DEF LoginInv, MintingOK
  <2>2. PICK q \in Request : q = flight'[f] /\ RequestOK(q)
    BY <1>4, Carries DEF LoginInv
  <2>3. RequestOK(q)'
    BY <1>4, <1>7, <2>2 DEF RequestOK, Request
  <2> QED
    BY <2>1, <2>2, <2>3
<1>9. (page.session # None => MintedOnce(page.session))'
  BY <1>4, <1>7 DEF LoginInv, TypeOK, Page
<1>10. (side # "page" => \A g \in Flights : flight[g] = NoFlight)'
  BY <1>4 DEF LoginInv
<1> QED
  BY <1>4, <1>5, <1>6, <1>8, <1>9, <1>10, ClientKept DEF LoginInv

-----------------------------------------------------------------------------
(* What happens to machines, and what the commands do *)

\* Machines and codes move, and a claim on a machine stays true; the page and
\* its requests stay, and no 404 becomes wrong.
LEMMA GridMoves ==
    ASSUME LoginAssumption, LoginInv, UNCHANGED <<side, token, page, flight>>, lost' \in 0 .. MaxLost,
           code' \in [Codes -> Grant], SpentStays, \A c \in Codes : GrantOK(c)',
           machine' \in [Machines -> Users \cup {None, "nobody", "gone"}],
           \A f \in Flights : RequestOK(flight[f])',
           proc' \in [Procs -> Command], \A p \in Procs : CommandOK(proc[p])',
           file' \in State \cup {None}
    PROVE  LoginInv'
<1>1. TypeOK'
  BY DEF LoginInv, TypeOK
<1>2. \A t \in Tokens : SessionOK(t)'
  <2> SUFFICES ASSUME NEW t \in Tokens PROVE SessionOK(t)'
    OBVIOUS
  <2>1. token[t].code \in Codes \cup {None} /\ SessionOK(t)
    BY DEF LoginInv, TypeOK, Session
  <2> QED
    BY <2>1 DEF SessionOK, SpentStays
<1>3. \A f \in Flights : MintingOK(f)'
  <2> SUFFICES ASSUME NEW f \in Flights PROVE MintingOK(f)'
    OBVIOUS
  <2>1. flight[f].code \in Codes \cup {None} /\ MintingOK(f)
    BY Carries DEF LoginInv
  <2> QED
    BY <2>1 DEF MintingOK, SpentStays
<1>4. (page.session # None => MintedOnce(page.session))'
  BY DEF MintedOnce, LoginInv
<1>5. (side # "page" => \A f \in Flights : flight[f] = NoFlight)'
  BY DEF LoginInv
<1> QED
  BY <1>1, <1>2, <1>3, <1>4, <1>5 DEF LoginInv

LEMMA RevokeElsewhereKeeps ==
    ASSUME LoginAssumption, LoginInv, NEW m \in Machines, RevokeElsewhere(m)
    PROVE  LoginInv'
<1>1. SomeGone /\ UNCHANGED <<side, token, page, flight, proc, file>> /\ UNCHANGED client
  BY DEF RevokeElsewhere, SomeGone, client
<1>2. /\ lost' \in 0 .. MaxLost
      /\ code' \in [Codes -> Grant] /\ SpentStays /\ \A c \in Codes : GrantOK(c)'
  BY LostStays, CodesStay DEF RevokeElsewhere
<1>3. ASSUME NEW f \in Flights
      PROVE  RequestOK(flight[f])'
  <2>1. PICK q \in Request : q = flight'[f] /\ RequestOK(q)
    BY <1>1, Carries DEF LoginInv
  <2>2. RequestOK(q)'
    BY <1>1, <2>1, MintedUser, GoneKeeps DEF RequestOK, MintedOnce, Request, LoginAssumption
  <2> QED
    BY <2>1, <2>2
<1>4. proc' \in [Procs -> Command] /\ file' \in State \cup {None}
  BY <1>1 DEF LoginInv, TypeOK
<1> QED
  BY <1>1, <1>2, <1>3, <1>4, GoneKeeps, ClientKept, GridMoves

\* One command moves. The page has no request under way on this side.
LEMMA CommandMoves ==
    ASSUME LoginAssumption, LoginInv, side = "client", UNCHANGED <<side, token, page, flight>>,
           lost' \in 0 .. MaxLost,
           code' \in [Codes -> Grant], SpentStays, \A c \in Codes : GrantOK(c)',
           machine' \in [Machines -> Users \cup {None, "nobody", "gone"}],
           NEW p \in Procs, NEW d \in Command, CommandOK(d), proc' = [proc EXCEPT ![p] = d],
           file' \in State \cup {None}
    PROVE  LoginInv'
<1>1. ASSUME NEW f \in Flights
      PROVE  RequestOK(flight[f])'
  <2>1. flight'[f] = NoFlight
    BY DEF LoginInv
  <2> QED
    BY <2>1, NoFlightAsks DEF NoFlight, RequestOK, LoginAssumption
<1>2. proc' \in [Procs -> Command] /\ proc'[p] = d /\ \A q \in Procs \ {p} : proc'[q] = proc[q]
  BY DEF LoginInv, TypeOK
<1>3. ASSUME NEW q \in Procs
      PROVE  CommandOK(proc[q])'
  <2>1. CASE q = p
    BY <1>2, <2>1
  <2>2. CASE q # p
    <3>1. PICK e \in Command : e = proc'[q] /\ CommandOK(e)
      BY <1>2, <2>2 DEF LoginInv, TypeOK
    <3> QED
      BY <3>1
  <2> QED
    BY <2>1, <2>2
<1> QED
  BY <1>1, <1>2, <1>3, GridMoves


\* The same where neither the hub nor the file changes.
LEMMA CommandGoes ==
    ASSUME LoginAssumption, LoginInv, side = "client", UNCHANGED <<side, hub, page, flight, file>>,
           lost' \in 0 .. MaxLost,
           NEW p \in Procs, NEW d \in Command, CommandOK(d), proc' = [proc EXCEPT ![p] = d]
    PROVE  LoginInv'
<1>1. UNCHANGED <<side, code, token, machine, page, flight, file>>
  BY DEF hub
<1>2. code' \in [Codes -> Grant] /\ SpentStays /\ \A c \in Codes : GrantOK(c)'
  BY <1>1, CodesStay
<1>3. machine' \in [Machines -> Users \cup {None, "nobody", "gone"}]
  BY <1>1 DEF LoginInv, TypeOK
<1>4. CommandOK(d) /\ file' \in State \cup {None}
  BY <1>1 DEF CommandOK, LoginInv, TypeOK
<1> QED
  BY <1>1, <1>2, <1>3, <1>4, CommandMoves

\* No command at all promises nothing, nor does one that waits for GitHub.
LEMMA NoCommandFits ==
    ASSUME LoginAssumption
    PROVE  NoCommand \in Command /\ CommandOK(NoCommand)
BY DEF NoCommand, Command, CommandOK

\* What a command of a state of the system is.
LEMMA CommandThere ==
    ASSUME LoginInv, NEW p \in Procs
    PROVE  proc[p] \in Command /\ CommandOK(proc[p])
BY DEF LoginInv, TypeOK

LEMMA ExitKeeps ==
    ASSUME LoginAssumption, LoginInv, side = "client", UNCHANGED <<side, hub, page, flight, file>>,
           lost' \in 0 .. MaxLost, NEW p \in Procs, Exits(p)
    PROVE  LoginInv'
BY NoCommandFits, CommandGoes DEF Exits, Becomes

LEMMA RequestCodeKeeps ==
    ASSUME LoginAssumption, LoginInv, side = "client", NEW p \in Procs, NEW cmd \in {"login", "check_in"},
           RequestCode(p, cmd)
    PROVE  LoginInv'
<1>1. PICK c \in Codes : Opened(c) /\ Becomes(p, [NoCommand EXCEPT !.cmd = cmd, !.at = "poll", !.code = c])
  BY DEF RequestCode
<1>2. UNCHANGED <<side, token, machine, page, flight, file, lost>>
  BY DEF RequestCode
<1>3. PICK d \in Command : d = [NoCommand EXCEPT !.cmd = cmd, !.at = "poll", !.code = c] /\ CommandOK(d)
  <2>1. [NoCommand EXCEPT !.cmd = cmd, !.at = "poll", !.code = c] \in Command
    BY NoCommandFits DEF Command
  <2>2. [NoCommand EXCEPT !.cmd = cmd, !.at = "poll", !.code = c].at = "poll"
        /\ [NoCommand EXCEPT !.cmd = cmd, !.at = "poll", !.code = c].code = c
    BY DEF NoCommand
  <2>3. CommandOK([NoCommand EXCEPT !.cmd = cmd, !.at = "poll", !.code = c])
    BY <2>2 DEF CommandOK, LoginAssumption
  <2> QED
    BY <2>1, <2>3
<1>4. machine' \in [Machines -> Users \cup {None, "nobody", "gone"}]
  BY <1>2 DEF LoginInv, TypeOK
<1>5. file' \in State \cup {None}
  BY <1>2 DEF LoginInv, TypeOK
<1>6. lost' \in 0 .. MaxLost
  BY <1>2, LostStays
<1>7. proc' = [proc EXCEPT ![p] = d]
  BY <1>1, <1>3 DEF Becomes
<1> QED
  BY <1>1, <1>2, <1>3, <1>4, <1>5, <1>6, <1>7, OpenedCodes, CommandMoves

LEMMA PollGithubKeeps ==
    ASSUME LoginAssumption, LoginInv, side = "client", NEW p \in Procs, PollGithub(p)
    PROVE  LoginInv'
<1>1. UNCHANGED <<side, token, machine, page, flight, file>> /\ lost' \in 0 .. MaxLost
  BY DEF PollGithub, LoginInv, TypeOK, LoginAssumption
<1>2. CASE Exits(p) /\ UNCHANGED code
  BY <1>1, <1>2, ExitKeeps DEF hub
<1>3. CASE Spends(proc[p].code) /\ Becomes(p, [proc[p] EXCEPT !.at = "spend", !.user = code[proc[p].code].by])
  <2>1. PICK e \in Command, c \in Codes : e = proc[p] /\ c = e.code
    BY CommandThere DEF PollGithub, CommandOK, Command
  <2>2. code' \in [Codes -> Grant] /\ SpentStays /\ (\A d \in Codes : GrantOK(d)') /\ code[c].by \in Users
    BY <1>3, <2>1, SpentCodes
  <2>3. PICK u \in Users, d \in Command : u = code[c].by /\ d = [e EXCEPT !.at = "spend", !.user = u] /\ CommandOK(d)
    <3>1. PICK u \in Users : u = code[c].by
      BY <2>2
    <3>2. /\ [e EXCEPT !.at = "spend", !.user = u] \in Command
          /\ [e EXCEPT !.at = "spend", !.user = u].at = "spend"
      BY DEF Command
    <3>3. CommandOK([e EXCEPT !.at = "spend", !.user = u])
      BY <3>2 DEF CommandOK
    <3> QED
      BY <3>1, <3>2, <3>3
  <2>4. machine' \in [Machines -> Users \cup {None, "nobody", "gone"}]
    BY <1>1 DEF LoginInv, TypeOK
  <2>5. file' \in State \cup {None}
    BY <1>1 DEF LoginInv, TypeOK
  <2>6. proc' = [proc EXCEPT ![p] = d]
    BY <1>3, <2>1, <2>3 DEF Becomes
  <2> QED
    BY <1>1, <2>2, <2>3, <2>4, <2>5, <2>6, CommandMoves
<1> QED
  BY <1>2, <1>3 DEF PollGithub

\* A machine nobody had is linked to an account.
LEMMA RegistersKeeps ==
    ASSUME LoginInv, NEW m \in Machines, NEW u \in Users \cup {None}, Registers(m, u)
    PROVE  machine' \in [Machines -> Users \cup {None, "nobody", "gone"}]
BY DEF LoginInv, TypeOK, Registers

LEMMA EnrolKeeps ==
    ASSUME LoginAssumption, LoginInv, side = "client", NEW p \in Procs, NEW m \in Machines, Enrol(p, m)
    PROVE  LoginInv'
<1>1. UNCHANGED <<side, code, token, page, flight, file>> /\ lost' \in 0 .. MaxLost
  <2>1. UNCHANGED <<side, code, token, page, flight, file>>
    BY DEF Enrol
  <2>2. lost' = lost \/ (lost < MaxLost /\ lost' = lost + 1)
    BY DEF Enrol
  <2>3. lost \in 0 .. MaxLost /\ MaxLost \in Nat
    BY DEF LoginInv, TypeOK, LoginAssumption
  <2> QED
    BY <2>1, <2>2, <2>3
<1>2. PICK e \in Command : e = proc[p] /\ CommandOK(e) /\ Registers(m, e.user) /\ e.at = "spend"
  BY CommandThere DEF Enrol
<1>3. e.user \in Users \cup {None}
  BY DEF Command
<1>4. PICK d \in Command : CommandOK(d) /\ proc' = [proc EXCEPT ![p] = d]
  <2>1. CASE Exits(p)
    <3>1. CommandOK(NoCommand)
      BY DEF CommandOK, NoCommand
    <3> QED
      BY <2>1, <3>1, NoCommandFits DEF Exits, Becomes
  <2>2. CASE \E keep \in BOOLEAN :
               Becomes(p, [proc[p] EXCEPT !.at = "save", !.mem = [machine |-> m, of |-> None, keeps |-> keep]])
    <3>1. PICK keep \in BOOLEAN :
             Becomes(p, [proc[p] EXCEPT !.at = "save", !.mem = [machine |-> m, of |-> None, keeps |-> keep]])
      BY <2>2
    <3>2. PICK s \in State : s = [machine |-> m, of |-> None, keeps |-> keep] /\ s.machine = m
      <4>1. [machine |-> m, of |-> None, keeps |-> keep] \in State
        BY DEF State
      <4> QED
        BY <4>1
    <3>3. /\ [e EXCEPT !.at = "save", !.mem = s] \in Command
          /\ [e EXCEPT !.at = "save", !.mem = s].at = "save"
          /\ [e EXCEPT !.at = "save", !.mem = s].mem = s
          /\ [e EXCEPT !.at = "save", !.mem = s].user = e.user
      BY DEF Command
    <3>4. CommandOK([e EXCEPT !.at = "save", !.mem = s])
      BY <3>3 DEF CommandOK
    <3>5. proc' = [proc EXCEPT ![p] = [e EXCEPT !.at = "save", !.mem = s]]
      BY <1>2, <3>1, <3>2 DEF Becomes
    <3> QED
      BY <3>3, <3>4, <3>5
  <2> QED
    BY <2>1, <2>2 DEF Enrol
<1>5. file' \in State \cup {None}
  BY <1>1 DEF LoginInv, TypeOK
<1> QED
  BY <1>1, <1>2, <1>3, <1>4, <1>5, RegistersKeeps, CodesStay, CommandMoves

LEMMA LoadStateKeeps ==
    ASSUME LoginAssumption, LoginInv, side = "client", NEW p \in Procs, LoadState(p)
    PROVE  LoginInv'
<1>1. UNCHANGED <<side, hub, page, flight, file>> /\ lost' \in 0 .. MaxLost
  BY LostStays DEF LoadState
<1>2. CASE Exits(p)
  BY <1>1, <1>2, ExitKeeps
<1>3. CASE file # None /\ Becomes(p, [proc[p] EXCEPT !.at = "wait", !.mem = file])
  <2>1. PICK e \in Command, s \in State : e = proc[p] /\ s = file
    BY <1>3, CommandThere DEF LoginInv, TypeOK
  <2>2. [e EXCEPT !.at = "wait", !.mem = s] \in Command /\ CommandOK([e EXCEPT !.at = "wait", !.mem = s])
    BY DEF Command, CommandOK
  <2>3. proc' = [proc EXCEPT ![p] = [e EXCEPT !.at = "wait", !.mem = s]]
    BY <1>3, <2>1 DEF Becomes
  <2> QED
    BY <1>1, <2>2, <2>3, CommandGoes
<1>4. CASE file # None /\ Becomes(p, [NoCommand EXCEPT !.cmd = "loop", !.at = "wait", !.user = file.of, !.mem = file])
  <2>1. PICK s \in State : s = file /\ s.of \in Users \cup {None}
    BY <1>4 DEF LoginInv, TypeOK, State
  <2>2. PICK d \in Command : d = [NoCommand EXCEPT !.cmd = "loop", !.at = "wait", !.user = s.of, !.mem = s] /\ CommandOK(d)
    <3>1. /\ [NoCommand EXCEPT !.cmd = "loop", !.at = "wait", !.user = s.of, !.mem = s] \in Command
          /\ CommandOK([NoCommand EXCEPT !.cmd = "loop", !.at = "wait", !.user = s.of, !.mem = s])
      BY <2>1, NoCommandFits DEF Command, CommandOK
    <3> QED
      BY <3>1
  <2>3. proc' = [proc EXCEPT ![p] = d]
    BY <1>4, <2>1, <2>2 DEF Becomes
  <2> QED
    BY <1>1, <2>2, <2>3, CommandGoes
<1> QED
  BY <1>2, <1>3, <1>4 DEF LoadState

\* A command between its check-in and the answer holds the state it sent.
LEMMA AskedFits ==
    ASSUME NEW e \in Command, CommandOK(e), e.at \in {"wait", "asked", "save"},
           NEW at \in {"wait", "asked", "save"}, NEW u \in Users \cup {None}
    PROVE  /\ [e EXCEPT !.at = at, !.linked = u] \in Command
           /\ CommandOK([e EXCEPT !.at = at, !.linked = u])
<1>1. /\ [e EXCEPT !.at = at, !.linked = u] \in Command
      /\ [e EXCEPT !.at = at, !.linked = u].at = at /\ [e EXCEPT !.at = at, !.linked = u].mem = e.mem
  BY DEF Command
<1> QED
  BY <1>1 DEF CommandOK

LEMMA CheckInAsksKeeps ==
    ASSUME LoginAssumption, LoginInv, side = "client", NEW p \in Procs, CheckInAsks(p)
    PROVE  LoginInv'
<1>1. UNCHANGED <<side, hub, page, flight, file>> /\ lost' \in 0 .. MaxLost
  BY LostStays DEF CheckInAsks
<1>2. PICK e \in Command : e = proc[p] /\ CommandOK(e) /\ e.at = "wait"
  BY CommandThere DEF CheckInAsks
<1>3. PICK u \in Users \cup {None} : u = machine[e.mem.machine]
  <2>1. e.mem.machine \in Machines
    BY <1>2 DEF CommandOK, State
  <2> QED
    BY <1>2, <2>1 DEF CheckInAsks, Enrolled
<1>4. proc' = [proc EXCEPT ![p] = [e EXCEPT !.at = "asked", !.linked = u]]
  BY <1>2, <1>3 DEF CheckInAsks, Becomes
<1>5. [e EXCEPT !.at = "asked", !.linked = u] \in Command /\ CommandOK([e EXCEPT !.at = "asked", !.linked = u])
  BY <1>2, <1>3, AskedFits
<1> QED
  BY <1>1, <1>4, <1>5, CommandGoes

\* The answer leaves the command with the state it sent, to be saved.
LEMMA AnsweredFits ==
    ASSUME LoginInv, NEW p \in Procs, proc[p].at = "asked", Answered(p)
    PROVE  \E d \in Command : CommandOK(d) /\ proc' = [proc EXCEPT ![p] = d]
<1>1. PICK e \in Command : e = proc[p] /\ CommandOK(e) /\ e.at = "asked"
  BY CommandThere
<1>2. [e EXCEPT !.at = "save", !.linked = None] \in Command /\ CommandOK([e EXCEPT !.at = "save", !.linked = None])
  BY <1>1, AskedFits
<1> QED
  BY <1>1, <1>2 DEF Answered, Becomes

LEMMA CheckInKeeps ==
    ASSUME LoginAssumption, LoginInv, side = "client", NEW p \in Procs, CheckIn(p)
    PROVE  LoginInv'
<1>1. UNCHANGED <<side, code, token, page, flight, file, lost>>
  BY DEF CheckIn
<1>2. PICK d \in Command : CommandOK(d) /\ proc' = [proc EXCEPT ![p] = d]
  BY AnsweredFits DEF CheckIn
<1>3. proc[p].user \in Users \cup {None}
  BY CommandThere DEF Command
<1>4. machine' \in [Machines -> Users \cup {None, "nobody", "gone"}]
  BY <1>3 DEF CheckIn, LoginInv, TypeOK
<1>5. file' \in State \cup {None}
  BY <1>1 DEF LoginInv, TypeOK
<1> QED
  BY <1>1, <1>2, <1>4, <1>5, LostStays, CodesStay, CommandMoves

LEMMA CheckInLetThroughKeeps ==
    ASSUME LoginAssumption, LoginInv, side = "client", NEW p \in Procs, CheckInLetThrough(p)
    PROVE  LoginInv'
<1>1. UNCHANGED <<side, hub, page, flight, file>> /\ lost' \in 0 .. MaxLost
  BY DEF CheckInLetThrough, LoginInv, TypeOK, LoginAssumption
<1>2. PICK d \in Command : CommandOK(d) /\ proc' = [proc EXCEPT ![p] = d]
  BY AnsweredFits DEF CheckInLetThrough
<1> QED
  BY <1>1, <1>2, CommandGoes

LEMMA CheckInRefusedKeeps ==
    ASSUME LoginAssumption, LoginInv, side = "client", NEW p \in Procs, CheckInRefused(p)
    PROVE  LoginInv'
<1>1. UNCHANGED <<side, hub, page, flight, file>> /\ lost' \in 0 .. MaxLost
  BY LostStays DEF CheckInRefused
<1>2. CASE Exits(p)
  BY <1>1, <1>2, ExitKeeps
<1>3. CASE Becomes(p, [proc[p] EXCEPT !.at = "wait", !.linked = None])
  <2>1. PICK e \in Command : e = proc[p] /\ CommandOK(e) /\ e.at \in {"wait", "asked"}
    BY CommandThere DEF CheckInRefused
  <2>2. [e EXCEPT !.at = "wait", !.linked = None] \in Command /\ CommandOK([e EXCEPT !.at = "wait", !.linked = None])
    BY <2>1, AskedFits
  <2>3. proc' = [proc EXCEPT ![p] = [e EXCEPT !.at = "wait", !.linked = None]]
    BY <1>3, <2>1 DEF Becomes
  <2> QED
    BY <1>1, <2>2, <2>3, CommandGoes
<1> QED
  BY <1>2, <1>3 DEF CheckInRefused

\* What is written is a state, with the tokens the process holds or none.
LEMMA SaveKeeps ==
    ASSUME LoginAssumption, LoginInv, side = "client", NEW p \in Procs, Save(p)
    PROVE  LoginInv'
<1>1. UNCHANGED <<side, code, token, machine, page, flight>> /\ lost' \in 0 .. MaxLost
  BY LostStays DEF Save, hub
<1>2. PICK e \in Command, s \in State : e = proc[p] /\ CommandOK(e) /\ e.at = "save" /\ s = e.mem
  BY CommandThere DEF Save, CommandOK
<1>3. PICK u \in Users \cup {None} : u = IF s.keeps THEN e.user ELSE None
  BY DEF Command
<1>4. PICK kept \in State : kept = [s EXCEPT !.of = u] /\ kept.machine = s.machine /\ kept.of = u
  <2>1. [s EXCEPT !.of = u] \in State /\ [s EXCEPT !.of = u].machine = s.machine /\ [s EXCEPT !.of = u].of = u
    BY DEF State
  <2> QED
    BY <2>1
<1>5. file' = kept
  BY <1>2, <1>3, <1>4 DEF Save
<1>7. file' \in State \cup {None}
  BY <1>5
<1>8. PICK d \in Command : CommandOK(d) /\ proc' = [proc EXCEPT ![p] = d]
  <2>1. CASE Exits(p)
    <3>1. CommandOK(NoCommand)
      BY DEF CommandOK, NoCommand
    <3> QED
      BY <2>1, <3>1, NoCommandFits DEF Exits, Becomes
  <2>2. CASE proc' = [proc EXCEPT ![p] = [e EXCEPT !.at = "wait", !.mem = kept]]
    <3>1. /\ [e EXCEPT !.at = "wait", !.mem = kept] \in Command
          /\ [e EXCEPT !.at = "wait", !.mem = kept].at = "wait"
          /\ [e EXCEPT !.at = "wait", !.mem = kept].mem = kept
      BY DEF Command
    <3>2. CommandOK([e EXCEPT !.at = "wait", !.mem = kept])
      BY <3>1 DEF CommandOK
    <3> QED
      BY <2>2, <3>1, <3>2
  <2> QED
    BY <1>2, <1>3, <1>4, <2>1, <2>2 DEF Save, Becomes
<1>9. machine' \in [Machines -> Users \cup {None, "nobody", "gone"}]
  BY <1>1 DEF LoginInv, TypeOK
<1> QED
  BY <1>1, <1>7, <1>8, <1>9, CodesStay, CommandMoves

-----------------------------------------------------------------------------
(* Every step *)

LEMMA PageKeeps ==
    ASSUME LoginAssumption, LoginInv, side = "page", NEW f \in Flights,
           PageStep(f) \/ HubStep(f) \/ ClickSignIn(f) \/ Lose(f)
    PROVE  LoginInv'
<1>1. CASE PageStep(f)
  BY <1>1, LoginTimerKeeps, StartLandsKeeps, PollLandsKeeps, CycleLandsKeeps, RevokeLandsKeeps DEF PageStep
<1>2. CASE HubStep(f)
  BY <1>2, HubStartKeeps, HubPollKeeps, HubMintKeeps, HubReadKeeps, HubRevokeKeeps DEF HubStep
<1> QED
  BY <1>1, <1>2, ClickSignInKeeps, LoseKeeps

LEMMA CommandKeeps ==
    ASSUME LoginAssumption, LoginInv, side = "client", NEW p \in Procs,
           \/ CommandStep(p) \/ LoadState(p) \/ Kill(p)
           \/ \E cmd \in {"login", "check_in"} : RequestCode(p, cmd)
    PROVE  LoginInv'
<1>1. CASE Kill(p)
  BY <1>1, LostStays, ExitKeeps DEF Kill
<1>2. CASE EnrolRefused(p)
  BY <1>2, LostStays, ExitKeeps DEF EnrolRefused
<1>3. CASE \E cmd \in {"login", "check_in"} : RequestCode(p, cmd)
  BY <1>3, RequestCodeKeeps
<1>4. CASE PollGithub(p) \/ (\E m \in Machines : Enrol(p, m)) \/ LoadState(p) \/ Save(p)
  BY <1>4, PollGithubKeeps, EnrolKeeps, LoadStateKeeps, SaveKeeps
<1>5. CASE CheckInAsks(p) \/ CheckIn(p) \/ CheckInLetThrough(p) \/ CheckInRefused(p)
  BY <1>5, CheckInAsksKeeps, CheckInKeeps, CheckInLetThroughKeeps, CheckInRefusedKeeps
<1> QED
  BY <1>1, <1>2, <1>3, <1>4, <1>5 DEF CommandStep

LEMMA LoginStutter ==
    ASSUME LoginInv, UNCHANGED vars
    PROVE  LoginInv'
<1>1. UNCHANGED <<side, code, token, machine, page, flight, proc, file, lost>>
  BY DEF vars
<1> QED
  BY <1>1 DEF LoginInv, TypeOK, GrantOK, SessionOK, MintingOK, RequestOK, MintedOnce, CommandOK

LEMMA LoginStep ==
    ASSUME LoginAssumption, LoginInv, [Next]_vars
    PROVE  LoginInv'
<1>1. CASE \E c \in Codes : Lapse(c) \/ \E u \in Users : Decide(c, u)
  BY <1>1, LapseKeeps, DecideKeeps
<1>2. CASE side = "page" /\ (Interval \/ Second)
  BY <1>2, IntervalKeeps, SecondKeeps
<1>3. CASE side = "page" /\ \E f \in Flights : PageStep(f) \/ HubStep(f) \/ ClickSignIn(f) \/ Lose(f)
  BY <1>3, PageKeeps
<1>4. CASE side = "page" /\ \E f \in Flights, m \in Machines : ClickRevoke(f, m)
  BY <1>4, ClickRevokeKeeps
<1>5. CASE side = "page" /\ \E t \in Tokens : SessionExpires(t)
  BY <1>5, SessionExpiresKeeps
<1>6. CASE \E m \in Machines : RevokeElsewhere(m)
  BY <1>6, RevokeElsewhereKeeps
<1>7. CASE side = "client" /\ \E p \in Procs :
          CommandStep(p) \/ LoadState(p) \/ Kill(p) \/ \E cmd \in {"login", "check_in"} : RequestCode(p, cmd)
  BY <1>7, CommandKeeps
<1> QED
  BY <1>1, <1>2, <1>3, <1>4, <1>5, <1>6, <1>7, LoginStutter DEF Next

LEMMA LoginInit ==
    ASSUME LoginAssumption, Init
    PROVE  LoginInv
<1>1. code \in [Codes -> Grant] /\ \A c \in Codes : GrantOK(c) /\ code[c].st = "unused"
  BY DEF Init, Grant, GrantOK
<1>2. token \in [Tokens -> Session] /\ (\A t \in Tokens : SessionOK(t) /\ token[t].code = None) /\ MintedOnce(Saved)
  BY DEF Init, Session, SessionOK, MintedOnce, LoginAssumption
<1>3. page \in Page /\ page.session \in {Saved, None}
  BY DEF Init, Page, LoginAssumption
<1>4. \A f \in Flights : flight[f] = NoFlight
  BY DEF Init
<1>5. NoFlight \in Request /\ NoFlight.what = "sent" /\ RequestOK(NoFlight)
  BY NoFlightAsks DEF Asks, NoFlight, RequestOK, LoginAssumption
<1>6. \A f \in Flights : MintingOK(f) /\ RequestOK(flight[f])
  BY <1>4, <1>5 DEF MintingOK
<1>7. \A p \in Procs : proc[p] = NoCommand
  BY DEF Init
<1>8. TypeOK
  BY <1>1, <1>2, <1>3, <1>5, NoCommandFits DEF Init, TypeOK, LoginAssumption
<1> QED
  BY <1>1, <1>2, <1>3, <1>4, <1>6, <1>7, <1>8, NoCommandFits DEF LoginInv

-----------------------------------------------------------------------------
(* The theorems *)

\* Signing in keeps its invariant for good.
LEMMA LoginInvariant ==
    ASSUME LoginAssumption
    PROVE  Spec => []LoginInv
<1>1. Init => LoginInv
  BY LoginInit
<1>2. LoginInv /\ [Next]_vars => LoginInv'
  BY LoginStep
<1> QED
  BY <1>1, <1>2, PTL DEF Spec

\* Every variable of signing in is what it is said to be: in particular no
\* answer of the hub is taken for one of another kind.
THEOREM LoginTyped == Spec => []TypeOK
<1>1. LoginInv => TypeOK
  BY DEF LoginInv
<1> QED
  BY <1>1, LoginAssumption, LoginInvariant, PTL

\* A session is of the account that granted its code, and the code gave no
\* other, whichever polls overlap, are repeated, fail at the mint or are lost.
THEOREM CodesGiveOneSession == Spec => []CodeGivesOneSession
<1>1. LoginInv => CodeGivesOneSession
  BY DEF LoginInv, SessionOK, CodeGivesOneSession
<1> QED
  BY <1>1, LoginAssumption, LoginInvariant, PTL

\* The rows a page calls its own are the ones a DELETE with the same credential
\* is granted, and a 404 is never of a machine of the caller's account.
THEOREM OwnMeansRevocable == Spec => []OwnIsRevocable
<1>1. LoginInv => OwnIsRevocable
  <2> SUFFICES ASSUME LoginInv PROVE OwnIsRevocable
    OBVIOUS
  <2>1. ASSUME NEW who, NEW m \in Roster(who)
        PROVE  IsOwn(who, m) <=> RevokeAdmits(who, m)
    <3>1. Enrolled(m)
      BY DEF Roster
    <3> QED
      BY <3>1 DEF IsOwn, RevokeAdmits
  <2>2. \A f \in Flights : Lands(f, "revoke", {"missing"}) =>
          machine[flight[f].machine] # token[flight[f].token].user
    BY DEF LoginInv, RequestOK, Lands
  <2> QED
    BY <2>1, <2>2 DEF OwnIsRevocable
<1> QED
  BY <1>1, LoginAssumption, LoginInvariant, PTL

=============================================================================
