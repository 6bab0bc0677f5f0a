---------------------------- MODULE Bearer_proofs ----------------------------
(***************************************************************************)
(* Proofs about Bearer: its type invariant, and that neither the shared    *)
(* cache nor a key set that is still under way is ever older than Ttl,     *)
(* from which it follows who is admitted.                                  *)
(***************************************************************************)
EXTENDS Bearer, TLAPS

KeyState == [st : {"unused", "current", "retired"}, age : 0 .. Ttl]

\* K is the key set of a provider, which now does with its keys what state says,
\* n ticks before K is too old, give or take what it published and retired since.
Recent(state, K, n) ==
    \A k \in Keys :
        /\ k \in K => \/ state[k].st = "current"
                      \/ state[k].st = "retired" /\ state[k].age + n <= Ttl
        /\ k \notin K /\ state[k].st = "current" => state[k].age + n <= Ttl

CacheRecent == cache.keys # Null => Recent(key, cache.keys, cache.left)

ArrivingRecent ==
    \A q \in Calls : Waits(q) /\ call[q].heard = "keys" =>
                        Recent(key, call[q].keys, Ttl - call[q].since)

\* Who is under way is so for a reason, and has a token.
AskedRightly ==
    \A q \in Calls :
        /\ call[q].at \in {"asks", "fetches"} => call[q].jwt \in Jwts /\ jwt[call[q].jwt].key # Null
        /\ call[q].at = "asks" => settings.provider \in {"ory", "auth0", "keycloak"}
        /\ call[q].at = "fetches" => UsesKeys

TypedInv == BearerTypeOK /\ AskedRightly

\* A provider does not vouch for a token that was withdrawn before it was asked,
\* and says no to none that is good.
VouchedWhileSound ==
    \A q \in Calls : call[q].at = "asks" =>
        /\ ~call[q].sound => ~jwt[call[q].jwt].active
        /\ call[q].heard = "claims" => call[q].sound
        /\ call[q].heard = "no" => ~Alive(call[q].jwt)
        /\ call[q].heard # "keys"

BearerInv == TypedInv /\ CacheRecent /\ ArrivingRecent /\ VouchedWhileSound

LEMMA CallTyped ==
    ASSUME NEW at \in {"idle", "asks", "fetches", "admitted", "anonymous", "refused", "error"},
           NEW j \in Jwts \cup {Null}, NEW sound \in BOOLEAN
    PROVE  CallAt(at, j, sound) \in Call
BY BearerAssumption DEF CallAt, Call, Hearing

LEMMA VerdictTyped ==
    ASSUME NEW j, NEW good PROVE Verdict(j, good) \in {"admitted", "refused"}
BY DEF Verdict

\* The middleware starts in a typed state.
LEMMA InitTyped == BearerInit => TypedInv
<1> SUFFICES ASSUME BearerInit PROVE TypedInv
    OBVIOUS
<1> USE BearerAssumption
<1>1. IdleCall \in Call /\ IdleCall.at = "idle"
    BY CallTyped DEF IdleCall, CallAt
<1> QED
    BY <1>1 DEF BearerInit, TypedInv, BearerTypeOK, AskedRightly, NoCache

\* A request that comes is well typed whatever is done with it.
LEMMA ComesTyped ==
    ASSUME TypedInv, NEW q \in Calls, NEW j \in Jwts \cup {Null},
           NEW at \in {"asks", "fetches", "admitted", "anonymous", "refused"},
           at = "asks" => j \in Jwts /\ settings.provider \in {"ory", "auth0", "keycloak"},
           at = "fetches" => j \in Jwts /\ UsesKeys,
           Comes(q, j, at)
    PROVE  TypedInv'
<1>1. at = "asks" => jwt[j].active \in BOOLEAN
    BY DEF TypedInv, BearerTypeOK
<1>2. CallAt(at, j, at = "asks" /\ jwt[j].active) \in Call
    BY <1>1, CallTyped
<1>3. BearerTypeOK'
    BY <1>2 DEF TypedInv, BearerTypeOK, Comes
<1>4. AskedRightly'
    BY BearerAssumption DEF TypedInv, BearerTypeOK, AskedRightly, Comes, CallAt, UsesKeys
<1> QED
    BY <1>3, <1>4 DEF TypedInv

LEMMA SaysTyped ==
    ASSUME TypedInv, NEW q \in Calls, UNCHANGED <<settings, jwt>>,
           NEW at \in {"admitted", "refused", "error"}, Says(q, at)
    PROVE  call' \in [Calls -> Call] /\ AskedRightly'
<1>1. call[q].jwt \in Jwts \cup {Null}
    BY DEF TypedInv, BearerTypeOK, Call
<1>2. CallAt(at, call[q].jwt, FALSE) \in Call
    BY <1>1, CallTyped
<1> QED
    BY <1>2 DEF TypedInv, BearerTypeOK, Says, AskedRightly, CallAt, UsesKeys

\* Every step keeps the types.
LEMMA StepTyped == TypedInv /\ [BearerNext]_bearer => TypedInv'
<1> SUFFICES ASSUME TypedInv, [BearerNext]_bearer PROVE TypedInv'
    OBVIOUS
<1> USE BearerAssumption
<1>1. CASE UNCHANGED bearer
    BY <1>1 DEF bearer, TypedInv, BearerTypeOK, AskedRightly, UsesKeys
<1>2. ASSUME NEW q \in Calls, CallComes(q) PROVE TypedInv'
  <2>1. CASE PassedOn(q)
    BY <2>1, ComesTyped DEF PassedOn
  <2>2. CASE Tokenless(q)
    BY <2>2, ComesTyped DEF Tokenless
  <2>3. ASSUME NEW j \in Jwts,
               Locally(q, j) \/ TriesAgain(q, j) \/ Asks(q, j) \/ FromCache(q, j) \/ Fetches(q, j)
        PROVE  TypedInv'
    <3>1. \E at \in {"asks", "fetches", "admitted", "refused"} :
              /\ Comes(q, j, at)
              /\ at = "asks" => settings.provider \in {"ory", "auth0", "keycloak"}
              /\ at = "fetches" => UsesKeys
      BY <2>3, VerdictTyped DEF Locally, TriesAgain, Asks, FromCache, Fetches
    <3> QED
      BY <3>1, ComesTyped
  <2> QED
    BY <1>2, <2>1, <2>2, <2>3 DEF CallComes
<1>3. ASSUME NEW q \in Calls, CallStep(q) PROVE TypedInv'
  <2>0. call[q] \in Call
    BY DEF TypedInv, BearerTypeOK
  <2>1. CASE ProviderAnswers(q)
    <3> DEFINE Answered(a) == [call[q] EXCEPT !.heard = a, !.keys = IF a = "keys" THEN Current ELSE {}]
    <3>1. PICK a \in Hears(q) :
              call' = [call EXCEPT ![q].heard = a, ![q].keys = IF a = "keys" THEN Current ELSE {}]
      BY <2>1 DEF ProviderAnswers
    <3>2. a \in Hearing
      BY <2>1, <3>1 DEF ProviderAnswers, Waits, Hears, OryHears, Auth0Hears, KeycloakHears,
                        CognitoHears, Hearing, TypedInv, AskedRightly
    <3>3. Current \in SUBSET Keys
      BY DEF Current
    <3>4. Answered(a) \in Call
      BY <2>0, <3>2, <3>3 DEF Call
    <3>5. call' = [call EXCEPT ![q] = Answered(a)]
      BY <3>1 DEF TypedInv, BearerTypeOK
    <3>6. BearerTypeOK'
      BY <2>1, <3>4, <3>5 DEF TypedInv, BearerTypeOK, ProviderAnswers
    <3>7. Answered(a).at = call[q].at /\ Answered(a).jwt = call[q].jwt
      BY <2>0 DEF Call
    <3>8. AskedRightly'
      BY <2>1, <3>5, <3>7 DEF TypedInv, BearerTypeOK, AskedRightly, UsesKeys, ProviderAnswers
    <3> QED
      BY <3>6, <3>8 DEF TypedInv
  <2>2. CASE AnswerLands(q)
    <3>1. call' \in [Calls -> Call] /\ AskedRightly'
      BY <2>2, SaysTyped, VerdictTyped DEF AnswerLands
    <3> QED
      BY <2>2, <3>1 DEF AnswerLands, TypedInv, BearerTypeOK
  <2>3. CASE KeysLand(q)
    <3>1. call' \in [Calls -> Call] /\ AskedRightly'
      BY <2>3, SaysTyped, VerdictTyped DEF KeysLand
    <3>2. call[q].keys \in SUBSET Keys /\ Ttl - call[q].since \in 0 .. Ttl
      BY <2>0 DEF Call
    <3>3. cache' \in [keys : (SUBSET Keys) \cup {Null}, left : 0 .. Ttl]
      BY <2>3, <3>2 DEF KeysLand, Stored, TypedInv, BearerTypeOK
    <3> QED
      BY <2>3, <3>1, <3>3 DEF KeysLand, TypedInv, BearerTypeOK
  <2>4. CASE Leaves(q)
    <3>1. IdleCall \in Call /\ IdleCall.at = "idle"
      BY CallTyped DEF IdleCall, CallAt
    <3> QED
      BY <2>4, <3>1 DEF Leaves, TypedInv, BearerTypeOK, AskedRightly, UsesKeys
  <2> QED
    BY <1>3, <2>1, <2>2, <2>3, <2>4 DEF CallStep
<1>4. ASSUME NEW k \in Keys, Publish(k) \/ Retire(k) PROVE TypedInv'
  <2>1. ASSUME NEW st \in {"current", "retired"}
        PROVE  [st |-> st, age |-> 0] \in [st : {"unused", "current", "retired"}, age : 0 .. Ttl]
    OBVIOUS
  <2>2. PICK st \in {"current", "retired"} : key' = [key EXCEPT ![k] = [st |-> st, age |-> 0]]
    BY <1>4 DEF Publish, Retire
  <2>3. key' \in [Keys -> [st : {"unused", "current", "retired"}, age : 0 .. Ttl]]
    BY <2>1, <2>2 DEF TypedInv, BearerTypeOK
  <2>4. UNCHANGED <<settings, jwt, cache, call>>
    BY <1>4 DEF Publish, Retire
  <2> QED
    BY <2>3, <2>4 DEF TypedInv, BearerTypeOK, AskedRightly, UsesKeys
<1>5. ASSUME NEW j \in Jwts, Issue(j) \/ RunsOut(j) \/ Withdraw(j) PROVE TypedInv'
  <2> DEFINE Token == [key : Keys \cup {Null}, exp : BOOLEAN, active : BOOLEAN, user : BOOLEAN]
         KeepsKeys == \A i \in Jwts : jwt[i].key # Null => jwt'[i].key = jwt[i].key
  <2>0. jwt \in [Jwts -> Token]
    BY DEF TypedInv, BearerTypeOK
  <2>1. ASSUME Issue(j) PROVE jwt' \in [Jwts -> Token] /\ KeepsKeys
    <3>1. PICK k \in Current, user \in BOOLEAN : jwt' = [jwt EXCEPT ![j].key = k, ![j].user = user]
      BY <2>1 DEF Issue
    <3>2. jwt' = [jwt EXCEPT ![j] = [jwt[j] EXCEPT !.key = k, !.user = user]]
      BY <2>0, <3>1
    <3>3. [jwt[j] EXCEPT !.key = k, !.user = user] \in Token
      BY <2>0 DEF Current
    <3>4. jwt[j].key = Null
      BY <2>1 DEF Issue
    <3> QED
      BY <2>0, <3>2, <3>3, <3>4
  <2>2. ASSUME RunsOut(j) PROVE jwt' \in [Jwts -> Token] /\ KeepsKeys
    BY <2>0, <2>2 DEF RunsOut
  <2>3. ASSUME Withdraw(j) PROVE jwt' \in [Jwts -> Token] /\ KeepsKeys
    BY <2>0, <2>3 DEF Withdraw
  <2>4. jwt' \in [Jwts -> Token] /\ KeepsKeys /\ UNCHANGED <<settings, key, cache, call>>
    BY <1>5, <2>1, <2>2, <2>3 DEF Issue, RunsOut, Withdraw
  <2> QED
    BY <2>4 DEF TypedInv, BearerTypeOK, AskedRightly, UsesKeys
<1>6. CASE Tick
  <2>1. cache' \in [keys : (SUBSET Keys) \cup {Null}, left : 0 .. Ttl]
    BY <1>6 DEF Tick, TypedInv, BearerTypeOK
  <2>2. ASSUME NEW k \in Keys
        PROVE  [key[k] EXCEPT !.age = IF @ = Ttl THEN Ttl ELSE @ + 1]
                 \in [st : {"unused", "current", "retired"}, age : 0 .. Ttl]
    BY DEF TypedInv, BearerTypeOK
  <2>3. key' \in [Keys -> [st : {"unused", "current", "retired"}, age : 0 .. Ttl]]
    BY <1>6, <2>2 DEF Tick
  <2>4. ASSUME NEW q \in Calls PROVE call'[q] \in Call /\ call'[q].at = call[q].at /\ call'[q].jwt = call[q].jwt
    <3>1. call[q] \in Call /\ call'[q] = IF Waits(q) THEN [call[q] EXCEPT !.since = @ + 1] ELSE call[q]
      BY <1>6 DEF Tick, TypedInv, BearerTypeOK
    <3>2. Waits(q) => call[q].since + 1 \in 0 .. Timeout
      BY <1>6, <3>1 DEF Tick, Call
    <3> QED
      BY <3>1, <3>2 DEF Call
  <2>5. call' \in [Calls -> Call]
    BY <1>6, <2>4 DEF Tick
  <2>6. AskedRightly'
    BY <1>6, <2>4 DEF Tick, TypedInv, AskedRightly, UsesKeys
  <2> QED
    BY <1>6, <2>1, <2>3, <2>5, <2>6 DEF Tick, TypedInv, BearerTypeOK
<1>7. CASE ClearCache
    BY <1>7 DEF ClearCache, NoCache, TypedInv, BearerTypeOK, AskedRightly, UsesKeys
<1> QED
    BY <1>1, <1>2, <1>3, <1>4, <1>5, <1>6, <1>7 DEF BearerNext

\* Every reachable state of the middleware is well typed, for any number of
\* requests, keys and tokens.
THEOREM Typed == BearerSpec => []BearerTypeOK
<1>1. TypedInv => BearerTypeOK
    BY DEF TypedInv
<1> QED
    BY InitTyped, StepTyped, <1>1, PTL DEF BearerSpec

-----------------------------------------------------------------------------
(* No key set is too old *)

\* What the provider publishes or retires is recent.
LEMMA RotationKeepsRecent ==
    ASSUME NEW f \in [Keys -> KeyState], NEW k \in Keys, NEW K, NEW n \in 0 .. Ttl,
           Recent(f, K, n),
           NEW st \in {"current", "retired"},
           \/ f[k].st = "unused" /\ st = "current"
           \/ f[k].st = "current" /\ st = "retired"
    PROVE  Recent([f EXCEPT ![k] = [st |-> st, age |-> 0]], K, n)
<1> DEFINE g == [f EXCEPT ![k] = [st |-> st, age |-> 0]]
<1> USE BearerAssumption
<1>1. ASSUME NEW l \in Keys, l # k PROVE g[l] = f[l]
    BY <1>1
<1>2. g[k].st = st /\ g[k].age = 0
    OBVIOUS
<1>3. ASSUME NEW l \in Keys
      PROVE  /\ l \in K => g[l].st = "current" \/ (g[l].st = "retired" /\ g[l].age + n <= Ttl)
             /\ l \notin K /\ g[l].st = "current" => g[l].age + n <= Ttl
  <2>1. CASE l = k
    BY <1>2, <2>1 DEF Recent
  <2>2. CASE l # k
    BY <1>1, <2>2 DEF Recent
  <2> QED
    BY <2>1, <2>2
<1> QED
    BY <1>3 DEF Recent

\* A tick takes as much from what is left to a key set as it adds to the ages.
LEMMA TickKeepsRecent ==
    ASSUME NEW f \in [Keys -> KeyState], NEW K, NEW n \in 0 .. Ttl, Recent(f, K, n)
    PROVE  Recent([k \in Keys |-> [f[k] EXCEPT !.age = IF @ = Ttl THEN Ttl ELSE @ + 1]],
                  K, IF n = 0 THEN 0 ELSE n - 1)
<1> DEFINE g == [k \in Keys |-> [f[k] EXCEPT !.age = IF @ = Ttl THEN Ttl ELSE @ + 1]]
           m == IF n = 0 THEN 0 ELSE n - 1
<1> USE BearerAssumption
<1>1. ASSUME NEW k \in Keys
      PROVE  /\ k \in K => g[k].st = "current" \/ (g[k].st = "retired" /\ g[k].age + m <= Ttl)
             /\ k \notin K /\ g[k].st = "current" => g[k].age + m <= Ttl
  <2>1. f[k] \in KeyState
    OBVIOUS
  <2>2. g[k].st = f[k].st /\ g[k].age = IF f[k].age = Ttl THEN Ttl ELSE f[k].age + 1
    BY <2>1 DEF KeyState
  <2>3. f[k].age \in 0 .. Ttl
    BY <2>1 DEF KeyState
  <2>4. f[k].age + n <= Ttl => g[k].age + m <= Ttl
    BY <2>2, <2>3
  <2> QED
    BY <2>2, <2>4 DEF Recent
<1> QED
    BY <1>1 DEF Recent

\* What the provider answers with is recent, whatever time is left.
LEMMA CurrentIsRecent ==
    ASSUME TypedInv, NEW n \in Nat PROVE Recent(key, Current, n)
BY DEF Recent, Current

LEMMA InitRecent == BearerInit => BearerInv
<1> SUFFICES ASSUME BearerInit PROVE BearerInv
    OBVIOUS
<1>1. TypedInv
    BY InitTyped
<1>2. \A q \in Calls : call[q].at = "idle"
    BY DEF BearerInit, IdleCall, CallAt
<1>3. CacheRecent /\ ArrivingRecent /\ VouchedWhileSound
    BY <1>2 DEF BearerInit, NoCache, CacheRecent, ArrivingRecent, VouchedWhileSound, Alive, Waits
<1> QED
    BY <1>1, <1>3 DEF BearerInv

\* A request that comes leaves the others and the cache alone.
LEMMA ComesRecent ==
    ASSUME BearerInv, NEW q \in Calls, NEW j \in Jwts \cup {Null}, NEW at, Comes(q, j, at)
    PROVE  CacheRecent' /\ ArrivingRecent' /\ VouchedWhileSound'
<1>1. CacheRecent'
    BY DEF BearerInv, CacheRecent, Comes
<1>2. \A p \in Calls : p # q => call'[p] = call[p]
    BY DEF BearerInv, TypedInv, BearerTypeOK, Comes
<1>3. call'[q] = CallAt(at, j, at = "asks" /\ jwt[j].active)
    BY DEF BearerInv, TypedInv, BearerTypeOK, Comes
<1>4. /\ call'[q].heard = "nothing" /\ call'[q].at = at /\ call'[q].jwt = j
      /\ call'[q].sound = (at = "asks" /\ jwt[j].active)
    BY <1>3 DEF CallAt
<1>5. ArrivingRecent'
    BY <1>2, <1>4 DEF BearerInv, ArrivingRecent, Waits, Comes
<1>6. VouchedWhileSound'
    BY <1>2, <1>4, ZenonT(60) DEF BearerInv, VouchedWhileSound, Alive, Comes
<1> QED
    BY <1>1, <1>5, <1>6

\* One that is answered has nothing more to hear.
LEMMA SaysRecent ==
    ASSUME BearerInv, NEW q \in Calls, NEW c, c.at \notin {"asks", "fetches"},
           call' = [call EXCEPT ![q] = c], UNCHANGED <<settings, key, jwt>>
    PROVE  ArrivingRecent' /\ VouchedWhileSound'
<1>1. \A p \in Calls : call'[p] = IF p = q THEN c ELSE call[p]
    BY DEF BearerInv, TypedInv, BearerTypeOK
<1> QED
    BY <1>1 DEF BearerInv, ArrivingRecent, VouchedWhileSound, Alive, Waits

\* Every step keeps every key set recent and every vouching sound.
LEMMA StepRecent == BearerInv /\ [BearerNext]_bearer => BearerInv'
<1> SUFFICES ASSUME BearerInv, [BearerNext]_bearer PROVE BearerInv'
    OBVIOUS
<1> USE BearerAssumption
<1>0. TypedInv /\ TypedInv'
    BY StepTyped DEF BearerInv
<1> SUFFICES CacheRecent' /\ ArrivingRecent' /\ VouchedWhileSound'
    BY <1>0 DEF BearerInv
<1>1. CASE UNCHANGED bearer
    BY <1>1 DEF bearer, BearerInv, CacheRecent, ArrivingRecent, VouchedWhileSound, Alive, Waits
<1>2. ASSUME NEW q \in Calls, CallComes(q) PROVE CacheRecent' /\ ArrivingRecent' /\ VouchedWhileSound'
    BY <1>2, ComesRecent DEF CallComes, PassedOn, Tokenless, Locally, TriesAgain, Asks, FromCache, Fetches
<1>3. ASSUME NEW q \in Calls, CallStep(q) PROVE CacheRecent' /\ ArrivingRecent' /\ VouchedWhileSound'
  <2>0. call[q] \in Call
    BY <1>0 DEF TypedInv, BearerTypeOK
  <2>1. CASE ProviderAnswers(q)
    <3>1. PICK a \in Hears(q) :
              call' = [call EXCEPT ![q].heard = a, ![q].keys = IF a = "keys" THEN Current ELSE {}]
      BY <2>1 DEF ProviderAnswers
    <3>2. /\ \A p \in Calls : p # q => call'[p] = call[p]
          /\ call'[q].at = call[q].at /\ call'[q].jwt = call[q].jwt
          /\ call'[q].since = call[q].since /\ call'[q].sound = call[q].sound
          /\ call'[q].heard = a /\ (a = "keys" => call'[q].keys = Current)
      BY <1>0, <2>0, <3>1 DEF TypedInv, BearerTypeOK, Call
    <3>3. Ttl - call[q].since \in Nat
      BY <2>0 DEF Call
    <3>4. UNCHANGED <<settings, key, jwt, cache>>
      BY <2>1 DEF ProviderAnswers
    <3>5. CacheRecent'
      BY <3>4 DEF BearerInv, CacheRecent
    <3>6. ArrivingRecent'
      BY <1>0, <3>2, <3>3, <3>4, CurrentIsRecent DEF BearerInv, ArrivingRecent, Waits
    <3>7. call[q].at = "asks" => /\ a # "keys"
                                 /\ a = "claims" => Alive(call[q].jwt)
                                 /\ a = "no" => ~Alive(call[q].jwt)
      BY <1>0, <3>1 DEF Hears, OryHears, Auth0Hears, KeycloakHears, TypedInv, AskedRightly
    <3>8. ASSUME NEW p \in Calls, call'[p].at = "asks"
          PROVE  /\ ~call'[p].sound => ~jwt'[call'[p].jwt].active
                 /\ call'[p].heard = "claims" => call'[p].sound
                 /\ call'[p].heard = "no" => ~Alive(call'[p].jwt)
                 /\ call'[p].heard # "keys"
      <4>1. CASE p = q
        <5>1. call[q].at = "asks"
          BY <3>2, <3>8, <4>1
        <5>2. a = "claims" => jwt[call[q].jwt].active
          BY <3>7, <5>1, Zenon DEF Alive
        <5>3. ~call[q].sound => ~jwt[call[q].jwt].active
          BY <5>1 DEF BearerInv, VouchedWhileSound
        <5>4. /\ call'[p].jwt = call[q].jwt /\ jwt' = jwt
              /\ call'[p].sound = call[q].sound /\ call'[p].heard = a
          BY <3>2, <3>4, <4>1
        <5>5. (a = "no" => ~Alive(call[q].jwt)) /\ a # "keys"
          BY <3>7, <5>1
        <5>6. ~call'[p].sound => ~jwt'[call'[p].jwt].active
          BY <5>3, <5>4
        <5>7. call'[p].heard = "claims" => call'[p].sound
          BY <5>2, <5>3, <5>4, Zenon
        <5>8. (call'[p].heard = "no" => ~Alive(call'[p].jwt)) /\ call'[p].heard # "keys"
          BY <5>4, <5>5
        <5> QED
          BY <5>6, <5>7, <5>8
      <4>2. CASE p # q
        BY <3>2, <3>4, <3>8, <4>2 DEF BearerInv, VouchedWhileSound
      <4> QED
        BY <4>1, <4>2
    <3>9. VouchedWhileSound'
      BY <3>4, <3>8 DEF VouchedWhileSound, Alive
    <3> QED
      BY <3>5, <3>6, <3>9
  <2>2. CASE AnswerLands(q)
    <3>1. \E at \in {"admitted", "refused", "error"} : Says(q, at)
      BY <2>2, VerdictTyped DEF AnswerLands
    <3>2. ArrivingRecent' /\ VouchedWhileSound'
      BY <2>2, <3>1, SaysRecent DEF AnswerLands, Says, CallAt
    <3> QED
      BY <2>2, <3>2 DEF AnswerLands, BearerInv, CacheRecent
  <2>3. CASE KeysLand(q)
    <3>1. \E at \in {"admitted", "refused", "error"} : Says(q, at)
      BY <2>3, VerdictTyped DEF KeysLand
    <3>2. ArrivingRecent' /\ VouchedWhileSound'
      BY <2>3, <3>1, SaysRecent DEF KeysLand, Says, CallAt
    <3>3. CacheRecent'
      BY <2>3 DEF KeysLand, Stored, BearerInv, CacheRecent, ArrivingRecent, Waits
    <3> QED
      BY <3>2, <3>3
  <2>4. CASE Leaves(q)
    BY <2>4, SaysRecent DEF Leaves, IdleCall, CallAt, BearerInv, CacheRecent
  <2> QED
    BY <1>3, <2>1, <2>2, <2>3, <2>4 DEF CallStep
<1>4. ASSUME NEW k \in Keys, Publish(k) \/ Retire(k)
      PROVE  CacheRecent' /\ ArrivingRecent' /\ VouchedWhileSound'
  <2>1. PICK st \in {"current", "retired"} :
            /\ key' = [key EXCEPT ![k] = [st |-> st, age |-> 0]]
            /\ \/ key[k].st = "unused" /\ st = "current"
               \/ key[k].st = "current" /\ st = "retired"
    BY <1>4 DEF Publish, Retire, Current
  <2>2. key \in [Keys -> KeyState]
    BY <1>0 DEF TypedInv, BearerTypeOK, KeyState
  <2>3. ASSUME NEW K, NEW n \in 0 .. Ttl, Recent(key, K, n) PROVE Recent(key', K, n)
    BY <2>1, <2>2, <2>3, RotationKeepsRecent
  <2>4. UNCHANGED <<settings, jwt, cache, call>>
    BY <1>4 DEF Publish, Retire
  <2>5. CacheRecent'
    BY <1>0, <2>3, <2>4 DEF BearerInv, CacheRecent, TypedInv, BearerTypeOK
  <2>6. \A q \in Calls : Ttl - call[q].since \in 0 .. Ttl
    BY <1>0 DEF TypedInv, BearerTypeOK, Call
  <2>7. ArrivingRecent'
    BY <2>3, <2>4, <2>6 DEF BearerInv, ArrivingRecent, Waits
  <2>8. VouchedWhileSound'
    BY <2>4 DEF BearerInv, VouchedWhileSound, Alive
  <2> QED
    BY <2>5, <2>7, <2>8
<1>5. ASSUME NEW j \in Jwts, Issue(j) \/ RunsOut(j) \/ Withdraw(j)
      PROVE  CacheRecent' /\ ArrivingRecent' /\ VouchedWhileSound'
  <2>1. UNCHANGED <<settings, key, cache, call>>
    BY <1>5 DEF Issue, RunsOut, Withdraw
  <2>2. CacheRecent' /\ ArrivingRecent'
    BY <2>1 DEF BearerInv, CacheRecent, ArrivingRecent, Waits
  <2>3. \A i \in Jwts : (~jwt[i].active => ~jwt'[i].active) /\ (jwt[i].exp => jwt'[i].exp)
    <3>1. jwt \in [Jwts -> [key : Keys \cup {Null}, exp : BOOLEAN, active : BOOLEAN, user : BOOLEAN]]
      BY <1>0 DEF TypedInv, BearerTypeOK
    <3>2. CASE Issue(j)
      <4>1. PICK k \in Current, user \in BOOLEAN : jwt' = [jwt EXCEPT ![j].key = k, ![j].user = user]
        BY <3>2 DEF Issue
      <4> QED
        BY <3>1, <4>1
    <3>3. CASE RunsOut(j)
      BY <3>1, <3>3 DEF RunsOut
    <3>4. CASE Withdraw(j)
      BY <3>1, <3>4 DEF Withdraw
    <3> QED
      BY <1>5, <3>2, <3>3, <3>4
  <2>4. VouchedWhileSound'
    BY <1>0, <2>1, <2>3 DEF BearerInv, VouchedWhileSound, Alive, TypedInv, AskedRightly
  <2> QED
    BY <2>2, <2>4
<1>6. CASE Tick
  <2>1. key \in [Keys -> KeyState]
    BY <1>0 DEF TypedInv, BearerTypeOK, KeyState
  <2>2. ASSUME NEW K, NEW n \in 0 .. Ttl, Recent(key, K, n)
        PROVE  Recent(key', K, IF n = 0 THEN 0 ELSE n - 1)
    BY <1>6, <2>1, <2>2, TickKeepsRecent DEF Tick
  <2>3. cache'.keys = cache.keys /\ cache'.left = IF cache.left = 0 THEN 0 ELSE cache.left - 1
    BY <1>0, <1>6 DEF Tick, TypedInv, BearerTypeOK
  <2>4. CacheRecent'
    BY <1>0, <2>2, <2>3 DEF BearerInv, CacheRecent, TypedInv, BearerTypeOK
  <2>5. ASSUME NEW q \in Calls
        PROVE  /\ call'[q].at = call[q].at /\ call'[q].jwt = call[q].jwt
               /\ call'[q].heard = call[q].heard /\ call'[q].keys = call[q].keys
               /\ call'[q].sound = call[q].sound
               /\ Waits(q) => /\ call'[q].since = call[q].since + 1
                              /\ call[q].since \in 0 .. (Ttl - 1)
    <3>1. call[q] \in Call /\ call'[q] = IF Waits(q) THEN [call[q] EXCEPT !.since = @ + 1] ELSE call[q]
      BY <1>0, <1>6 DEF Tick, TypedInv, BearerTypeOK
    <3> QED
      BY <3>1 DEF Call
  <2>6. ArrivingRecent'
    <3> SUFFICES ASSUME NEW q \in Calls, Waits(q), call[q].heard = "keys"
                 PROVE  Recent(key', call[q].keys, Ttl - (call[q].since + 1))
      BY <2>5 DEF ArrivingRecent, Waits
    <3>1. Recent(key, call[q].keys, Ttl - call[q].since)
      BY DEF BearerInv, ArrivingRecent
    <3> DEFINE n == Ttl - call[q].since
    <3>2. n \in 0 .. Ttl /\ n # 0 /\ n - 1 = Ttl - (call[q].since + 1)
      BY <2>5
    <3>3. Recent(key', call[q].keys, IF n = 0 THEN 0 ELSE n - 1)
      BY <2>2, <3>1, <3>2
    <3> QED
      BY <3>2, <3>3
  <2>7. VouchedWhileSound'
    BY <1>6, <2>5 DEF Tick, BearerInv, VouchedWhileSound, Alive
  <2> QED
    BY <2>4, <2>6, <2>7
<1>7. CASE ClearCache
    BY <1>7 DEF ClearCache, NoCache, BearerInv, CacheRecent, ArrivingRecent, VouchedWhileSound, Alive, Waits
<1> QED
    BY <1>1, <1>2, <1>3, <1>4, <1>5, <1>6, <1>7 DEF BearerNext

LEMMA Inductive == BearerSpec => []BearerInv
BY InitRecent, StepRecent, PTL DEF BearerSpec

\* As long as the cache answers, it answers with what the provider published
\* within the last Ttl, however many requests fetch at the same time.
THEOREM CacheStaysRecent == BearerSpec => []CacheIsRecent
<1>1. BearerInv => CacheIsRecent
  <2> SUFFICES ASSUME BearerInv, Hit PROVE CacheIsRecent
      BY DEF CacheIsRecent
  <2>1. Recent(key, cache.keys, cache.left) /\ cache.left > 0
      BY DEF Hit, BearerInv, CacheRecent
  <2>2. cache.left \in 0 .. Ttl /\ \A k \in Keys : key[k].age \in 0 .. Ttl
      BY DEF BearerInv, TypedInv, BearerTypeOK
  <2>3. cache.keys \in SUBSET Keys
      BY DEF Hit, BearerInv, TypedInv, BearerTypeOK
  <2>4. \A k \in cache.keys : RecentlyHad(k)
      BY BearerAssumption, <2>1, <2>2, <2>3 DEF Recent, RecentlyHad
  <2>5. \A k \in Current : key[k].age = Ttl => k \in cache.keys
      BY BearerAssumption, <2>1, <2>2 DEF Recent, Current
  <2> QED
      BY <2>4, <2>5 DEF CacheIsRecent
<1> QED
    BY Inductive, <1>1, PTL

\* Who is admitted by a step, and on what grounds.
LEMMA AdmissionVouched ==
    ASSUME BearerInv, BearerNext, NEW q \in Calls, Ends(q, "admitted")
    PROVE  LET j == call'[q].jwt IN
           IF UsesKeys THEN ~jwt[j].exp /\ RecentlyHad(jwt[j].key)
           ELSE VerifiedLocally(j) \/ (settings.provider # "cognito" /\ call[q].sound)
<1> USE BearerAssumption
<1>0. TypedInv /\ call \in [Calls -> Call] /\ call[q] \in Call
    BY DEF BearerInv, TypedInv, BearerTypeOK
<1>1. ASSUME NEW K, NEW n \in 1 .. Ttl, Recent(key, K, n), K \subseteq Keys, NEW j, VerifiedBy(j, K)
      PROVE  ~jwt[j].exp /\ RecentlyHad(jwt[j].key)
  <2>1. jwt[j].key \in K /\ ~jwt[j].exp
      BY <1>1 DEF VerifiedBy, FindKey, Decodes
  <2>2. jwt[j].key \in Keys /\ key[jwt[j].key].age \in 0 .. Ttl
      BY <1>0, <1>1, <2>1 DEF TypedInv, BearerTypeOK
  <2> QED
      BY <1>1, <2>1, <2>2 DEF Recent, RecentlyHad
<1>2. ASSUME NEW p \in Calls, NEW j, NEW at, Comes(p, j, at)
      PROVE  p = q /\ call'[q].jwt = j /\ at = "admitted"
    BY <1>0, <1>2 DEF Comes, CallAt, Ends
<1>3. CASE \E p \in Calls : CallComes(p)
  <2>1. PICK p \in Calls : CallComes(p)
      BY <1>3
  <2>2. PICK j \in Jwts : Locally(p, j) \/ FromCache(p, j)
      BY <1>2, <2>1 DEF CallComes, PassedOn, Tokenless, TriesAgain, Asks, Fetches
  <2>3. call'[q].jwt = j
      BY <1>2, <2>2 DEF Locally, FromCache
  <2>4. CASE Locally(p, j)
      BY <2>3, <2>4 DEF Locally, VerifiedLocally, UsesKeys
  <2>5. CASE FromCache(p, j)
    <3>1. UsesKeys /\ Hit /\ VerifiedBy(j, cache.keys)
        BY <1>2, <2>5 DEF FromCache, Verdict
    <3>2. Recent(key, cache.keys, cache.left) /\ cache.left \in 1 .. Ttl /\ cache.keys \subseteq Keys
        BY <1>0, <3>1 DEF Hit, BearerInv, CacheRecent, TypedInv, BearerTypeOK
    <3> QED
        BY <1>1, <2>3, <3>1, <3>2
  <2> QED
      BY <2>2, <2>4, <2>5
<1>4. CASE \E p \in Calls : CallStep(p)
  <2>1. PICK p \in Calls : CallStep(p)
      BY <1>4
  <2>2. ASSUME NEW at, Says(p, at) PROVE p = q /\ call'[q].jwt = call[q].jwt /\ at = "admitted"
      BY <1>0, <2>2 DEF Says, CallAt, Ends
  <2>3. ~ProviderAnswers(p) /\ ~Leaves(p)
    <3>1. ASSUME ProviderAnswers(p) PROVE FALSE
      <4>1. PICK a \in Hears(p) :
                call' = [call EXCEPT ![p].heard = a, ![p].keys = IF a = "keys" THEN Current ELSE {}]
          BY <3>1 DEF ProviderAnswers
      <4>2. call[p] \in Call
          BY <1>0
      <4>3. call'[q].at = call[q].at
          BY <1>0, <4>1, <4>2 DEF Call
      <4> QED
          BY <4>3 DEF Ends
    <3>2. ~Leaves(p)
        BY <1>0 DEF Leaves, IdleCall, CallAt, Ends
    <3> QED
        BY <3>1, <3>2
  <2>4. CASE AnswerLands(p)
    <3>1. p = q /\ call'[q].jwt = call[q].jwt /\ call[q].heard = "claims" /\ call[q].at = "asks"
        BY <2>2, <2>4 DEF AnswerLands, Verdict
    <3> QED
        BY <3>1 DEF BearerInv, TypedInv, AskedRightly, VouchedWhileSound, Alive, UsesKeys
  <2>5. CASE KeysLand(p)
    <3>1. /\ p = q /\ call'[q].jwt = call[q].jwt /\ call[q].heard = "keys" /\ call[q].at = "fetches"
          /\ VerifiedBy(call[q].jwt, call[q].keys)
        BY <2>2, <2>5 DEF KeysLand, Verdict
    <3>2. Recent(key, call[q].keys, Ttl - call[q].since) /\ UsesKeys
        BY <3>1 DEF BearerInv, ArrivingRecent, Waits, TypedInv, AskedRightly
    <3>3. Ttl - call[q].since \in 1 .. Ttl /\ call[q].keys \subseteq Keys
        BY <1>0 DEF Call
    <3> QED
        BY <1>1, <3>1, <3>2, <3>3
  <2> QED
      BY <2>1, <2>3, <2>4, <2>5 DEF CallStep
<1>5. ASSUME UNCHANGED call PROVE FALSE
    BY <1>5 DEF Ends
<1>6. ~Tick
    BY <1>0 DEF Tick, Call, Ends
<1> QED
    BY <1>3, <1>4, <1>5, <1>6 DEF BearerNext, Publish, Retire, Issue, RunsOut, Withdraw, ClearCache

\* Nobody is let in without a good token and somebody recent to vouch for it,
\* whatever the provider withdraws and rotates while requests are under way.
THEOREM Admitted == BearerSpec => AdmittedWasVouched
<1>1. BearerInv /\ [BearerNext]_bearer =>
        [\A q \in Calls : Ends(q, "admitted") =>
           LET j == call'[q].jwt IN
           IF UsesKeys THEN ~jwt[j].exp /\ RecentlyHad(jwt[j].key)
           ELSE VerifiedLocally(j) \/ (settings.provider # "cognito" /\ call[q].sound)]_bearer
    BY AdmissionVouched
<1> QED
    BY Inductive, <1>1, PTL DEF BearerSpec, AdmittedWasVouched

\* Who is refused by a step, and for what cause.
LEMMA RefusalCaused ==
    ASSUME BearerInv, BearerNext, NEW q \in Calls, Ends(q, "refused")
    PROVE  LET j == call'[q].jwt IN
           \/ j = Null \/ ~jwt[j].user \/ ~Alive(j) \/ call[q].heard = "failed"
           \/ settings.provider = "cognito" /\ settings.pin # Null
           \/ UsesKeys /\ ~(key[jwt[j].key].st = "current" /\ key[jwt[j].key].age = Ttl)
<1> USE BearerAssumption
<1> DEFINE TooNew(j) == UsesKeys /\ ~(key[jwt[j].key].st = "current" /\ key[jwt[j].key].age = Ttl)
<1>0. TypedInv /\ call \in [Calls -> Call] /\ call[q] \in Call
    BY DEF BearerInv, TypedInv, BearerTypeOK
<1>1. ASSUME NEW K, NEW n \in 1 .. Ttl, Recent(key, K, n), K \subseteq Keys, NEW j \in Jwts,
             jwt[j].key # Null, UsesKeys, Verdict(j, VerifiedBy(j, K)) = "refused"
      PROVE  ~jwt[j].user \/ ~Alive(j) \/ TooNew(j)
  <2>1. jwt[j].key \in Keys /\ key[jwt[j].key].age \in 0 .. Ttl
      BY <1>0, <1>1 DEF TypedInv, BearerTypeOK
  <2>2. CASE jwt[j].key \in K
      BY <1>1, <2>2 DEF Verdict, VerifiedBy, FindKey, Decodes, Alive
  <2>3. CASE jwt[j].key \notin K
      BY <1>1, <2>1, <2>3 DEF Recent
  <2> QED
      BY <2>2, <2>3
<1>2. ASSUME NEW p \in Calls, NEW j, NEW at, Comes(p, j, at)
      PROVE  p = q /\ call'[q].jwt = j /\ at = "refused" /\ (j # Null => jwt[j].key # Null)
    BY <1>0, <1>2 DEF Comes, CallAt, Ends
<1>3. CASE \E p \in Calls : CallComes(p)
  <2>1. PICK p \in Calls : CallComes(p)
      BY <1>3
  <2>2. CASE PassedOn(p)
      BY <1>2, <2>2 DEF PassedOn
  <2>3. CASE Tokenless(p)
      BY <1>2, <2>3 DEF Tokenless
  <2>4. ASSUME NEW j \in Jwts,
               Locally(p, j) \/ TriesAgain(p, j) \/ Asks(p, j) \/ FromCache(p, j) \/ Fetches(p, j)
        PROVE  LET i == call'[q].jwt IN
               ~jwt[i].user \/ ~Alive(i) \/ (settings.provider = "cognito" /\ settings.pin # Null) \/ TooNew(i)
    <3>1. call'[q].jwt = j
        BY <1>2, <2>4 DEF Locally, TriesAgain, Asks, FromCache, Fetches
    <3>2. CASE Locally(p, j)
        BY <1>2, <3>1, <3>2 DEF Locally, Verdict
    <3>3. CASE TriesAgain(p, j)
        BY <3>3 DEF TriesAgain
    <3>4. CASE FromCache(p, j)
      <4>1. UsesKeys /\ Hit /\ Verdict(j, VerifiedBy(j, cache.keys)) = "refused" /\ jwt[j].key # Null
          BY <1>2, <3>4 DEF FromCache
      <4>2. Recent(key, cache.keys, cache.left) /\ cache.left \in 1 .. Ttl /\ cache.keys \subseteq Keys
          BY <1>0, <4>1 DEF Hit, BearerInv, CacheRecent, TypedInv, BearerTypeOK
      <4> QED
          BY <1>1, <3>1, <4>1, <4>2
    <3>5. ~Asks(p, j) /\ ~Fetches(p, j)
        BY <1>2 DEF Asks, Fetches
    <3> QED
        BY <2>4, <3>2, <3>3, <3>4, <3>5
  <2> QED
      BY <2>1, <2>2, <2>3, <2>4 DEF CallComes
<1>4. CASE \E p \in Calls : CallStep(p)
  <2>1. PICK p \in Calls : CallStep(p)
      BY <1>4
  <2>2. ASSUME NEW at, Says(p, at) PROVE p = q /\ call'[q].jwt = call[q].jwt /\ at = "refused"
      BY <1>0, <2>2 DEF Says, CallAt, Ends
  <2>3. ASSUME ProviderAnswers(p) PROVE FALSE
    <3>1. PICK a \in Hears(p) :
              call' = [call EXCEPT ![p].heard = a, ![p].keys = IF a = "keys" THEN Current ELSE {}]
        BY <2>3 DEF ProviderAnswers
    <3>2. call[p] \in Call
        BY <1>0
    <3>3. call'[q].at = call[q].at
        BY <1>0, <3>1, <3>2 DEF Call
    <3> QED
        BY <3>3 DEF Ends
  <2>4. ~Leaves(p)
      BY <1>0 DEF Leaves, IdleCall, CallAt, Ends
  <2>5. CASE AnswerLands(p)
    <3>1. /\ p = q /\ call'[q].jwt = call[q].jwt /\ call[q].at = "asks"
          /\ call[q].heard \notin {"junk", "nothing"}
          /\ call[q].heard = "claims" => ~jwt[call[q].jwt].user
        BY <2>2, <2>5 DEF AnswerLands, Verdict
    <3>2. call[q].heard \in {"claims", "no", "failed", "keys"}
        BY <1>0, <3>1 DEF Call, Hearing
    <3> QED
        BY <3>1, <3>2 DEF BearerInv, VouchedWhileSound
  <2>6. CASE KeysLand(p)
    <3>1. /\ p = q /\ call'[q].jwt = call[q].jwt /\ call[q].at = "fetches"
          /\ \/ call[q].heard = "failed"
             \/ /\ call[q].heard = "keys"
                /\ Verdict(call[q].jwt, VerifiedBy(call[q].jwt, call[q].keys)) = "refused"
        BY <2>2, <2>6 DEF KeysLand
    <3>2. CASE call[q].heard = "keys"
      <4>1. Recent(key, call[q].keys, Ttl - call[q].since) /\ UsesKeys /\ call[q].jwt \in Jwts
          BY <3>1, <3>2 DEF BearerInv, ArrivingRecent, Waits, TypedInv, AskedRightly
      <4>2. Ttl - call[q].since \in 1 .. Ttl /\ call[q].keys \subseteq Keys
          BY <1>0 DEF Call
      <4>3. jwt[call[q].jwt].key # Null
          BY <3>1 DEF BearerInv, TypedInv, AskedRightly
      <4> QED
          BY <1>1, <3>1, <3>2, <4>1, <4>2, <4>3
    <3> QED
        BY <3>1, <3>2
  <2> QED
      BY <2>1, <2>3, <2>4, <2>5, <2>6 DEF CallStep
<1>5. ASSUME UNCHANGED call PROVE FALSE
    BY <1>5 DEF Ends
<1>6. ~Tick
    BY <1>0 DEF Tick, Call, Ends
<1> QED
    BY <1>3, <1>4, <1>5, <1>6 DEF BearerNext, Publish, Retire, Issue, RunsOut, Withdraw, ClearCache

\* A good token is refused only because its provider could not be asked, or
\* because no key set that is recent enough can have its key yet, whatever
\* requests fetch, and fail to, at the same time.
THEOREM Refused == BearerSpec => RefusedForCause
<1>1. BearerInv /\ [BearerNext]_bearer =>
        [\A q \in Calls : Ends(q, "refused") =>
           LET j == call'[q].jwt IN
           \/ j = Null \/ ~jwt[j].user \/ ~Alive(j) \/ call[q].heard = "failed"
           \/ settings.provider = "cognito" /\ settings.pin # Null
           \/ UsesKeys /\ ~(key[jwt[j].key].st = "current" /\ key[jwt[j].key].age = Ttl)]_bearer
    BY RefusalCaused
<1> QED
    BY Inductive, <1>1, PTL DEF BearerSpec, RefusedForCause
=============================================================================
