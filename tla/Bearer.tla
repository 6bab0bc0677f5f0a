------------------------------- MODULE Bearer -------------------------------
(***************************************************************************)
(* AuthMiddleware.  A bearer token is checked with the configured public   *)
(* key, or else by asking the provider, or, with Cognito, with the key set *)
(* the provider publishes, which is cached for JWKS_CACHE_TTL_SECONDS and  *)
(* shared by all requests.  Meanwhile the provider rotates its keys and    *)
(* withdraws tokens.  Time is counted in ticks; what matters is how old    *)
(* the key set of a verdict is.                                            *)
(***************************************************************************)
EXTENDS Naturals

CONSTANTS
    Jwts,        \* tokens the provider issues
    Keys, First, \* signing keys of the provider, and the one it starts with
    Pins,        \* what jwt_public_key may be
    Calls,       \* requests under way at most
    Ttl,         \* JWKS_CACHE_TTL_SECONDS, in ticks
    Timeout,     \* the longest a provider takes to answer, in ticks
    Null         \* no token, no key, no cached key set

ASSUME BearerAssumption ==
    /\ First \in Keys /\ Pins \subseteq Keys \cup {Null}
    /\ Ttl \in Nat /\ Timeout \in Nat /\ Timeout < Ttl
    /\ Null \notin Jwts \cup Keys

VARIABLES
    settings,  \* auth_provider_type and jwt_public_key
    key,       \* [Keys -> what the provider does with it, since how many ticks]
    jwt,       \* [Jwts -> the key it is signed with, and what is wrong with it]
    cache,     \* _jwks_cache, and the ticks until _jwks_cache_expires
    call       \* [Calls -> a request at the middleware]

bearer == <<settings, key, jwt, cache, call>>

Provider == {"none", "ory", "auth0", "keycloak", "cognito"}
Unset == [provider |-> "none", pin |-> Null]

\* validate_config lets no provider start without a URL; a key is optional.
Settings == {Unset} \cup [provider : Provider \ {"none"}, pin : Pins]

Hearing == {"claims", "no", "keys", "failed", "junk", "nothing"}
Call == [at : {"idle", "asks", "fetches", "admitted", "anonymous", "refused", "error"},
         jwt : Jwts \cup {Null}, heard : Hearing, keys : SUBSET Keys,
         since : 0 .. Timeout, sound : BOOLEAN]

\* Nothing heard yet; sound: its token was not withdrawn when it came.
CallAt(at, j, sound) ==
    [at |-> at, jwt |-> j, heard |-> "nothing", keys |-> {}, since |-> 0, sound |-> sound]

IdleCall == CallAt("idle", Null, FALSE)

\* None of the three globals is set.
NoCache == [keys |-> Null, left |-> 0]

BearerInit ==
    /\ settings \in Settings
    /\ key = [k \in Keys |-> [st |-> IF k = First THEN "current" ELSE "unused", age |-> Ttl]]
    /\ jwt = [j \in Jwts |-> [key |-> Null, exp |-> FALSE, active |-> TRUE, user |-> TRUE]]
    /\ cache = NoCache
    /\ call = [q \in Calls |-> IdleCall]

-----------------------------------------------------------------------------
(* The provider *)

Current == {k \in Keys : key[k].st = "current"}

Publish(k) ==
    /\ key[k].st = "unused"
    /\ key' = [key EXCEPT ![k] = [st |-> "current", age |-> 0]]
    /\ UNCHANGED <<settings, jwt, cache, call>>

Retire(k) ==
    /\ k \in Current /\ Current # {k}
    /\ key' = [key EXCEPT ![k] = [st |-> "retired", age |-> 0]]
    /\ UNCHANGED <<settings, jwt, cache, call>>

Issue(j) ==
    /\ jwt[j].key = Null
    /\ \E k \in Current, user \in BOOLEAN : jwt' = [jwt EXCEPT ![j].key = k, ![j].user = user]
    /\ UNCHANGED <<settings, key, cache, call>>

\* TOKEN_EXPIRY_LEEWAY_SECONDS after its end.
RunsOut(j) ==
    /\ jwt[j].key # Null
    /\ ~jwt[j].exp /\ jwt' = [jwt EXCEPT ![j].exp = TRUE]
    /\ UNCHANGED <<settings, key, cache, call>>

\* The provider withdraws a token, or it is at its end.
Withdraw(j) ==
    /\ jwt[j].key # Null /\ jwt[j].active
    /\ jwt' = [jwt EXCEPT ![j].active = FALSE]
    /\ UNCHANGED <<settings, key, cache, call>>

Alive(j) == ~jwt[j].exp /\ jwt[j].active

-----------------------------------------------------------------------------
(* Verification *)

\* _decode_jwt_with_key
Decodes(j, k) == jwt[j].key = k /\ ~jwt[j].exp

\* _verify_token_local
VerifiedLocally(j) == settings.pin # Null /\ Decodes(j, settings.pin)

\* _extract_token_kid and _find_public_key_in_jwks
FindKey(j, keys) == {k \in keys : k = jwt[j].key}

\* _verify_token_remote_cognito, once it has a key set
VerifiedBy(j, keys) == \E k \in FindKey(j, keys) : Decodes(j, k)

\* _extract_user_from_claims: claims without a user are a 401 all the same.
Verdict(j, good) == IF good /\ jwt[j].user THEN "admitted" ELSE "refused"

\* _verify_token_remote_ory: the introspection endpoint says "active" or not.
OryHears(j) == {"failed", "junk"} \cup (IF Alive(j) THEN {"claims"} ELSE {"no"})

\* _verify_token_remote_auth0: a status other than 200 is no.
Auth0Hears(j) == {"failed", "junk"} \cup (IF Alive(j) THEN {"claims"} ELSE {"no"})

\* _verify_token_remote_keycloak
KeycloakHears(j) == {"failed", "junk"} \cup (IF Alive(j) THEN {"claims"} ELSE {"no"})

\* _fetch_jwks_for_cognito
CognitoHears == {"failed", "junk", "keys"}

\* get_jwks_cached finds a key set that has not expired.
Hit == cache.keys # Null /\ cache.left > 0

Comes(q, j, at) ==
    /\ call[q].at = "idle" /\ (j # Null => jwt[j].key # Null)
    /\ call' = [call EXCEPT ![q] = CallAt(at, j, at = "asks" /\ jwt[j].active)]
    /\ UNCHANGED <<settings, key, jwt, cache>>

\* dispatch: without a provider, or on a public path, nobody is asked.
PassedOn(q) == Comes(q, Null, "anonymous")

Tokenless(q) == settings.provider # "none" /\ Comes(q, Null, "refused")

\* verify_token tries the configured key first.
Locally(q, j) ==
    /\ settings.provider # "none" /\ VerifiedLocally(j)
    /\ Comes(q, j, Verdict(j, TRUE))

\* Cognito with a configured key: that key is tried once more.
TriesAgain(q, j) ==
    /\ settings.provider = "cognito" /\ settings.pin # Null /\ ~VerifiedLocally(j)
    /\ Comes(q, j, "refused")

Asks(q, j) ==
    /\ settings.provider \in {"ory", "auth0", "keycloak"} /\ ~VerifiedLocally(j)
    /\ Comes(q, j, "asks")

UsesKeys == settings.provider = "cognito" /\ settings.pin = Null

\* Mutant: every use of the cached keys prolongs them.
FromCacheSliding(q, j) ==
    /\ UsesKeys /\ Hit /\ call[q].at = "idle" /\ jwt[j].key # Null
    /\ call' = [call EXCEPT ![q] = CallAt(Verdict(j, VerifiedBy(j, cache.keys)), j, FALSE)]
    /\ cache' = [cache EXCEPT !.left = Ttl]
    /\ UNCHANGED <<settings, key, jwt>>

FromCache(q, j) == UsesKeys /\ Hit /\ Comes(q, j, Verdict(j, VerifiedBy(j, cache.keys)))

Fetches(q, j) == UsesKeys /\ ~Hit /\ Comes(q, j, "fetches")

Hears(q) ==
    CASE call[q].at = "fetches" -> CognitoHears
      [] settings.provider = "ory" -> OryHears(call[q].jwt)
      [] settings.provider = "auth0" -> Auth0Hears(call[q].jwt)
      [] settings.provider = "keycloak" -> KeycloakHears(call[q].jwt)

Waits(q) == call[q].at \in {"asks", "fetches"}

\* The provider forms its answer; it is under way for a while.
ProviderAnswers(q) ==
    /\ Waits(q) /\ call[q].heard = "nothing"
    /\ \E a \in Hears(q) :
          call' = [call EXCEPT ![q].heard = a, ![q].keys = IF a = "keys" THEN Current ELSE {}]
    /\ UNCHANGED <<settings, key, jwt, cache>>

Says(q, at) == call' = [call EXCEPT ![q] = CallAt(at, call[q].jwt, FALSE)]

\* A body that is not JSON is an exception nobody catches.
AnswerLands(q) ==
    /\ call[q].at = "asks" /\ call[q].heard # "nothing"
    /\ \/ call[q].heard = "junk" /\ Says(q, "error")
       \/ call[q].heard # "junk" /\ Says(q, Verdict(call[q].jwt, call[q].heard = "claims"))
    /\ UNCHANGED <<settings, key, jwt, cache>>

\* Mutant: the hour is counted from the arrival of the key set.
StoredAtArrival(q) == cache' = [keys |-> call[q].keys, left |-> Ttl]

\* The hour is counted from before the fetch.
Stored(q) == cache' = [keys |-> call[q].keys, left |-> Ttl - call[q].since]

\* Mutant: a fetch that fails is remembered, as a set without keys.
KeysLandOrNone(q) ==
    /\ call[q].at = "fetches"
    /\ \/ call[q].heard = "junk" /\ Says(q, "error") /\ UNCHANGED cache
       \/ /\ call[q].heard \in {"failed", "keys"}
          /\ Stored(q)
          /\ Says(q, Verdict(call[q].jwt, VerifiedBy(call[q].jwt, call[q].keys)))
    /\ UNCHANGED <<settings, key, jwt>>

KeysLand(q) ==
    /\ call[q].at = "fetches"
    /\ \/ call[q].heard = "junk" /\ Says(q, "error") /\ UNCHANGED cache
       \/ call[q].heard = "failed" /\ Says(q, "refused") /\ UNCHANGED cache
       \/ /\ call[q].heard = "keys"
          /\ Stored(q)
          /\ Says(q, Verdict(call[q].jwt, VerifiedBy(call[q].jwt, call[q].keys)))
    /\ UNCHANGED <<settings, key, jwt>>

Leaves(q) ==
    /\ call[q].at \in {"admitted", "anonymous", "refused", "error"}
    /\ call' = [call EXCEPT ![q] = IdleCall]
    /\ UNCHANGED <<settings, key, jwt, cache>>

\* clear_jwks_cache
ClearCache ==
    /\ cache # NoCache /\ cache' = NoCache
    /\ UNCHANGED <<settings, key, jwt, call>>

\* No answer takes longer than Timeout.
Tick ==
    /\ \A q \in Calls : Waits(q) => call[q].since < Timeout
    /\ cache' = [cache EXCEPT !.left = IF @ = 0 THEN 0 ELSE @ - 1]
    /\ key' = [k \in Keys |-> [key[k] EXCEPT !.age = IF @ = Ttl THEN Ttl ELSE @ + 1]]
    /\ call' = [q \in Calls |-> IF Waits(q) THEN [call[q] EXCEPT !.since = @ + 1] ELSE call[q]]
    /\ UNCHANGED <<settings, jwt>>

CallStep(q) == ProviderAnswers(q) \/ AnswerLands(q) \/ KeysLand(q) \/ Leaves(q)

CallComes(q) ==
    \/ PassedOn(q) \/ Tokenless(q)
    \/ \E j \in Jwts : Locally(q, j) \/ TriesAgain(q, j) \/ Asks(q, j)
                       \/ FromCache(q, j) \/ Fetches(q, j)

BearerNext ==
    \/ \E q \in Calls : CallComes(q) \/ CallStep(q)
    \/ \E k \in Keys : Publish(k) \/ Retire(k)
    \/ \E j \in Jwts : Issue(j) \/ RunsOut(j) \/ Withdraw(j)
    \/ Tick \/ ClearCache

BearerSpec == BearerInit /\ [][BearerNext]_bearer

BearerTypeOK ==
    /\ settings \in Settings
    /\ key \in [Keys -> [st : {"unused", "current", "retired"}, age : 0 .. Ttl]]
    /\ jwt \in [Jwts -> [key : Keys \cup {Null}, exp : BOOLEAN, active : BOOLEAN, user : BOOLEAN]]
    /\ cache \in [keys : (SUBSET Keys) \cup {Null}, left : 0 .. Ttl]
    /\ call \in [Calls -> Call]

-----------------------------------------------------------------------------
(* Properties *)

Ends(q, at) == call[q].at # at /\ call'[q].at = at

\* A key set of less than Ttl ago still had the key.
RecentlyHad(k) == key[k].st = "current" \/ (key[k].st = "retired" /\ key[k].age < Ttl)

\* Whoever is let in has a token that has not run out and that the configured
\* key signed, or that its provider vouched for and had not withdrawn when the
\* request came, or that a key signed that was the provider's within the last
\* Ttl: however fetches overlap and answers are late, no key outlives that.
AdmittedWasVouched ==
    [][\A q \in Calls : Ends(q, "admitted") =>
          LET j == call'[q].jwt IN
          IF UsesKeys THEN ~jwt[j].exp /\ RecentlyHad(jwt[j].key)
          ELSE VerifiedLocally(j) \/ (settings.provider # "cognito" /\ call[q].sound)]_bearer

\* A good token is refused only if its provider could not be asked, or if the
\* key set is older than the key, which lasts for less than Ttl.
RefusedForCause ==
    [][\A q \in Calls : Ends(q, "refused") =>
          LET j == call'[q].jwt IN
          \/ j = Null \/ ~jwt[j].user \/ ~Alive(j) \/ call[q].heard = "failed"
          \/ settings.provider = "cognito" /\ settings.pin # Null
          \/ UsesKeys /\ ~(key[jwt[j].key].st = "current" /\ key[jwt[j].key].age = Ttl)]_bearer

\* However busy the cache is, and however fetches overlap, what it answers with
\* is what the provider published within the last Ttl.
CacheIsRecent ==
    Hit => /\ \A k \in cache.keys : RecentlyHad(k)
           /\ \A k \in Current : key[k].age = Ttl => k \in cache.keys

(* What the docs say and the code does not *)

\* "Fall back to remote validation based on AUTH_PROVIDER_TYPE"
FallsBack ==
    [][\A q \in Calls : Ends(q, "refused") =>
          LET j == call'[q].jwt IN
          j # Null /\ jwt[j].user /\ Alive(j) => UsesKeys \/ call[q].heard = "failed"]_bearer
=============================================================================
