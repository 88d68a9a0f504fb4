------------------------------ MODULE KeyCache ------------------------------
(***************************************************************************)
(* The two remote answers a connection is admitted on, each behind a cache *)
(* that several threads use at once:                                       *)
(*   - the issuer's JWKS (JwksKeyStore, rust/smooth-operator/src/auth.rs), *)
(*     looked up by kid, refetched when it is older than Ttl or does not   *)
(*     know the kid, but not within MinRefresh of the last fetch;          *)
(*   - an agent's embed policy (HttpWidgetAuth, widget_auth.rs), enforced  *)
(*     by create_conversation_session (handler.rs).                        *)
(* A fetch is not made under the lock: another thread may fetch and store  *)
(* in between, and the store stamps the time it is made, not the time the  *)
(* remote side answered.  The answer to a request is the remote value when *)
(* the request is made; it takes up to Timeout to arrive.                  *)
(***************************************************************************)
EXTENDS Identity

CONSTANTS Thread,        \* the threads that verify and the tasks that embed
          Env,           \* environments the server may be started with
          Token,         \* the tokens presented
          JwkSet,        \* the key sets the issuer publishes over time
          Policy,        \* the embed policies of the agent (None: no policy, 404)
          Origin,        \* Origin headers (None: the header is missing)
          AuthCtx,       \* authContext values (None: absent)
          Ttl, MinRefresh, PolicyTtl, Timeout,  \* durations, in ticks
          ReplayWindow,  \* accepted age of an authContext
          Horizon        \* bound on the clock

ASSUME TimeAssumption ==
    /\ {Ttl, MinRefresh, PolicyTtl, Timeout, ReplayWindow, Horizon} \subseteq Nat
    /\ 0 < MinRefresh /\ MinRefresh <= Ttl /\ 0 < PolicyTtl

Jwk == UNION JwkSet

\* An absent value is neither a time, nor a key, nor the mark of a JWKS.
ASSUME NoneAssumption == None \notin Nat /\ None \notin Jwk /\ None # "jwks"

VARIABLES env, verifier, strict,      \* the deployment, fixed at the start
          now,
          published, seen,            \* issuer: key set; last time of each key
          since,                      \* since when each key is published
          cached,                     \* CachedJwks: set, fetched_at
          policy, policySeen,         \* policy service, and last time of each
          pcached,                    \* CacheEntry of the agent
          thread,                     \* what a thread waits for
          answer                      \* what the last step decided

vars == <<env, verifier, strict, now, published, seen, since, cached, policy,
          policySeen, pcached, thread, answer>>

deployment == <<env, verifier, strict>>
issuer     == <<published, seen, since>>
service    == <<policy, policySeen>>

Idle == [op |-> "idle"]

Init ==
    /\ env \in Env
    /\ verifier = from_env(env) /\ verifier # Refused
    /\ strict \in BOOLEAN
    /\ now = 0
    /\ published \in JwkSet
    /\ seen = [j \in Jwk |-> IF j \in published THEN 0 ELSE None]
    /\ since = [j \in Jwk |-> IF j \in published THEN 0 ELSE None]
    /\ cached = [set |-> {}, at |-> None]
    /\ policy \in Policy
    /\ policySeen = [p \in Policy |-> IF p = policy THEN 0 ELSE None]
    /\ pcached = None
    /\ thread = [t \in Thread |-> Idle]
    /\ answer = None

-----------------------------------------------------------------------------
(* The outside: time, the issuer, the policy service.                      *)

\* No request outlives the HTTP client's timeout.
Tick ==
    /\ now < Horizon
    /\ \A t \in Thread : thread[t] # Idle => now - thread[t].from < Timeout
    /\ now' = now + 1
    /\ seen' = [j \in Jwk |-> IF j \in published THEN now' ELSE seen[j]]
    /\ policySeen' = [policySeen EXCEPT ![policy] = now']
    /\ answer' = None
    /\ UNCHANGED <<deployment, published, since, cached, policy, pcached, thread>>

Rotate ==
    /\ published' \in JwkSet \ {published}
    /\ seen' = [j \in Jwk |-> IF j \in published' THEN now ELSE seen[j]]
    /\ since' = [j \in Jwk |-> IF j \notin published' THEN None
                               ELSE IF j \in published THEN since[j] ELSE now]
    /\ answer' = None
    /\ UNCHANGED <<deployment, now, cached, service, pcached, thread>>

ChangePolicy ==
    /\ policy' \in Policy \ {policy}
    /\ policySeen' = [policySeen EXCEPT ![policy'] = now]
    /\ answer' = None
    /\ UNCHANGED <<deployment, now, issuer, cached, pcached, thread>>

-----------------------------------------------------------------------------
(* JwksKeyStore.                                                           *)

\* find_jwk: the key of that kid, or the only key when the header has none.
find_jwk(set, kid) ==
    IF kid # None
    THEN IF \E j \in set : j.kid = kid THEN CHOOSE j \in set : j.kid = kid ELSE None
    ELSE IF Cardinality(set) = 1 THEN CHOOSE j \in set : TRUE ELSE None

Verified(token, jwk) ==
    [kind |-> "verified", token |-> token, jwk |-> jwk,
     principal |-> verify(verifier, token, jwk)]
NoKey(token) == [kind |-> "no_key", token |-> token]

Lookup(set, token) ==
    LET jwk == find_jwk(set, token.kid)
    IN  IF jwk = None THEN NoKey(token) ELSE Verified(token, jwk)

\* Mutant: a fetched key set is good for ever.
Fresh_Forever == cached.at # None

\* The cached set is younger than the TTL.
Fresh == cached.at # None /\ now - cached.at < Ttl

\* Mutant: a kid the cached set lacks is not worth a fetch while it is fresh.
Guarded_Fresh == cached.at # None /\ now - cached.at < Ttl

\* maybe_refresh's storm guard: the last fetch is too recent for another.
Guarded == cached.at # None /\ now - cached.at < MinRefresh

\* key_for answered without a request: a fresh set knows the kid, or the guard
\* stands (and the set is searched as it is).
KeyFromCache(t, token) ==
    /\ verifier.key = "jwks" /\ thread[t] = Idle
    /\ \/ Fresh /\ find_jwk(cached.set, token.kid) # None
       \/ ~(Fresh /\ find_jwk(cached.set, token.kid) # None) /\ Guarded
    /\ answer' = Lookup(cached.set, token)
    /\ UNCHANGED <<deployment, now, issuer, cached, service, pcached, thread>>

\* HttpJwksFetcher::fetch, on a thread of its own that the caller joins.
KeyFetch(t, token) ==
    /\ verifier.key = "jwks" /\ thread[t] = Idle
    /\ ~(Fresh /\ find_jwk(cached.set, token.kid) # None) /\ ~Guarded
    /\ thread' = [thread EXCEPT ![t] = [op |-> "keys", token |-> token,
                                        got |-> published, from |-> now]]
    /\ answer' = None
    /\ UNCHANGED <<deployment, now, issuer, cached, service, pcached>>

StoreKeys(t, stamp) ==
    /\ thread[t].op = "keys"
    /\ cached' = [set |-> thread[t].got, at |-> stamp]
    /\ answer' = Lookup(thread[t].got, thread[t].token)
    /\ thread' = [thread EXCEPT ![t] = Idle]
    /\ UNCHANGED <<deployment, now, issuer, service, pcached>>

\* The set is stored, stamped with the time of the store, and searched.
KeyStore(t) == StoreKeys(t, now)

\* A request that fails, answers an error status or no JWKS refuses the token
\* and leaves the cache alone.
KeyFetchFails(t) ==
    /\ thread[t].op = "keys"
    /\ answer' = [kind |-> "fetch_failed"]
    /\ thread' = [thread EXCEPT ![t] = Idle]
    /\ UNCHANGED <<deployment, now, issuer, cached, service, pcached>>

\* Every other verifier decides on the token alone.
VerifyLocally(t, token) ==
    /\ verifier.key # "jwks" /\ thread[t] = Idle
    /\ answer' = Verified(token, None)
    /\ UNCHANGED <<deployment, now, issuer, cached, service, pcached, thread>>

-----------------------------------------------------------------------------
(* Embed policies.                                                         *)

\* Mutant: an empty list of origins permits every origin.
origin_allowed_Empty(allowed, origin) == allowed = {} \/ "*" \in allowed \/ origin \in allowed

\* origin_allowed: a pattern is "*" or stands here for the origins it matches
\* (exactly, or as a host wildcard of the same scheme: origin_matches); a
\* missing header is the empty origin, which only "*" matches.
origin_allowed(allowed, origin) == "*" \in allowed \/ origin \in allowed

\* verify_auth_context_value: signed with the policy's key, not older and not
\* newer than the replay window.
verify_auth_context_value(public_key, ac) ==
    /\ public_key # None /\ ac.key = public_key
    /\ now - ac.at <= ReplayWindow /\ ac.at - now <= ReplayWindow

\* enforce_widget_auth for the policy the provider answered.
enforce_widget_auth(p, origin, ac) ==
    IF p = None THEN [ok |-> ~strict, org |-> None]
    ELSE [ok  |-> /\ origin_allowed(p.allowed_origins, origin)
                  /\ ac # None => verify_auth_context_value(p.public_key, ac),
          org |-> p.organization_id]

Embedded(p, origin, ac, how) ==
    [kind |-> "embed", used |-> p, origin |-> origin, ac |-> ac, how |-> how,
     outcome |-> enforce_widget_auth(p, origin, ac)]

\* HttpWidgetAuth::cached.
PolicyFresh == pcached # None /\ now - pcached.at < PolicyTtl

PolicyFromCache(t, origin, ac) ==
    /\ thread[t] = Idle /\ PolicyFresh
    /\ answer' = Embedded(pcached.value, origin, ac, "cached")
    /\ UNCHANGED <<deployment, now, issuer, cached, service, pcached, thread>>

PolicyFetch(t, origin, ac) ==
    /\ thread[t] = Idle /\ ~PolicyFresh
    /\ thread' = [thread EXCEPT ![t] = [op |-> "policy", origin |-> origin,
                                        ac |-> ac, got |-> policy, from |-> now]]
    /\ answer' = None
    /\ UNCHANGED <<deployment, now, issuer, cached, service, pcached>>

\* 2xx and 404 are stored.
PolicyStore(t) ==
    /\ thread[t].op = "policy"
    /\ pcached' = [value |-> thread[t].got, at |-> now]
    /\ answer' = Embedded(thread[t].got, thread[t].origin, thread[t].ac, "fetched")
    /\ thread' = [thread EXCEPT ![t] = Idle]
    /\ UNCHANGED <<deployment, now, issuer, cached, service>>

\* Any other status, a malformed body, a network error: no policy, not stored.
PolicyFetchFails(t) ==
    /\ thread[t].op = "policy"
    /\ answer' = Embedded(None, thread[t].origin, thread[t].ac, "failed")
    /\ thread' = [thread EXCEPT ![t] = Idle]
    /\ UNCHANGED <<deployment, now, issuer, cached, service, pcached>>

-----------------------------------------------------------------------------
Verifying(t) ==
    \/ \E token \in Token : \/ KeyFromCache(t, token) \/ KeyFetch(t, token)
                            \/ VerifyLocally(t, token)
    \/ KeyStore(t) \/ KeyFetchFails(t)

Embedding(t) ==
    \/ \E o \in Origin, ac \in AuthCtx : PolicyFromCache(t, o, ac) \/ PolicyFetch(t, o, ac)
    \/ PolicyStore(t) \/ PolicyFetchFails(t)

Next ==
    \/ Tick \/ Rotate \/ ChangePolicy
    \/ \E t \in Thread : Verifying(t) \/ Embedding(t)

Spec == Init /\ [][Next]_vars

-----------------------------------------------------------------------------
Time == 0..Horizon

\* What a thread may be waiting for: the issuer's key set, or a policy.
KeyRequest    == [op : {"keys"}, token : Token, got : JwkSet, from : Time]
PolicyRequest == [op : {"policy"}, origin : Origin, ac : AuthCtx, got : Policy, from : Time]

\* Type invariant.
TypeOK ==
    /\ env \in Env /\ verifier = from_env(env) /\ verifier # Refused
    /\ strict \in BOOLEAN
    /\ now \in Time
    /\ published \in JwkSet
    /\ seen \in [Jwk -> Time \cup {None}] /\ since \in [Jwk -> Time \cup {None}]
    /\ cached \in [set : JwkSet \cup {{}}, at : Time \cup {None}]
    /\ policy \in Policy /\ policySeen \in [Policy -> Time \cup {None}]
    /\ pcached \in [value : Policy, at : Time] \cup {None}
    /\ thread \in [Thread -> {Idle} \cup KeyRequest \cup PolicyRequest]

\* A key the issuer has withdrawn stops verifying: a token is accepted on a key
\* of the JWKS only if the issuer still published that key within the TTL and
\* one request's timeout, although a thread holding an older answer may store
\* it over a newer one, and stamp it as fetched now (auth.rs, JwksKeyStore).
WithdrawnKeyExpires ==
    (answer # None /\ answer.kind = "verified" /\ verifier.key = "jwks"
        /\ answer.principal # Refused)
    => /\ seen[answer.jwk] # None
       /\ now - seen[answer.jwk] < Ttl + Timeout

\* A key the issuer rotates in is picked up without a restart: once it has been
\* published for the storm guard and one request's timeout, no
\* token is refused for a key id the store does not know (auth.rs, key_for's
\* refresh on an unknown kid).
RotationPickedUp ==
    (answer # None /\ answer.kind = "no_key" /\ answer.token.kid # None)
    => \A j \in published : j.kid = answer.token.kid => now - since[j] < MinRefresh + Timeout

\* No identity without a check: whoever is given a principal presented a token
\* signed with a key the environment configures (or that the JWKS named),
\* unless the environment itself asks for mode none or trusted (auth.rs,
\* AuthConfig::from_env refuses to fall back to no-auth).
IdentityNeedsKey ==
    (answer # None /\ answer.kind = "verified" /\ answer.principal # Refused)
    => \/ resolve_auth_mode(env) \in {"none", "trusted"}
       \/ answer.token.key \in {env.rs256, env.hs256} \ {None}
       \/ answer.jwk # None /\ answer.token.key = answer.jwk.key

\* In strict mode an embed is admitted only for an origin that the agent's
\* policy allowed at some moment of the last PolicyTtl and one request's
\* timeout, whatever the policy service answered or failed to answer
\* (widget_auth.rs, HttpWidgetAuth: "never silently opens a hole").
StrictEmbedAllowed ==
    (answer # None /\ answer.kind = "embed" /\ strict /\ answer.outcome.ok)
    => \E p \in Policy \ {None} :
          /\ policySeen[p] # None /\ now - policySeen[p] < PolicyTtl + Timeout
          /\ p.allowed_origins \cap {"*", answer.origin} # {}

\* What widget_auth.rs:127 says of the provider: a failing policy service never
\* opens what the policy closes.  Violated in permissive mode, where a policy
\* that is found is enforced and one that cannot be fetched is not.
OutageOpensNothing ==
    (answer # None /\ answer.kind = "embed" /\ answer.how = "failed")
    => \/ ~answer.outcome.ok
       \/ enforce_widget_auth(policy, answer.origin, answer.ac).ok
=============================================================================
