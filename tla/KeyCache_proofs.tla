--------------------------- MODULE KeyCache_proofs ---------------------------
(***************************************************************************)
(* Proofs about KeyCache: what a cached answer can still be worth, for any *)
(* number of threads, any issuer, any policy service and any durations.    *)
(* A store may overwrite a newer answer with an older one and stamps it    *)
(* with its own time; the invariant is therefore about how far behind its  *)
(* stamp a cached answer can be, which is one request's timeout.           *)
(***************************************************************************)
EXTENDS KeyCache, FiniteSetTheorems, TLAPS

\* No request is older than the timeout of the HTTP client.
InTime ==
  \A t \in Thread : thread[t] # Idle => thread[t].from <= now /\ now - thread[t].from <= Timeout

\* The clock of the observer: a key is seen until it is withdrawn.
SeenPast ==
  /\ \A j \in Jwk : seen[j] # None => seen[j] <= now
  /\ \A j \in published : seen[j] = now
SincePast == \A j \in published : since[j] # None /\ since[j] <= now

\* An answer under way holds keys that were published when it was asked for,
\* and every key published before then and since.
AnswerSeen ==
  \A t \in Thread : thread[t].op = "keys" =>
    /\ \A j \in thread[t].got : seen[j] # None /\ thread[t].from <= seen[j]
    /\ \A j \in published : since[j] < thread[t].from => j \in thread[t].got

\* The cached set is at most a timeout behind its stamp, in both directions.
CachedSeen ==
  /\ cached.set # {} => cached.at # None
  /\ cached.at # None => cached.at <= now
  /\ \A j \in cached.set : seen[j] # None /\ cached.at - seen[j] <= Timeout
  /\ cached.at # None =>
       \A j \in published : since[j] < cached.at - Timeout => j \in cached.set

\* The same for the policy of the agent.
PolicySeenPast ==
  /\ \A p \in Policy : policySeen[p] # None => policySeen[p] <= now
  /\ policySeen[policy] = now
PolicyAnswerSeen ==
  \A t \in Thread : thread[t].op = "policy" =>
    policySeen[thread[t].got] # None /\ thread[t].from <= policySeen[thread[t].got]
PolicyCachedSeen ==
  pcached # None => /\ policySeen[pcached.value] # None
                    /\ pcached.at - policySeen[pcached.value] <= Timeout

\* What holds of the clock, the caches and the requests under way ...
CacheInv == /\ TypeOK /\ InTime /\ SeenPast /\ SincePast /\ AnswerSeen /\ CachedSeen
            /\ PolicySeenPast /\ PolicyAnswerSeen /\ PolicyCachedSeen

\* ... and of what the last step decided: the inductive invariant.
IInv == /\ CacheInv /\ WithdrawnKeyExpires /\ RotationPickedUp
        /\ IdentityNeedsKey /\ StrictEmbedAllowed

-----------------------------------------------------------------------------
\* find_jwk answers a key of the set it searches ...
LEMMA FoundInSet ==
  ASSUME NEW set, NEW kid, find_jwk(set, kid) # None
  PROVE  find_jwk(set, kid) \in set
<1>1. CASE kid # None BY <1>1 DEF find_jwk
<1>2. CASE kid = None
  <2>1. Cardinality(set) = 1 BY <1>2 DEF find_jwk
  <2>2. set # {} BY <2>1, FS_EmptySet
  <2> QED BY <1>2, <2>1, <2>2 DEF find_jwk
<1> QED BY <1>1, <1>2

\* ... and a kid that it does not find is of no key of the set.
LEMMA NotFound ==
  ASSUME NEW set \in SUBSET Jwk, NEW kid, kid # None, find_jwk(set, kid) = None
  PROVE  \A j \in set : j.kid # kid
<1> SUFFICES ASSUME NEW j \in set, j.kid = kid PROVE FALSE
  OBVIOUS
<1>1. (CHOOSE i \in set : i.kid = kid) \in set
  OBVIOUS
<1>2. find_jwk(set, kid) \in Jwk
  BY <1>1 DEF find_jwk
<1> QED BY <1>2, NoneAssumption

\* What AuthConfig::from_env can select: the environment named none or trusted,
\* or the verifier has a key of the environment, or the JWKS, or refuses all.
LEMMA SelectedVerifier ==
  ASSUME NEW e, from_env(e) # Refused
  PROVE  LET v == from_env(e)
         IN  \/ v.mode = "none" /\ resolve_auth_mode(e) = "none"
             \/ v.mode = "trusted" /\ resolve_auth_mode(e) = "trusted"
             \/ v.mode = "disabled"
             \/ v.mode \in {"jwt", "smoo"} /\ v.key = "jwks"
             \/ v.mode \in {"jwt", "smoo"} /\ v.key \in {e.rs256, e.hs256} \ {None}
<1>1. KeySource(e) # None => KeySource(e) = "jwks" \/ KeySource(e) \in {e.rs256, e.hs256} \ {None}
  BY DEF KeySource
<1>2. e.issuer # None => KeySource(e) # None
  BY NoneAssumption DEF KeySource
<1> QED BY <1>1, <1>2 DEF from_env, Selected, Verifier

-----------------------------------------------------------------------------
\* The invariant holds at the start ...
LEMMA InitIInv == Init => IInv
<1> SUFFICES ASSUME Init PROVE IInv
  OBVIOUS
<1> USE TimeAssumption, NoneAssumption
<1>1. 0 \in Time BY DEF Time
<1>2. TypeOK BY <1>1 DEF Init, TypeOK
<1>3. \A t \in Thread : thread[t] = Idle /\ thread[t].op = "idle" BY DEF Init, Idle
<1>4. InTime /\ AnswerSeen /\ PolicyAnswerSeen
  BY <1>3 DEF InTime, AnswerSeen, PolicyAnswerSeen
<1>5. published \subseteq Jwk BY DEF Init, Jwk
<1>6. SeenPast /\ SincePast /\ CachedSeen /\ PolicySeenPast /\ PolicyCachedSeen
  BY <1>5 DEF Init, SeenPast, SincePast, CachedSeen, PolicySeenPast, PolicyCachedSeen
<1>7. WithdrawnKeyExpires /\ RotationPickedUp /\ IdentityNeedsKey /\ StrictEmbedAllowed
  BY DEF Init, WithdrawnKeyExpires, RotationPickedUp, IdentityNeedsKey, StrictEmbedAllowed
<1> QED BY <1>2, <1>4, <1>6, <1>7 DEF IInv, CacheInv

\* ... a tick of the clock moves what is published and nothing else ...
LEMMA TickCaches == CacheInv /\ Tick => CacheInv'
<1> SUFFICES ASSUME CacheInv, Tick PROVE CacheInv'
  OBVIOUS
<1> USE TimeAssumption, NoneAssumption
<1>1. now' \in Time /\ now \in Time /\ now' = now + 1
  BY DEF Tick, CacheInv, TypeOK, Time
<1>2. published \subseteq Jwk /\ policy \in Policy
  BY DEF CacheInv, TypeOK, Jwk
<1>3. TypeOK'
  BY <1>1 DEF Tick, deployment, CacheInv, TypeOK
<1>4. \A j \in Jwk : seen'[j] = IF j \in published THEN now' ELSE seen[j]
  BY DEF Tick
<1>5. \A j \in Jwk : seen[j] # None => seen[j] \in Time /\ seen[j] <= now
  BY DEF CacheInv, TypeOK, SeenPast
<1>6. \A j \in Jwk : seen[j] # None => seen'[j] # None /\ seen[j] <= seen'[j]
  BY <1>1, <1>4, <1>5 DEF Time
<1>7. \A t \in Thread : thread[t] # Idle => thread[t].from \in Time
  BY DEF CacheInv, TypeOK, KeyRequest, PolicyRequest
<1>8. InTime'
  BY <1>1, <1>7 DEF Tick, CacheInv, InTime, Time
<1>9. SeenPast'
  BY <1>1, <1>2, <1>4, <1>5 DEF Tick, SeenPast, Time
<1>10. SincePast'
  <2>1. \A j \in published : since[j] \in Time
    BY <1>2 DEF CacheInv, TypeOK, SincePast
  <2> QED BY <1>1, <2>1 DEF Tick, CacheInv, SincePast, Time
<1>11. \A t \in Thread : thread[t].op = "keys" => thread[t].got \subseteq Jwk /\ thread[t].from \in Time
  BY DEF CacheInv, TypeOK, KeyRequest, PolicyRequest, Idle, Jwk
<1>12. AnswerSeen'
  <2> SUFFICES ASSUME NEW t \in Thread, thread[t].op = "keys"
               PROVE  /\ \A j \in thread[t].got : seen'[j] # None /\ thread[t].from <= seen'[j]
                      /\ \A j \in published : since[j] < thread[t].from => j \in thread[t].got
    BY DEF Tick, AnswerSeen
  <2>1. \A j \in thread[t].got : seen[j] # None /\ thread[t].from <= seen[j]
    BY DEF CacheInv, AnswerSeen
  <2>2. \A j \in thread[t].got : j \in Jwk /\ seen'[j] \in Time
    BY <1>1, <1>4, <1>5, <1>11, <2>1
  <2>3. \A j \in thread[t].got : seen'[j] # None /\ thread[t].from <= seen'[j]
    BY <1>5, <1>6, <1>11, <2>1, <2>2 DEF Time
  <2> QED BY <2>3 DEF CacheInv, AnswerSeen
<1>13. CachedSeen'
  <2>1. cached.set \subseteq Jwk /\ cached.at \in Time \cup {None}
    BY DEF CacheInv, TypeOK, Jwk
  <2>2. \A j \in cached.set : seen'[j] # None /\ cached.at - seen'[j] <= Timeout
    <3> SUFFICES ASSUME NEW j \in cached.set
                 PROVE  seen'[j] # None /\ cached.at - seen'[j] <= Timeout
      OBVIOUS
    <3>1. seen[j] # None /\ cached.at - seen[j] <= Timeout /\ cached.at \in Time
      BY <2>1 DEF CacheInv, CachedSeen
    <3>2. seen[j] \in Time /\ seen'[j] \in Time /\ seen[j] <= seen'[j] /\ seen'[j] # None
      BY <1>1, <1>4, <1>5, <1>6, <2>1, <3>1
    <3> QED BY <3>1, <3>2 DEF Time
  <2>3. cached.at # None => cached.at <= now'
    BY <1>1, <2>1 DEF CacheInv, CachedSeen, Time
  <2> QED BY <2>2, <2>3 DEF Tick, CacheInv, CachedSeen
<1>14. \A p \in Policy : policySeen'[p] = IF p = policy THEN now' ELSE policySeen[p]
  BY DEF Tick, CacheInv, TypeOK
<1>15. \A p \in Policy : policySeen[p] # None => policySeen[p] \in Time /\ policySeen[p] <= now
  BY DEF CacheInv, TypeOK, PolicySeenPast
<1>16. PolicySeenPast'
  BY <1>1, <1>2, <1>14, <1>15 DEF Tick, PolicySeenPast, Time
<1>17. \A p \in Policy : policySeen[p] # None =>
          policySeen'[p] \in Time /\ policySeen'[p] # None /\ policySeen[p] <= policySeen'[p]
  BY <1>1, <1>14, <1>15 DEF Time
<1>18. PolicyAnswerSeen'
  <2> SUFFICES ASSUME NEW t \in Thread, thread[t].op = "policy"
               PROVE  /\ policySeen'[thread[t].got] # None
                      /\ thread[t].from <= policySeen'[thread[t].got]
    BY DEF Tick, PolicyAnswerSeen
  <2>1. thread[t].got \in Policy /\ thread[t].from \in Time
    BY DEF CacheInv, TypeOK, KeyRequest, PolicyRequest, Idle
  <2>2. policySeen[thread[t].got] # None /\ thread[t].from <= policySeen[thread[t].got]
    BY DEF CacheInv, PolicyAnswerSeen
  <2> QED BY <1>15, <1>17, <2>1, <2>2 DEF Time
<1>19. PolicyCachedSeen'
  <2> SUFFICES ASSUME pcached # None
               PROVE  /\ policySeen'[pcached.value] # None
                      /\ pcached.at - policySeen'[pcached.value] <= Timeout
    BY DEF Tick, PolicyCachedSeen
  <2>1. pcached.value \in Policy /\ pcached.at \in Time
    BY DEF CacheInv, TypeOK
  <2>2. /\ policySeen[pcached.value] # None
        /\ pcached.at - policySeen[pcached.value] <= Timeout
    BY DEF CacheInv, PolicyCachedSeen
  <2> QED BY <1>15, <1>17, <2>1, <2>2 DEF Time
<1> QED BY <1>3, <1>8, <1>9, <1>10, <1>12, <1>13, <1>16, <1>18, <1>19 DEF CacheInv

\* ... a rotation brings keys in as of now ...
LEMMA RotateCaches == CacheInv /\ Rotate => CacheInv'
<1> SUFFICES ASSUME CacheInv, Rotate PROVE CacheInv'
  OBVIOUS
<1> USE TimeAssumption, NoneAssumption
<1>1. now \in Time /\ now' = now /\ published' \in JwkSet
  BY DEF Rotate, CacheInv, TypeOK
<1>2. published' \subseteq Jwk /\ published \subseteq Jwk
  BY <1>1 DEF CacheInv, TypeOK, Jwk
<1>3. TypeOK'
  BY <1>1 DEF Rotate, deployment, service, CacheInv, TypeOK
<1>4. \A j \in Jwk : seen'[j] = IF j \in published' THEN now ELSE seen[j]
  BY DEF Rotate
<1>5. \A j \in Jwk : seen[j] # None => seen[j] \in Time /\ seen[j] <= now
  BY DEF CacheInv, TypeOK, SeenPast
<1>6. \A j \in Jwk : seen[j] # None =>
         seen'[j] \in Time /\ seen'[j] # None /\ seen[j] <= seen'[j]
  BY <1>1, <1>4, <1>5 DEF Time
<1>7. \A j \in published' : /\ since'[j] = now \/ (j \in published /\ since'[j] = since[j])
                            /\ since'[j] \in Time /\ since'[j] <= now
  BY <1>1, <1>2 DEF Rotate, CacheInv, TypeOK, SincePast, Time
<1>8. InTime' /\ PolicySeenPast' /\ PolicyAnswerSeen' /\ PolicyCachedSeen'
  BY DEF Rotate, service, CacheInv, InTime, PolicySeenPast, PolicyAnswerSeen, PolicyCachedSeen
<1>9. SeenPast'
  BY <1>1, <1>2, <1>4, <1>5 DEF SeenPast, Time
<1>10. SincePast'
  BY <1>1, <1>7 DEF SincePast, Time
<1>11. AnswerSeen'
  <2> SUFFICES ASSUME NEW t \in Thread, thread[t].op = "keys"
               PROVE  /\ \A j \in thread[t].got : seen'[j] # None /\ thread[t].from <= seen'[j]
                      /\ \A j \in published' : since'[j] < thread[t].from => j \in thread[t].got
    BY DEF Rotate, AnswerSeen
  <2>1. /\ thread[t].got \subseteq Jwk /\ thread[t].from \in Time
        /\ thread[t].from <= now
    BY DEF CacheInv, TypeOK, InTime, KeyRequest, PolicyRequest, Idle, Jwk
  <2>2. \A j \in thread[t].got : seen[j] # None /\ thread[t].from <= seen[j]
    BY DEF CacheInv, AnswerSeen
  <2>3. \A j \in thread[t].got : seen'[j] # None /\ thread[t].from <= seen'[j]
    BY <1>5, <1>6, <2>1, <2>2 DEF Time
  <2>4. ASSUME NEW j \in published', since'[j] < thread[t].from PROVE j \in thread[t].got
    <3>1. j \in published /\ since'[j] = since[j]
      BY <1>1, <1>7, <2>1, <2>4 DEF Time
    <3> QED BY <2>4, <3>1 DEF CacheInv, AnswerSeen
  <2> QED BY <2>3, <2>4
<1>12. CachedSeen'
  <2>1. cached.set \subseteq Jwk /\ cached.at \in Time \cup {None}
    BY DEF CacheInv, TypeOK, Jwk
  <2>2. ASSUME NEW j \in cached.set PROVE seen'[j] # None /\ cached.at - seen'[j] <= Timeout
    <3>1. seen[j] # None /\ cached.at - seen[j] <= Timeout /\ cached.at \in Time
      BY <2>1 DEF CacheInv, CachedSeen
    <3>2. seen[j] \in Time /\ seen'[j] \in Time /\ seen[j] <= seen'[j] /\ seen'[j] # None
      BY <1>5, <1>6, <2>1, <3>1
    <3> QED BY <3>1, <3>2 DEF Time
  <2>3. ASSUME cached.at # None, NEW j \in published', since'[j] < cached.at - Timeout
        PROVE  j \in cached.set
    <3>1. cached.at \in Time /\ cached.at <= now
      BY <2>1, <2>3 DEF CacheInv, CachedSeen
    <3>2. j \in published /\ since'[j] = since[j]
      BY <1>1, <1>7, <2>3, <3>1 DEF Time
    <3> QED BY <2>3, <3>2 DEF CacheInv, CachedSeen
  <2> QED BY <1>1, <2>2, <2>3 DEF Rotate, CacheInv, CachedSeen
<1> QED BY <1>3, <1>8, <1>9, <1>10, <1>11, <1>12 DEF CacheInv

\* ... and so does a change of the policy.
LEMMA ChangePolicyCaches == CacheInv /\ ChangePolicy => CacheInv'
<1> SUFFICES ASSUME CacheInv, ChangePolicy PROVE CacheInv'
  OBVIOUS
<1> USE TimeAssumption, NoneAssumption
<1>1. now \in Time /\ now' = now /\ policy' \in Policy
  BY DEF ChangePolicy, CacheInv, TypeOK
<1>2. TypeOK'
  BY <1>1 DEF ChangePolicy, deployment, issuer, CacheInv, TypeOK
<1>3. InTime' /\ SeenPast' /\ SincePast' /\ AnswerSeen' /\ CachedSeen'
  BY DEF ChangePolicy, issuer, CacheInv, InTime, SeenPast, SincePast, AnswerSeen, CachedSeen
<1>4. \A p \in Policy : policySeen'[p] = IF p = policy' THEN now ELSE policySeen[p]
  BY DEF ChangePolicy, CacheInv, TypeOK
<1>5. \A p \in Policy : policySeen[p] # None => policySeen[p] \in Time /\ policySeen[p] <= now
  BY DEF CacheInv, TypeOK, PolicySeenPast
<1>6. PolicySeenPast'
  BY <1>1, <1>4, <1>5 DEF PolicySeenPast, Time
<1>7. \A p \in Policy : policySeen[p] # None =>
         policySeen'[p] \in Time /\ policySeen'[p] # None /\ policySeen[p] <= policySeen'[p]
  BY <1>1, <1>4, <1>5 DEF Time
<1>8. PolicyAnswerSeen'
  <2> SUFFICES ASSUME NEW t \in Thread, thread[t].op = "policy"
               PROVE  /\ policySeen'[thread[t].got] # None
                      /\ thread[t].from <= policySeen'[thread[t].got]
    BY DEF ChangePolicy, PolicyAnswerSeen
  <2>1. thread[t].got \in Policy /\ thread[t].from \in Time
    BY DEF CacheInv, TypeOK, KeyRequest, PolicyRequest, Idle
  <2>2. policySeen[thread[t].got] # None /\ thread[t].from <= policySeen[thread[t].got]
    BY DEF CacheInv, PolicyAnswerSeen
  <2> QED BY <1>5, <1>7, <2>1, <2>2 DEF Time
<1>9. PolicyCachedSeen'
  <2> SUFFICES ASSUME pcached # None
               PROVE  /\ policySeen'[pcached.value] # None
                      /\ pcached.at - policySeen'[pcached.value] <= Timeout
    BY DEF ChangePolicy, PolicyCachedSeen
  <2>1. pcached.value \in Policy /\ pcached.at \in Time
    BY DEF CacheInv, TypeOK
  <2>2. /\ policySeen[pcached.value] # None
        /\ pcached.at - policySeen[pcached.value] <= Timeout
    BY DEF CacheInv, PolicyCachedSeen
  <2> QED BY <1>5, <1>7, <2>1, <2>2 DEF Time
<1> QED BY <1>2, <1>3, <1>6, <1>8, <1>9 DEF CacheInv

-----------------------------------------------------------------------------
(* The steps of a thread.                                                  *)

\* What every step of a thread leaves alone.
OutsideKept == UNCHANGED <<deployment, now, issuer, service>>

\* A step that only answers, or whose request comes to nothing, keeps the caches.
LEMMA AnswerCaches ==
  ASSUME CacheInv, OutsideKept, UNCHANGED <<cached, pcached>>,
         \/ thread' = thread
         \/ \E t \in Thread : thread' = [thread EXCEPT ![t] = Idle]
  PROVE  CacheInv'
<1> USE DEF OutsideKept, deployment, issuer, service
<1>1. TypeOK'
  BY DEF CacheInv, TypeOK
<1>2. \A t \in Thread : thread'[t] = thread[t] \/ (thread'[t] = Idle /\ thread'[t].op = "idle")
  BY DEF CacheInv, TypeOK, Idle
<1>3. InTime' /\ AnswerSeen' /\ PolicyAnswerSeen'
  BY <1>2 DEF CacheInv, InTime, AnswerSeen, PolicyAnswerSeen
<1>4. SeenPast' /\ SincePast' /\ CachedSeen' /\ PolicySeenPast' /\ PolicyCachedSeen'
  BY DEF CacheInv, SeenPast, SincePast, CachedSeen, PolicySeenPast, PolicyCachedSeen
<1> QED BY <1>1, <1>3, <1>4 DEF CacheInv

\* A request is answered with what is published when it is made.
LEMMA KeyFetchCaches ==
  ASSUME CacheInv, NEW t \in Thread, NEW token \in Token, KeyFetch(t, token)
  PROVE  CacheInv'
<1> USE TimeAssumption, NoneAssumption DEF KeyFetch, deployment, issuer, service
<1> DEFINE r == [op |-> "keys", token |-> token, got |-> published, from |-> now]
<1>1. r \in KeyRequest /\ r.op = "keys" /\ r.from = now /\ r.got = published
  BY DEF KeyRequest, CacheInv, TypeOK
<1>2. \A u \in Thread : thread'[u] = IF u = t THEN r ELSE thread[u]
  BY DEF CacheInv, TypeOK
<1>3. now \in Nat /\ now' = now /\ published \subseteq Jwk
  BY DEF CacheInv, TypeOK, Time, Jwk
<1> HIDE DEF r
<1>4. TypeOK'
  BY <1>1 DEF CacheInv, TypeOK, r
<1>5. InTime'
  BY <1>1, <1>2, <1>3 DEF CacheInv, InTime
<1>6. AnswerSeen'
  <2>1. \A j \in published : seen[j] = now
    BY DEF CacheInv, SeenPast
  <2> QED BY <1>1, <1>2, <1>3, <2>1 DEF CacheInv, AnswerSeen
<1>7. PolicyAnswerSeen'
  BY <1>1, <1>2 DEF CacheInv, PolicyAnswerSeen
<1>8. SeenPast' /\ SincePast' /\ CachedSeen' /\ PolicySeenPast' /\ PolicyCachedSeen'
  BY DEF CacheInv, SeenPast, SincePast, CachedSeen, PolicySeenPast, PolicyCachedSeen
<1> QED BY <1>4, <1>5, <1>6, <1>7, <1>8 DEF CacheInv

\* The stored set was published a timeout ago at the earliest.
LEMMA KeyStoreCaches ==
  ASSUME CacheInv, NEW t \in Thread, KeyStore(t)
  PROVE  CacheInv'
<1> USE TimeAssumption, NoneAssumption DEF KeyStore, StoreKeys, deployment, issuer, service
<1>1. thread[t] \in KeyRequest /\ thread[t] # Idle
  BY DEF CacheInv, TypeOK, PolicyRequest, Idle
<1>2. /\ thread[t].got \in JwkSet /\ thread[t].got \subseteq Jwk /\ thread[t].from \in Nat
      /\ now \in Nat /\ thread[t].from <= now /\ now - thread[t].from <= Timeout
  BY <1>1 DEF KeyRequest, Jwk, CacheInv, InTime, TypeOK, Time
<1>3. cached' = [set |-> thread[t].got, at |-> now] /\ cached'.set = thread[t].got /\ cached'.at = now
  OBVIOUS
<1>4. TypeOK'
  BY <1>2 DEF CacheInv, TypeOK
<1>5. \A u \in Thread : thread'[u] = thread[u] \/ (thread'[u] = Idle /\ thread'[u].op = "idle")
  BY DEF CacheInv, TypeOK, Idle
<1>6. InTime' /\ AnswerSeen' /\ PolicyAnswerSeen'
  BY <1>5 DEF CacheInv, InTime, AnswerSeen, PolicyAnswerSeen
<1>7. SeenPast' /\ SincePast' /\ PolicySeenPast' /\ PolicyCachedSeen'
  BY DEF CacheInv, SeenPast, SincePast, PolicySeenPast, PolicyCachedSeen
<1>8. CachedSeen'
  <2>1. \A j \in thread[t].got : /\ seen[j] # None /\ seen[j] \in Nat
                                 /\ now - seen[j] <= Timeout
    BY <1>2 DEF CacheInv, AnswerSeen, TypeOK, Time
  <2>2. \A j \in published : since[j] \in Nat /\ (since[j] < now - Timeout => j \in thread[t].got)
    BY <1>2 DEF CacheInv, AnswerSeen, SincePast, TypeOK, Time, Jwk
  <2> QED BY <1>2, <1>3, <2>1, <2>2 DEF CachedSeen
<1> QED BY <1>4, <1>6, <1>7, <1>8 DEF CacheInv

\* The same two steps for the policy.
LEMMA PolicyFetchCaches ==
  ASSUME CacheInv, NEW t \in Thread, NEW o \in Origin, NEW ac \in AuthCtx, PolicyFetch(t, o, ac)
  PROVE  CacheInv'
<1> USE TimeAssumption, NoneAssumption DEF PolicyFetch, deployment, issuer, service
<1> DEFINE r == [op |-> "policy", origin |-> o, ac |-> ac, got |-> policy, from |-> now]
<1>1. r \in PolicyRequest /\ r.op = "policy" /\ r.from = now /\ r.got = policy
  BY DEF PolicyRequest, CacheInv, TypeOK
<1>2. \A u \in Thread : thread'[u] = IF u = t THEN r ELSE thread[u]
  BY DEF CacheInv, TypeOK
<1>3. now \in Nat /\ now' = now /\ policySeen[policy] = now
  BY DEF CacheInv, TypeOK, Time, PolicySeenPast
<1> HIDE DEF r
<1>4. TypeOK'
  BY <1>1 DEF CacheInv, TypeOK, r
<1>5. InTime'
  BY <1>1, <1>2, <1>3 DEF CacheInv, InTime
<1>6. AnswerSeen' /\ PolicyAnswerSeen'
  BY <1>1, <1>2, <1>3 DEF CacheInv, AnswerSeen, PolicyAnswerSeen
<1>7. SeenPast' /\ SincePast' /\ CachedSeen' /\ PolicySeenPast' /\ PolicyCachedSeen'
  BY DEF CacheInv, SeenPast, SincePast, CachedSeen, PolicySeenPast, PolicyCachedSeen
<1> QED BY <1>4, <1>5, <1>6, <1>7 DEF CacheInv

\* The stored policy was in force a timeout ago at the earliest.
LEMMA PolicyStoreCaches ==
  ASSUME CacheInv, NEW t \in Thread, PolicyStore(t)
  PROVE  CacheInv'
<1> USE TimeAssumption, NoneAssumption DEF PolicyStore, deployment, issuer, service
<1>1. thread[t] \in PolicyRequest /\ thread[t] # Idle
  BY DEF CacheInv, TypeOK, KeyRequest, Idle
<1>2. /\ thread[t].got \in Policy /\ thread[t].from \in Nat
      /\ now \in Nat /\ thread[t].from <= now /\ now - thread[t].from <= Timeout
  BY <1>1 DEF PolicyRequest, CacheInv, InTime, TypeOK, Time
<1>3. TypeOK'
  BY <1>2 DEF CacheInv, TypeOK
<1>4. \A u \in Thread : thread'[u] = thread[u] \/ (thread'[u] = Idle /\ thread'[u].op = "idle")
  BY DEF CacheInv, TypeOK, Idle
<1>5. InTime' /\ AnswerSeen' /\ PolicyAnswerSeen'
  BY <1>4 DEF CacheInv, InTime, AnswerSeen, PolicyAnswerSeen
<1>6. SeenPast' /\ SincePast' /\ CachedSeen' /\ PolicySeenPast'
  BY DEF CacheInv, SeenPast, SincePast, CachedSeen, PolicySeenPast
<1>7. PolicyCachedSeen'
  <2>1. policySeen[thread[t].got] # None /\ policySeen[thread[t].got] \in Nat
        /\ now - policySeen[thread[t].got] <= Timeout
    BY <1>2 DEF CacheInv, PolicyAnswerSeen, TypeOK, Time
  <2>2. pcached'.value = thread[t].got /\ pcached'.at = now
    OBVIOUS
  <2> QED BY <2>1, <2>2 DEF PolicyCachedSeen
<1> QED BY <1>3, <1>5, <1>6, <1>7 DEF CacheInv

-----------------------------------------------------------------------------
(* What a step answers.                                                    *)

Answers == WithdrawnKeyExpires /\ RotationPickedUp /\ IdentityNeedsKey /\ StrictEmbedAllowed

\* A verifier of from_env gives a principal only on a key of the environment or
\* on the JWK, unless the mode is none or trusted.
LEMMA PrincipalNeedsKey ==
  ASSUME NEW e, NEW token, NEW jwk, from_env(e) # Refused,
         verify(from_env(e), token, jwk) # Refused
  PROVE  \/ resolve_auth_mode(e) \in {"none", "trusted"}
         \/ token.key \in {e.rs256, e.hs256} \ {None}
         \/ jwk # None /\ token.key = jwk.key
<1> DEFINE v == from_env(e)
<1>1. \/ resolve_auth_mode(e) \in {"none", "trusted"}
      \/ v.mode = "disabled"
      \/ v.mode \in {"jwt", "smoo"} /\ v.key = "jwks"
      \/ v.mode \in {"jwt", "smoo"} /\ v.key # "jwks" /\ v.key \in {e.rs256, e.hs256} \ {None}
  BY SelectedVerifier
<1> HIDE DEF v
<1>2. verify(v, token, jwk) # Refused BY DEF v
<1>3. CASE v.mode = "disabled"
  BY <1>2, <1>3 DEF verify, AdminDisabled
<1>4. CASE v.mode \in {"jwt", "smoo"} /\ v.key = "jwks"
  BY <1>2, <1>4 DEF verify, decode_jwks
<1>5. CASE v.mode \in {"jwt", "smoo"} /\ v.key # "jwks" /\ v.key \in {e.rs256, e.hs256} \ {None}
  BY <1>2, <1>5 DEF verify, decode_static
<1> QED BY <1>1, <1>3, <1>4, <1>5

\* A token answered on a key that was published recently enough.
LEMMA VerifiedAnswers ==
  ASSUME CacheInv, OutsideKept, NEW token, NEW jwk, answer' = Verified(token, jwk),
         verifier.key = "jwks" => seen[jwk] # None /\ now - seen[jwk] < Ttl + Timeout
  PROVE  Answers'
<1> USE DEF OutsideKept, deployment, issuer, service
<1>1. /\ answer'.kind = "verified" /\ answer'.token = token /\ answer'.jwk = jwk
      /\ answer'.principal = verify(verifier, token, jwk)
  BY DEF Verified
<1>2. WithdrawnKeyExpires'
  BY <1>1 DEF WithdrawnKeyExpires
<1>3. IdentityNeedsKey'
  <2>1. verifier = from_env(env) /\ verifier # Refused
    BY DEF CacheInv, TypeOK
  <2> QED BY <1>1, <2>1, PrincipalNeedsKey DEF IdentityNeedsKey
<1>4. RotationPickedUp' /\ StrictEmbedAllowed'
  BY <1>1 DEF RotationPickedUp, StrictEmbedAllowed
<1> QED BY <1>2, <1>3, <1>4 DEF Answers

\* A search of a set of keys that is recent enough in both directions.
LEMMA LookupAnswers ==
  ASSUME CacheInv, OutsideKept, NEW token, NEW set \in SUBSET Jwk,
         answer' = Lookup(set, token),
         \A j \in set : seen[j] # None /\ now - seen[j] < Ttl + Timeout,
         \/ find_jwk(set, token.kid) # None
         \/ \A j \in published : j \notin set => now - since[j] < MinRefresh + Timeout
  PROVE  Answers'
<1> DEFINE jwk == find_jwk(set, token.kid)
<1>1. CASE jwk # None
  <2>1. answer' = Verified(token, jwk)
    BY <1>1 DEF Lookup
  <2>2. jwk \in set
    BY <1>1, FoundInSet
  <2> QED BY <2>1, <2>2, VerifiedAnswers
<1>2. CASE jwk = None
  <2>1. answer' = NoKey(token)
    BY <1>2 DEF Lookup
  <2>2. answer'.kind = "no_key" /\ answer'.token = token
    BY <2>1 DEF NoKey
  <2>3. WithdrawnKeyExpires' /\ IdentityNeedsKey' /\ StrictEmbedAllowed'
    BY <2>2 DEF WithdrawnKeyExpires, IdentityNeedsKey, StrictEmbedAllowed
  <2>4. token.kid # None => \A j \in set : j.kid # token.kid
    BY <1>2, NotFound
  <2>5. RotationPickedUp'
    BY <1>2, <2>2, <2>4 DEF RotationPickedUp, OutsideKept, issuer
  <2> QED BY <2>3, <2>5 DEF Answers
<1> QED BY <1>1, <1>2

\* An embed answered on a policy that was in force recently enough, or on none.
LEMMA EmbeddedAnswers ==
  ASSUME CacheInv, OutsideKept, NEW p, NEW o, NEW ac, NEW how,
         answer' = Embedded(p, o, ac, how),
         p = None \/ (/\ p \in Policy /\ policySeen[p] # None
                      /\ now - policySeen[p] < PolicyTtl + Timeout)
  PROVE  Answers'
<1> USE DEF OutsideKept, deployment, issuer, service
<1>1. /\ answer'.kind = "embed" /\ answer'.origin = o
      /\ answer'.outcome = enforce_widget_auth(p, o, ac)
  BY DEF Embedded
<1>2. WithdrawnKeyExpires' /\ RotationPickedUp' /\ IdentityNeedsKey'
  BY <1>1 DEF WithdrawnKeyExpires, RotationPickedUp, IdentityNeedsKey
<1>3. ASSUME strict, enforce_widget_auth(p, o, ac).ok
      PROVE  p # None /\ p.allowed_origins \cap {"*", o} # {}
  <2>1. p # None
    BY <1>3 DEF enforce_widget_auth
  <2>2. origin_allowed(p.allowed_origins, o)
    BY <1>3, <2>1 DEF enforce_widget_auth
  <2> QED BY <2>1, <2>2 DEF origin_allowed
<1>4. StrictEmbedAllowed'
  BY <1>1, <1>3 DEF StrictEmbedAllowed
<1> QED BY <1>2, <1>4 DEF Answers

\* A step that decides nothing.
LEMMA NoAnswers ==
  ASSUME answer' = None \/ answer' = [kind |-> "fetch_failed"]
  PROVE  Answers'
<1>1. answer' = None \/ answer'.kind = "fetch_failed" OBVIOUS
<1> QED BY <1>1 DEF Answers, WithdrawnKeyExpires, RotationPickedUp, IdentityNeedsKey, StrictEmbedAllowed

-----------------------------------------------------------------------------
\* Every step of the clock, the two services and the threads keeps the invariant.
LEMMA StepIInv == IInv /\ [Next]_vars => IInv'
<1> SUFFICES ASSUME IInv, [Next]_vars PROVE CacheInv' /\ Answers'
  BY DEF IInv, Answers
<1> USE TimeAssumption, NoneAssumption
<1>0. CacheInv /\ Answers BY DEF IInv, Answers
<1>1. CASE Tick
  BY <1>0, <1>1, TickCaches, NoAnswers DEF Tick
<1>2. CASE Rotate
  BY <1>0, <1>2, RotateCaches, NoAnswers DEF Rotate
<1>3. CASE ChangePolicy
  BY <1>0, <1>3, ChangePolicyCaches, NoAnswers DEF ChangePolicy
<1>4. ASSUME NEW t \in Thread, NEW token \in Token, KeyFromCache(t, token)
      PROVE  CacheInv' /\ Answers'
  <2>1. CacheInv'
    BY <1>0, <1>4, AnswerCaches DEF KeyFromCache, OutsideKept
  <2>2. Fresh \/ Guarded
    BY <1>4 DEF KeyFromCache
  <2>3. cached.at \in Nat /\ now \in Nat /\ now - cached.at < Ttl
    BY <1>0, <2>2 DEF Fresh, Guarded, CacheInv, TypeOK, Time
  <2>4. cached.set \subseteq Jwk
    BY <1>0 DEF CacheInv, TypeOK, Jwk
  <2>5. \A j \in cached.set : seen[j] # None /\ now - seen[j] < Ttl + Timeout
    <3>1. \A j \in cached.set : /\ seen[j] # None /\ seen[j] \in Nat
                                /\ cached.at - seen[j] <= Timeout
      BY <1>0, <2>4 DEF CacheInv, CachedSeen, TypeOK, Time
    <3> QED BY <2>3, <3>1
  <2>6. Guarded => \A j \in published : j \notin cached.set => now - since[j] < MinRefresh + Timeout
    <3>1. \A j \in published : /\ since[j] \in Nat
                               /\ since[j] < cached.at - Timeout => j \in cached.set
      BY <1>0, <2>3 DEF CacheInv, CachedSeen, SincePast, TypeOK, Time, Jwk
    <3> QED BY <2>3, <3>1 DEF Guarded
  <2>7. find_jwk(cached.set, token.kid) # None \/ Guarded
    BY <1>4 DEF KeyFromCache
  <2>8. OutsideKept /\ answer' = Lookup(cached.set, token)
    BY <1>4 DEF KeyFromCache, OutsideKept
  <2> QED BY <1>0, <2>1, <2>4, <2>5, <2>6, <2>7, <2>8, LookupAnswers
<1>5. ASSUME NEW t \in Thread, NEW token \in Token, KeyFetch(t, token)
      PROVE  CacheInv' /\ Answers'
  BY <1>0, <1>5, KeyFetchCaches, NoAnswers DEF KeyFetch
<1>6. ASSUME NEW t \in Thread, NEW token \in Token, VerifyLocally(t, token)
      PROVE  CacheInv' /\ Answers'
  BY <1>0, <1>6, AnswerCaches, VerifiedAnswers DEF VerifyLocally, OutsideKept
<1>7. ASSUME NEW t \in Thread, KeyStore(t)
      PROVE  CacheInv' /\ Answers'
  <2>1. CacheInv'
    BY <1>0, <1>7, KeyStoreCaches
  <2>2. thread[t] \in KeyRequest /\ thread[t] # Idle /\ thread[t].op = "keys"
    BY <1>0, <1>7 DEF KeyStore, StoreKeys, CacheInv, TypeOK, PolicyRequest, Idle
  <2>3. /\ thread[t].got \subseteq Jwk /\ thread[t].from \in Nat /\ now \in Nat
        /\ now - thread[t].from <= Timeout
    BY <1>0, <2>2 DEF KeyRequest, Jwk, CacheInv, InTime, TypeOK, Time
  <2>4. \A j \in thread[t].got : seen[j] # None /\ now - seen[j] < Ttl + Timeout
    BY <1>0, <2>2, <2>3 DEF CacheInv, AnswerSeen, TypeOK, Time
  <2>5. \A j \in published : j \notin thread[t].got => now - since[j] < MinRefresh + Timeout
    BY <1>0, <2>2, <2>3 DEF CacheInv, AnswerSeen, SincePast, TypeOK, Time, Jwk
  <2>6. OutsideKept /\ answer' = Lookup(thread[t].got, thread[t].token)
    BY <1>7 DEF KeyStore, StoreKeys, OutsideKept
  <2> QED BY <1>0, <2>1, <2>3, <2>4, <2>5, <2>6, LookupAnswers
<1>8. ASSUME NEW t \in Thread, KeyFetchFails(t)
      PROVE  CacheInv' /\ Answers'
  BY <1>0, <1>8, AnswerCaches, NoAnswers DEF KeyFetchFails, OutsideKept
<1>9. ASSUME NEW t \in Thread, NEW o \in Origin, NEW ac \in AuthCtx, PolicyFromCache(t, o, ac)
      PROVE  CacheInv' /\ Answers'
  <2>1. CacheInv'
    BY <1>0, <1>9, AnswerCaches DEF PolicyFromCache, OutsideKept
  <2>2. /\ pcached.value \in Policy /\ policySeen[pcached.value] # None
        /\ now - policySeen[pcached.value] < PolicyTtl + Timeout
    BY <1>0, <1>9 DEF PolicyFromCache, PolicyFresh, CacheInv, PolicyCachedSeen, TypeOK, Time
  <2>3. OutsideKept /\ answer' = Embedded(pcached.value, o, ac, "cached")
    BY <1>9 DEF PolicyFromCache, OutsideKept
  <2> QED BY <1>0, <2>1, <2>2, <2>3, EmbeddedAnswers
<1>10. ASSUME NEW t \in Thread, NEW o \in Origin, NEW ac \in AuthCtx, PolicyFetch(t, o, ac)
       PROVE  CacheInv' /\ Answers'
  BY <1>0, <1>10, PolicyFetchCaches, NoAnswers DEF PolicyFetch
<1>11. ASSUME NEW t \in Thread, PolicyStore(t)
       PROVE  CacheInv' /\ Answers'
  <2>1. CacheInv'
    BY <1>0, <1>11, PolicyStoreCaches
  <2>2. thread[t] \in PolicyRequest /\ thread[t] # Idle /\ thread[t].op = "policy"
    BY <1>0, <1>11 DEF PolicyStore, CacheInv, TypeOK, KeyRequest, Idle
  <2>3. /\ thread[t].got \in Policy /\ policySeen[thread[t].got] # None
        /\ now - policySeen[thread[t].got] < PolicyTtl + Timeout
    BY <1>0, <2>2 DEF PolicyRequest, CacheInv, PolicyAnswerSeen, InTime, TypeOK, Time
  <2>4. /\ OutsideKept
        /\ answer' = Embedded(thread[t].got, thread[t].origin, thread[t].ac, "fetched")
    BY <1>11 DEF PolicyStore, OutsideKept
  <2> QED BY <1>0, <2>1, <2>3, <2>4, EmbeddedAnswers
<1>12. ASSUME NEW t \in Thread, PolicyFetchFails(t)
       PROVE  CacheInv' /\ Answers'
  BY <1>0, <1>12, AnswerCaches, EmbeddedAnswers DEF PolicyFetchFails, OutsideKept
<1>13. CASE UNCHANGED vars
  <2>1. CacheInv'
    BY <1>0, <1>13, AnswerCaches DEF vars, OutsideKept, deployment, issuer, service
  <2>2. Answers'
    BY <1>0, <1>13 DEF vars, Answers, WithdrawnKeyExpires, RotationPickedUp, IdentityNeedsKey,
                       StrictEmbedAllowed
  <2> QED BY <2>1, <2>2
<1> QED BY <1>1, <1>2, <1>3, <1>4, <1>5, <1>6, <1>7, <1>8, <1>9, <1>10, <1>11, <1>12, <1>13
        DEF Next, Verifying, Embedding

\* The invariant holds in every state the two caches can reach.
LEMMA AlwaysIInv == Spec => []IInv
BY InitIInv, StepIInv, PTL DEF Spec

\* Every variable keeps its type (auth.rs, widget_auth.rs).
THEOREM TypeCorrect == Spec => []TypeOK
<1>1. IInv => TypeOK BY DEF IInv, CacheInv
<1> QED BY <1>1, AlwaysIInv, PTL

\* A withdrawn key verifies nothing once the TTL and one request's timeout have
\* passed, whatever order the threads fetch and store in (auth.rs, JwksKeyStore).
THEOREM WithdrawnKeysExpire == Spec => []WithdrawnKeyExpires
<1>1. IInv => WithdrawnKeyExpires BY DEF IInv
<1> QED BY <1>1, AlwaysIInv, PTL

\* A key rotated in is found after the storm guard and one request's timeout
\* (auth.rs, JwksKeyStore::key_for and maybe_refresh).
THEOREM RotationsPickedUp == Spec => []RotationPickedUp
<1>1. IInv => RotationPickedUp BY DEF IInv
<1> QED BY <1>1, AlwaysIInv, PTL

\* No principal without a configured key, or a mode that asks for none (auth.rs,
\* AuthConfig::from_env and the verifiers).
THEOREM IdentitiesNeedKeys == Spec => []IdentityNeedsKey
<1>1. IInv => IdentityNeedsKey BY DEF IInv
<1> QED BY <1>1, AlwaysIInv, PTL

\* A strict deployment admits only origins that a policy recently in force
\* allowed (widget_auth.rs, HttpWidgetAuth; handler.rs, enforce_widget_auth).
THEOREM StrictEmbedsAllowed == Spec => []StrictEmbedAllowed
<1>1. IInv => StrictEmbedAllowed BY DEF IInv
<1> QED BY <1>1, AlwaysIInv, PTL
=============================================================================
