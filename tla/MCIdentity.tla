----------------------------- MODULE MCIdentity -----------------------------
(* KeyCache with two threads, a rotating issuer and a changing policy.     *)
EXTENDS KeyCache, TLC

EnvOf(canonical, hs256, jwks, iss) ==
    [canonical |-> canonical, alias |-> None, rs256 |-> None, hs256 |-> hs256,
     jwks |-> jwks, issuer |-> iss, audience |-> None, dev_org |-> "dev"]

MCEnv == {EnvOf(None, None, FALSE, None), EnvOf("jwt", None, FALSE, None),
          EnvOf("jwt", "h1", FALSE, None), EnvOf("smoo", None, FALSE, "iss"),
          EnvOf("jwt", None, TRUE, None), EnvOf("none", None, FALSE, None),
          EnvOf("trusted", None, FALSE, None)}

JwkOf(kid, alg) == [kid |-> kid, key |-> kid, alg |-> alg]
MCJwkSet == {{JwkOf("k1", "ES256")}, {JwkOf("k1", "ES256"), JwkOf("k2", None)},
             {JwkOf("k2", None)}}

Claims == [sub |-> "u", org |-> None, org_id |-> "o", role |-> "user",
           email |-> [who |-> "nobody", typed |-> "blank"], groups |-> {}]
TokenOf(key, kid) ==
    [key |-> key, kid |-> kid, alg |-> "ES256", unexpired |-> TRUE, iss |-> "iss",
     aud |-> None, claims |-> Claims]
MCToken == {TokenOf("k1", "k1"), TokenOf("k2", "k2"), TokenOf("h1", None),
            TokenOf("forged", "k1"), [TokenOf("k1", "k1") EXCEPT !.iss = None]}

PolicyOf(origins, key) ==
    [allowed_origins |-> origins, public_key |-> key, organization_id |-> "o"]
MCPolicy == {None, PolicyOf({"site"}, "pk"), PolicyOf({}, None)}
MCOrigin == {None, "site"}
MCAuthCtx == {None, [key |-> "pk", at |-> 0]}

\* No step of the key store reads what a step of the embed policies writes, nor
\* the other way round: each is explored without the other's interleavings, the
\* policies in the deployment that verifies nothing, the issuer's key sets in
\* those that read them.
MCInit ==
    /\ Init
    /\ verifier.mode # "disabled" => ~strict /\ policy = None
    /\ verifier.key # "jwks" => published = CHOOSE s \in JwkSet : TRUE

MCNext ==
    \/ Tick
    \/ verifier.key = "jwks" /\ Rotate
    \/ verifier.mode = "disabled" /\ (ChangePolicy \/ \E t \in Thread : Embedding(t))
    \/ \E t \in Thread : Verifying(t)

MCSpec == MCInit /\ [][MCNext]_vars

Symmetric == Permutations(Thread)
=============================================================================
