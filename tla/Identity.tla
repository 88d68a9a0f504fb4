------------------------------ MODULE Identity ------------------------------
(***************************************************************************)
(* Who a connection is: the claims of a token, the verifiers, how the      *)
(* environment selects one (rust/smooth-operator/src/auth.rs), and what    *)
(* the WebSocket upgrade makes of the answer (server.rs).  Pure operators; *)
(* KeyCache adds the JWKS key store, Access the conversations.             *)
(*                                                                         *)
(* A token is a record of what the checks tell apart: the key that really  *)
(* signed it, the key id and algorithm its header claims, whether it is    *)
(* unexpired, its issuer and audience, and its claims.  A signature checks *)
(* out exactly when the key that signed it is the key it is checked with.  *)
(***************************************************************************)
EXTENDS Integers, FiniteSets

CONSTANTS None,          \* an absent value
          Refused        \* an AuthError, or an upgrade answered 401

-----------------------------------------------------------------------------
(* Roles and principals.                                                   *)

\* Role's derived ordering: declaration order.
RoleRank == [basic |-> 1, curator |-> 2, admin |-> 3]

\* Role::parse: "user" is an alias of basic, anything unknown an error.
parse_role(r) ==
    IF r \in DOMAIN RoleRank THEN r ELSE IF r = "user" THEN "basic" ELSE Refused

\* Principal::has_role.
has_role(principal, min) == RoleRank[principal.role] >= RoleRank[min]

Principal(user, org, role, email, groups) ==
    [user_id |-> user, org_id |-> org, role |-> role, email |-> email,
     groups |-> groups]

\* An e-mail is whose it is and how it was typed; a blank one is nobody's.
BlankEmail(e) == e = None \/ e.who = "nobody"

\* Claims::into_principal: the role is required and must parse, an
\* organization is required (org before org_id), a blank e-mail is none.
into_principal(claims) ==
    LET role == IF claims.role = None THEN Refused ELSE parse_role(claims.role)
        org  == IF claims.org # None THEN claims.org ELSE claims.org_id
    IN  IF role = Refused \/ org = None THEN Refused
        ELSE Principal(claims.sub, org, role,
                       IF BlankEmail(claims.email) THEN None ELSE claims.email,
                       claims.groups)

\* Principal::access_context, and the context without a principal.
access_context(p) ==
    [user_id |-> p.user_id, groups |-> p.groups, organization_id |-> p.org_id]
anonymous == [user_id |-> None, groups |-> {}, organization_id |-> None]

-----------------------------------------------------------------------------
(* Verifiers.                                                              *)

\* is_single_user_mode.
is_single_user_mode(mode) == mode \in {"none", "disabled", "local-token"}

\* configure_validation: exp and sub are required; the audience and the issuer
\* are compared where one is configured and the token names one.
Accepts(v, token) ==
    /\ token.unexpired
    /\ v.audience # None => token.aud \in {None, v.audience}
    /\ v.issuer # None => token.iss \in {None, v.issuer}

\* resolve_jwk_alg: the algorithm the JWK pins, else the header's.
resolve_jwk_alg(jwk, header) == IF jwk.alg = None THEN header ELSE jwk.alg

\* NoAuthVerifier: everybody is the development administrator.
NoAuth(v, token) == Principal("dev-admin", v.org, "admin", None, {})

\* LocalTokenVerifier: whoever holds the secret is the local user.
LocalToken(v, token) ==
    IF token.key = v.key THEN Principal("local", "local", "admin", None, {}) ELSE Refused

\* TrustedIdentityVerifier: the claims as forwarded, unsigned.
decode_trusted(v, token) == into_principal(token.claims)

\* AdminDisabledVerifier.
AdminDisabled(v, token) == Refused

\* JwtVerifier with a static key (RS256 or HS256).
decode_static(v, token) ==
    IF token.key = v.key /\ Accepts(v, token) THEN into_principal(token.claims) ELSE Refused

\* JwksVerifier: the key is what the key store found for the token's kid.
decode_jwks(v, token, jwk) ==
    IF /\ jwk # None /\ token.key = jwk.key
       /\ token.alg = resolve_jwk_alg(jwk, token.alg)
       /\ Accepts(v, token)
    THEN into_principal(token.claims) ELSE Refused

\* AuthVerifier::verify; smoo is jwt with a required issuer.
verify(v, token, jwk) ==
    CASE v.mode = "none"          -> NoAuth(v, token)
      [] v.mode = "disabled"      -> AdminDisabled(v, token)
      [] v.mode = "local-token"   -> LocalToken(v, token)
      [] v.mode = "trusted"       -> decode_trusted(v, token)
      [] v.mode \in {"jwt", "smoo"} -> IF v.key = "jwks" THEN decode_jwks(v, token, jwk)
                                       ELSE decode_static(v, token)

-----------------------------------------------------------------------------
(* AuthConfig::from_env.                                                   *)

Verifier(mode, key, org, issuer, audience) ==
    [mode |-> mode, key |-> key, org |-> org, issuer |-> issuer,
     audience |-> audience]

\* resolve_auth_mode: the canonical variable wins over its alias.
resolve_auth_mode(env) ==
    IF env.canonical # None THEN env.canonical ELSE env.alias

\* The key of build_jwt: a public key, a secret, a JWKS location (given, or
\* derived from the issuer by jwks_source), in that order.
KeySource(env) ==
    CASE env.rs256 # None -> env.rs256
      [] env.rs256 = None /\ env.hs256 # None -> env.hs256
      [] env.rs256 = None /\ env.hs256 = None /\ (env.jwks \/ env.issuer # None)
            -> "jwks"
      [] OTHER -> None

\* What each mode becomes; keyless is the answer to a jwt mode without a key.
Selected(env, mode, keyless) ==
    LET keyed == Verifier(mode, KeySource(env), None, env.issuer, env.audience)
    IN  CASE mode = "none"    -> Verifier("none", None, env.dev_org, None, None)
          [] mode = "trusted" -> Verifier("trusted", None, None, None, None)
          [] mode = "jwt"     -> IF KeySource(env) # None THEN keyed ELSE keyless
          [] mode = "smoo"    -> IF env.issuer = None THEN Refused ELSE keyed
          [] OTHER            -> Refused

\* Mutant: a jwt mode without a key falls back to no checks at all.
from_env_Open(env) ==
    Selected(env, IF resolve_auth_mode(env) = None THEN "jwt" ELSE resolve_auth_mode(env),
             Verifier("none", None, env.dev_org, None, None))

\* Without a mode the server runs as jwt, and without a key then as disabled;
\* a mode asked for and not configured stops the start (Refused).
from_env(env) ==
    IF resolve_auth_mode(env) = None
    THEN Selected(env, "jwt", Verifier("disabled", None, None, None, None))
    ELSE Selected(env, resolve_auth_mode(env), Refused)

-----------------------------------------------------------------------------
(* The WebSocket upgrade.                                                  *)

Unscoped == [kind |-> "Unscoped", email |-> None]
Denied   == [kind |-> "Denied", email |-> None]
User(e)  == [kind |-> "User", email |-> e]

\* anonymous_scope: no identity concept on a single-user deployment, nothing
\* owned anywhere else.
anonymous_scope(mode) == IF is_single_user_mode(mode) THEN Unscoped ELSE Denied

Anonymous(mode, strict_auth) ==
    IF strict_auth THEN Refused
    ELSE [access |-> anonymous, org |-> None, scope |-> anonymous_scope(mode)]

\* resolve_ws_access for what verify answered (None: no token was presented).
\* A missing or refused token is an anonymous connection, or under strict_auth
\* no connection at all.
resolve_ws_access(mode, strict_auth, answer) ==
    IF answer \in {None, Refused} THEN Anonymous(mode, strict_auth)
    ELSE [access |-> access_context(answer), org |-> answer.org_id,
          scope |-> IF answer.email # None THEN User(answer.email)
                    ELSE IF is_single_user_mode(mode) THEN Unscoped ELSE Denied]
=============================================================================
