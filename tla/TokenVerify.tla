----------------------------- MODULE TokenVerify -----------------------------
(***************************************************************************)
(* Verification of a token, src/crates/lagos-core/src/auth/{mod,jwt,       *)
(* firebase}.rs, around the key cache of one provider: what is read from   *)
(* the unverified token picks the verifier and the key, and only what the  *)
(* signed token says on the way out becomes an identity.                   *)
(*                                                                         *)
(* A verification first reads the issuer, the algorithm and the kid, then  *)
(* waits for the key, then decodes.  Nothing but the kid matters while it  *)
(* waits, so the rest of its token is chosen when it decodes, among the    *)
(* tokens its first checks let through.                                    *)
(***************************************************************************)
EXTENDS CertCache

CONSTANTS
    Tokens,      \* the tokens requests carry
    Issuers,     \* issuers with a verifier; the Firebase ones name projects
    JwtIssuer,   \* the issuer of a jwt provider
    Audiences,   \* its audiences
    Algorithms,  \* its algorithms
    Required,    \* its required_claims
    Skew         \* clock_skew

VARIABLES
    kind,        \* which verifier this is: "jwt" or "firebase"
    identity     \* the token a step has just turned into an Identity, or None

tvars == <<vars, kind, identity>>

(***************************************************************************)
(* A token: `key` made its signature (None: nobody's), `aud` is a sequence *)
(* (a string is a sequence of one), a claim that is absent or of the wrong *)
(* type is None; `claims` are the other claims it has.                     *)
(***************************************************************************)
Token == [iss: Issuers \cup {JwtIssuer, None}, alg: {"RS256", "ES256", "HS256"},
          kid: Kids \cup {None}, key: Kids \cup {None},
          aud: UNION {[1..n -> Audiences \cup Issuers] : n \in 0..2},
          exp: Nat \cup {None}, nbf: Nat \cup {None}, iat: Nat \cup {None},
          auth_time: Nat \cup {None}, sub: {"", "user", None}, claims: SUBSET Required]

ASSUME TokenConfig ==
    /\ Tokens \subseteq Token
    /\ Audiences # {} /\ None \notin Audiences \cup Issuers
    /\ Algorithms \subseteq {"RS256", "ES256"}
    /\ Skew \in Nat

InRange(s) == {s[i] : i \in DOMAIN s}

\* IssuerRouter::verify and the verifier's own reading of the unverified issuer.
IssuerKnown(t) == t.iss \in (IF kind = "jwt" THEN {JwtIssuer} ELSE Issuers)

\* Faulty variant: the algorithm of the header is believed.
AnyAlgorithm(t) == TRUE

\* The header selects nothing until it matches what the operator wrote down.
AlgorithmAllowed(t) == t.alg \in (IF kind = "jwt" THEN Algorithms ELSE {"RS256"})

\* verify before its await: a refused token costs no fetch.
Readable(t) == IssuerKnown(t) /\ AlgorithmAllowed(t) /\ t.kid # None

\* The audiences a token of this issuer must name one of.
Expected(t) == IF kind = "jwt" THEN Audiences ELSE {t.iss}

\* A timestamp that must be present and may not be in the future.
Past(time) == time # None /\ time <= now + Skew

\* Faulty variant: judged by the clock of the request's arrival.
AliveAtArrival(v, t) == t.exp # None /\ t.exp + Skew >= began[v]

\* validate_exp with the leeway, by the clock of the decode.
Alive(v, t) == t.exp # None /\ t.exp + Skew >= now

\* jsonwebtoken's decode under the Validation the verifier builds (external).
Decodes(v, t) ==
    /\ t.key = t.kid
    /\ Alive(v, t)
    /\ kind = "jwt" => t.nbf = None \/ t.nbf <= now + Skew
    /\ InRange(t.aud) \cap Expected(t) # {}
    /\ t.sub # None

\* verify after the key: the decode, then the checks jsonwebtoken does not make.
Accepts(v, t) ==
    /\ Decodes(v, t)
    /\ Past(t.iat)
    /\ kind = "jwt" => Required \subseteq t.claims
    /\ kind = "firebase" => Past(t.auth_time)
    /\ t.sub # ""

-----------------------------------------------------------------------------
TInit ==
    /\ Init
    /\ kind \in {"jwt", "firebase"}
    /\ identity = None

\* A token that passes the first checks asks for its key; another is refused at
\* once and changes nothing.
BeginToken(v) ==
    /\ Begin(v)
    /\ \E t \in Tokens : Readable(t) /\ t.kid = kid'[v]

\* key_for returned, and verify goes on without another await.
EndToken(v) ==
    /\ Return(v)
    /\ \E t \in Tokens :
          /\ Readable(t) /\ t.kid = kid[v]
          /\ identity' = IF pc[v] = "accepted" /\ Accepts(v, t) THEN t ELSE None

\* Everything but the end of a verification.
Silent ==
    /\ \/ Tick \/ Rotate
       \/ \E v \in Verifiers : BeginToken(v) \/ Step(v) \/ Cancelled(v)
    /\ identity' = None

TNext == (Silent \/ \E v \in Verifiers : EndToken(v)) /\ UNCHANGED kind

Progress(v) ==
    /\ \/ Step(v) /\ identity' = None
       \/ EndToken(v)
    /\ UNCHANGED kind

\* The fairness of the key cache, and the rest of verify runs in the same poll.
TSpec == TInit /\ [][TNext]_tvars /\ \A v \in Verifiers : WF_tvars(Progress(v))

-----------------------------------------------------------------------------
(***************************************************************************)
(* An Identity is proven when it is issued, whichever path the key came    *)
(* by and however long the request waited for it: the token is signed by   *)
(* the key it names, the issuer's endpoint still had that key at most the  *)
(* time of one fetch, the longest TTL and stale_if_error before the        *)
(* request arrived (the TTL counts from the end of the fetch, and failed   *)
(* refreshes never extend it), the token is alive now, and it was made for *)
(* this gateway by an issuer and an algorithm the operator chose.          *)
(***************************************************************************)
IdentityProven ==
    [][\A v \in Verifiers :
          pc[v] = "accepted" /\ pc'[v] = "idle" /\ identity' # None =>
              LET t == identity' IN
              /\ t.key = kid[v]
              /\ lastPub[kid[v]] + FetchTimeout + LongestTtl + StaleIfError >= began[v]
              /\ t.exp + Skew >= now /\ t.iat <= now + Skew
              /\ \/ /\ kind = "jwt" /\ t.iss = JwtIssuer /\ t.alg \in Algorithms
                    /\ InRange(t.aud) \cap Audiences # {}
                 \/ /\ kind = "firebase" /\ t.iss \in Issuers /\ t.alg = "RS256"
                    /\ t.iss \in InRange(t.aud)
              ]_tvars

=============================================================================
