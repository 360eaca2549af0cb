---------------------------- MODULE MCCertCache ----------------------------
(***************************************************************************)
(* Token verifications against one issuer whose endpoint can fail, rotate  *)
(* its keys and send any max-age.  The tokens are one that passes both     *)
(* verifiers and those that differ from it in one or two claims.           *)
(***************************************************************************)
EXTENDS TokenVerify, TLC

CONSTANTS v1, v2, k1

MCVerifiers == {v1, v2}
MCKids == {k1}
MCMaxAges == {None, 0, 2}
MCIssuers == {"p1", "p2"}

Good == [iss |-> "p1", alg |-> "RS256", kid |-> k1, key |-> k1, aud |-> <<"p1">>,
         exp |-> 1, nbf |-> None, iat |-> 0, auth_time |-> 0, sub |-> "user",
         claims |-> {"tenant"}]

\* Another value of one claim, or of the claims that go together.
Variants(t) ==
    {[t EXCEPT !.iss = i] : i \in {"p2", None}}
    \cup {[t EXCEPT !.alg = a] : a \in {"ES256", "HS256"}}
    \cup {[t EXCEPT !.kid = None], [t EXCEPT !.key = None], [t EXCEPT !.claims = {}]}
    \cup {[t EXCEPT !.aud = a] : a \in {<<>>, <<"p2">>, <<"p2", "p1">>}}
    \cup {[t EXCEPT !.exp = e] : e \in {None, 3}}
    \cup {[t EXCEPT !.nbf = 2], [t EXCEPT !.iat = 3], [t EXCEPT !.iat = None],
          [t EXCEPT !.auth_time = None], [t EXCEPT !.sub = ""], [t EXCEPT !.sub = None]}

MCTokens ==
    {Good} \cup Variants(Good) \cup Variants([Good EXCEPT !.iss = "p2", !.aud = <<"p2", "p1">>])

=============================================================================
