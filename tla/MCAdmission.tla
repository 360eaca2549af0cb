----------------------------- MODULE MCAdmission -----------------------------
(***************************************************************************)
(* Three requests, one capped route, two callers that share a cell of one  *)
(* of the two rows of the sketch, a caller whose cap changes between one   *)
(* and two, and a breaker that opens on its first failure.                 *)
(***************************************************************************)
EXTENDS Admission, TLC

CONSTANTS r1, r2, r3, route, alice, bob

MCRequests == {r1, r2, r3}
MCRouteKeys == {route}
MCCallerKeys == {alice, bob}
MCCaps == (alice :> {1, 2}) @@ (bob :> {1}) @@ (route :> {1})

MCHash == (alice :> <<1, 1>>) @@ (bob :> <<1, 2>>)

Symmetry == Permutations(MCRequests)

=============================================================================
