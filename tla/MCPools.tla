------------------------------ MODULE MCPools ------------------------------
(***************************************************************************)
(* Two targets and three addresses.  Of the zones the first four are       *)
(* acceptable for themselves: the second adds an address, the third drops  *)
(* the one the fourth gives to the other target, and the fifth swaps the   *)
(* two of the first.  Then a target without addresses, an address of both, *)
(* and more addresses than the pool may hold.                              *)
(***************************************************************************)
EXTENDS Pools, TLC

CONSTANTS a, b, c, d, r1

MCAddrs == {a, b, c, d}
MCRequests == {r1}
MCWeight == <<1, 1>>
MCZones == {<<{a}, {b}>>, <<{a, c}, {b}>>, <<{c}, {b}>>, <<{c}, {a}>>,
            <<{b}, {a}>>, <<{}, {b}>>, <<{a}, {a, b}>>, <<{a, c}, {b, d}>>}

=============================================================================
