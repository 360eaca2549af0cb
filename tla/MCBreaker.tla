------------------------------ MODULE MCBreaker ------------------------------
(***************************************************************************)
(* Model checking BreakerCallers: three requests, so that one admitted     *)
(* before the circuit opened can report while another is a trial and a     *)
(* third asks to be the next one.                                          *)
(***************************************************************************)
EXTENDS BreakerCallers, TLC

RequestSymmetry == Permutations(Requests)

=============================================================================
