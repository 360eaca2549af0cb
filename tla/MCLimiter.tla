------------------------------ MODULE MCLimiter ------------------------------
(***************************************************************************)
(* Local counters: three racing tasks on one key, one of which honours     *)
(* Retry-After.  Shared counters: two replicas and one key, with skewed    *)
(* clocks, with two round trips that fail, or with a key evicted and seen  *)
(* again.                                                                  *)
(***************************************************************************)
EXTENDS Limiter

CONSTANTS r1, r2, r3, a, b, k1

MCRequests == {r1, r2, r3}
MCObedient == {r1}
MCReplicas == {a, b}
MCOneKey == {k1}
MCBudgets == {[skew |-> 1, evictions |-> 0, failures |-> 1],
              [skew |-> 0, evictions |-> 0, failures |-> 2],
              [skew |-> 0, evictions |-> 1, failures |-> 1]}

=============================================================================
