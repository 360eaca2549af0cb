---------------------------- MODULE RateDecision ----------------------------
(***************************************************************************)
(* The sliding-window estimate of ratelimit/mod.rs (`decide`), the one     *)
(* formula that the local and the shared limiter both use.  `elapsed` of   *)
(* `interval` time units of the current window have passed: the code's     *)
(* progress is elapsed / interval, and the comparison is multiplied out so *)
(* that it stays in the integers.                                          *)
(***************************************************************************)
EXTENDS Integers

(* estimated >= limit, with estimated = previous*(1 - progress) + current. *)
Refuses(previous, current, elapsed, interval, limit) ==
    previous * (interval - elapsed) + current * interval >= limit * interval

CeilDiv(a, b) == (a + b - 1) \div b

(* A plausible bug: whole seconds by truncation. *)
RetryAfterTruncated(elapsed, interval, second) ==
    LET remaining == interval - elapsed IN
    IF remaining > second THEN second * (remaining \div second) ELSE second

(* The rest of the window, at least a second, rounded up to whole seconds  *)
(* of `second` time units.                                                 *)
RetryAfter(elapsed, interval, second) ==
    LET remaining == interval - elapsed IN
    IF remaining > second THEN second * CeilDiv(remaining, second) ELSE second

=============================================================================
