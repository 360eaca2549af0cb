--------------------------- MODULE CircuitBreaker ---------------------------
(***************************************************************************)
(* The circuit breaker of one upstream, src/crates/lagos-core/src/         *)
(* breaker.rs.  `Inner` is the record behind the mutex; every public       *)
(* method is one critical section, so every method is one operator from    *)
(* the Inner it found to the Inner it leaves.  Times are the readings of   *)
(* Instant::now() the caller took BEFORE it locked, so a reading may be    *)
(* older than the times already stored in Inner.                           *)
(***************************************************************************)
EXTENDS Naturals

CONSTANTS
    Failures,          \* cfg.failures
    Window,            \* cfg.window
    Cooldown,          \* cfg.cooldown
    SuccessesToClose,  \* cfg.successes_to_close
    MaxTrials          \* cfg.max_trials

\* What ResolvedConfig::validate lets through: the three counts are not 0.
ASSUME BreakerConfig ==
    /\ Failures \in Nat \ {0}
    /\ SuccessesToClose \in Nat \ {0}
    /\ MaxTrials \in Nat \ {0}
    /\ Window \in Nat
    /\ Cooldown \in Nat

State == {"closed", "open", "half_open"}

Inner == [state: State, failures: Nat, window_started: Nat, opened_at: Nat,
          trial_successes: Nat, trials_in_flight: Nat]

\* Duration is unsigned: saturating_sub and saturating_duration_since stop at 0.
SaturatingSub(m, n) == IF m >= n THEN m - n ELSE 0

NewBreaker(t) ==
    [state |-> "closed", failures |-> 0, window_started |-> t, opened_at |-> t,
     trial_successes |-> 0, trials_in_flight |-> 0]

-----------------------------------------------------------------------------
\* Does allow_at answer `true`?
Allows(b, t) ==
    \/ b.state = "closed"
    \/ b.state = "open" /\ SaturatingSub(t, b.opened_at) >= Cooldown
    \/ b.state = "half_open" /\ b.trials_in_flight < MaxTrials

\* An open circuit whose cooldown is over becomes half-open with this caller as
\* its first trial.
EnterHalfOpen(b) ==
    [b EXCEPT !.state = "half_open", !.trial_successes = 0, !.trials_in_flight = 1]

AllowAt(b, t) ==
    IF ~Allows(b, t) THEN b
    ELSE CASE b.state = "closed" -> b
           [] b.state = "open" -> EnterHalfOpen(b)
           [] b.state = "half_open" -> [b EXCEPT !.trials_in_flight = @ + 1]

-----------------------------------------------------------------------------
\* Faulty variant: a cancelled trial keeps its slot.
CancelKeepsSlot(b) == b

Cancel(b) ==
    IF b.state = "half_open"
    THEN [b EXCEPT !.trials_in_flight = SaturatingSub(@, 1)]
    ELSE b

\* The last success a half-open circuit needs closes it and clears its counts.
CloseCircuit(b) ==
    [b EXCEPT !.state = "closed", !.failures = 0,
              !.trial_successes = 0, !.trials_in_flight = 0]

\* Faulty variant: a successful trial short of closing keeps its slot.
SuccessKeepsSlot(b) ==
    CASE b.state = "closed" -> [b EXCEPT !.failures = 0]
      [] b.state = "open" -> b
      [] b.state = "half_open" ->
            IF b.trial_successes + 1 >= SuccessesToClose
            THEN CloseCircuit(b)
            ELSE [b EXCEPT !.trial_successes = @ + 1]

RecordSuccess(b) ==
    CASE b.state = "closed" -> [b EXCEPT !.failures = 0]
      [] b.state = "open" -> b
      [] b.state = "half_open" ->
            IF b.trial_successes + 1 >= SuccessesToClose
            THEN CloseCircuit(b)
            ELSE [b EXCEPT !.trials_in_flight = SaturatingSub(@, 1),
                           !.trial_successes = @ + 1]

\* Faulty variant: the window never restarts.
NeverRestartWindow(b, t) == b

\* A failure more than `window` after the window began starts a new window.
RestartWindow(b, t) ==
    IF SaturatingSub(t, b.window_started) > Window
    THEN [b EXCEPT !.window_started = t, !.failures = 0]
    ELSE b

CountFailure(b, t) ==
    IF b.failures + 1 >= Failures
    THEN [b EXCEPT !.failures = @ + 1, !.state = "open", !.opened_at = t]
    ELSE [b EXCEPT !.failures = @ + 1]

RecordFailureAt(b, t) ==
    CASE b.state = "closed" -> CountFailure(RestartWindow(b, t), t)
      [] b.state = "half_open" ->
            [b EXCEPT !.state = "open", !.opened_at = t,
                      !.trial_successes = 0, !.trials_in_flight = 0]
      [] b.state = "open" -> b

=============================================================================
