--------------------------- MODULE BreakerCallers ---------------------------
(***************************************************************************)
(* The proxy's concurrent requests and the breaker of the upstream they    *)
(* share.  A request calls allow() in proxy_upstream_filter and, when it   *)
(* was admitted, reports exactly one outcome in logging(): cancel() when   *)
(* the error was not the upstream's, record_failure() on an upstream error *)
(* or a 5xx, record_success() otherwise.  allow() and record_failure()     *)
(* read the clock first and take the mutex second, so other requests run   *)
(* in between; those two calls are two steps here.                         *)
(***************************************************************************)
EXTENDS CircuitBreaker, Sequences, FiniteSets

CONSTANTS
    Requests,    \* requests that can be in progress at once
    MaxTime,     \* bound: the last clock tick explored
    MaxPreempt   \* how long a thread may sit between the clock read and the lock

ASSUME CallersConfig ==
    /\ IsFiniteSet(Requests)
    /\ MaxTime \in Nat
    /\ MaxPreempt \in Nat

VARIABLES
    inner,   \* the Inner behind the mutex
    now,     \* the monotonic clock
    pc,      \* where each request is
    at,      \* the clock reading each request last took
    \* History variables: no guard reads them, only properties do.
    trial,   \* outstanding requests admitted since the circuit went half-open
    wins,    \* successes reported by such requests since then
    log,     \* readings of the failures recorded since the last success,
             \* while the circuit was closed
    tripped  \* when the circuit last opened, by the clock and not by a reading

vars == <<inner, now, pc, at, trial, wins, log, tripped>>

(***************************************************************************)
(* idle -> allowing -> admitted -> idle, with failing on the way when the  *)
(* outcome is a failure.                                                   *)
(***************************************************************************)
Pc == {"idle", "allowing", "admitted", "failing"}

InCall(r) == pc[r] \in {"allowing", "failing"}

\* Requests the breaker still waits to hear from.
Outstanding == {r \in Requests : pc[r] \in {"admitted", "failing"}}

TypeOK ==
    /\ inner \in Inner
    /\ now \in Nat
    /\ pc \in [Requests -> Pc]
    /\ at \in [Requests -> Nat]
    /\ trial \in SUBSET Requests
    /\ wins \in Nat
    /\ log \in Seq(Nat)
    /\ tripped \in Nat

Init ==
    /\ inner = NewBreaker(0)
    /\ now = 0
    /\ pc = [r \in Requests |-> "idle"]
    /\ at = [r \in Requests |-> 0]
    /\ trial = {}
    /\ wins = 0
    /\ log = <<>>
    /\ tripped = 0

-----------------------------------------------------------------------------
\* Time passes unless a thread has been between its clock read and its lock
\* for MaxPreempt ticks.
Tick ==
    /\ now < MaxTime
    /\ \A r \in Requests : InCall(r) => now - at[r] < MaxPreempt
    /\ now' = now + 1
    /\ UNCHANGED <<inner, pc, at, trial, wins, log, tripped>>

\* allow(): Instant::now() ...
CallAllow(r) ==
    /\ pc[r] = "idle"
    /\ pc' = [pc EXCEPT ![r] = "allowing"]
    /\ at' = [at EXCEPT ![r] = now]
    /\ UNCHANGED <<inner, now, trial, wins, log, tripped>>

\* ... then allow_at under the lock, answering true: the request goes upstream
\* and ctx.breaker_upstream is set.
Admit(r) ==
    /\ pc[r] = "allowing"
    /\ Allows(inner, at[r])
    /\ inner' = AllowAt(inner, at[r])
    /\ pc' = [pc EXCEPT ![r] = "admitted"]
    /\ trial' = CASE inner.state = "closed" -> trial
                  [] inner.state = "open" -> {r}
                  [] inner.state = "half_open" -> trial \cup {r}
    /\ wins' = IF inner.state = "open" THEN 0 ELSE wins
    /\ UNCHANGED <<now, at, log, tripped>>

\* ... or answering false: circuit_open is sent to the client, nothing to report.
Shed(r) ==
    /\ pc[r] = "allowing"
    /\ ~Allows(inner, at[r])
    /\ inner' = AllowAt(inner, at[r])
    /\ pc' = [pc EXCEPT ![r] = "idle"]
    /\ UNCHANGED <<now, at, trial, wins, log, tripped>>

\* logging(): the client went away or the gateway itself failed.
EndCancelled(r) ==
    /\ pc[r] = "admitted"
    /\ inner' = Cancel(inner)
    /\ pc' = [pc EXCEPT ![r] = "idle"]
    /\ trial' = trial \ {r}
    /\ UNCHANGED <<now, at, wins, log, tripped>>

\* logging(): a response below 500.
EndSucceeded(r) ==
    /\ pc[r] = "admitted"
    /\ inner' = RecordSuccess(inner)
    /\ pc' = [pc EXCEPT ![r] = "idle"]
    /\ trial' = trial \ {r}
    /\ wins' = IF r \in trial /\ inner.state = "half_open" THEN wins + 1 ELSE wins
    /\ log' = IF inner.state = "open" THEN log ELSE <<>>
    /\ UNCHANGED <<now, at, tripped>>

\* logging(): an upstream error or a 5xx; record_failure() reads the clock ...
CallFailure(r) ==
    /\ pc[r] = "admitted"
    /\ pc' = [pc EXCEPT ![r] = "failing"]
    /\ at' = [at EXCEPT ![r] = now]
    /\ UNCHANGED <<inner, now, trial, wins, log, tripped>>

\* ... then record_failure_at under the lock.
EndFailed(r) ==
    /\ pc[r] = "failing"
    /\ inner' = RecordFailureAt(inner, at[r])
    /\ pc' = [pc EXCEPT ![r] = "idle"]
    /\ trial' = trial \ {r}
    /\ log' = IF inner.state = "closed" THEN Append(log, at[r]) ELSE log
    /\ tripped' = IF inner.state # "open" /\ inner'.state = "open" THEN now ELSE tripped
    /\ UNCHANGED <<now, at, wins>>

Next ==
    \/ Tick
    \/ \E r \in Requests :
          \/ CallAllow(r) \/ Admit(r) \/ Shed(r)
          \/ EndCancelled(r) \/ EndSucceeded(r)
          \/ CallFailure(r) \/ EndFailed(r)

Spec == Init /\ [][Next]_vars

(***************************************************************************)
(* A thread that took the mutex is never blocked by another for good, and  *)
(* Pingora always calls logging() at the end of a request; a new request   *)
(* need never arrive and time need not pass.                               *)
(***************************************************************************)
Report(r) ==
    EndCancelled(r) \/ EndSucceeded(r) \/ CallFailure(r) \/ EndFailed(r)

FairSpec ==
    Spec /\ \A r \in Requests : WF_vars(Admit(r) \/ Shed(r)) /\ WF_vars(Report(r))

-----------------------------------------------------------------------------
(***************************************************************************)
(* Properties                                                              *)
(***************************************************************************)

(***************************************************************************)
(* Every trial the half-open circuit counts as out belongs to a request    *)
(* that has yet to report: trials_in_flight never leaks a slot, whatever   *)
(* requests admitted before the circuit opened report in the meantime.  A  *)
(* leak would leave the circuit half-open and refusing for good            *)
(* (breaker.rs: "the caller must report its outcome, or the circuit stays  *)
(* half-open forever").                                                    *)
(***************************************************************************)
NoLeakedTrial ==
    inner.state = "half_open" =>
        inner.trials_in_flight <= Cardinality(Outstanding)

(***************************************************************************)
(* A closed circuit opens only on a burst: the last `failures` failures    *)
(* came with no success between them and within `window` of each other     *)
(* (plus the time a thread may spend between reading the clock and locking)*)
(* -- record_failure_at's tumbling window never adds up failures that are  *)
(* further apart.                                                          *)
(***************************************************************************)
OpensOnlyOnBurst ==
    [][inner.state = "closed" /\ inner'.state = "open" =>
          /\ Len(log') >= Failures
          /\ \A i, j \in (Len(log') - Failures + 1)..Len(log') :
                log'[i] <= log'[j] + Window + MaxPreempt]_vars

(***************************************************************************)
(* An open circuit admits no request until `cooldown` has passed since the *)
(* failure that last opened it, a failed trial included -- less only the   *)
(* time record_failure may have spent between its clock read and the lock, *)
(* which allow_at's saturating subtraction turns into an earlier opened_at *)
(* and never into a wrapped duration.                                      *)
(***************************************************************************)
CooldownHolds ==
    [][\A r \in Requests :
          inner.state = "open" /\ pc[r] = "allowing" /\ pc'[r] = "admitted" =>
              now + MaxPreempt >= tripped + Cooldown]_vars

(***************************************************************************)
(* The inductive strengthening of the two action properties: stored times  *)
(* are never ahead of the clock, a reading is at most MaxPreempt old when  *)
(* it is used, and the failures a closed circuit counts are the last ones  *)
(* of the log and fall into the current window.                            *)
(***************************************************************************)
ClockInv ==
    /\ inner.window_started <= now
    /\ tripped <= now
    /\ \A r \in Requests : at[r] <= now
    /\ \A r \in Requests : InCall(r) => now <= at[r] + MaxPreempt
    /\ inner.state = "open" => tripped <= inner.opened_at + MaxPreempt

Counted(n) == (Len(log) - n + 1)..Len(log)

BurstInv ==
    inner.state = "closed" =>
        /\ inner.failures < Failures
        /\ inner.failures <= Len(log)
        /\ \A i \in Counted(inner.failures) :
              /\ log[i] <= inner.window_started + Window
              /\ inner.window_started <= log[i] + MaxPreempt

(***************************************************************************)
(* A half-open circuit at its trial cap does not stay there: the requests  *)
(* it waits for report, and it closes, opens or admits another trial.      *)
(***************************************************************************)
Saturated == inner.state = "half_open" /\ inner.trials_in_flight >= MaxTrials

HalfOpenResolves == Saturated ~> ~Saturated

-----------------------------------------------------------------------------
(***************************************************************************)
(* What the configuration promises and the code does not keep.             *)
(***************************************************************************)

(***************************************************************************)
(* CircuitBreakerConfig::successes_to_close: "Successful trials needed to  *)
(* close the circuit again."  The success of a request admitted before the *)
(* circuit opened is counted as a trial's.                                 *)
(***************************************************************************)
ClosesOnTrialEvidence ==
    [][inner.state = "half_open" /\ inner'.state = "closed" =>
          wins' >= SuccessesToClose]_vars

=============================================================================
