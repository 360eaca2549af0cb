---------------------------- MODULE BreakerProofs ----------------------------
(***************************************************************************)
(* Proofs about the breaker and its concurrent callers, for every number   *)
(* of requests and every configuration that validation accepts.            *)
(***************************************************************************)
EXTENDS BreakerCallers, FiniteSetTheorems, TLAPS

\* Each method leaves a well-formed Inner: no counter or time goes negative.
LEMMA MethodsTyped ==
    ASSUME NEW b \in Inner, NEW t \in Nat
    PROVE  /\ AllowAt(b, t) \in Inner
           /\ Cancel(b) \in Inner
           /\ RecordSuccess(b) \in Inner
           /\ RecordFailureAt(b, t) \in Inner
<1> USE BreakerConfig
<1>1. AllowAt(b, t) \in Inner
  <2>1. EnterHalfOpen(b) \in Inner
    BY DEF Inner, State, EnterHalfOpen
  <2>2. [b EXCEPT !.trials_in_flight = @ + 1] \in Inner
    BY DEF Inner
  <2>3. b.state \in State
    BY DEF Inner
  <2> QED BY <2>1, <2>2, <2>3 DEF AllowAt, State
<1>2. Cancel(b) \in Inner
  BY DEF Inner, State, Cancel, SaturatingSub
<1>3. RecordSuccess(b) \in Inner
  <2>1. CloseCircuit(b) \in Inner /\ [b EXCEPT !.failures = 0] \in Inner
    BY DEF Inner, State, CloseCircuit
  <2>2. [b EXCEPT !.trials_in_flight = SaturatingSub(@, 1),
                  !.trial_successes = @ + 1] \in Inner
    <3>1. SaturatingSub(b.trials_in_flight, 1) \in Nat /\ b.trial_successes + 1 \in Nat
      BY DEF Inner, SaturatingSub
    <3> QED BY <3>1 DEF Inner
  <2>3. b.state \in State
    BY DEF Inner
  <2> QED BY <2>1, <2>2, <2>3 DEF RecordSuccess, State
<1>4. RestartWindow(b, t) \in Inner
  BY DEF Inner, State, RestartWindow
<1>5. ASSUME NEW c \in Inner PROVE CountFailure(c, t) \in Inner
  <2>1. [c EXCEPT !.failures = @ + 1] \in Inner
    BY DEF Inner
  <2>2. [c EXCEPT !.failures = @ + 1, !.state = "open", !.opened_at = t] \in Inner
    <3>1. c.failures + 1 \in Nat
      BY DEF Inner
    <3> QED BY <3>1 DEF Inner, State
  <2> QED BY <2>1, <2>2 DEF CountFailure
<1>6. RecordFailureAt(b, t) \in Inner
  <2>1. CASE b.state = "closed"
    BY <1>4, <1>5, <2>1 DEF RecordFailureAt
  <2>2. CASE b.state # "closed"
    BY <2>2 DEF Inner, State, RecordFailureAt
  <2> QED BY <2>1, <2>2
<1> QED BY <1>1, <1>2, <1>3, <1>6

\* The type invariant holds in every reachable state.
THEOREM TypeCorrect == Spec => []TypeOK
<1>1. Init => TypeOK
  BY DEF Init, TypeOK, NewBreaker, Inner, State, Pc
<1>2. TypeOK /\ [Next]_vars => TypeOK'
  <2> SUFFICES ASSUME TypeOK, [Next]_vars PROVE TypeOK'
    OBVIOUS
  <2> USE DEF TypeOK, Pc
  <2>1. CASE Tick
    BY <2>1 DEF Tick
  <2>2. ASSUME NEW r \in Requests, CallAllow(r) PROVE TypeOK'
    BY <2>2 DEF CallAllow
  <2>3. ASSUME NEW r \in Requests, Admit(r) PROVE TypeOK'
    <3>1. inner' \in Inner
      BY <2>3, MethodsTyped DEF Admit
    <3>2. trial' \in SUBSET Requests
      BY <2>3 DEF Admit, Inner, State
    <3> QED BY <2>3, <3>1, <3>2 DEF Admit
  <2>4. ASSUME NEW r \in Requests, Shed(r) PROVE TypeOK'
    <3>1. inner' \in Inner
      BY <2>4, MethodsTyped DEF Shed
    <3> QED BY <2>4, <3>1 DEF Shed
  <2>5. ASSUME NEW r \in Requests, EndCancelled(r) PROVE TypeOK'
    <3>1. inner' \in Inner
      BY <2>5, MethodsTyped DEF EndCancelled
    <3> QED BY <2>5, <3>1 DEF EndCancelled
  <2>6. ASSUME NEW r \in Requests, EndSucceeded(r) PROVE TypeOK'
    <3>1. inner' \in Inner
      BY <2>6, MethodsTyped DEF EndSucceeded
    <3> QED BY <2>6, <3>1 DEF EndSucceeded
  <2>7. ASSUME NEW r \in Requests, CallFailure(r) PROVE TypeOK'
    BY <2>7 DEF CallFailure
  <2>8. ASSUME NEW r \in Requests, EndFailed(r) PROVE TypeOK'
    <3>1. inner' \in Inner
      BY <2>8, MethodsTyped DEF EndFailed
    <3> QED BY <2>8, <3>1 DEF EndFailed
  <2>9. CASE UNCHANGED vars
    BY <2>9 DEF vars
  <2> QED BY <2>1, <2>2, <2>3, <2>4, <2>5, <2>6, <2>7, <2>8, <2>9 DEF Next
<1> QED BY <1>1, <1>2, PTL DEF Spec

-----------------------------------------------------------------------------
\* A request that leaves Outstanding lowers its cardinality by one, one that
\* joins it raises it by one, and one that only moves inside it changes nothing.
LEMMA OutstandingCount ==
    ASSUME TypeOK, NEW r \in Requests, NEW to \in Pc, pc' = [pc EXCEPT ![r] = to]
    PROVE  /\ IsFiniteSet(Outstanding)
           /\ Cardinality(Outstanding) \in Nat
           /\ Cardinality(Outstanding') \in Nat
           /\ r \in Outstanding /\ to = "idle" =>
                 Cardinality(Outstanding) = Cardinality(Outstanding') + 1
           /\ pc[r] = "allowing" /\ to = "admitted" =>
                 Cardinality(Outstanding') = Cardinality(Outstanding) + 1
           /\ pc[r] = "admitted" /\ to = "failing" => Outstanding' = Outstanding
           /\ pc[r] \in {"idle", "allowing"} /\ to \in {"idle", "allowing"} =>
                 Outstanding' = Outstanding
<1>1. IsFiniteSet(Outstanding)
  BY CallersConfig, FS_Subset DEF Outstanding
<1>2. IsFiniteSet(Outstanding')
  BY CallersConfig, FS_Subset DEF Outstanding
<1>3. Cardinality(Outstanding) \in Nat /\ Cardinality(Outstanding') \in Nat
  BY <1>1, <1>2, FS_CardinalityType
<1>4. ASSUME r \in Outstanding, to = "idle"
      PROVE  Cardinality(Outstanding) = Cardinality(Outstanding') + 1
  <2>1. Outstanding' = Outstanding \ {r}
    BY <1>4 DEF Outstanding, TypeOK
  <2>2. Cardinality(Outstanding') = Cardinality(Outstanding) - 1
    BY <1>1, <1>4, <2>1, FS_RemoveElement
  <2> QED BY <1>3, <2>2
<1>5. ASSUME pc[r] = "allowing", to = "admitted"
      PROVE  Cardinality(Outstanding') = Cardinality(Outstanding) + 1
  <2>1. Outstanding' = Outstanding \cup {r} /\ r \notin Outstanding
    BY <1>5 DEF Outstanding, TypeOK
  <2> QED BY <1>1, <2>1, FS_AddElement
<1>6. pc[r] = "admitted" /\ to = "failing" => Outstanding' = Outstanding
  BY DEF Outstanding, TypeOK
<1>7. pc[r] \in {"idle", "allowing"} /\ to \in {"idle", "allowing"} =>
         Outstanding' = Outstanding
  BY DEF Outstanding, TypeOK
<1> QED BY <1>1, <1>3, <1>4, <1>5, <1>6, <1>7

\* trials_in_flight never exceeds the requests that have yet to report, so a
\* half-open circuit with nothing outstanding always has a free trial slot.
THEOREM TrialSlotsNeverLeak == Spec => []NoLeakedTrial
<1>1. Init => NoLeakedTrial
  BY DEF Init, NoLeakedTrial, NewBreaker
<1>2. TypeOK /\ TypeOK' /\ NoLeakedTrial /\ [Next]_vars => NoLeakedTrial'
  <2> SUFFICES ASSUME TypeOK, TypeOK', NoLeakedTrial, [Next]_vars,
                      inner'.state = "half_open"
               PROVE  inner'.trials_in_flight <= Cardinality(Outstanding')
    BY DEF NoLeakedTrial
  <2>t. /\ inner \in Inner
        /\ inner.state \in State
        /\ inner.trials_in_flight \in Nat
        /\ inner.trial_successes \in Nat
        /\ inner'.trials_in_flight \in Nat
        /\ \A r \in Requests : at[r] \in Nat
    BY DEF TypeOK, Inner
  <2>1. CASE Tick
    BY <2>1 DEF Tick, NoLeakedTrial, Outstanding
  <2>2. ASSUME NEW r \in Requests, CallAllow(r)
        PROVE  inner'.trials_in_flight <= Cardinality(Outstanding')
    <3>1. Outstanding' = Outstanding
      BY <2>2, OutstandingCount DEF CallAllow, Pc
    <3> QED BY <2>2, <3>1 DEF CallAllow, NoLeakedTrial
  <2>3. ASSUME NEW r \in Requests, Admit(r)
        PROVE  inner'.trials_in_flight <= Cardinality(Outstanding')
    <3>1. /\ Cardinality(Outstanding') = Cardinality(Outstanding) + 1
          /\ Cardinality(Outstanding) \in Nat
      BY <2>3, OutstandingCount DEF Admit, Pc
    <3>2. CASE inner.state = "closed"
      BY <2>3, <3>2 DEF Admit, AllowAt
    <3>3. CASE inner.state = "open"
      <4>1. inner'.trials_in_flight = 1
        BY <2>3, <3>3, <2>t DEF Admit, AllowAt, EnterHalfOpen, Inner
      <4> QED BY <4>1, <3>1
    <3>4. CASE inner.state = "half_open"
      <4>1. inner'.trials_in_flight = inner.trials_in_flight + 1
        BY <2>3, <3>4, <2>t DEF Admit, AllowAt, Inner
      <4> QED BY <4>1, <3>1, <3>4, <2>t DEF NoLeakedTrial
    <3> QED BY <3>2, <3>3, <3>4, <2>t DEF State
  <2>4. ASSUME NEW r \in Requests, Shed(r)
        PROVE  inner'.trials_in_flight <= Cardinality(Outstanding')
    <3>1. Outstanding' = Outstanding
      BY <2>4, OutstandingCount DEF Shed, Pc
    <3>2. inner' = inner
      BY <2>4 DEF Shed, AllowAt
    <3> QED BY <3>1, <3>2 DEF NoLeakedTrial
  <2>5. ASSUME NEW r \in Requests, EndCancelled(r) \/ EndSucceeded(r)
        PROVE  inner'.trials_in_flight <= Cardinality(Outstanding')
    <3>1. /\ Cardinality(Outstanding) = Cardinality(Outstanding') + 1
          /\ Cardinality(Outstanding') \in Nat
      <4>1. r \in Outstanding /\ pc' = [pc EXCEPT ![r] = "idle"]
        BY <2>5 DEF EndCancelled, EndSucceeded, Outstanding
      <4> QED BY <4>1, OutstandingCount DEF Pc
    <3>2. /\ inner.state = "half_open"
          /\ inner'.trials_in_flight = SaturatingSub(inner.trials_in_flight, 1)
      BY <2>5, <2>t DEF EndCancelled, EndSucceeded, Cancel, RecordSuccess,
                        CloseCircuit, Inner, State
    <3> QED BY <3>1, <3>2, <2>t DEF NoLeakedTrial, SaturatingSub
  <2>6. ASSUME NEW r \in Requests, CallFailure(r)
        PROVE  inner'.trials_in_flight <= Cardinality(Outstanding')
    <3>1. Outstanding' = Outstanding
      BY <2>6, OutstandingCount DEF CallFailure, Pc
    <3> QED BY <2>6, <3>1 DEF CallFailure, NoLeakedTrial
  <2>7. ASSUME NEW r \in Requests, EndFailed(r)
        PROVE  inner'.trials_in_flight <= Cardinality(Outstanding')
    \* A failure never leaves the circuit half-open.
    BY <2>7, <2>t, BreakerConfig DEF EndFailed, RecordFailureAt, CountFailure,
                                     RestartWindow, Inner, State
  <2>8. CASE UNCHANGED vars
    BY <2>8 DEF vars, NoLeakedTrial, Outstanding
  <2> QED BY <2>1, <2>2, <2>3, <2>4, <2>5, <2>6, <2>7, <2>8 DEF Next
<1> QED BY <1>1, <1>2, TypeCorrect, PTL DEF Spec

-----------------------------------------------------------------------------
\* What record_failure_at does to each field the two invariants mention, by
\* the state it finds.
LEMMA FailureFields ==
    ASSUME NEW b \in Inner, NEW t \in Nat
    PROVE  LET c == RecordFailureAt(b, t)
               w == RestartWindow(b, t)
           IN  /\ b.state = "closed" =>
                     /\ w \in Inner
                     /\ w.state = "closed"
                     /\ c.failures = w.failures + 1
                     /\ c.window_started = w.window_started
                     /\ c.state = IF w.failures + 1 >= Failures THEN "open" ELSE "closed"
                     /\ c.state = "open" => c.opened_at = t
               /\ b.state # "closed" =>
                     /\ c.state = "open"
                     /\ c.window_started = b.window_started
               /\ b.state = "half_open" => c.opened_at = t
               /\ b.state = "open" => c = b
<1> USE BreakerConfig
<1>1. RestartWindow(b, t) \in Inner
  BY DEF Inner, State, RestartWindow
<1>2. RestartWindow(b, t).state = b.state
  BY DEF Inner, RestartWindow
<1>3. CASE b.state = "closed"
  <2> DEFINE w == RestartWindow(b, t)
  <2>1. RecordFailureAt(b, t) = CountFailure(w, t)
    BY <1>3 DEF RecordFailureAt
  <2>2. ASSUME NEW v \in Inner, v.state = "closed"
        PROVE  /\ CountFailure(v, t).failures = v.failures + 1
               /\ CountFailure(v, t).window_started = v.window_started
               /\ CountFailure(v, t).state =
                     IF v.failures + 1 >= Failures THEN "open" ELSE "closed"
               /\ CountFailure(v, t).state = "open" => CountFailure(v, t).opened_at = t
    BY <2>2 DEF CountFailure, Inner
  <2> HIDE DEF w
  <2> QED BY <1>1, <1>2, <1>3, <2>1, <2>2 DEF w
<1>4. CASE b.state # "closed"
  BY <1>4 DEF RecordFailureAt, Inner, State
<1> QED BY <1>3, <1>4

\* The other methods leave the window alone.  They open nothing, and reach the
\* closed state only with no failure counted.
LEMMA OtherFields ==
    ASSUME NEW b \in Inner, NEW t \in Nat,
           NEW c \in {AllowAt(b, t), Cancel(b), RecordSuccess(b)}
    PROVE  /\ c.window_started = b.window_started
           /\ c.opened_at = b.opened_at
           /\ c.state = "open" => b.state = "open"
           /\ c.state = "closed" => c.failures = 0 \/ c = b
<1> USE BreakerConfig
<1>1. CASE c = AllowAt(b, t)
  BY <1>1 DEF AllowAt, EnterHalfOpen, Inner, State
<1>2. CASE c = Cancel(b)
  BY <1>2 DEF Cancel, Inner, State
<1>3. CASE c = RecordSuccess(b)
  BY <1>3 DEF RecordSuccess, CloseCircuit, Inner, State
<1> QED BY <1>1, <1>2, <1>3

\* Stored times and readings stay within MaxPreempt of the clock.
LEMMA ClockCorrect == Spec => []ClockInv
<1>1. Init => ClockInv
  BY DEF Init, ClockInv, NewBreaker, InCall
<1>2. TypeOK /\ ClockInv /\ [Next]_vars => ClockInv'
  <2> SUFFICES ASSUME TypeOK, ClockInv, [Next]_vars PROVE ClockInv'
    OBVIOUS
  <2>t. /\ inner \in Inner /\ now \in Nat /\ tripped \in Nat /\ MaxPreempt \in Nat
        /\ inner.window_started \in Nat /\ inner.opened_at \in Nat
        /\ inner.state \in State
        /\ \A r \in Requests : at[r] \in Nat
    BY CallersConfig DEF TypeOK, Inner
  <2>1. CASE Tick
    BY <2>1, <2>t DEF Tick, ClockInv, InCall
  <2>2. ASSUME NEW r \in Requests, CallAllow(r) \/ CallFailure(r) PROVE ClockInv'
    <3>1. UNCHANGED <<inner, now, tripped>> /\ at'[r] = now
          /\ \A q \in Requests \ {r} : pc'[q] = pc[q] /\ at'[q] = at[q]
      BY <2>2 DEF CallAllow, CallFailure, TypeOK
    <3> QED BY <3>1, <2>t DEF ClockInv, InCall
  <2>3. ASSUME NEW r \in Requests,
               Admit(r) \/ Shed(r) \/ EndCancelled(r) \/ EndSucceeded(r)
        PROVE  ClockInv'
    <3>1. /\ inner'.window_started = inner.window_started
          /\ inner'.opened_at = inner.opened_at
          /\ inner'.state = "open" => inner.state = "open"
      <4>1. inner' \in {AllowAt(inner, at[r]), Cancel(inner), RecordSuccess(inner)}
        BY <2>3 DEF Admit, Shed, EndCancelled, EndSucceeded
      <4> QED BY <4>1, <2>t, OtherFields
    <3>2. UNCHANGED <<now, at, tripped>> /\ pc'[r] \in {"idle", "admitted"}
          /\ \A q \in Requests \ {r} : pc'[q] = pc[q]
      BY <2>3 DEF Admit, Shed, EndCancelled, EndSucceeded, TypeOK
    <3> QED BY <3>1, <3>2, <2>t DEF ClockInv, InCall
  <2>4. ASSUME NEW r \in Requests, EndFailed(r) PROVE ClockInv'
    <3>1. UNCHANGED <<now, at>> /\ pc'[r] = "idle"
          /\ \A q \in Requests \ {r} : pc'[q] = pc[q]
      BY <2>4 DEF EndFailed, TypeOK
    <3>2. at[r] <= now /\ now <= at[r] + MaxPreempt
      BY <2>4 DEF EndFailed, ClockInv, InCall
    <3>3. inner'.window_started \in {inner.window_started, at[r]}
      <4>1. RestartWindow(inner, at[r]).window_started \in {inner.window_started, at[r]}
        BY <2>t DEF RestartWindow, Inner
      <4> QED BY <4>1, <2>4, <2>t, FailureFields DEF EndFailed
    <3>4. inner'.state = "open" => tripped' <= inner'.opened_at + MaxPreempt
      <4>1. CASE inner.state = "open"
        BY <4>1, <2>4, <2>t, FailureFields DEF EndFailed, ClockInv
      <4>2. CASE inner.state # "open"
        <5>1. inner'.state = "open" => inner'.opened_at = at[r]
          <6>1. inner \in Inner /\ at[r] \in Nat
            BY <2>t
          <6>2. inner.state \in {"closed", "half_open"}
            BY <4>2, <6>1 DEF Inner, State
          <6>3. inner' = RecordFailureAt(inner, at[r])
            BY <2>4 DEF EndFailed
          <6> HIDE <2>4
          <6> QED BY <6>1, <6>2, <6>3, FailureFields
        <5> QED BY <5>1, <4>2, <2>4, <3>2 DEF EndFailed
      <4> QED BY <4>1, <4>2
    <3>5. tripped' \in {tripped, now}
      BY <2>4 DEF EndFailed
    <3> QED BY <3>1, <3>2, <3>3, <3>4, <3>5, <2>t DEF ClockInv, InCall
  <2>5. CASE UNCHANGED vars
    BY <2>5 DEF vars, ClockInv, InCall
  <2> QED BY <2>1, <2>2, <2>3, <2>4, <2>5 DEF Next
<1> QED BY <1>1, <1>2, TypeCorrect, PTL DEF Spec

\* An open circuit admits a request only after its cooldown.
THEOREM CooldownCorrect == Spec => CooldownHolds
<1>1. TypeOK /\ ClockInv /\ [Next]_vars =>
        [\A r \in Requests :
            inner.state = "open" /\ pc[r] = "allowing" /\ pc'[r] = "admitted" =>
                now + MaxPreempt >= tripped + Cooldown]_vars
  <2> SUFFICES ASSUME TypeOK, ClockInv, Next, NEW r \in Requests,
                      inner.state = "open", pc[r] = "allowing", pc'[r] = "admitted"
               PROVE  now + MaxPreempt >= tripped + Cooldown
    BY DEF vars
  <2>1. Admit(r)
    BY DEF Next, Tick, CallAllow, Shed, EndCancelled, EndSucceeded, CallFailure,
           EndFailed, Admit, TypeOK
  <2>2. SaturatingSub(at[r], inner.opened_at) >= Cooldown
    BY <2>1 DEF Admit, Allows
  <2>3. /\ at[r] \in Nat /\ inner.opened_at \in Nat /\ now \in Nat /\ tripped \in Nat
        /\ Cooldown \in Nat /\ MaxPreempt \in Nat
    BY BreakerConfig, CallersConfig DEF TypeOK, Inner
  <2>4. tripped <= inner.opened_at + MaxPreempt /\ at[r] <= now /\ tripped <= now
        /\ now <= at[r] + MaxPreempt
    BY DEF ClockInv, InCall
  <2>5. CASE at[r] >= inner.opened_at
    BY <2>2, <2>3, <2>4, <2>5 DEF SaturatingSub
  <2>6. CASE at[r] < inner.opened_at
    \* Only a cooldown of 0 admits a reading older than opened_at.
    <3>1. Cooldown = 0
      BY <2>2, <2>3, <2>6 DEF SaturatingSub
    <3> QED BY <3>1, <2>3, <2>4
  <2> QED BY <2>3, <2>5, <2>6
<1> QED BY <1>1, TypeCorrect, ClockCorrect, PTL DEF Spec, CooldownHolds

-----------------------------------------------------------------------------
\* The step that records a failure on a closed circuit: the failures counted
\* afterwards are the last ones of the new log, all within the new window.
LEMMA FailureCounted ==
    ASSUME TypeOK, ClockInv, BurstInv, NEW r \in Requests, EndFailed(r),
           inner.state = "closed"
    PROVE  /\ inner'.failures \in Nat
           /\ inner'.failures <= Len(log')
           /\ inner'.failures <= Failures
           /\ inner'.state = IF inner'.failures >= Failures THEN "open" ELSE "closed"
           /\ \A i \in (Len(log') - inner'.failures + 1)..Len(log') :
                 /\ log'[i] <= inner'.window_started + Window
                 /\ inner'.window_started <= log'[i] + MaxPreempt
<1> USE BreakerConfig, CallersConfig
<1> DEFINE w == RestartWindow(inner, at[r])
<1>t. /\ inner \in Inner /\ at[r] \in Nat /\ log \in Seq(Nat) /\ now \in Nat
      /\ inner.failures \in Nat /\ inner.window_started \in Nat
  BY DEF TypeOK, Inner
<1>1. /\ inner'.failures = w.failures + 1
      /\ inner'.window_started = w.window_started
      /\ inner'.state = IF w.failures + 1 >= Failures THEN "open" ELSE "closed"
      /\ w \in Inner
  <2>1. inner' = RecordFailureAt(inner, at[r])
    BY DEF EndFailed
  <2> DEFINE c == RecordFailureAt(inner, at[r])
  <2>2. /\ w \in Inner
        /\ c.failures = w.failures + 1
        /\ c.window_started = w.window_started
        /\ c.state = IF w.failures + 1 >= Failures THEN "open" ELSE "closed"
    <3>1. inner.state = "closed" /\ inner \in Inner /\ at[r] \in Nat
      BY <1>t
    <3> QED BY ONLY <3>1, FailureFields, Zenon
  <2>3. inner' = c
    BY <2>1
  <2> HIDE DEF w, c
  <2> QED BY ONLY <2>2, <2>3
<1>2. log' = Append(log, at[r])
  BY DEF EndFailed
<1>3. at[r] <= now /\ now <= at[r] + MaxPreempt /\ inner.window_started <= now
  BY DEF EndFailed, ClockInv, InCall
<1>4. \/ w.failures = 0 /\ w.window_started = at[r]
      \/ /\ w.failures = inner.failures /\ w.window_started = inner.window_started
         /\ at[r] <= inner.window_started + Window
  BY <1>t DEF RestartWindow, SaturatingSub, Inner
<1>5. /\ w.failures \in Nat /\ w.window_started \in Nat
      /\ w.failures < Failures /\ w.failures <= Len(log)
  BY <1>1, <1>4, <1>t DEF BurstInv, Inner
<1>6. /\ at[r] <= w.window_started + Window
      /\ w.window_started <= at[r] + MaxPreempt
  BY <1>3, <1>4, <1>5, <1>t
<1>7. \A i \in (Len(log) - w.failures + 1)..Len(log) :
         /\ log[i] <= w.window_started + Window
         /\ w.window_started <= log[i] + MaxPreempt
  <2>1. CASE w.failures = 0
    <3>1. Len(log) \in Nat
      BY <1>t
    <3> HIDE DEF w
    <3> QED BY <2>1, <3>1
  <2>2. CASE w.failures = inner.failures /\ w.window_started = inner.window_started
    <3> HIDE DEF w
    <3> QED BY <2>2 DEF BurstInv, Counted
  <2> HIDE DEF w
  <2> QED BY <1>4, <2>1, <2>2
<1> HIDE DEF w
<1>8. /\ Len(log') = Len(log) + 1
      /\ log'[Len(log) + 1] = at[r]
      /\ \A i \in 1..Len(log) : log'[i] = log[i]
  BY <1>2, <1>t
<1>9. ASSUME NEW i \in (Len(log') - inner'.failures + 1)..Len(log')
      PROVE  /\ log'[i] <= inner'.window_started + Window
             /\ inner'.window_started <= log'[i] + MaxPreempt
  <2>1. CASE i = Len(log) + 1
    BY <2>1, <1>1, <1>6, <1>8
  <2>2. CASE i # Len(log) + 1
    <3>1. Len(log) \in Nat
      BY <1>t
    <3>2. i \in (Len(log) - w.failures + 1)..Len(log) /\ i \in 1..Len(log)
      BY <2>2, <3>1, <1>1, <1>5, <1>8
    <3> QED BY <3>2, <1>1, <1>7, <1>8
  <2> QED BY <2>1, <2>2
<1> QED BY <1>1, <1>5, <1>8, <1>9

\* The failures a closed circuit counts are always a recent, unbroken run.
LEMMA BurstCorrect == Spec => []BurstInv
<1>1. Init => BurstInv
  BY BreakerConfig DEF Init, BurstInv, NewBreaker, Counted
<1>2. TypeOK /\ ClockInv /\ BurstInv /\ [Next]_vars => BurstInv'
  <2> SUFFICES ASSUME TypeOK, ClockInv, BurstInv, [Next]_vars, inner'.state = "closed"
               PROVE  BurstInv'
    BY DEF BurstInv
  <2>t. inner \in Inner /\ log \in Seq(Nat) /\ \A r \in Requests : at[r] \in Nat
    BY DEF TypeOK
  <2>1. CASE UNCHANGED <<inner, log>>
    BY <2>1 DEF BurstInv, Counted
  <2>2. ASSUME NEW r \in Requests,
               Admit(r) \/ Shed(r) \/ EndCancelled(r) \/ EndSucceeded(r)
        PROVE  BurstInv'
    <3>1. inner' \in {AllowAt(inner, at[r]), Cancel(inner), RecordSuccess(inner)}
      BY <2>2 DEF Admit, Shed, EndCancelled, EndSucceeded
    <3>2. inner'.failures = 0 \/ inner' = inner
      BY <3>1, <2>t, OtherFields
    <3>3. CASE inner'.failures = 0
      <4>0. log' = log \/ log' = <<>>
        BY <2>2 DEF Admit, Shed, EndCancelled, EndSucceeded
      <4>1. log' \in Seq(Nat)
        <5>1. CASE log' = log
          BY <5>1, <2>t
        <5>2. CASE log' = <<>>
          BY <5>2
        <5> QED BY <4>0, <5>1, <5>2
      <4> QED BY <3>3, <4>1, BreakerConfig DEF BurstInv, Counted
    <3>4. CASE inner' = inner /\ log' = log
      BY <3>4 DEF BurstInv, Counted
    <3>5. log' = log \/ EndSucceeded(r)
      BY <2>2 DEF Admit, Shed, EndCancelled
    <3>6. EndSucceeded(r) => inner'.failures = 0
      BY <2>t DEF EndSucceeded, RecordSuccess, CloseCircuit, Inner, State
    <3> QED BY <3>2, <3>3, <3>4, <3>5, <3>6
  <2>3. ASSUME NEW r \in Requests, EndFailed(r) PROVE BurstInv'
    <3>1. inner.state = "closed"
      BY <2>3, <2>t, FailureFields DEF EndFailed
    <3>2. inner'.failures < Failures
      BY <2>3, <3>1, FailureCounted, BreakerConfig
    <3> QED BY <2>3, <3>1, <3>2, FailureCounted DEF BurstInv, Counted
  <2> QED BY <2>1, <2>2, <2>3 DEF Next, Tick, CallAllow, CallFailure, vars
<1> QED BY <1>1, <1>2, TypeCorrect, ClockCorrect, PTL DEF Spec

\* A closed circuit opens only on `failures` failures with no success between
\* them, no two further apart than the window (plus the preemption bound).
THEOREM BurstOpens == Spec => OpensOnlyOnBurst
<1>1. TypeOK /\ ClockInv /\ BurstInv /\ [Next]_vars =>
        [inner.state = "closed" /\ inner'.state = "open" =>
            /\ Len(log') >= Failures
            /\ \A i, j \in (Len(log') - Failures + 1)..Len(log') :
                  log'[i] <= log'[j] + Window + MaxPreempt]_vars
  <2> SUFFICES ASSUME TypeOK, ClockInv, BurstInv, Next,
                      inner.state = "closed", inner'.state = "open"
               PROVE  /\ Len(log') >= Failures
                      /\ \A i, j \in (Len(log') - Failures + 1)..Len(log') :
                            log'[i] <= log'[j] + Window + MaxPreempt
    BY DEF vars
  <2>t. inner \in Inner /\ \A r \in Requests : at[r] \in Nat
    BY DEF TypeOK
  <2>1. PICK r \in Requests : EndFailed(r)
    <3>1. ASSUME NEW r \in Requests,
                 Admit(r) \/ Shed(r) \/ EndCancelled(r) \/ EndSucceeded(r)
          PROVE  FALSE
      <4>1. inner' \in {AllowAt(inner, at[r]), Cancel(inner), RecordSuccess(inner)}
        BY <3>1 DEF Admit, Shed, EndCancelled, EndSucceeded
      <4> QED BY <4>1, <2>t, OtherFields
    <3> QED BY <3>1 DEF Next, Tick, CallAllow, CallFailure
  <2>2. inner'.failures = Failures
    BY <2>1, FailureCounted, BreakerConfig
  <2>3. log' \in Seq(Nat) /\ inner'.window_started \in Nat
    <3>1. inner' \in Inner
      BY <2>1, <2>t, MethodsTyped DEF EndFailed
    <3>2. log' \in Seq(Nat)
      BY <2>1, <2>t DEF EndFailed, TypeOK
    <3> QED BY <3>1, <3>2 DEF Inner
  <2>4. Len(log') >= Failures
    BY <2>1, <2>2, <2>3, FailureCounted, BreakerConfig
  <2>5. ASSUME NEW i \in (Len(log') - Failures + 1)..Len(log'),
               NEW j \in (Len(log') - Failures + 1)..Len(log')
        PROVE  log'[i] <= log'[j] + Window + MaxPreempt
    <3>1. /\ log'[i] <= inner'.window_started + Window
          /\ inner'.window_started <= log'[j] + MaxPreempt
      BY <2>1, <2>2, FailureCounted
    <3>2. log'[i] \in Nat /\ log'[j] \in Nat /\ Window \in Nat /\ MaxPreempt \in Nat
      BY <2>3, <2>4, BreakerConfig, CallersConfig
    <3>3. \A a, b, w, x, y \in Nat : a <= w + x /\ w <= b + y => a <= b + x + y
      OBVIOUS
    <3> QED BY ONLY <3>1, <3>2, <3>3, <2>3
  <2> QED BY <2>4, <2>5
<1> QED BY <1>1, TypeCorrect, ClockCorrect, BurstCorrect, PTL DEF Spec, OpensOnlyOnBurst

=============================================================================
