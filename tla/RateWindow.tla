----------------------------- MODULE RateWindow -----------------------------
(***************************************************************************)
(* One key of the local limiter (ratelimit/mod.rs).  With `counter: exact` *)
(* Limiter::check reads the monotonic clock, then finds the key's window   *)
(* in the store and counts under its lock.  With `counter: sketch` it      *)
(* reads an estimate from a shared sketch and counts in a second step.     *)
(* Requests run concurrently, so a reading may be old, and older than      *)
(* another one's, when it is acted on.  The connection limiter of          *)
(* accept.rs is this limiter, exact, keyed by address.                     *)
(*                                                                         *)
(* The store drops a window idle for two intervals.  Eviction under key    *)
(* flooding (max_keys) forgets counts on purpose and is left out: the      *)
(* properties are about a key the store keeps.  The sketch only ever       *)
(* counts a key too high, when others share its cells: CollisionIn bumps   *)
(* the key's estimate for a request of another one.                        *)
(***************************************************************************)
EXTENDS RateDecision, FiniteSets, Functions

CONSTANTS
    Requests,  \* tasks that send requests for this key, one at a time
    Obedient,  \* those that wait out Retry-After; the answer's way back and
               \* the next request's take some time, however little
    Limit,     \* cfg.requests
    Interval,  \* cfg.interval, in time units
    Second,    \* time units in a second
    MaxLag,    \* bound: time between a request's reading and its count
    MaxBumps,  \* bound: requests of other keys that share the key's cells
    MaxTime,   \* bound: end of the run
    Absent

ASSUME RateWindowConfig ==
    /\ IsFiniteSet(Requests) /\ Obedient \subseteq Requests
    /\ Limit \in Nat \ {0} /\ Interval \in Nat \ {0}
    /\ Second \in Nat \ {0}
    /\ MaxLag \in 0..(Interval - 1) /\ MaxTime \in Nat /\ MaxBumps \in Nat
    /\ Absent \notin Nat \cup [start: 0..MaxTime, current: Nat, previous: Nat]

VARIABLES
    counter,     \* Limiter.counters: "exact" or "sketch" here
    clock,       \* Instant::now()
    window,      \* the store's Window for the key, or Absent; with a sketch, what
                 \* its two slots hold for the key
    lastAccess,  \* when the store last returned it
    reading,     \* the clock reading a request holds, or Absent
    retryAt,     \* after when an obedient task may come back, or -1
    refusals,    \* its refusals since anyone was last admitted
    bumps,       \* bound: collisions so far
    admitted     \* history: how many requests were admitted at a reading, for
                 \* the times a request may still be counted at

localVars == <<counter, clock, window, lastAccess, reading, retryAt, refusals,
               bumps, admitted>>

Window == [start: 0..MaxTime, current: Nat, previous: Nat]

NewWindow(now) == [start |-> now, current |-> 0, previous |-> 0]

\* The shape of the state.
LocalTypeOK ==
    /\ counter \in {"exact", "sketch", "shared"}
    /\ bumps \in 0..MaxBumps
    /\ clock \in 0..MaxTime
    /\ window \in {Absent} \cup Window
    /\ window # Absent => window.start <= clock
    /\ lastAccess \in 0..MaxTime
    /\ reading \in [Requests -> {Absent} \cup 0..MaxTime]
    /\ retryAt \in [Obedient -> Int]
    /\ refusals \in [Obedient -> Nat]
    /\ admitted \in [0..MaxTime -> Nat]

LocalInit ==
    /\ counter \in {"exact", "sketch", "shared"}
    /\ bumps = 0
    /\ clock = 0
    /\ window = IF counter = "sketch" THEN NewWindow(0) ELSE Absent
    /\ lastAccess = 0
    /\ reading = [r \in Requests |-> Absent]
    /\ retryAt = [r \in Obedient |-> -1]
    /\ refusals = [r \in Obedient |-> 0]
    /\ admitted = [t \in 0..MaxTime |-> 0]

-----------------------------------------------------------------------------

(* saturating_duration_since. *)
Elapsed(now, start) == IF now > start THEN now - start ELSE 0

(* A plausible bug, the fixed window: the boundary forgets the count. *)
RolledFixed(w, now) ==
    LET elapsed == Elapsed(now, w.start) IN
    IF elapsed >= 2 * Interval THEN NewWindow(now)
    ELSE IF elapsed >= Interval THEN NewWindow(w.start + Interval)
    ELSE w

(* Window::check up to the decision: the window brought forward to `now`.  *)
Rolled(w, now) ==
    LET elapsed == Elapsed(now, w.start) IN
    IF elapsed >= 2 * Interval THEN NewWindow(now)
    ELSE IF elapsed >= Interval
    THEN [start |-> w.start + Interval, current |-> 0, previous |-> w.current]
    ELSE w

(* get_with_by_ref: an entry idle for two intervals is not returned. *)
Lookup(now) ==
    IF window = Absent \/ clock - lastAccess >= 2 * Interval
    THEN NewWindow(now) ELSE window

(* Limiter::check: the clock is read before anything is locked. *)
Read(r) ==
    /\ counter = "exact"
    /\ reading[r] = Absent
    /\ r \in Obedient => clock > retryAt[r]
    /\ reading' = [reading EXCEPT ![r] = clock]
    /\ retryAt' = [q \in Obedient |-> IF q = r THEN -1 ELSE retryAt[q]]
    /\ UNCHANGED <<counter, clock, window, lastAccess, refusals, bumps, admitted>>

(* Limiter::check_exact: lookup, lock, Window::check. *)
Check(r) ==
    /\ counter = "exact"
    /\ reading[r] # Absent
    /\ LET now == reading[r]
           w == Rolled(Lookup(now), now)
           elapsed == Elapsed(now, w.start)
           allowed == ~Refuses(w.previous, w.current, elapsed, Interval, Limit)
       IN  /\ window' = IF allowed THEN [w EXCEPT !.current = @ + 1] ELSE w
           /\ admitted' = IF allowed THEN [admitted EXCEPT ![now] = @ + 1]
                                   ELSE admitted
           /\ refusals' = [q \in Obedient |->
                  IF allowed THEN 0
                  ELSE IF q = r THEN refusals[q] + 1 ELSE refusals[q]]
           /\ retryAt' = [q \in Obedient |->
                  IF q = r /\ ~allowed
                  THEN clock + RetryAfter(elapsed, Interval, Second)
                  ELSE retryAt[q]]
    /\ lastAccess' = clock
    /\ reading' = [reading EXCEPT ![r] = Absent]
    /\ UNCHANGED <<counter, clock, bumps>>

-----------------------------------------------------------------------------
(* The sketch's slots at the current time.  A slot ends an interval after  *)
(* it began; the next one begins there, or when someone notices.           *)
SlotsNow(w) ==
    LET past == clock - w.start IN
    IF past >= 2 * Interval THEN {NewWindow(clock)}
    ELSE IF past >= Interval
    THEN {[start |-> t, current |-> 0, previous |-> w.current] :
              t \in {w.start + Interval, clock}}
    ELSE {w}

(* A plausible bug: the slot that ended is not weighed in. *)
SketchRefusesFixed(w) == w.current >= Limit

(* check_sketch's weighted estimate against the limit. *)
SketchRefuses(w) ==
    Refuses(w.previous, w.current, clock - w.start, Interval, Limit)

(* check_sketch reads the estimate and, within the limit, goes on ... *)
ReadSketch(r) ==
    /\ counter = "sketch"
    /\ reading[r] = Absent
    /\ \E w \in SlotsNow(window) :
          /\ window' = w
          /\ reading' = IF SketchRefuses(w) THEN reading
                        ELSE [reading EXCEPT ![r] = clock]
    /\ UNCHANGED <<counter, clock, lastAccess, retryAt, refusals, bumps, admitted>>

(* ... to count the request, in whichever slot is the current one by then. *)
Observe(r) ==
    /\ counter = "sketch"
    /\ reading[r] # Absent
    /\ \E w \in SlotsNow(window) : window' = [w EXCEPT !.current = @ + 1]
    /\ admitted' = [admitted EXCEPT ![clock] = @ + 1]
    /\ reading' = [reading EXCEPT ![r] = Absent]
    /\ UNCHANGED <<counter, clock, lastAccess, retryAt, refusals, bumps>>

(* A request of another key is counted in every cell of this one. *)
CollisionIn ==
    /\ counter = "sketch"
    /\ bumps < MaxBumps
    /\ \E w \in SlotsNow(window) : window' = [w EXCEPT !.current = @ + 1]
    /\ bumps' = bumps + 1
    /\ UNCHANGED <<counter, clock, lastAccess, reading, retryAt, refusals, admitted>>

(* Time passes while no request has waited to be counted longer than MaxLag. *)
Tick ==
    /\ counter # "shared"
    /\ clock < MaxTime
    /\ \A r \in Requests : reading[r] # Absent => clock - reading[r] < MaxLag
    /\ clock' = clock + 1
    /\ admitted' = [t \in 0..MaxTime |->
           IF t + Interval + MaxLag <= clock' THEN 0 ELSE admitted[t]]
    /\ UNCHANGED <<counter, window, lastAccess, reading, retryAt, refusals, bumps>>

LocalNext ==
    \/ Tick \/ CollisionIn
    \/ \E r \in Requests :
           Read(r) \/ Check(r) \/ ReadSketch(r) \/ Observe(r)

-----------------------------------------------------------------------------

AdmittedIn(from, to) ==
    SumFunctionOnSet(admitted, from..to)

(* "A burst either side of a window boundary cannot double the quota"      *)
(* (docs/rate-limiting.md): a span shorter than a window holds at most the *)
(* limit plus the share of the limit that the span's length earns.  A      *)
(* burst, a span of length zero, never exceeds the limit, wherever the     *)
(* window boundary falls and whichever stale readings race for the lock.   *)
(* Only a span that is a whole window but for less than a reading's lag    *)
(* can touch three windows; it holds at most twice the limit.              *)
BurstBound ==
    counter = "exact" =>
    \A from \in 0..clock, span \in 0..(Interval - 1) :
        from + span <= clock =>
            AdmittedIn(from, from + span)
                <= IF span + MaxLag <= Interval
                   THEN Limit + CeilDiv(Limit * span, Interval)
                   ELSE 2 * Limit

(* "A `Retry-After` shorter than the real wait sends a well-behaved client *)
(* back for a second 429" (ratelimit/resp.rs): one that waited it out is   *)
(* refused again only if another request was admitted in the meantime,     *)
(* however many refused ones raced it and rolled the window.               *)
RetryAfterSuffices == \A r \in Obedient : refusals[r] <= 1

(* The limit an exact limiter of the sketch's behaviour would have: one    *)
(* more for every other request that may be between its two steps.         *)
RacedLimit == Limit + Cardinality(Requests) - 1

(* check_sketch is "read-then-write rather than one atomic step, so two    *)
(* concurrent requests at the boundary can both be admitted ... the        *)
(* overshoot is one request per racing pair": with n requests in progress  *)
(* a sketch admits no more in a span shorter than an interval than a       *)
(* limiter without the race whose limit is n - 1 higher, wherever the      *)
(* slots end and whatever else collides.                                   *)
SketchOvershoot ==
    counter = "sketch" =>
    \A from \in 0..clock, span \in 0..(Interval - 1) :
        from + span <= clock =>
            AdmittedIn(from, from + span)
                <= RacedLimit + CeilDiv(RacedLimit * span, Interval)

=============================================================================
