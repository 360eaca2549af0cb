------------------------------ MODULE Admission ------------------------------
(***************************************************************************)
(* What stands between an accepted request and its upstream: the           *)
(* concurrency cap (concurrency.rs) and then the circuit breaker           *)
(* (breaker.rs), in the order proxy_upstream_filter takes them, and how    *)
(* logging() and the drop of the request context give them back.           *)
(*                                                                         *)
(* Requests run concurrently; every access to shared memory is a step.     *)
(* Time is abstracted: an open circuit finds its cooldown over or not, and *)
(* an exchange is past timeouts.request_total, where that is set, at any   *)
(* await.  The caps are shown to implement SlotPool.                       *)
(***************************************************************************)
EXTENDS CircuitBreaker, Sequences, FiniteSets, FiniteSetsExt

CONSTANTS
    Requests,   \* requests in progress
    RouteKeys,  \* cap keys of routes
    CallerKeys, \* cap keys of callers, taken from requests
    Caps,       \* the values of `max` a key may have; a reload changes it
    Depth,      \* the number of the sketch's hash rows
    Hash,       \* the cell of a caller key in each row
    None        \* the absent Option

ASSUME AdmissionConfig ==
    /\ IsFiniteSet(Requests)
    /\ Caps \in [RouteKeys \cup CallerKeys -> SUBSET (Nat \ {0})]
    /\ Depth \in Nat \ {0}
    /\ None \notin Nat
    \* Routes and callers are counted apart, each under a key of its own.
    /\ RouteKeys \cap CallerKeys = {}
    /\ None \notin [key: RouteKeys \cup CallerKeys, max: Nat, per_caller: BOOLEAN]

VARIABLES
    inner,     \* the breaker of the upstream
    routes,    \* InFlight.routes: cap key -> counter, grows only
    counters,  \* the atomics, by number
    cells,     \* InFlight.callers: the in-flight count-min sketch
    pc,        \* where a request is; "running" has ctx.breaker_upstream
    total,     \* timeouts.request_total is set
    slot,      \* ctx.concurrency: the cap the request's route asks for
    arc,       \* the counter route_counter returned, then held by ctx.inflight
    seen,      \* what a caller's fetch_add returned in each row, plus one; 0 in a
               \* row that does not count the request
    held,      \* ctx.inflight is Some
    ahead      \* history: who has held a slot of the key since before a request
               \* asked for one

vars == <<inner, routes, counters, cells, pc, total, slot, arc, seen, held, ahead>>

Rows == 1..Depth

Keys == RouteKeys \cup CallerKeys

Slots ==
    {None} \cup {s \in [key: Keys, max: UNION {Caps[k] : k \in Keys}, per_caller: BOOLEAN] :
                    s.max \in Caps[s.key] /\ (s.per_caller <=> s.key \in CallerKeys)}

Pc == {"idle", "lookup", "insert", "cas", "incr", "breaker", "running",
       "ended", "release"}

\* The sketch counts a key in one cell of every row.
CellOf(k, row) == <<row, Hash[k][row]>>

Cells == {CellOf(k, row) : row \in Rows, k \in CallerKeys}

\* The shape of the state.
TypeOK ==
    /\ inner \in Inner
    /\ counters \in Seq(Nat)
    /\ DOMAIN routes \subseteq RouteKeys
    /\ \A k \in DOMAIN routes : routes[k] \in 1..Len(counters)
    /\ cells \in [Cells -> Nat]
    /\ pc \in [Requests -> Pc]
    /\ total \in BOOLEAN
    /\ slot \in [Requests -> Slots]
    /\ arc \in [Requests -> {None} \cup 1..Len(counters)]
    /\ seen \in [Requests -> [Rows -> Nat]]
    /\ held \in [Requests -> BOOLEAN]
    /\ ahead \in [Requests -> SUBSET Requests]

Init ==
    /\ inner = NewBreaker(0)
    /\ routes = <<>>
    /\ counters = <<>>
    /\ cells = [c \in Cells |-> 0]
    /\ pc = [r \in Requests |-> "idle"]
    /\ total \in BOOLEAN
    /\ slot = [r \in Requests |-> None]
    /\ arc = [r \in Requests |-> None]
    /\ seen = [r \in Requests |-> [row \in Rows |-> 0]]
    /\ held = [r \in Requests |-> FALSE]
    /\ ahead = [r \in Requests |-> {}]

Goto(r, l) == pc' = [pc EXCEPT ![r] = l]

\* The requests that hold a slot of a key.
HoldersOf(k) == {q \in Requests : held[q] /\ slot[q].key = k}

-----------------------------------------------------------------------------
\* request_filter accepted the request and left the route's cap in the context;
\* proxy_upstream_filter takes the cap first, if there is one.
Arrive(r) ==
    /\ pc[r] = "idle"
    /\ \E s \in Slots :
          /\ slot' = [slot EXCEPT ![r] = s]
          /\ ahead' = [ahead EXCEPT ![r] =
                          IF s # None /\ s.per_caller THEN HoldersOf(s.key) ELSE {}]
          /\ Goto(r, IF s = None THEN "breaker"
                     ELSE IF s.per_caller THEN "incr" ELSE "lookup")
    /\ UNCHANGED <<total, inner, routes, counters, cells, arc, seen, held>>

\* route_counter: the read lock ...
Lookup(r) ==
    /\ pc[r] = "lookup"
    /\ \/ /\ slot[r].key \in DOMAIN routes
          /\ arc' = [arc EXCEPT ![r] = routes[slot[r].key]]
          /\ Goto(r, "cas")
       \/ /\ slot[r].key \notin DOMAIN routes
          /\ Goto(r, "insert")
          /\ UNCHANGED arc
    /\ UNCHANGED <<total, inner, routes, counters, cells, slot, seen, held, ahead>>

\* Faulty variant: insert() in place of entry().or_default().
InsertOverwrites(r) ==
    /\ pc[r] = "insert"
    /\ LET k == slot[r].key
       IN  /\ counters' = Append(counters, 0)
           /\ routes' = [x \in DOMAIN routes \cup {k} |->
                            IF x = k THEN Len(counters) + 1 ELSE routes[x]]
           /\ arc' = [arc EXCEPT ![r] = Len(counters) + 1]
    /\ Goto(r, "cas")
    /\ UNCHANGED <<total, inner, cells, slot, seen, held, ahead>>

\* ... and the write lock, where another request may have been first.
Insert(r) ==
    /\ pc[r] = "insert"
    /\ LET k == slot[r].key
       IN  \/ /\ k \in DOMAIN routes
              /\ arc' = [arc EXCEPT ![r] = routes[k]]
              /\ UNCHANGED <<routes, counters>>
           \/ /\ k \notin DOMAIN routes
              /\ counters' = Append(counters, 0)
              /\ routes' = [x \in DOMAIN routes \cup {k} |->
                               IF x = k THEN Len(counters) + 1 ELSE routes[x]]
              /\ arc' = [arc EXCEPT ![r] = Len(counters) + 1]
    /\ Goto(r, "cas")
    /\ UNCHANGED <<total, inner, cells, slot, seen, held, ahead>>

Fits(n, max) == n < max

\* The request is answered with a rejection and holds nothing: logging() has
\* nothing to report and the context nothing to give back.
Reject(r) ==
    /\ Goto(r, "idle")
    /\ slot' = [slot EXCEPT ![r] = None]

\* InFlight::take for a route: fetch_update, then the slot or a rejection.
TakeRoute(r) ==
    /\ pc[r] = "cas"
    /\ \/ /\ Fits(counters[arc[r]], slot[r].max)
          /\ counters' = [counters EXCEPT ![arc[r]] = @ + 1]
          /\ held' = [held EXCEPT ![r] = TRUE]
          /\ Goto(r, "breaker")
          /\ UNCHANGED <<slot, arc>>
       \/ /\ ~Fits(counters[arc[r]], slot[r].max)
          /\ arc' = [arc EXCEPT ![r] = None]
          /\ Reject(r)
          /\ UNCHANGED <<counters, held>>
    /\ UNCHANGED <<total, inner, routes, cells, seen, ahead>>

\* Faulty variant: what fetch_add returns is taken for the new value.
Before(n) == n

After(n) == n + 1

\* Estimator::incr: the smallest of what the request's own fetch_adds returned.
Estimate(values) == Min({values[row] : row \in Rows})

WithinMax(n, max) == n <= max

\* InFlight::take for a caller: one fetch_add per row, others' in between; after
\* the last the estimate is compared.
IncrCaller(r) ==
    /\ pc[r] = "incr"
    /\ \E row \in Rows :
          LET c == CellOf(slot[r].key, row)
              values == [seen[r] EXCEPT ![row] = After(cells[c])]
          IN  /\ seen[r][row] = 0
              /\ \A earlier \in 1..(row - 1) : seen[r][earlier] # 0
              /\ cells' = [cells EXCEPT ![c] = @ + 1]
              /\ seen' = [seen EXCEPT ![r] = values]
              /\ IF row < Depth
                 THEN UNCHANGED <<pc, held, ahead>>
                 ELSE /\ ahead' = [ahead EXCEPT ![r] = {}]
                      /\ IF WithinMax(Estimate(values), slot[r].max)
                         THEN held' = [held EXCEPT ![r] = TRUE] /\ Goto(r, "breaker")
                         ELSE UNCHANGED held /\ Goto(r, "release")
    /\ UNCHANGED <<total, inner, routes, counters, slot, arc>>

\* Guard::drop, at once or with the context: one fetch_sub per row.
ReleaseCaller(r) ==
    /\ pc[r] = "release"
    /\ \E row \in Rows :
          /\ seen[r][row] # 0
          /\ \A earlier \in 1..(row - 1) : seen[r][earlier] = 0
          /\ cells' = [cells EXCEPT ![CellOf(slot[r].key, row)] = @ - 1]
          /\ seen' = [seen EXCEPT ![r][row] = 0]
          /\ IF row = Depth THEN Reject(r) ELSE UNCHANGED <<pc, slot>>
    /\ UNCHANGED <<total, inner, routes, counters, arc, held, ahead>>

\* The breaker, last: refused, or admitted and bound to report, as
\* ctx.breaker_upstream says until the request ends.
AskBreaker(r) ==
    /\ pc[r] = "breaker"
    /\ \E t \in {0, Cooldown} :
          /\ inner' = AllowAt(inner, t)
          /\ Goto(r, IF Allows(inner, t) THEN "running" ELSE "ended")
    /\ UNCHANGED <<total, routes, counters, cells, slot, arc, seen, held, ahead>>

\* Faulty variant: a request the client abandoned is not reported.
LogForwardedSkipsCancel(r) ==
    /\ pc[r] = "running"
    /\ inner' \in {inner, RecordSuccess(inner), RecordFailureAt(inner, 0)}
    /\ Goto(r, "ended")
    /\ UNCHANGED <<total, routes, counters, cells, slot, arc, seen, held, ahead>>

\* logging() after the upstream exchange, whichever way it ended.
LogForwarded(r) ==
    /\ pc[r] = "running"
    /\ inner' \in {Cancel(inner), RecordSuccess(inner), RecordFailureAt(inner, 0)}
    /\ Goto(r, "ended")
    /\ UNCHANGED <<total, routes, counters, cells, slot, arc, seen, held, ahead>>

\* request_budget drops the exchange: no callback runs any more.
Expire(r) ==
    /\ pc[r] = "running"
    /\ total
    /\ Goto(r, "ended")
    /\ UNCHANGED <<total, inner, routes, counters, cells, slot, arc, seen, held, ahead>>

\* The context is dropped and the slot with it.
DropCtx(r) ==
    /\ pc[r] = "ended"
    /\ counters' = IF held[r] /\ ~slot[r].per_caller
                   THEN [counters EXCEPT ![arc[r]] = @ - 1] ELSE counters
    /\ \/ /\ held[r] /\ slot[r].per_caller
          /\ Goto(r, "release")
          /\ UNCHANGED slot
       \/ /\ ~(held[r] /\ slot[r].per_caller)
          /\ Goto(r, "idle")
          /\ slot' = [slot EXCEPT ![r] = None]
    /\ held' = [held EXCEPT ![r] = FALSE]
    /\ arc' = [arc EXCEPT ![r] = None]
    /\ ahead' = [q \in Requests |-> ahead[q] \ {r}]
    /\ UNCHANGED <<total, inner, routes, cells, seen>>

Step(r) ==
    \/ Lookup(r) \/ Insert(r) \/ TakeRoute(r)
    \/ IncrCaller(r) \/ ReleaseCaller(r)
    \/ AskBreaker(r) \/ LogForwarded(r) \/ Expire(r) \/ DropCtx(r)

Next == \E r \in Requests : Arrive(r) \/ Step(r)

Spec == Init /\ [][Next]_vars

-----------------------------------------------------------------------------
(***************************************************************************)
(* Properties                                                              *)
(***************************************************************************)

(* A row in which a request saw no more than its cap, if it holds a slot.  *)
Lane(r) == CHOOSE row \in Rows : seen[r][row] <= slot[r].max

(* What SlotPool says of a request. *)
Asking == {"lookup", "insert", "cas", "incr"}

Status(r) ==
    CASE held[r] ->
            [state |-> "holds", key |-> slot[r].key, max |-> slot[r].max, lane |-> Lane(r)]
      [] pc[r] \in Asking /\ ~held[r] ->
            [state |-> "asks", key |-> slot[r].key, max |-> slot[r].max, ahead |-> ahead[r]]
      [] pc[r] = "release" /\ ~held[r] -> [state |-> "leaves"]
      [] OTHER -> [state |-> "idle"]

Pool == INSTANCE SlotPool
            WITH Counted <- RouteKeys, Estimated <- CallerKeys, Lanes <- Rows,
                 status <- [r \in Requests |-> Status(r)]

(***************************************************************************)
(* The caps implement SlotPool: though two requests may find a route's     *)
(* counter missing at the same time, callers are counted row by row beside *)
(* each other, keys collide in the sketch and a reload changes the cap, a  *)
(* route never has more holders than its cap and refuses only when that    *)
(* many hold its slots -- so no slot is lost on any path, a rejection by   *)
(* the breaker and an exchange cut off by its deadline included.  A caller *)
(* is refused only while as many requests as its cap are counted, so none  *)
(* of its slots is lost either, and it gets none while as many of its      *)
(* requests as the cap have held one since before it asked.  Requests that *)
(* ask at the same time may pass the cap together, but at most as many as  *)
(* the cap through each row.                                               *)
(***************************************************************************)
ImplementsSlotPool == Pool!Spec

(***************************************************************************)
(* A half-open circuit waits only for requests that will report: one that  *)
(* the cap refused has not been counted as a trial.                        *)
(***************************************************************************)
Waits ==
    inner.state = "half_open" =>
        inner.trials_in_flight <=
            Cardinality({r \in Requests : pc[r] = "running"})

TrialsHaveReporters == ~total => Waits

(***************************************************************************)
(* CircuitBreaker::allow: "the caller must report its outcome, or the      *)
(* circuit stays half-open forever."  With timeouts.request_total set, a   *)
(* trial whose exchange outlives the deadline is dropped before logging()  *)
(* and never reports.                                                      *)
(***************************************************************************)
EveryTrialReports == Waits

=============================================================================
