------------------------------ MODULE SlotPool ------------------------------
(***************************************************************************)
(* What a concurrency cap promises, whatever counts behind it: a request   *)
(* either gets a slot of its key or is refused, without waiting for one,   *)
(* and gives the slot back when it ends.                                   *)
(*                                                                         *)
(* Route keys are counted exactly: a slot is granted when and only when    *)
(* fewer requests than the cap hold one.  Caller keys are estimated.  A    *)
(* caller may be refused for what others do, but only while as many        *)
(* requests as its cap ask, hold a slot or are on their way out.  It gets  *)
(* no slot while as many of its requests as the cap have held one since    *)
(* before it asked; but requests that ask at the same time may not see     *)
(* each other.  They pass in lanes, one after the other in each: the       *)
(* holders that came through a lane under caps of at most n are at most n. *)
(***************************************************************************)
EXTENDS Naturals, FiniteSets

CONSTANTS
    Requests,   \* who asks for slots
    Counted,    \* keys counted exactly
    Estimated,  \* keys counted by an estimate
    Caps,       \* the values the cap of a key may have; it may change
    Lanes       \* the lanes of an estimated key

VARIABLE status  \* what a request has

Idle == [state |-> "idle"]

\* What is left of a request that the estimate still counts.
Leaving == [state |-> "leaves"]

Holders(k) == {r \in Requests : status[r].state = "holds" /\ status[r].key = k}

\* Those that came through a lane under a cap of at most n.
Through(k, lane, n) ==
    {r \in Holders(k) : status[r].lane = lane /\ status[r].max <= n}

\* The requests that an estimate may count.
Present ==
    {r \in Requests : \/ status[r] = Leaving
                      \/ status[r].state \in {"asks", "holds"} /\ status[r].key \in Estimated}

Gone(k) == IF k \in Estimated THEN Leaving ELSE Idle

\* The status of r becomes s.  (The first conjunct only spares TLC the second.)
Set(r, s) ==
    /\ status'[r] = s
    /\ status' = [status EXCEPT ![r] = s]

Init == status = [r \in Requests |-> Idle]

Ask(r) ==
    /\ status[r] = Idle
    /\ \E k \in Counted \cup Estimated : \E max \in Caps[k] :
          Set(r, [state |-> "asks", key |-> k, max |-> max,
                  ahead |-> IF k \in Estimated THEN Holders(k) ELSE {}])

Take(r) ==
    /\ status[r].state = "asks"
    /\ LET k == status[r].key
           max == status[r].max
       IN  /\ k \in Counted => Cardinality(Holders(k)) < max
           /\ k \in Estimated => Cardinality(status[r].ahead) < max
           /\ \E lane \in Lanes :
                 /\ k \in Estimated =>
                       \A n \in Caps[k] : max <= n => Cardinality(Through(k, lane, n)) < n
                 /\ Set(r, [state |-> "holds", key |-> k, max |-> max, lane |-> lane])

Refuse(r) ==
    /\ status[r].state = "asks"
    /\ LET k == status[r].key
           max == status[r].max
       IN  /\ k \in Counted => Cardinality(Holders(k)) >= max
           /\ k \in Estimated => Cardinality(Present \ {r}) >= max
           /\ Set(r, Gone(k))

\* A request ends that holds a slot; nobody waits behind it any more.
Give(r) ==
    /\ status[r].state = "holds"
    /\ status' = [q \in Requests |->
           IF q = r THEN Gone(status[r].key)
           ELSE IF status[q].state = "asks" THEN [status[q] EXCEPT !.ahead = @ \ {r}]
           ELSE status[q]]

Leave(r) ==
    /\ status[r] = Leaving
    /\ Set(r, Idle)

Next == \E r \in Requests : Ask(r) \/ Take(r) \/ Refuse(r) \/ Give(r) \/ Leave(r)

Spec == Init /\ [][Next]_status

=============================================================================
