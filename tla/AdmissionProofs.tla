--------------------------- MODULE AdmissionProofs ---------------------------
(***************************************************************************)
(* Proofs about the caps and the breaker in front of an upstream, for any  *)
(* number of requests, keys and rows, any hash and any caps.               *)
(***************************************************************************)
EXTENDS Admission, FiniteSetTheorems, WellFoundedInduction, TLAPS

-----------------------------------------------------------------------------
(***************************************************************************)
(* The operators                                                           *)
(***************************************************************************)

\* A non-empty set of numbers has a least element, and Min is it.
LEMMA MinIsLeast ==
    ASSUME NEW S \in SUBSET Nat, S # {}
    PROVE  Min(S) \in S /\ \A j \in S : Min(S) <= j
<1>1. PICK x \in S : \A y \in S : ~(<<y, x>> \in OpToRel(<, Nat))
  BY NatLessThanWellFounded, WFMin
<1>2. \A y \in S : ~(y < x)
  BY <1>1 DEF OpToRel
<1>3. \A y \in S : x <= y
  BY <1>2
<1> QED BY <1>3 DEF Min

\* Sets of requests and their sizes.
LEMMA Sizes ==
    ASSUME NEW S \in SUBSET Requests
    PROVE  /\ IsFiniteSet(S) /\ Cardinality(S) \in Nat
           /\ \A r \in Requests \ S : Cardinality(S \cup {r}) = Cardinality(S) + 1
           /\ \A r \in S : Cardinality(S \ {r}) = Cardinality(S) - 1 /\ Cardinality(S) >= 1
           /\ \A T \in SUBSET S : Cardinality(T) <= Cardinality(S)
<1>1. IsFiniteSet(S)
  BY AdmissionConfig, FS_Subset
<1>2. Cardinality(S) \in Nat
  BY <1>1, FS_CardinalityType
<1>3. ASSUME NEW r \in Requests \ S PROVE Cardinality(S \cup {r}) = Cardinality(S) + 1
  BY <1>1, FS_AddElement
<1>4. ASSUME NEW r \in S
      PROVE  Cardinality(S \ {r}) = Cardinality(S) - 1 /\ Cardinality(S) >= 1
  <2>1. Cardinality(S \ {r}) = Cardinality(S) - 1
    BY <1>1, FS_RemoveElement
  <2>2. Cardinality(S) # 0
    BY <1>1, FS_EmptySet
  <2> QED BY <1>2, <2>1, <2>2
<1>5. ASSUME NEW T \in SUBSET S PROVE Cardinality(T) <= Cardinality(S)
  BY <1>1, FS_Subset
<1> QED BY <1>1, <1>2, <1>3, <1>4, <1>5

\* The kinds of slots.
LEMMA SlotKinds ==
    ASSUME NEW s \in Slots, s # None
    PROVE  /\ s.max \in Caps[s.key] /\ s.max \in Nat
           /\ s.per_caller \in BOOLEAN
           /\ s.per_caller => s.key \in CallerKeys
           /\ ~s.per_caller => s.key \in RouteKeys
<1>1. /\ s \in [key: Keys, max: UNION {Caps[k] : k \in Keys}, per_caller: BOOLEAN]
      /\ s.max \in Caps[s.key]
      /\ s.per_caller <=> s.key \in CallerKeys
  BY DEF Slots
<1>2. s.key \in Keys /\ s.per_caller \in BOOLEAN
  BY <1>1
<1>3. s.max \in Nat
  BY <1>1, <1>2, AdmissionConfig DEF Keys
<1> QED BY <1>1, <1>2, <1>3 DEF Keys

\* A caller's estimate is the least it saw in any row.
LEMMA EstimateSeen ==
    ASSUME NEW values \in [Rows -> Nat]
    PROVE  /\ \E row \in Rows : Estimate(values) = values[row]
           /\ \A row \in Rows : Estimate(values) <= values[row]
<1> DEFINE S == {values[row] : row \in Rows}
<1>1. 1 \in Rows
  BY AdmissionConfig DEF Rows
<1>2. S \in SUBSET Nat /\ S # {}
  BY <1>1
<1>3. Estimate(values) \in S /\ \A j \in S : Estimate(values) <= j
  BY <1>2, MinIsLeast DEF Estimate
<1> QED BY <1>3

-----------------------------------------------------------------------------
(***************************************************************************)
(* The inductive invariant                                                 *)
(***************************************************************************)

\* A request holds the slot of a route; those that hold one of route k.
RouteSlot(r) == held[r] /\ ~slot[r].per_caller

RouteHolders(k) == {r \in Requests : RouteSlot(r) /\ slot[r].key = k}

\* How far a request is with its cap.
SlotInv(r) ==
    /\ pc[r] = "idle" => slot[r] = None
    /\ pc[r] \in {"lookup", "insert", "cas"} => slot[r] # None /\ ~slot[r].per_caller
    /\ pc[r] \in {"incr", "release"} => slot[r] # None /\ slot[r].per_caller
    /\ held[r] => slot[r] # None /\ pc[r] \in {"breaker", "running", "ended"}
    /\ pc[r] = "cas" \/ RouteSlot(r) =>
          slot[r].key \in DOMAIN routes /\ arc[r] = routes[slot[r].key]

\* In which rows of the sketch a request is counted: all, if it holds a slot, and in
\* one it then saw no more than its cap.
SeenInv(r) ==
    /\ \A row \in Rows :
          seen[r][row] # 0 =>
              pc[r] \in {"incr", "release"} \/ (held[r] /\ slot[r].per_caller)
    /\ held[r] /\ slot[r].per_caller => \A row \in Rows : seen[r][row] # 0
    /\ held[r] => \E row \in Rows : seen[r][row] <= slot[r].max

\* A route's counter is its own and counts its holders.
RouteInv ==
    /\ \A k, l \in DOMAIN routes : routes[k] = routes[l] => k = l
    /\ \A k \in DOMAIN routes : counters[routes[k]] = Cardinality(RouteHolders(k))

\* The requests counted in a cell, and those of caller k counted in a row.
InCell(c) == {r \in Requests : \E row \in Rows :
                                  seen[r][row] # 0 /\ c = CellOf(slot[r].key, row)}

InRow(k, row) == {r \in Requests : seen[r][row] # 0 /\ slot[r].key = k}

\* A cell counts the requests whose caller falls into it.
CellInv == \A c \in Cells : cells[c] = Cardinality(InCell(c))

\* Of any of a caller's requests counted in a row one, the last that was counted, saw
\* no less there than their number.
Witnessed(row, S) == \E x \in S : Cardinality(S) <= seen[x][row]

LaneInv ==
    \A k \in CallerKeys, row \in Rows : \A S \in SUBSET InRow(k, row) :
        S # {} => Witnessed(row, S)

\* Whoever has held a slot of the key since before a request asked still does, and
\* the request has seen all of them in every row that counts it.
AheadInv(r) ==
    /\ ahead[r] # {} => pc[r] = "incr"
    /\ \A q \in ahead[r] : q # r /\ held[q] /\ slot[q].key = slot[r].key
    /\ pc[r] = "incr" =>
          \A row \in Rows : seen[r][row] # 0 => Cardinality(ahead[r]) + 1 <= seen[r][row]

RequestInv(r) == SlotInv(r) /\ SeenInv(r) /\ AheadInv(r)

\* Every counter is backed by the requests that count in it.
CapInv == (\A r \in Requests : RequestInv(r)) /\ RouteInv /\ CellInv /\ LaneInv

-----------------------------------------------------------------------------
(***************************************************************************)
(* Each count against what it counts                                       *)
(***************************************************************************)

\* A route's counter as its holders stay, as one joins and as one leaves.
LEMMA RouteStays ==
    ASSUME RouteInv, counters' = counters, routes' = routes,
           \A q \in Requests : /\ RouteSlot(q)' <=> RouteSlot(q)
                               /\ RouteSlot(q) => slot'[q] = slot[q]
    PROVE  RouteInv'
<1>1. \A k : RouteHolders(k)' = RouteHolders(k)
  BY DEF RouteHolders
<1> QED BY <1>1 DEF RouteInv

\* A request takes its route's slot: the route counts one holder more.
LEMMA RouteJoins ==
    ASSUME TypeOK, RouteInv, routes' = routes,
           NEW r \in Requests, ~RouteSlot(r), RouteSlot(r)', slot' = slot,
           slot[r].key \in DOMAIN routes,
           counters' = [counters EXCEPT ![routes[slot[r].key]] = @ + 1],
           \A q \in Requests \ {r} : RouteSlot(q)' <=> RouteSlot(q)
    PROVE  RouteInv'
<1> DEFINE k == slot[r].key
<1>1. RouteHolders(k)' = RouteHolders(k) \cup {r} /\ r \notin RouteHolders(k)
  BY DEF RouteHolders
<1>2. ASSUME NEW l \in DOMAIN routes, l # k PROVE RouteHolders(l)' = RouteHolders(l)
  BY <1>2 DEF RouteHolders
<1>3. Cardinality(RouteHolders(k)') = Cardinality(RouteHolders(k)) + 1
  BY <1>1, Sizes DEF RouteHolders
<1>4. routes[k] \in DOMAIN counters /\ counters \in Seq(Nat)
  BY DEF TypeOK
<1>5. counters'[routes[k]] = counters[routes[k]] + 1
  BY <1>4
<1>6. ASSUME NEW l \in DOMAIN routes, l # k PROVE counters'[routes[l]] = counters[routes[l]]
  BY <1>4, <1>6 DEF RouteInv, TypeOK
<1> QED BY <1>2, <1>3, <1>5, <1>6 DEF RouteInv

\* A request gives its route's slot back: the route counts one holder less.
LEMMA RouteLeaves ==
    ASSUME TypeOK, RouteInv, routes' = routes,
           NEW r \in Requests, RouteSlot(r), ~RouteSlot(r)',
           NEW k \in DOMAIN routes, slot[r].key = k,
           counters' = [counters EXCEPT ![routes[k]] = @ - 1],
           \A q \in Requests \ {r} : /\ RouteSlot(q)' <=> RouteSlot(q)
                                     /\ slot'[q] = slot[q]
    PROVE  RouteInv' /\ counters[routes[k]] >= 1
<1>1. RouteHolders(k)' = RouteHolders(k) \ {r} /\ r \in RouteHolders(k)
  BY DEF RouteHolders
<1>2. ASSUME NEW l \in DOMAIN routes, l # k PROVE RouteHolders(l)' = RouteHolders(l)
  BY <1>2 DEF RouteHolders
<1>3. /\ Cardinality(RouteHolders(k)') = Cardinality(RouteHolders(k)) - 1
      /\ Cardinality(RouteHolders(k)) >= 1
  BY <1>1, Sizes DEF RouteHolders
<1>4. routes[k] \in DOMAIN counters /\ counters \in Seq(Nat)
  BY DEF TypeOK
<1>5. counters'[routes[k]] = counters[routes[k]] - 1
  BY <1>4
<1>6. ASSUME NEW l \in DOMAIN routes, l # k PROVE counters'[routes[l]] = counters[routes[l]]
  BY <1>4, <1>6 DEF RouteInv, TypeOK
<1> QED BY <1>2, <1>3, <1>5, <1>6 DEF RouteInv

\* Different rows have different cells.
LEMMA CellsApart ==
    ASSUME NEW k, NEW l, NEW i, NEW j, CellOf(k, i) = CellOf(l, j)
    PROVE  i = j
BY DEF CellOf

\* The sketch while nothing is counted and nothing given back.
LEMMA SketchStays ==
    ASSUME CellInv, LaneInv, cells' = cells, seen' = seen,
           \A q \in Requests, row \in Rows : seen[q][row] # 0 => slot'[q] = slot[q]
    PROVE  CellInv' /\ LaneInv'
<1>1. \A c : InCell(c)' = InCell(c)
  BY DEF InCell
<1>2. \A k : \A row \in Rows : InRow(k, row)' = InRow(k, row)
  BY DEF InRow
<1>3. \A row, S : Witnessed(row, S)' <=> Witnessed(row, S)
  BY DEF Witnessed
<1>4. CellInv'
  BY <1>1 DEF CellInv
<1>5. LaneInv'
  BY <1>2, <1>3 DEF LaneInv
<1> QED BY <1>4, <1>5

\* A row counts one request more: it saw all that its cell counts, itself included.
LEMMA SketchJoins ==
    ASSUME TypeOK, CellInv, LaneInv,
           NEW r \in Requests, NEW i \in Rows, slot' = slot,
           slot[r].key \in CallerKeys, seen[r][i] = 0,
           cells' = [cells EXCEPT ![CellOf(slot[r].key, i)] = @ + 1],
           seen' = [seen EXCEPT ![r] =
                       [seen[r] EXCEPT ![i] = cells[CellOf(slot[r].key, i)] + 1]]
    PROVE  /\ CellInv' /\ LaneInv' /\ cells' \in [Cells -> Nat]
           /\ seen' \in [Requests -> [Rows -> Nat]]
           /\ \A T \in SUBSET InCell(CellOf(slot[r].key, i)) :
                 r \notin T /\ Cardinality(T) + 1 <= seen'[r][i]
<1> DEFINE k == slot[r].key
           c == CellOf(k, i)
<1>t. cells \in [Cells -> Nat] /\ seen \in [Requests -> [Rows -> Nat]]
  BY DEF TypeOK
<1>c. c \in Cells /\ cells[c] \in Nat
  BY <1>t DEF Cells
<1>1. /\ cells' \in [Cells -> Nat] /\ cells'[c] = cells[c] + 1
      /\ \A d \in Cells : d # c => cells'[d] = cells[d]
  BY <1>t, <1>c
<1>2. /\ seen' \in [Requests -> [Rows -> Nat]] /\ seen'[r][i] = cells[c] + 1
      /\ \A row \in Rows : row # i => seen'[r][row] = seen[r][row]
      /\ \A q \in Requests : q # r => seen'[q] = seen[q]
  BY <1>t, <1>c
<1>3. r \notin InCell(c)
  BY CellsApart DEF InCell
<1>4. InCell(c)' = InCell(c) \cup {r}
  <2>1. ASSUME NEW q \in Requests PROVE q \in InCell(c)' <=> q \in InCell(c) \cup {r}
    <3>1. CASE q = r
      BY <3>1, <1>2, <1>c DEF InCell
    <3>2. CASE q # r
      BY <3>2, <1>2 DEF InCell
    <3> QED BY <3>1, <3>2
  <2> QED BY <2>1 DEF InCell
<1>5. ASSUME NEW d \in Cells, d # c PROVE InCell(d)' = InCell(d)
  <2>1. ASSUME NEW q \in Requests PROVE q \in InCell(d)' <=> q \in InCell(d)
    <3>1. CASE q = r
      BY <3>1, <1>5, <1>2 DEF InCell
    <3>2. CASE q # r
      BY <3>2, <1>2 DEF InCell
    <3> QED BY <3>1, <3>2
  <2> QED BY <2>1 DEF InCell
<1>6. InCell(c) \in SUBSET Requests
  BY DEF InCell
<1>7. Cardinality(InCell(c)') = Cardinality(InCell(c)) + 1 /\ Cardinality(InCell(c)) \in Nat
  BY <1>3, <1>4, <1>6, Sizes
<1>8. CellInv'
  BY <1>1, <1>5, <1>7, <1>c DEF CellInv
<1>9. ASSUME NEW T \in SUBSET InCell(c)
      PROVE  r \notin T /\ Cardinality(T) + 1 <= seen'[r][i]
  <2>1. Cardinality(T) <= Cardinality(InCell(c)) /\ Cardinality(T) \in Nat
    BY <1>6, Sizes
  <2> QED BY <2>1, <1>2, <1>3, <1>7, <1>c DEF CellInv
<1>10. ASSUME NEW l \in CallerKeys, NEW row \in Rows, NEW S \in SUBSET InRow(l, row)', S # {}
       PROVE  Witnessed(row, S)'
  <2>1. CASE r \in S /\ row = i
    <3>1. l = k /\ S \ {r} \in SUBSET InCell(c)
      BY <2>1, <1>2 DEF InRow, InCell
    <3>2. Cardinality(S \ {r}) + 1 <= seen'[r][i]
      BY <3>1, <1>9
    <3>3. S \in SUBSET Requests
      BY DEF InRow
    <3>4. Cardinality(S \ {r}) = Cardinality(S) - 1 /\ Cardinality(S) \in Nat
      BY <2>1, <3>3, Sizes
    <3>5. Cardinality(S) <= seen'[r][i]
      BY <3>2, <3>4
    <3> QED BY <2>1, <3>5 DEF Witnessed
  <2>2. CASE ~(r \in S /\ row = i)
    <3>1. \A q \in S : q \in Requests /\ seen'[q][row] = seen[q][row]
      BY <2>2, <1>2 DEF InRow
    <3>2. S \in SUBSET InRow(l, row)
      BY <3>1 DEF InRow
    <3>3. Witnessed(row, S)
      BY <1>10, <3>2 DEF LaneInv
    <3> QED BY <3>1, <3>3 DEF Witnessed
  <2> QED BY <2>1, <2>2
<1>11. LaneInv'
  BY <1>10 DEF LaneInv
<1> QED BY <1>1, <1>2, <1>8, <1>9, <1>11

\* A row counts one request less.
LEMMA SketchLeaves ==
    ASSUME TypeOK, CellInv, LaneInv,
           NEW r \in Requests, NEW i \in Rows,
           slot[r].key \in CallerKeys, seen[r][i] # 0,
           \A q \in Requests, row \in Rows : seen'[q][row] # 0 => slot'[q] = slot[q],
           cells' = [cells EXCEPT ![CellOf(slot[r].key, i)] = @ - 1],
           seen' = [seen EXCEPT ![r][i] = 0]
    PROVE  CellInv' /\ LaneInv' /\ cells' \in [Cells -> Nat]
           /\ seen' \in [Requests -> [Rows -> Nat]]
<1>t. cells \in [Cells -> Nat] /\ seen \in [Requests -> [Rows -> Nat]]
  BY DEF TypeOK
<1>p. PICK c \in Cells : c = CellOf(slot[r].key, i)
  BY DEF Cells
<1>c. cells[c] \in Nat
  BY <1>t
<1>1. /\ DOMAIN cells' = Cells /\ cells'[c] = cells[c] - 1
      /\ \A d \in Cells : d # c => cells'[d] = cells[d]
  BY <1>t, <1>p
<1>2. /\ seen' \in [Requests -> [Rows -> Nat]] /\ seen'[r][i] = 0
      /\ \A row \in Rows : row # i => seen'[r][row] = seen[r][row]
      /\ \A q \in Requests : q # r => seen'[q] = seen[q]
  BY <1>t
<1>3. r \in InCell(c)
  BY <1>p DEF InCell
<1>4. InCell(c)' = InCell(c) \ {r}
  <2>1. ASSUME NEW q \in Requests PROVE q \in InCell(c)' <=> q \in InCell(c) \ {r}
    <3>1. CASE q = r
      BY <3>1, <1>2, <1>p, CellsApart DEF InCell
    <3>2. CASE q # r
      <4>1. \A row \in Rows : seen'[q][row] = seen[q][row]
        BY <3>2, <1>2
      <4>2. q \in InCell(c)' <=> q \in InCell(c)
        BY <4>1 DEF InCell
      <4> QED BY <3>2, <4>2
    <3> QED BY <3>1, <3>2
  <2> QED BY <2>1 DEF InCell
<1>5. ASSUME NEW d \in Cells, d # c PROVE InCell(d)' = InCell(d)
  <2>1. ASSUME NEW q \in Requests PROVE q \in InCell(d)' <=> q \in InCell(d)
    <3>1. CASE q = r
      BY <3>1, <1>5, <1>2, <1>p DEF InCell
    <3>2. CASE q # r
      <4>1. \A row \in Rows : seen'[q][row] = seen[q][row]
        BY <3>2, <1>2
      <4> QED BY <4>1 DEF InCell
    <3> QED BY <3>1, <3>2
  <2> QED BY <2>1 DEF InCell
<1>6. InCell(c) \in SUBSET Requests
  BY DEF InCell
<1>7. /\ Cardinality(InCell(c)') = Cardinality(InCell(c)) - 1
      /\ Cardinality(InCell(c)) >= 1 /\ Cardinality(InCell(c)) \in Nat
  BY <1>3, <1>4, <1>6, Sizes
<1>8. CellInv'
  <2>1. cells[c] = Cardinality(InCell(c)) /\ \A d \in Cells : cells[d] = Cardinality(InCell(d))
    BY <1>c DEF CellInv
  <2>2. cells'[c] = Cardinality(InCell(c)')
    BY <2>1, <1>1, <1>7
  <2>3. ASSUME NEW d \in Cells, d # c PROVE cells'[d] = Cardinality(InCell(d)')
    BY <2>1, <2>3, <1>1, <1>5
  <2> QED BY <2>2, <2>3 DEF CellInv
<1>9. cells' \in [Cells -> Nat]
  <2>1. \A d \in Cells : cells'[d] \in Nat
    BY <1>1, <1>7, <1>c, <1>t DEF CellInv
  <2>2. cells' = [d \in Cells |-> cells'[d]]
    BY <1>t
  <2> QED BY <2>1, <2>2
<1>10. ASSUME NEW l \in CallerKeys, NEW row \in Rows, NEW S \in SUBSET InRow(l, row)', S # {}
       PROVE  Witnessed(row, S)'
  <2>1. \A q \in S : q \in Requests /\ seen'[q][row] = seen[q][row] /\ slot'[q] = slot[q]
    BY <1>2 DEF InRow
  <2>2. S \in SUBSET InRow(l, row)
    BY <2>1 DEF InRow
  <2>3. Witnessed(row, S)
    BY <1>10, <2>2 DEF LaneInv
  <2> QED BY <2>1, <2>3 DEF Witnessed
<1>11. LaneInv'
  BY <1>10 DEF LaneInv
<1> QED BY <1>2, <1>8, <1>9, <1>11

-----------------------------------------------------------------------------
(***************************************************************************)
(* Preservation                                                            *)
(***************************************************************************)

\* What concerns only request r.
Mine(r) == <<pc[r], slot[r], arc[r], seen[r], held[r]>>

\* What a step of a request leaves alone.
LEMMA StepIsLocal ==
    ASSUME TypeOK, NEW r \in Requests, Arrive(r) \/ Step(r), NEW q \in Requests, q # r
    PROVE  Mine(q)' = Mine(q) /\ ahead'[q] \in SUBSET ahead[q]
<1> USE DEF TypeOK, Mine, Goto, Reject
<1>1. CASE Arrive(r)
  BY <1>1 DEF Arrive
<1>2. CASE Lookup(r)
  BY <1>2 DEF Lookup
<1>3. CASE Insert(r)
  BY <1>3 DEF Insert
<1>4. CASE TakeRoute(r)
  BY <1>4 DEF TakeRoute
<1>5. CASE IncrCaller(r)
  BY <1>5 DEF IncrCaller
<1>6. CASE ReleaseCaller(r)
  BY <1>6 DEF ReleaseCaller
<1>7. CASE AskBreaker(r)
  BY <1>7 DEF AskBreaker
<1>8. CASE LogForwarded(r)
  BY <1>8 DEF LogForwarded
<1>9. CASE Expire(r)
  BY <1>9 DEF Expire
<1>10. CASE DropCtx(r)
  BY <1>10 DEF DropCtx
<1> QED BY <1>1, <1>2, <1>3, <1>4, <1>5, <1>6, <1>7, <1>8, <1>9, <1>10 DEF Step

\* A request r that holds a slot after its step keeps who was behind it there.
Steady(r) ==
    \A q \in Requests \ {r} :
        r \in ahead'[q] => held[r] /\ held'[r] /\ slot'[r] = slot[r]

\* A request keeps its invariant while another moves and the map of routes grows.
LEMMA OthersStay ==
    ASSUME TypeOK, TypeOK', CapInv, NEW r \in Requests, Arrive(r) \/ Step(r), Steady(r),
           \A k \in DOMAIN routes : k \in DOMAIN routes' /\ routes'[k] = routes[k],
           NEW q \in Requests, q # r
    PROVE  RequestInv(q)'
<1>1. /\ pc'[q] = pc[q] /\ slot'[q] = slot[q] /\ arc'[q] = arc[q] /\ seen'[q] = seen[q]
      /\ held'[q] = held[q] /\ ahead'[q] \in SUBSET ahead[q]
  BY StepIsLocal DEF Mine
<1>2. SlotInv(q) /\ SeenInv(q) /\ AheadInv(q)
  BY DEF CapInv, RequestInv
<1>3. SlotInv(q)'
  BY <1>1, <1>2 DEF SlotInv, RouteSlot
<1>4. SeenInv(q)'
  BY <1>1, <1>2 DEF SeenInv
<1>5. \A p \in ahead'[q] : p # q /\ held'[p] /\ slot'[p].key = slot'[q].key
  <2> SUFFICES ASSUME NEW p \in ahead'[q]
               PROVE  p # q /\ held'[p] /\ slot'[p].key = slot'[q].key
    OBVIOUS
  <2>1. p \in Requests /\ p # q /\ held[p] /\ slot[p].key = slot[q].key
    BY <1>1, <1>2 DEF AheadInv, TypeOK
  <2>2. held'[p] /\ slot'[p] = slot[p]
    <3>1. CASE p = r
      BY <3>1 DEF Steady
    <3>2. CASE p # r
      BY <2>1, <3>2, StepIsLocal DEF Mine
    <3> QED BY <3>1, <3>2
  <2> QED BY <1>1, <2>1, <2>2
<1>6. /\ Cardinality(ahead'[q]) <= Cardinality(ahead[q])
      /\ Cardinality(ahead'[q]) \in Nat /\ Cardinality(ahead[q]) \in Nat
  <2>1. ahead[q] \in SUBSET Requests /\ ahead'[q] \in SUBSET Requests
    BY DEF TypeOK
  <2> QED BY <1>1, <2>1, Sizes
<1>7. seen[q] \in [Rows -> Nat]
  BY DEF TypeOK
<1>8. AheadInv(q)'
  <2>1. ahead'[q] # {} => pc'[q] = "incr"
    BY <1>1, <1>2 DEF AheadInv
  <2>2. ASSUME pc'[q] = "incr", NEW row \in Rows, seen'[q][row] # 0
        PROVE  Cardinality(ahead'[q]) + 1 <= seen'[q][row]
    <3>1. Cardinality(ahead[q]) + 1 <= seen[q][row] /\ seen[q][row] \in Nat
      BY <1>1, <1>2, <1>7, <2>2 DEF AheadInv
    <3> QED BY <1>1, <1>6, <3>1
  <2> QED BY <1>5, <2>1, <2>2 DEF AheadInv
<1> QED BY <1>3, <1>4, <1>8 DEF RequestInv

\* The breaker's record stays well formed.
LEMMA MethodsTyped ==
    ASSUME NEW b \in Inner, NEW t \in Nat
    PROVE  /\ AllowAt(b, t) \in Inner /\ Cancel(b) \in Inner
           /\ RecordSuccess(b) \in Inner /\ RecordFailureAt(b, t) \in Inner
<1> USE BreakerConfig
<1>1. /\ b.trials_in_flight + 1 \in Nat /\ SaturatingSub(b.trials_in_flight, 1) \in Nat
      /\ b.trial_successes + 1 \in Nat /\ b.state \in State
  BY DEF SaturatingSub, Inner
<1>2. AllowAt(b, t) \in Inner
  <2>1. [b EXCEPT !.trials_in_flight = @ + 1] \in Inner /\ EnterHalfOpen(b) \in Inner
    BY <1>1 DEF EnterHalfOpen, Inner, State
  <2> QED BY <1>1, <2>1 DEF AllowAt, State
<1>3. Cancel(b) \in Inner
  BY <1>1 DEF Cancel, Inner
<1>4. RecordSuccess(b) \in Inner
  <2>1. CloseCircuit(b) \in Inner /\ [b EXCEPT !.failures = 0] \in Inner
    BY DEF CloseCircuit, Inner, State
  <2>2. [b EXCEPT !.trials_in_flight = SaturatingSub(@, 1), !.trial_successes = @ + 1] \in Inner
    BY <1>1 DEF Inner
  <2> QED BY <1>1, <2>1, <2>2 DEF RecordSuccess, State
<1>5. RecordFailureAt(b, t) \in Inner
  <2>1. RestartWindow(b, t) \in Inner
    BY DEF RestartWindow, Inner
  <2>2. ASSUME NEW c \in Inner PROVE CountFailure(c, t) \in Inner
    <3>1. c.failures + 1 \in Nat
      BY DEF Inner
    <3>2. /\ [c EXCEPT !.failures = @ + 1] \in Inner
          /\ [c EXCEPT !.failures = @ + 1, !.state = "open", !.opened_at = t] \in Inner
      BY <3>1 DEF Inner, State
    <3> QED BY <3>2 DEF CountFailure
  <2>3. CASE b.state = "closed"
    BY <2>1, <2>2, <2>3 DEF RecordFailureAt
  <2>4. CASE b.state # "closed"
    BY <2>4 DEF RecordFailureAt, Inner, State
  <2> QED BY <2>3, <2>4
<1> QED BY <1>2, <1>3, <1>4, <1>5

\* The steps that touch no count.
LEMMA QuietKeeps ==
    ASSUME TypeOK, TypeOK', CapInv, NEW r \in Requests, Arrive(r) \/ Step(r),
           routes' = routes, counters' = counters, cells' = cells, seen' = seen,
           RouteSlot(r)' <=> RouteSlot(r), RouteSlot(r) => slot'[r] = slot[r],
           \A row \in Rows : seen[r][row] # 0 => slot'[r] = slot[r],
           Steady(r), RequestInv(r)'
    PROVE  CapInv'
<1>1. \A q \in Requests \ {r} : RequestInv(q)'
  BY OthersStay
<1>2. \A q \in Requests \ {r} : slot'[q] = slot[q] /\ held'[q] = held[q]
  BY StepIsLocal DEF Mine
<1>3. RouteInv'
  <2>1. \A q \in Requests : /\ RouteSlot(q)' <=> RouteSlot(q)
                            /\ RouteSlot(q) => slot'[q] = slot[q]
    BY <1>2 DEF RouteSlot
  <2> QED BY <2>1, RouteStays DEF CapInv
<1>4. CellInv' /\ LaneInv'
  <2>1. \A q \in Requests, row \in Rows : seen[q][row] # 0 => slot'[q] = slot[q]
    BY <1>2
  <2> QED BY <2>1, SketchStays DEF CapInv
<1> QED BY <1>1, <1>3, <1>4 DEF CapInv

\* The types and invariant of request r, taken apart.
LEMMA Known ==
    ASSUME TypeOK, CapInv, NEW r \in Requests
    PROVE  /\ inner \in Inner /\ counters \in Seq(Nat) /\ DOMAIN routes \subseteq RouteKeys
           /\ \A k \in DOMAIN routes : routes[k] \in 1..Len(counters)
           /\ cells \in [Cells -> Nat] /\ pc \in [Requests -> Pc] /\ total \in BOOLEAN
           /\ slot \in [Requests -> Slots]
           /\ arc \in [Requests -> {None} \cup 1..Len(counters)]
           /\ seen \in [Requests -> [Rows -> Nat]] /\ held \in [Requests -> BOOLEAN]
           /\ ahead \in [Requests -> SUBSET Requests]
           /\ SlotInv(r) /\ SeenInv(r) /\ AheadInv(r) /\ RouteInv /\ CellInv /\ LaneInv
           /\ slot[r] # None => /\ slot[r].max \in Caps[slot[r].key] /\ slot[r].max \in Nat
                                /\ slot[r].per_caller \in BOOLEAN
                                /\ slot[r].per_caller => slot[r].key \in CallerKeys
                                /\ ~slot[r].per_caller => slot[r].key \in RouteKeys
<1>1. slot[r] \in Slots
  BY DEF TypeOK
<1>2. slot[r] # None => /\ slot[r].max \in Caps[slot[r].key] /\ slot[r].max \in Nat
                        /\ slot[r].per_caller \in BOOLEAN
                        /\ slot[r].per_caller => slot[r].key \in CallerKeys
                        /\ ~slot[r].per_caller => slot[r].key \in RouteKeys
  BY <1>1, SlotKinds
<1>3. SlotInv(r) /\ SeenInv(r) /\ AheadInv(r) /\ RouteInv /\ CellInv /\ LaneInv
  BY DEF CapInv, RequestInv
<1> QED BY <1>2, <1>3 DEF TypeOK

LEMMA ArriveKeeps ==
    ASSUME TypeOK, CapInv, NEW r \in Requests, Arrive(r)
    PROVE  TypeOK' /\ CapInv'
<1>1. PICK x \in Slots :
        /\ slot' = [slot EXCEPT ![r] = x]
        /\ ahead' = [ahead EXCEPT ![r] =
                        IF x # None /\ x.per_caller THEN HoldersOf(x.key) ELSE {}]
        /\ pc' = [pc EXCEPT ![r] = IF x = None THEN "breaker"
                                   ELSE IF x.per_caller THEN "incr" ELSE "lookup"]
  BY DEF Arrive, Goto
<1>2. /\ pc[r] = "idle"
      /\ UNCHANGED <<total, inner, routes, counters, cells, arc, seen, held>>
  BY DEF Arrive
<1>3. HoldersOf(x.key) \in SUBSET Requests
  BY DEF HoldersOf
<1>4. TypeOK'
  <2>1. slot' \in [Requests -> Slots] /\ ahead' \in [Requests -> SUBSET Requests]
    BY <1>1, <1>3, Known
  <2>2. pc' \in [Requests -> Pc]
    BY <1>1, Known DEF Pc
  <2> QED BY <1>2, <2>1, <2>2 DEF TypeOK
<1>5. /\ slot'[r] = x
      /\ ahead'[r] = IF x # None /\ x.per_caller THEN HoldersOf(x.key) ELSE {}
      /\ pc'[r] = IF x = None THEN "breaker" ELSE IF x.per_caller THEN "incr" ELSE "lookup"
  BY <1>1, Known
<1>6. ~held[r] /\ ~held'[r] /\ \A row \in Rows : seen[r][row] = 0 /\ seen'[r][row] = 0
  BY <1>2, Known DEF SlotInv, SeenInv
<1>7. SlotInv(r)'
  BY <1>5, <1>6 DEF SlotInv, RouteSlot
<1>8. SeenInv(r)'
  BY <1>6 DEF SeenInv
<1>9. AheadInv(r)'
  <2>1. ASSUME NEW q \in HoldersOf(x.key)
        PROVE  q # r /\ held'[q] /\ slot'[q].key = x.key
    <3>1. q \in Requests /\ held[q] /\ slot[q].key = x.key
      BY DEF HoldersOf
    <3>2. q # r
      BY <3>1, <1>6
    <3> QED BY <3>1, <3>2, <1>1, <1>2, Known
  <2> QED BY <2>1, <1>5, <1>6 DEF AheadInv
<1>10. Steady(r)
  <2>1. ASSUME NEW q \in Requests \ {r} PROVE r \notin ahead'[q]
    <3>1. ahead'[q] = ahead[q]
      BY <1>1, Known
    <3>2. AheadInv(q)
      BY DEF CapInv, RequestInv
    <3> QED BY <3>1, <3>2, <1>6 DEF AheadInv
  <2> QED BY <2>1 DEF Steady
<1> QED BY <1>2, <1>4, <1>6, <1>7, <1>8, <1>9, <1>10, QuietKeeps DEF RouteSlot, RequestInv

LEMMA LookupKeeps ==
    ASSUME TypeOK, CapInv, NEW r \in Requests, Lookup(r)
    PROVE  TypeOK' /\ CapInv'
<1>1. /\ pc[r] = "lookup"
      /\ UNCHANGED <<total, inner, routes, counters, cells, slot, seen, held, ahead>>
  BY DEF Lookup
<1>2. ~held[r] /\ slot[r] # None /\ ~slot[r].per_caller
  BY <1>1, Known DEF SlotInv
<1>3. \/ /\ slot[r].key \in DOMAIN routes /\ arc' = [arc EXCEPT ![r] = routes[slot[r].key]]
         /\ pc' = [pc EXCEPT ![r] = "cas"]
      \/ pc' = [pc EXCEPT ![r] = "insert"] /\ arc' = arc
  BY DEF Lookup, Goto
<1>4. TypeOK'
  BY <1>1, <1>3 DEF TypeOK, Pc
<1>5. \/ /\ slot[r].key \in DOMAIN routes /\ arc'[r] = routes[slot[r].key] /\ pc'[r] = "cas"
      \/ pc'[r] = "insert"
  BY <1>3, Known
<1>6. SlotInv(r)'
  BY <1>1, <1>2, <1>5 DEF SlotInv, RouteSlot
<1>7. SeenInv(r)' /\ AheadInv(r)'
  BY <1>1, <1>2, <1>5, Known DEF SeenInv, AheadInv
<1>8. Steady(r)
  <2>1. \A q \in Requests : AheadInv(q)
    BY DEF CapInv, RequestInv
  <2> QED BY <1>1, <1>2, <2>1 DEF Steady, AheadInv
<1> QED BY <1>1, <1>2, <1>4, <1>6, <1>7, <1>8, QuietKeeps DEF RouteSlot, RequestInv, Step

LEMMA InsertKeeps ==
    ASSUME TypeOK, CapInv, NEW r \in Requests, Insert(r)
    PROVE  TypeOK' /\ CapInv'
<1> DEFINE k == slot[r].key
<1>1. /\ pc[r] = "insert" /\ pc' = [pc EXCEPT ![r] = "cas"]
      /\ UNCHANGED <<total, inner, cells, slot, seen, held, ahead>>
  BY DEF Insert, Goto
<1>2. ~held[r] /\ slot[r] # None /\ ~slot[r].per_caller /\ pc'[r] = "cas"
  BY <1>1, Known DEF SlotInv
<1>3. SeenInv(r)' /\ AheadInv(r)'
  BY <1>1, <1>2, Known DEF SeenInv, AheadInv
<1>4. Steady(r)
  <2>1. \A q \in Requests : AheadInv(q)
    BY DEF CapInv, RequestInv
  <2> QED BY <1>1, <1>2, <2>1 DEF Steady, AheadInv
<1>5. CASE k \in DOMAIN routes
  <2>1. routes' = routes /\ counters' = counters /\ arc' = [arc EXCEPT ![r] = routes[k]]
    BY <1>5 DEF Insert
  <2>2. TypeOK'
    BY <1>1, <1>5, <2>1 DEF TypeOK, Pc
  <2>3. SlotInv(r)'
    BY <1>1, <1>2, <1>5, <2>1, Known DEF SlotInv, RouteSlot
  <2> QED BY <1>1, <1>2, <1>3, <1>4, <2>1, <2>2, <2>3, QuietKeeps DEF RouteSlot, RequestInv, Step
<1>6. CASE k \notin DOMAIN routes
  <2> DEFINE n == Len(counters) + 1
  <2>1. /\ counters' = Append(counters, 0)
        /\ routes' = [x \in DOMAIN routes \cup {k} |-> IF x = k THEN n ELSE routes[x]]
        /\ arc' = [arc EXCEPT ![r] = n]
    BY <1>6 DEF Insert
  <2>2. /\ counters' \in Seq(Nat) /\ Len(counters') = n /\ counters'[n] = 0
        /\ \A i \in 1..Len(counters) : counters'[i] = counters[i]
        /\ Len(counters) \in Nat
    BY <2>1, Known
  <2>3. /\ DOMAIN routes' = DOMAIN routes \cup {k} /\ routes'[k] = n
        /\ \A x \in DOMAIN routes : routes'[x] = routes[x]
    BY <1>6, <2>1
  <2>4. \A x \in DOMAIN routes : routes[x] # n
    BY <2>2, Known
  <2>5. TypeOK'
    <3>1. \A x \in DOMAIN routes' : routes'[x] \in 1..Len(counters')
      BY <2>2, <2>3, Known
    <3>2. arc' \in [Requests -> {None} \cup 1..Len(counters')]
      <4>1. 1..Len(counters) \subseteq 1..Len(counters') /\ n \in 1..Len(counters')
        BY <2>2
      <4> QED BY <2>1, <4>1, Known
    <3>3. DOMAIN routes' \subseteq RouteKeys
      BY <1>2, <2>3, Known
    <3> QED BY <1>1, <2>2, <3>1, <3>2, <3>3 DEF TypeOK, Pc
  <2>6. SlotInv(r)'
    BY <1>1, <1>2, <2>1, <2>3, Known DEF SlotInv, RouteSlot
  <2>7. \A q \in Requests \ {r} : RequestInv(q)'
    BY <1>4, <2>3, <2>5, OthersStay DEF Step
  <2>8. \A x : RouteHolders(x)' = RouteHolders(x)
    BY <1>1 DEF RouteHolders, RouteSlot
  <2>9. RouteHolders(k) = {}
    <3>1. \A q \in Requests : RouteSlot(q) => slot[q].key \in DOMAIN routes
      BY DEF CapInv, RequestInv, SlotInv
    <3> QED BY <1>6, <3>1 DEF RouteHolders
  <2>10. RouteInv'
    <3>1. ASSUME NEW x \in DOMAIN routes', NEW y \in DOMAIN routes', routes'[x] = routes'[y]
          PROVE  x = y
      BY <2>3, <2>4, <3>1, Known DEF RouteInv
    <3>2. ASSUME NEW x \in DOMAIN routes PROVE counters'[routes'[x]] = Cardinality(RouteHolders(x))
      BY <2>2, <2>3, Known DEF RouteInv
    <3>3. counters'[routes'[k]] = Cardinality(RouteHolders(k))
      BY <2>2, <2>3, <2>9, FS_EmptySet
    <3> QED BY <2>3, <2>8, <3>1, <3>2, <3>3 DEF RouteInv
  <2>11. CellInv' /\ LaneInv'
    BY <1>1, Known, SketchStays
  <2> QED BY <1>3, <2>5, <2>6, <2>7, <2>10, <2>11 DEF CapInv, RequestInv
<1> QED BY <1>5, <1>6

LEMMA TakeRouteKeeps ==
    ASSUME TypeOK, CapInv, NEW r \in Requests, TakeRoute(r)
    PROVE  TypeOK' /\ CapInv'
<1>1. pc[r] = "cas" /\ UNCHANGED <<total, inner, routes, cells, seen, ahead>>
  BY DEF TakeRoute
<1>2. /\ ~held[r] /\ slot[r] # None /\ ~slot[r].per_caller
      /\ slot[r].key \in DOMAIN routes /\ arc[r] = routes[slot[r].key]
      /\ slot[r].max \in Nat
  BY <1>1, Known DEF SlotInv
<1>3. ~RouteSlot(r) /\ (\A row \in Rows : seen[r][row] = 0) /\ ahead[r] = {}
  BY <1>1, <1>2, Known DEF RouteSlot, SeenInv, AheadInv
<1>4. Steady(r)
  <2>1. \A q \in Requests : AheadInv(q)
    BY DEF CapInv, RequestInv
  <2> QED BY <1>1, <1>2, <2>1 DEF Steady, AheadInv
<1>5. CASE /\ counters' = [counters EXCEPT ![arc[r]] = @ + 1]
           /\ held' = [held EXCEPT ![r] = TRUE] /\ Goto(r, "breaker")
           /\ slot' = slot /\ arc' = arc
  <2>1. held'[r] = TRUE /\ pc'[r] = "breaker"
    BY <1>5, Known DEF Goto
  <2>2. RouteSlot(r)'
    BY <1>2, <1>5, <2>1 DEF RouteSlot
  <2>3. counters' \in Seq(Nat) /\ Len(counters') = Len(counters)
    BY <1>2, <1>5, Known
  <2>4. TypeOK'
    BY <1>1, <1>5, <2>3 DEF TypeOK, Goto, Pc
  <2>5. SlotInv(r)'
    BY <1>1, <1>2, <1>5, <2>1 DEF SlotInv, RouteSlot
  <2>6. SeenInv(r)'
    <3>1. 1 \in Rows
      BY AdmissionConfig DEF Rows
    <3>2. seen'[r][1] <= slot'[r].max
      BY <1>1, <1>2, <1>3, <1>5, <3>1
    <3> QED BY <1>1, <1>2, <1>3, <1>5, <3>1, <3>2 DEF SeenInv
  <2>7. AheadInv(r)'
    BY <1>1, <1>3, <2>1 DEF AheadInv
  <2>8. \A q \in Requests \ {r} : RequestInv(q)'
    BY <1>1, <1>4, <2>4, OthersStay DEF Step
  <2>9. RouteInv'
    <3>1. \A q \in Requests \ {r} : RouteSlot(q)' <=> RouteSlot(q)
      BY <1>5 DEF RouteSlot
    <3> QED BY <1>1, <1>2, <1>3, <1>5, <2>2, <3>1, Known, RouteJoins
  <2>10. CellInv' /\ LaneInv'
    BY <1>1, <1>5, Known, SketchStays
  <2> QED BY <2>4, <2>5, <2>6, <2>7, <2>8, <2>9, <2>10 DEF CapInv, RequestInv
<1>6. CASE arc' = [arc EXCEPT ![r] = None] /\ Reject(r) /\ UNCHANGED <<counters, held>>
  <2>1. held'[r] = held[r] /\ pc'[r] = "idle" /\ slot'[r] = None
    BY <1>6, Known DEF Reject, Goto
  <2>2. TypeOK'
    <3>1. None \in Slots
      BY DEF Slots
    <3> QED BY <1>1, <1>6, <3>1 DEF TypeOK, Reject, Goto, Pc
  <2>3. ~RouteSlot(r)' /\ SlotInv(r)'
    BY <1>2, <2>1 DEF SlotInv, RouteSlot
  <2>4. SeenInv(r)' /\ AheadInv(r)'
    BY <1>1, <1>2, <1>3, <2>1 DEF SeenInv, AheadInv
  <2> QED BY <1>1, <1>3, <1>4, <1>6, <2>2, <2>3, <2>4, QuietKeeps DEF RequestInv, Step
<1> QED BY <1>5, <1>6 DEF TakeRoute

\* What a caller's fetch_add in a row does to the sketch and tells the request.
LEMMA IncrCounts ==
    ASSUME TypeOK, CapInv, NEW r \in Requests, NEW i \in Rows,
           pc[r] = "incr", seen[r][i] = 0, slot' = slot,
           cells' = [cells EXCEPT ![CellOf(slot[r].key, i)] = @ + 1],
           seen' = [seen EXCEPT ![r] =
                       [seen[r] EXCEPT ![i] = cells[CellOf(slot[r].key, i)] + 1]]
    PROVE  /\ CellInv' /\ LaneInv' /\ cells' \in [Cells -> Nat]
           /\ seen' \in [Requests -> [Rows -> Nat]]
           /\ seen'[r][i] # 0 /\ \A row \in Rows : row # i => seen'[r][row] = seen[r][row]
           /\ \A row \in Rows : seen'[r][row] # 0 => Cardinality(ahead[r]) + 1 <= seen'[r][row]
<1>1. slot[r].key \in CallerKeys
  BY Known DEF SlotInv
<1>2. /\ CellInv' /\ LaneInv' /\ cells' \in [Cells -> Nat]
      /\ seen' \in [Requests -> [Rows -> Nat]]
      /\ \A T \in SUBSET InCell(CellOf(slot[r].key, i)) :
            r \notin T /\ Cardinality(T) + 1 <= seen'[r][i]
  BY <1>1, SketchJoins DEF CapInv
<1>3. /\ seen'[r][i] = cells[CellOf(slot[r].key, i)] + 1
      /\ \A row \in Rows : row # i => seen'[r][row] = seen[r][row]
  BY Known
<1>4. CellOf(slot[r].key, i) \in Cells
  BY <1>1 DEF Cells
<1>5. cells[CellOf(slot[r].key, i)] \in Nat
  BY <1>4, Known
<1>6. seen'[r][i] # 0
  BY <1>3, <1>5
<1>7. ahead[r] \in SUBSET InCell(CellOf(slot[r].key, i))
  <2> SUFFICES ASSUME NEW q \in ahead[r] PROVE q \in InCell(CellOf(slot[r].key, i))
    OBVIOUS
  <2>1. q \in Requests /\ held[q] /\ slot[q].key = slot[r].key
    BY Known DEF AheadInv
  <2>2. slot[q] # None
    BY <2>1, Known DEF SlotInv
  <2>3. slot[q].per_caller
    BY <1>1, <2>1, <2>2, Known, AdmissionConfig
  <2>4. seen[q][i] # 0
    BY <2>1, <2>3, Known DEF SeenInv
  <2> QED BY <2>1, <2>4 DEF InCell
<1>8. ASSUME NEW row \in Rows, seen'[r][row] # 0
      PROVE  Cardinality(ahead[r]) + 1 <= seen'[r][row]
  <2>1. CASE row = i
    BY <1>2, <1>7, <2>1
  <2>2. CASE row # i
    BY <1>3, <1>8, <2>2, Known DEF AheadInv
  <2> QED BY <2>1, <2>2
<1> QED BY <1>2, <1>3, <1>6, <1>8

LEMMA IncrCallerKeeps ==
    ASSUME TypeOK, CapInv, NEW r \in Requests, IncrCaller(r)
    PROVE  TypeOK' /\ CapInv'
<1>1. PICK i \in Rows :
        /\ seen[r][i] = 0 /\ \A earlier \in 1..(i - 1) : seen[r][earlier] # 0
        /\ cells' = [cells EXCEPT ![CellOf(slot[r].key, i)] = @ + 1]
        /\ seen' = [seen EXCEPT ![r] =
                       [seen[r] EXCEPT ![i] = cells[CellOf(slot[r].key, i)] + 1]]
        /\ i < Depth => pc' = pc /\ held' = held /\ ahead' = ahead
        /\ ~(i < Depth) =>
              /\ ahead' = [ahead EXCEPT ![r] = {}]
              /\ \/ /\ Estimate([seen[r] EXCEPT ![i] = cells[CellOf(slot[r].key, i)] + 1])
                          <= slot[r].max
                    /\ held' = [held EXCEPT ![r] = TRUE]
                    /\ pc' = [pc EXCEPT ![r] = "breaker"]
                 \/ held' = held /\ pc' = [pc EXCEPT ![r] = "release"]
  BY DEF IncrCaller, After, WithinMax, Goto
<1>2. pc[r] = "incr" /\ UNCHANGED <<total, inner, routes, counters, slot, arc>>
  BY DEF IncrCaller
<1>3. ~held[r] /\ slot[r] # None /\ slot[r].per_caller /\ slot[r].max \in Nat
  BY <1>2, Known DEF SlotInv
<1>4. /\ CellInv' /\ LaneInv' /\ cells' \in [Cells -> Nat]
      /\ seen' \in [Requests -> [Rows -> Nat]]
      /\ seen'[r][i] # 0 /\ \A row \in Rows : row # i => seen'[r][row] = seen[r][row]
      /\ \A row \in Rows : seen'[r][row] # 0 => Cardinality(ahead[r]) + 1 <= seen'[r][row]
  BY <1>1, <1>2, IncrCounts
<1>5. /\ pc' \in [Requests -> Pc] /\ held' \in [Requests -> BOOLEAN]
      /\ ahead' \in [Requests -> SUBSET Requests]
  BY <1>1, Known DEF Pc
<1>6. TypeOK'
  BY <1>2, <1>4, <1>5 DEF TypeOK
<1>7. Steady(r)
  <2>1. \A q \in Requests \ {r} : ahead'[q] \in SUBSET ahead[q] /\ AheadInv(q)
    BY StepIsLocal DEF CapInv, RequestInv, Step
  <2> QED BY <1>3, <2>1 DEF Steady, AheadInv
<1>8. \A q \in Requests \ {r} : RequestInv(q)'
  BY <1>2, <1>6, <1>7, OthersStay DEF Step
<1>9. RouteInv'
  <2>1. \A q \in Requests : (RouteSlot(q)' <=> RouteSlot(q)) /\ slot'[q] = slot[q]
    <3>1. ASSUME NEW q \in Requests \ {r} PROVE held'[q] = held[q]
      BY StepIsLocal DEF Mine, Step
    <3> QED BY <1>2, <1>3, <3>1 DEF RouteSlot
  <2> QED BY <1>2, <2>1, Known, RouteStays
<1>10. CASE i < Depth
  <2>1. pc' = pc /\ held' = held /\ ahead' = ahead
    BY <1>1, <1>10
  <2>2. SlotInv(r)'
    BY <1>2, <2>1, Known DEF SlotInv, RouteSlot
  <2>3. SeenInv(r)'
    BY <1>2, <1>3, <2>1 DEF SeenInv
  <2>4. AheadInv(r)'
    BY <1>2, <1>4, <2>1, Known DEF AheadInv
  <2> QED BY <1>4, <1>6, <1>8, <1>9, <2>2, <2>3, <2>4 DEF CapInv, RequestInv
<1>11. CASE ~(i < Depth)
  <2>1. \A row \in Rows : seen'[r][row] # 0
    <3>1. ASSUME NEW row \in Rows, row # i PROVE row \in 1..(i - 1)
      BY <1>11, <3>1, AdmissionConfig DEF Rows
    <3> QED BY <1>1, <1>4, <3>1
  <2>2. ahead'[r] = {}
    BY <1>1, <1>11, Known
  <2>3. AheadInv(r)'
    <3>1. pc'[r] # "incr"
      BY <1>1, <1>11, Known
    <3> QED BY <2>2, <3>1 DEF AheadInv
  <2>4. CASE /\ Estimate([seen[r] EXCEPT ![i] = cells[CellOf(slot[r].key, i)] + 1]) <= slot[r].max
             /\ held' = [held EXCEPT ![r] = TRUE] /\ pc' = [pc EXCEPT ![r] = "breaker"]
    <3>1. held'[r] /\ pc'[r] = "breaker"
      BY <2>4, Known
    <3>2. SlotInv(r)'
      BY <1>2, <1>3, <3>1 DEF SlotInv, RouteSlot
    <3>3. \E row \in Rows : seen'[r][row] <= slot'[r].max
      <4>1. seen'[r] = [seen[r] EXCEPT ![i] = cells[CellOf(slot[r].key, i)] + 1]
            /\ seen'[r] \in [Rows -> Nat]
        BY <1>1, <1>4, Known
      <4>2. PICK row \in Rows : Estimate(seen'[r]) = seen'[r][row]
        BY <4>1, EstimateSeen
      <4> QED BY <1>2, <2>4, <4>1, <4>2
    <3>4. SeenInv(r)'
      BY <1>2, <1>3, <2>1, <3>1, <3>3 DEF SeenInv
    <3> QED BY <1>4, <1>6, <1>8, <1>9, <2>3, <3>2, <3>4 DEF CapInv, RequestInv
  <2>5. CASE held' = held /\ pc' = [pc EXCEPT ![r] = "release"]
    <3>1. ~held'[r] /\ pc'[r] = "release"
      BY <1>3, <2>5, Known
    <3>2. SlotInv(r)' /\ SeenInv(r)'
      BY <1>2, <1>3, <3>1 DEF SlotInv, RouteSlot, SeenInv
    <3> QED BY <1>4, <1>6, <1>8, <1>9, <2>3, <3>2 DEF CapInv, RequestInv
  <2> QED BY <1>1, <1>11, <2>4, <2>5
<1> QED BY <1>10, <1>11

LEMMA ReleaseCallerKeeps ==
    ASSUME TypeOK, CapInv, NEW r \in Requests, ReleaseCaller(r)
    PROVE  TypeOK' /\ CapInv'
<1>1. PICK i \in Rows :
        /\ seen[r][i] # 0 /\ \A earlier \in 1..(i - 1) : seen[r][earlier] = 0
        /\ cells' = [cells EXCEPT ![CellOf(slot[r].key, i)] = @ - 1]
        /\ seen' = [seen EXCEPT ![r][i] = 0]
        /\ i = Depth => pc' = [pc EXCEPT ![r] = "idle"] /\ slot' = [slot EXCEPT ![r] = None]
        /\ i # Depth => pc' = pc /\ slot' = slot
  BY DEF ReleaseCaller, Reject, Goto
<1>2. /\ pc[r] = "release"
      /\ UNCHANGED <<total, inner, routes, counters, arc, held, ahead>>
  BY DEF ReleaseCaller
<1>3. /\ ~held[r] /\ slot[r] # None /\ slot[r].per_caller /\ slot[r].key \in CallerKeys
      /\ ahead[r] = {}
  BY <1>2, Known DEF SlotInv, AheadInv
<1>4. seen'[r][i] = 0 /\ \A row \in Rows : row # i => seen'[r][row] = seen[r][row]
  BY <1>1, Known
<1>5. \A q \in Requests, row \in Rows : seen'[q][row] # 0 => slot'[q] = slot[q]
  <2>1. CASE i = Depth
    <3>1. \A row \in Rows : seen'[r][row] = 0
      <4>1. ASSUME NEW row \in Rows, row # i PROVE row \in 1..(i - 1)
        BY <2>1, <4>1, AdmissionConfig DEF Rows
      <4> QED BY <1>1, <1>4, <4>1
    <3>2. \A q \in Requests \ {r} : slot'[q] = slot[q]
      BY <1>1, <2>1, Known
    <3> QED BY <3>1, <3>2
  <2>2. CASE i # Depth
    BY <1>1, <2>2
  <2> QED BY <2>1, <2>2
<1>6. /\ CellInv' /\ LaneInv' /\ cells' \in [Cells -> Nat]
      /\ seen' \in [Requests -> [Rows -> Nat]]
  BY <1>1, <1>3, <1>5, SketchLeaves DEF CapInv
<1>7. TypeOK'
  <2>1. None \in Slots
    BY DEF Slots
  <2>2. pc' \in [Requests -> Pc] /\ slot' \in [Requests -> Slots]
    BY <1>1, <2>1, Known DEF Pc
  <2> QED BY <1>2, <1>6, <2>2 DEF TypeOK
<1>8. Steady(r)
  <2>1. \A q \in Requests : AheadInv(q)
    BY DEF CapInv, RequestInv
  <2> QED BY <1>2, <1>3, <2>1 DEF Steady, AheadInv
<1>9. \A q \in Requests \ {r} : RequestInv(q)'
  BY <1>2, <1>7, <1>8, OthersStay DEF Step
<1>10. RouteInv'
  <2>1. \A q \in Requests \ {r} : slot'[q] = slot[q]
    BY StepIsLocal DEF Mine, Step
  <2>2. \A q \in Requests : /\ RouteSlot(q)' <=> RouteSlot(q)
                            /\ RouteSlot(q) => slot'[q] = slot[q]
    BY <1>2, <1>3, <2>1 DEF RouteSlot
  <2> QED BY <1>2, <2>2, Known, RouteStays
<1>11. pc'[r] \in {"idle", "release"} /\ (pc'[r] = "idle" => slot'[r] = None)
       /\ (pc'[r] = "release" => slot'[r] = slot[r])
  BY <1>1, <1>2, Known
<1>12. SlotInv(r)'
  BY <1>2, <1>3, <1>11 DEF SlotInv, RouteSlot
<1>13. SeenInv(r)'
  <2>1. ASSUME NEW row \in Rows, seen'[r][row] # 0 PROVE pc'[r] = "release"
    BY <1>3, <1>5, <1>11, <2>1
  <2> QED BY <1>2, <1>3, <2>1 DEF SeenInv
<1>14. AheadInv(r)'
  BY <1>2, <1>3, <1>11 DEF AheadInv
<1> QED BY <1>6, <1>7, <1>9, <1>10, <1>12, <1>13, <1>14 DEF CapInv, RequestInv

LEMMA ExchangeKeeps ==
    ASSUME TypeOK, CapInv, NEW r \in Requests,
           AskBreaker(r) \/ LogForwarded(r) \/ Expire(r)
    PROVE  TypeOK' /\ CapInv'
<1>1. UNCHANGED <<total, routes, counters, cells, slot, arc, seen, held, ahead>>
  BY DEF AskBreaker, LogForwarded, Expire
<1>2. PICK to \in {"running", "ended"} :
        pc' = [pc EXCEPT ![r] = to] /\ pc[r] \in {"breaker", "running"}
  BY DEF AskBreaker, LogForwarded, Expire, Goto
<1>3. inner' \in Inner
  <2>1. CASE AskBreaker(r)
    <3>1. PICK t \in {0, Cooldown} : inner' = AllowAt(inner, t)
      BY <2>1 DEF AskBreaker
    <3>2. t \in Nat
      BY BreakerConfig
    <3> QED BY <3>1, <3>2, Known, MethodsTyped
  <2>2. CASE LogForwarded(r)
    BY <2>2, Known, MethodsTyped DEF LogForwarded
  <2>3. CASE Expire(r)
    BY <2>3, Known DEF Expire
  <2> QED BY <2>1, <2>2, <2>3
<1>4. TypeOK'
  BY <1>1, <1>2, <1>3 DEF TypeOK, Pc
<1>5. pc'[r] = to
  BY <1>2, Known
<1>6. SlotInv(r)' /\ SeenInv(r)' /\ AheadInv(r)'
  BY <1>1, <1>2, <1>5, Known DEF SlotInv, RouteSlot, SeenInv, AheadInv
<1>7. Steady(r)
  <2>1. \A q \in Requests : AheadInv(q)
    BY DEF CapInv, RequestInv
  <2> QED BY <1>1, <2>1 DEF Steady, AheadInv
<1> QED BY <1>1, <1>4, <1>6, <1>7, QuietKeeps DEF RouteSlot, RequestInv, Step

LEMMA DropCtxKeeps ==
    ASSUME TypeOK, CapInv, NEW r \in Requests, DropCtx(r)
    PROVE  TypeOK' /\ CapInv'
<1>1. /\ pc[r] = "ended" /\ UNCHANGED <<total, inner, routes, cells, seen>>
      /\ held' = [held EXCEPT ![r] = FALSE] /\ arc' = [arc EXCEPT ![r] = None]
      /\ ahead' = [q \in Requests |-> ahead[q] \ {r}]
  BY DEF DropCtx
<1>2. \/ /\ held[r] /\ slot[r].per_caller
         /\ pc' = [pc EXCEPT ![r] = "release"] /\ slot' = slot
      \/ /\ ~(held[r] /\ slot[r].per_caller)
         /\ pc' = [pc EXCEPT ![r] = "idle"] /\ slot' = [slot EXCEPT ![r] = None]
  BY DEF DropCtx, Goto
<1>3. ~held'[r] /\ ahead'[r] = {}
  BY <1>1, Known DEF AheadInv
<1>4. ~RouteSlot(r)'
  BY <1>3 DEF RouteSlot
<1>5. pc'[r] \in {"release", "idle"}
  BY <1>2, Known
<1>6. SlotInv(r)'
  BY <1>2, <1>3, <1>4, Known DEF SlotInv
<1>7. SeenInv(r)'
  <2>1. ASSUME NEW row \in Rows, seen[r][row] # 0 PROVE pc'[r] = "release"
    BY <1>1, <1>2, <2>1, Known DEF SeenInv
  <2> QED BY <1>1, <1>3, <2>1 DEF SeenInv
<1>8. AheadInv(r)'
  BY <1>3, <1>5 DEF AheadInv
<1>9. Steady(r)
  BY <1>1 DEF Steady
<1>10. ASSUME counters' \in Seq(Nat), Len(counters') = Len(counters) PROVE TypeOK'
  <2>1. None \in Slots
    BY DEF Slots
  <2>t. pc \in [Requests -> Pc] /\ slot \in [Requests -> Slots]
    BY DEF TypeOK
  <2>2. pc' \in [Requests -> Pc] /\ slot' \in [Requests -> Slots]
    <3>1. CASE slot' = slot /\ pc' = [pc EXCEPT ![r] = "release"]
      BY <2>t, <3>1 DEF Pc
    <3>2. CASE slot' = [slot EXCEPT ![r] = None] /\ pc' = [pc EXCEPT ![r] = "idle"]
      BY <2>t, <2>1, <3>2 DEF Pc
    <3> QED BY <1>2, <3>1, <3>2
  <2>3. ahead' \in [Requests -> SUBSET Requests]
    BY <1>1, Known
  <2> QED BY <1>1, <1>10, <2>2, <2>3 DEF TypeOK
<1>11. \A row \in Rows : seen[r][row] # 0 => slot'[r] = slot[r]
  BY <1>1, <1>2, Known DEF SeenInv
<1>12. CASE held[r] /\ ~slot[r].per_caller
  <2>1. PICK k \in DOMAIN routes : k = slot[r].key /\ arc[r] = routes[k]
    BY <1>12, Known DEF SlotInv, RouteSlot
  <2>2. counters' = [counters EXCEPT ![routes[k]] = @ - 1]
    BY <1>12, <2>1 DEF DropCtx
  <2>3. \A q \in Requests \ {r} : (RouteSlot(q)' <=> RouteSlot(q)) /\ slot'[q] = slot[q]
    <3>1. \A q \in Requests \ {r} : held'[q] = held[q] /\ slot'[q] = slot[q]
      BY StepIsLocal DEF Mine, Step
    <3> QED BY <3>1 DEF RouteSlot
  <2>4. RouteInv' /\ counters[routes[k]] >= 1
    <3>1. RouteSlot(r)
      BY <1>12 DEF RouteSlot
    <3> QED BY <1>1, <1>4, <2>1, <2>2, <2>3, <3>1, Known, RouteLeaves
  <2>5. counters' \in Seq(Nat) /\ Len(counters') = Len(counters)
    BY <2>1, <2>2, <2>4, Known
  <2>6. TypeOK'
    BY <1>10, <2>5
  <2>7. \A q \in Requests \ {r} : RequestInv(q)'
    BY <1>1, <1>9, <2>6, OthersStay DEF Step
  <2>8. CellInv' /\ LaneInv'
    BY <1>1, <1>11, <2>3, Known, SketchStays
  <2> QED BY <1>6, <1>7, <1>8, <2>4, <2>6, <2>7, <2>8 DEF CapInv, RequestInv
<1>13. CASE ~(held[r] /\ ~slot[r].per_caller)
  <2>1. counters' = counters
    BY <1>13 DEF DropCtx
  <2>2. TypeOK'
    BY <1>10, <2>1, Known
  <2> QED BY <1>1, <1>4, <1>6, <1>7, <1>8, <1>9, <1>11, <1>13, <2>1, <2>2, QuietKeeps
          DEF RouteSlot, RequestInv, Step
<1> QED BY <1>12, <1>13

\* Every step keeps the types and the counts.
LEMMA CapInvStep ==
    ASSUME TypeOK, CapInv, NEW r \in Requests, Arrive(r) \/ Step(r)
    PROVE  TypeOK' /\ CapInv'
BY ArriveKeeps, LookupKeeps, InsertKeeps, TakeRouteKeeps, IncrCallerKeeps,
   ReleaseCallerKeeps, ExchangeKeeps, DropCtxKeeps DEF Step

LEMMA CapInit ==
    ASSUME Init
    PROVE  TypeOK /\ CapInv
<1>1. TypeOK
  <2>1. None \in Slots /\ NewBreaker(0) \in Inner
    BY DEF Slots, NewBreaker, Inner, State
  <2> QED BY <2>1 DEF Init, TypeOK, Pc
<1>2. ASSUME NEW r \in Requests PROVE RequestInv(r)
  BY DEF Init, RequestInv, SlotInv, SeenInv, AheadInv, RouteSlot
<1>3. RouteInv
  BY DEF Init, RouteInv
<1>4. CellInv
  <2>1. \A c : InCell(c) = {}
    BY DEF Init, InCell
  <2> QED BY <2>1, FS_EmptySet DEF Init, CellInv
<1>5. LaneInv
  <2>1. \A k : \A row \in Rows : InRow(k, row) = {}
    BY DEF Init, InRow
  <2> QED BY <2>1 DEF LaneInv
<1> QED BY <1>1, <1>2, <1>3, <1>4, <1>5 DEF CapInv

\* The counters agree with those they count throughout.
LEMMA CapInvariant == Spec => [](TypeOK /\ CapInv)
<1>1. TypeOK /\ CapInv /\ [Next]_vars => TypeOK' /\ CapInv'
  <2> SUFFICES ASSUME TypeOK, CapInv, [Next]_vars PROVE TypeOK' /\ CapInv'
    OBVIOUS
  <2>1. CASE Next
    BY <2>1, CapInvStep DEF Next
  <2>2. CASE UNCHANGED vars
    <3>1. TypeOK'
      BY <2>2 DEF vars, TypeOK
    <3>2. \A r \in Requests : RequestInv(r)'
      BY <2>2 DEF vars, CapInv, RequestInv, SlotInv, RouteSlot, SeenInv, AheadInv
    <3>3. RouteInv'
      BY <2>2 DEF vars, CapInv, RouteInv, RouteHolders, RouteSlot
    <3>4. CellInv'
      BY <2>2 DEF vars, CapInv, CellInv, InCell
    <3>5. LaneInv'
      BY <2>2 DEF vars, CapInv, LaneInv, InRow, Witnessed
    <3> QED BY <3>1, <3>2, <3>3, <3>4, <3>5 DEF CapInv
  <2> QED BY <2>1, <2>2
<1> QED BY <1>1, CapInit, PTL DEF Spec

\* The state of the caps and of the breaker stays well typed: no counter of a route
\* and no cell of the sketch goes below zero.
THEOREM AdmissionTypeCorrect == Spec => []TypeOK
BY CapInvariant, PTL

-----------------------------------------------------------------------------
(***************************************************************************)
(* The refinement of SlotPool                                              *)
(***************************************************************************)

\* The refinement mapping.
Statuses == [r \in Requests |-> Status(r)]

\* What a request's status is.
LEMMA StatusIs ==
    ASSUME NEW r
    PROVE  /\ held[r] => Status(r) = [state |-> "holds", key |-> slot[r].key,
                                      max |-> slot[r].max, lane |-> Lane(r)]
           /\ ~held[r] /\ pc[r] \in Asking =>
                 Status(r) = [state |-> "asks", key |-> slot[r].key,
                              max |-> slot[r].max, ahead |-> ahead[r]]
           /\ ~held[r] /\ pc[r] = "release" => Status(r) = [state |-> "leaves"]
           /\ ~held[r] /\ pc[r] \notin Asking \cup {"release"} =>
                 Status(r) = [state |-> "idle"]
<1>1. ASSUME held[r]
      PROVE  Status(r) = [state |-> "holds", key |-> slot[r].key, max |-> slot[r].max,
                          lane |-> Lane(r)]
  BY <1>1 DEF Status
<1>2. ASSUME ~held[r], pc[r] \in Asking
      PROVE  Status(r) = [state |-> "asks", key |-> slot[r].key, max |-> slot[r].max,
                          ahead |-> ahead[r]]
  BY <1>2 DEF Status, Asking
<1>3. ASSUME ~held[r], pc[r] = "release" PROVE Status(r) = [state |-> "leaves"]
  BY <1>3 DEF Status, Asking
<1>4. ASSUME ~held[r], pc[r] \notin Asking \cup {"release"}
      PROVE  Status(r) = [state |-> "idle"]
  BY <1>4 DEF Status
<1> QED BY <1>1, <1>2, <1>3, <1>4

\* A request whose own state does not change keeps its place in the pool, but for who
\* is ahead of it.
LEMMA StatusStable ==
    ASSUME NEW q, Mine(q)' = Mine(q), ahead'[q] = ahead[q]
    PROVE  Status(q)' = Status(q)
<1>1. pc'[q] = pc[q] /\ slot'[q] = slot[q] /\ held'[q] = held[q] /\ seen'[q] = seen[q]
  BY DEF Mine
<1>2. Lane(q)' = Lane(q)
  BY <1>1 DEF Lane
<1> QED BY <1>1, <1>2 DEF Status

\* A holder's lane is a row in which it saw no more than its cap.
LEMMA LaneIs ==
    ASSUME NEW q, SeenInv(q), held[q]
    PROVE  Lane(q) \in Rows /\ seen[q][Lane(q)] <= slot[q].max
BY DEF SeenInv, Lane

\* The holders of a key, as SlotPool counts them.
LEMMA HoldersAre ==
    ASSUME TypeOK, CapInv
    PROVE  /\ \A k : Pool!Holders(k) = HoldersOf(k)
           /\ \A k \in RouteKeys : Pool!Holders(k) = RouteHolders(k)
           /\ \A q \in Requests : held[q] => Statuses[q].max = slot[q].max
                                             /\ Statuses[q].lane = Lane(q)
<1>1. \A q \in Requests : Statuses[q] = Status(q)
  BY DEF Statuses
<1>2. ASSUME NEW k, NEW q \in Requests
      PROVE  Statuses[q].state = "holds" /\ Statuses[q].key = k <=> held[q] /\ slot[q].key = k
  <2>1. CASE held[q]
    BY <1>1, <2>1, StatusIs
  <2>2. CASE ~held[q]
    <3>1. Statuses[q].state \in {"asks", "leaves", "idle"}
      BY <1>1, <2>2, StatusIs
    <3> QED BY <2>2, <3>1
  <2> QED BY <2>1, <2>2
<1>3. \A k : Pool!Holders(k) = HoldersOf(k)
  BY <1>2 DEF Pool!Holders, Statuses, HoldersOf
<1>4. ASSUME NEW k \in RouteKeys, NEW q \in Requests, held[q], slot[q].key = k
      PROVE  ~slot[q].per_caller
  <2>1. slot[q] # None
    BY <1>4, Known DEF SlotInv
  <2> QED BY <1>4, <2>1, Known, AdmissionConfig
<1>5. \A k \in RouteKeys : Pool!Holders(k) = RouteHolders(k)
  BY <1>3, <1>4 DEF HoldersOf, RouteHolders, RouteSlot
<1>6. ASSUME NEW q \in Requests, held[q]
      PROVE  Statuses[q].max = slot[q].max /\ Statuses[q].lane = Lane(q)
  BY <1>1, <1>6, StatusIs
<1> QED BY <1>3, <1>5, <1>6

\* Both modules count alike.
LEMMA SameCount == \A S : Pool!Cardinality(S) = Cardinality(S)
BY DEF Pool!Cardinality, Cardinality

\* A request that only its own status changes.
LEMMA OneMoves ==
    ASSUME NEW r \in Requests, NEW x, Status(r)' = x,
           \A q \in Requests \ {r} : Status(q)' = Status(q)
    PROVE  Statuses' = [Statuses EXCEPT ![r] = x]
BY DEF Statuses

LEMMA NoneMoves ==
    ASSUME \A q \in Requests : Status(q)' = Status(q)
    PROVE  Statuses' = Statuses
BY DEF Statuses

\* Every step of a request but the last leaves who is ahead of the others alone.
LEMMA OthersStatus ==
    ASSUME TypeOK, NEW r \in Requests, Arrive(r) \/ Step(r), ~DropCtx(r)
    PROVE  \A q \in Requests \ {r} : Status(q)' = Status(q)
<1> SUFFICES ASSUME NEW q \in Requests \ {r} PROVE Status(q)' = Status(q)
  OBVIOUS
<1>1. ahead'[q] = ahead[q]
  BY DEF TypeOK, Step, Arrive, Lookup, Insert, TakeRoute, IncrCaller, ReleaseCaller,
         AskBreaker, LogForwarded, Expire
<1> QED BY <1>1, StepIsLocal, StatusStable

\* A caller's request passes in its lane: those that came through it under caps of at
\* most n are fewer than n.
LEMMA LaneHasRoom ==
    ASSUME TypeOK, CapInv, LaneInv', NEW r \in Requests, ~held[r], slot' = slot,
           NEW k \in CallerKeys, k = slot[r].key,
           NEW lane \in Rows, seen' \in [Requests -> [Rows -> Nat]],
           seen'[r][lane] # 0, seen'[r][lane] <= slot[r].max,
           \A q \in Requests \ {r} : seen'[q] = seen[q],
           NEW n \in Nat, slot[r].max <= n, slot[r].max \in Nat
    PROVE  Cardinality(Pool!Through(k, lane, n)) < n
<1>t. PICK T : T = Pool!Through(k, lane, n)
  OBVIOUS
<1>1. ASSUME NEW q \in T
      PROVE  /\ q \in Requests /\ held[q] /\ slot[q].key = k /\ q # r
             /\ slot[q].max <= n /\ slot[q].max \in Nat /\ slot[q] # None
             /\ Lane(q) = lane
  <2>1. q \in Pool!Holders(k) /\ Statuses[q].lane = lane /\ Statuses[q].max <= n
    BY <1>t DEF Pool!Through, Statuses
  <2>2. q \in Requests /\ held[q] /\ slot[q].key = k
    BY <2>1, HoldersAre DEF HoldersOf
  <2>3. slot[q] # None
    BY <2>2, Known DEF SlotInv
  <2> QED BY <2>1, <2>2, <2>3, HoldersAre, Known
<1>2. ASSUME NEW q \in T
      PROVE  /\ seen'[q][lane] # 0 /\ seen'[q][lane] <= n /\ seen'[q][lane] \in Nat
  <2>1. q \in Requests \ {r} /\ held[q] /\ SeenInv(q) /\ slot[q].max <= n /\ slot[q].max \in Nat
    BY <1>1, Known
  <2>2. slot[q].per_caller
    BY <1>1, Known, AdmissionConfig
  <2>3. seen[q][lane] # 0 /\ seen[q][lane] <= slot[q].max
    BY <1>1, <2>1, <2>2, LaneIs DEF SeenInv
  <2>4. seen'[q] = seen[q] /\ seen[q][lane] \in Nat
    BY <2>1, Known
  <2> QED BY <2>1, <2>3, <2>4
<1>3. T \cup {r} \in SUBSET InRow(k, lane)'
  BY <1>1, <1>2 DEF InRow
<1>4. Witnessed(lane, T \cup {r})'
  BY <1>3 DEF LaneInv
<1>5. PICK x \in T \cup {r} : Cardinality(T \cup {r}) <= seen'[x][lane]
  BY <1>4 DEF Witnessed
<1>6. seen'[x][lane] <= n /\ seen'[x][lane] \in Nat
  <2>1. CASE x = r
    BY <2>1
  <2>2. CASE x \in T
    BY <1>2, <2>2
  <2> QED BY <2>1, <2>2
<1>7. Cardinality(T \cup {r}) = Cardinality(T) + 1 /\ Cardinality(T) \in Nat
  <2>1. T \in SUBSET Requests /\ r \in Requests \ T
    BY <1>1
  <2> QED BY <2>1, Sizes
<1> QED BY <1>t, <1>5, <1>6, <1>7

\* Whoever is counted in the sketch is one of those that SlotPool says it may count.
LEMMA CountedArePresent ==
    ASSUME TypeOK, CapInv, NEW r \in Requests, NEW c, r \notin InCell(c)
    PROVE  Cardinality(InCell(c)) <= Cardinality(Pool!Present \ {r})
<1>1. ASSUME NEW q \in InCell(c) PROVE q \in Pool!Present \ {r}
  <2>1. q \in Requests /\ Statuses[q] = Status(q) /\ q # r
    BY <1>1 DEF InCell, Statuses
  <2>2. PICK row \in Rows : seen[q][row] # 0
    BY <1>1 DEF InCell
  <2>3. pc[q] \in {"incr", "release"} \/ (held[q] /\ slot[q].per_caller)
    BY <2>1, <2>2, Known DEF SeenInv
  <2>4. CASE held[q] /\ slot[q].per_caller
    <3>1. slot[q] # None
      BY <2>1, <2>4, Known DEF SlotInv
    <3>2. slot[q].key \in CallerKeys
      BY <2>1, <2>4, <3>1, Known
    <3>3. Statuses[q].state = "holds" /\ Statuses[q].key = slot[q].key
      BY <2>1, <2>4, StatusIs
    <3> QED BY <2>1, <3>2, <3>3 DEF Pool!Present, Statuses
  <2>5. CASE pc[q] = "incr"
    <3>1. ~held[q] /\ slot[q] # None /\ slot[q].per_caller
      BY <2>1, <2>5, Known DEF SlotInv
    <3>2. slot[q].key \in CallerKeys
      BY <2>1, <3>1, Known
    <3>3. Statuses[q].state = "asks" /\ Statuses[q].key = slot[q].key
      BY <2>1, <2>5, <3>1, StatusIs DEF Asking
    <3> QED BY <2>1, <3>2, <3>3 DEF Pool!Present, Statuses
  <2>6. CASE pc[q] = "release"
    <3>1. ~held[q]
      BY <2>1, <2>6, Known DEF SlotInv
    <3>2. Statuses[q] = [state |-> "leaves"]
      BY <2>1, <2>6, <3>1, StatusIs
    <3> QED BY <2>1, <3>2 DEF Pool!Present, Pool!Leaving, Statuses
  <2> QED BY <2>3, <2>4, <2>5, <2>6
<1>2. InCell(c) \in SUBSET (Pool!Present \ {r}) /\ Pool!Present \ {r} \in SUBSET Requests
  BY <1>1 DEF Pool!Present
<1> QED BY <1>2, Sizes

\* A caller's request that is counted in its last row takes a slot or is refused.
LEMMA CallerStep ==
    ASSUME TypeOK, CapInv, NEW r \in Requests, IncrCaller(r)
    PROVE  [Pool!Next]_Statuses
<1> DEFINE k == slot[r].key
           max == slot[r].max
<1>1. PICK i \in Rows :
        /\ seen[r][i] = 0 /\ \A earlier \in 1..(i - 1) : seen[r][earlier] # 0
        /\ cells' = [cells EXCEPT ![CellOf(slot[r].key, i)] = @ + 1]
        /\ seen' = [seen EXCEPT ![r] =
                       [seen[r] EXCEPT ![i] = cells[CellOf(slot[r].key, i)] + 1]]
        /\ i < Depth => pc' = pc /\ held' = held /\ ahead' = ahead
        /\ ~(i < Depth) =>
              \/ /\ Estimate([seen[r] EXCEPT ![i] = cells[CellOf(slot[r].key, i)] + 1])
                       <= slot[r].max
                 /\ held' = [held EXCEPT ![r] = TRUE]
                 /\ pc' = [pc EXCEPT ![r] = "breaker"]
              \/ /\ ~(Estimate([seen[r] EXCEPT ![i] = cells[CellOf(slot[r].key, i)] + 1])
                         <= slot[r].max)
                 /\ held' = held /\ pc' = [pc EXCEPT ![r] = "release"]
  BY DEF IncrCaller, After, WithinMax, Goto
<1>2. pc[r] = "incr" /\ slot' = slot
  BY DEF IncrCaller
<1>3. /\ ~held[r] /\ slot[r] # None /\ k \in CallerKeys /\ max \in Caps[k] /\ max \in Nat
      /\ k \notin RouteKeys
  BY <1>2, Known, AdmissionConfig DEF SlotInv
<1>4. Statuses[r] = [state |-> "asks", key |-> k, max |-> max, ahead |-> ahead[r]]
  BY <1>2, <1>3, StatusIs DEF Statuses, Asking
<1>o. \A q \in Requests \ {r} : Status(q)' = Status(q)
  BY <1>2, OthersStatus DEF Step, DropCtx
<1>5. CASE i < Depth
  <2>1. Status(r)' = Status(r)
    BY <1>1, <1>2, <1>3, <1>5 DEF Status, Asking
  <2> QED BY <1>o, <2>1, NoneMoves
<1>6. CASE /\ ~(i < Depth)
           /\ Estimate([seen[r] EXCEPT ![i] = cells[CellOf(slot[r].key, i)] + 1]) <= max
           /\ held' = [held EXCEPT ![r] = TRUE] /\ pc' = [pc EXCEPT ![r] = "breaker"]
  <2>1. TypeOK' /\ CapInv' /\ held'[r]
    BY <1>6, IncrCallerKeeps, Known
  <2>2. PICK lane \in Rows : lane = Lane(r)' /\ seen'[r][lane] <= max
    <3>1. SeenInv(r)'
      BY <2>1 DEF CapInv, RequestInv
    <3>2. Lane(r)' \in Rows /\ seen'[r][Lane(r)'] <= slot'[r].max
      BY <2>1, <3>1 DEF SeenInv, Lane
    <3> QED BY <1>2, <3>2
  <2>3. Status(r)' = [state |-> "holds", key |-> k, max |-> max, lane |-> lane]
    BY <1>2, <2>1, <2>2 DEF Status
  <2>4. /\ LaneInv' /\ seen' \in [Requests -> [Rows -> Nat]]
        /\ \A row \in Rows : seen'[r][row] # 0 => Cardinality(ahead[r]) + 1 <= seen'[r][row]
    BY <1>1, <1>2, IncrCounts
  <2>5. seen'[r][lane] # 0
    <3>1. SeenInv(r)' /\ slot'[r].per_caller
      BY <1>2, <2>1, Known DEF CapInv, RequestInv, SlotInv
    <3> QED BY <2>1, <3>1 DEF SeenInv
  <2>6. Cardinality(ahead[r]) < max
    <3>1. Cardinality(ahead[r]) \in Nat /\ seen'[r][lane] \in Nat
      BY <2>4, Known, Sizes
    <3> QED BY <1>3, <2>2, <2>4, <2>5, <3>1
  <2>7. ASSUME NEW n \in Caps[k], max <= n
        PROVE  Cardinality(Pool!Through(k, lane, n)) < n
    <3>1. n \in Nat
      BY <1>3, AdmissionConfig
    <3>2. \A q \in Requests \ {r} : seen'[q] = seen[q]
      BY <1>1, Known
    <3> QED BY <1>2, <1>3, <2>2, <2>4, <2>5, <2>7, <3>1, <3>2, LaneHasRoom
  <2>8. Statuses' = [Statuses EXCEPT ![r] =
                        [state |-> "holds", key |-> k, max |-> max, lane |-> lane]]
    BY <1>o, <2>3, OneMoves
  <2>9. Pool!Take(r)
    <3>1. /\ Statuses[r].state = "asks" /\ Statuses[r].key = k /\ Statuses[r].max = max
          /\ Statuses[r].ahead = ahead[r]
      BY <1>4
    <3>2. Pool!Cardinality(ahead[r]) < max
      BY <2>6, SameCount
    <3>3. \A n \in Caps[k] : max <= n => Pool!Cardinality(Pool!Through(k, lane, n)) < n
      BY <2>7, SameCount
    <3>4. Pool!Set(r, [state |-> "holds", key |-> k, max |-> max, lane |-> lane])
      BY <2>8 DEF Pool!Set, Statuses
    <3>5. \E l \in Rows :
             /\ \A n \in Caps[k] : max <= n => Pool!Cardinality(Pool!Through(k, l, n)) < n
             /\ Pool!Set(r, [state |-> "holds", key |-> k, max |-> max, lane |-> l])
      BY <3>3, <3>4
    <3> QED BY <1>3, <3>1, <3>2, <3>5 DEF Pool!Take, Statuses
  <2> QED BY <2>9 DEF Pool!Next
<1>7. CASE /\ ~(i < Depth)
           /\ ~(Estimate([seen[r] EXCEPT ![i] = cells[CellOf(slot[r].key, i)] + 1]) <= max)
           /\ held' = held /\ pc' = [pc EXCEPT ![r] = "release"]
  <2>1. Status(r)' = [state |-> "leaves"]
    BY <1>3, <1>7, Known DEF Status, Asking
  <2>2. Statuses' = [Statuses EXCEPT ![r] = [state |-> "leaves"]]
    BY <1>o, <2>1, OneMoves
  <2>3. PICK c \in Cells : c = CellOf(k, i)
    BY <1>3 DEF Cells
  <2>4. PICK v \in [Rows -> Nat] : v = [seen[r] EXCEPT ![i] = cells[c] + 1]
    <3>1. seen[r] \in [Rows -> Nat] /\ cells[c] \in Nat
      BY Known
    <3>2. [seen[r] EXCEPT ![i] = cells[c] + 1] \in [Rows -> Nat]
      BY <3>1
    <3> QED BY <3>2
  <2>5. Estimate(v) \in Nat /\ Estimate(v) <= v[i] /\ v[i] = cells[c] + 1
    <3>1. Estimate(v) <= v[i] /\ \E row \in Rows : Estimate(v) = v[row]
      BY EstimateSeen
    <3>2. v[i] = cells[c] + 1
      BY <2>4, Known
    <3> QED BY <3>1, <3>2
  <2>6. ~(Estimate(v) <= max)
    BY <1>7, <2>3, <2>4
  <2>7. cells[c] = Cardinality(InCell(c)) /\ r \notin InCell(c)
    <3>1. cells[c] = Cardinality(InCell(c))
      BY Known DEF CapInv, CellInv
    <3>2. r \notin InCell(c)
      BY <1>1, <2>3, CellsApart DEF InCell
    <3> QED BY <3>1, <3>2
  <2>8. Cardinality(Pool!Present \ {r}) >= max
    <3>1. Cardinality(InCell(c)) <= Cardinality(Pool!Present \ {r})
      BY <2>7, CountedArePresent
    <3>2. Cardinality(Pool!Present \ {r}) \in Nat
      <4>1. Pool!Present \ {r} \in SUBSET Requests
        BY DEF Pool!Present
      <4> QED BY <4>1, Sizes
    <3>3. cells[c] \in Nat
      BY Known
    <3> QED BY <1>3, <2>5, <2>6, <2>7, <3>1, <3>2, <3>3
  <2>9. Pool!Refuse(r)
    <3>1. Statuses[r].state = "asks" /\ Statuses[r].key = k /\ Statuses[r].max = max
      BY <1>4
    <3>2. Pool!Cardinality(Pool!Present \ {r}) >= max
      BY <2>8, SameCount
    <3>3. Pool!Set(r, Pool!Gone(k))
      BY <1>3, <2>2 DEF Pool!Set, Pool!Gone, Pool!Leaving, Statuses
    <3> QED BY <1>3, <3>1, <3>2, <3>3 DEF Pool!Refuse, Statuses
  <2> QED BY <2>9 DEF Pool!Next
<1> QED BY <1>1, <1>5, <1>6, <1>7

\* Every step of a request is a step of SlotPool or none.
LEMMA PoolStep ==
    ASSUME TypeOK, CapInv, NEW r \in Requests, Arrive(r) \/ Step(r)
    PROVE  [Pool!Next]_Statuses
<1>s. Statuses[r] = Status(r)
  BY DEF Statuses
<1>o. ASSUME ~DropCtx(r) PROVE \A q \in Requests \ {r} : Status(q)' = Status(q)
  BY <1>o, OthersStatus
<1>1. CASE Arrive(r)
  <2>1. PICK x \in Slots :
          /\ slot' = [slot EXCEPT ![r] = x]
          /\ ahead' = [ahead EXCEPT ![r] =
                          IF x # None /\ x.per_caller THEN HoldersOf(x.key) ELSE {}]
          /\ pc' = [pc EXCEPT ![r] = IF x = None THEN "breaker"
                                     ELSE IF x.per_caller THEN "incr" ELSE "lookup"]
    BY <1>1 DEF Arrive, Goto
  <2>2. pc[r] = "idle" /\ ~held[r] /\ ~held'[r]
    BY <1>1, Known DEF Arrive, SlotInv
  <2>3. /\ slot'[r] = x
        /\ ahead'[r] = IF x # None /\ x.per_caller THEN HoldersOf(x.key) ELSE {}
        /\ pc'[r] = IF x = None THEN "breaker" ELSE IF x.per_caller THEN "incr" ELSE "lookup"
    BY <2>1, Known
  <2>4. Status(r) = [state |-> "idle"]
    BY <2>2 DEF Status, Asking
  <2>5. \A q \in Requests \ {r} : Status(q)' = Status(q)
    BY <1>o, <2>2 DEF DropCtx
  <2>6. CASE x = None
    <3>1. Status(r)' = Status(r)
      BY <2>2, <2>3, <2>4, <2>6 DEF Status, Asking
    <3> QED BY <2>5, <3>1, NoneMoves
  <2>7. CASE x # None
    <3> DEFINE k == x.key
    <3>1. /\ x.max \in Caps[k] /\ (x.per_caller => k \in CallerKeys)
          /\ (~x.per_caller => k \in RouteKeys) /\ x.per_caller \in BOOLEAN
      BY <2>7, SlotKinds
    <3>2. ahead'[r] = IF k \in CallerKeys THEN Pool!Holders(k) ELSE {}
      BY <2>3, <2>7, <3>1, HoldersAre, AdmissionConfig
    <3>3. pc'[r] \in Asking
      BY <2>3, <2>7 DEF Asking
    <3>4. Status(r)' = [state |-> "asks", key |-> k, max |-> x.max, ahead |-> ahead'[r]]
      BY <2>2, <2>3, <3>3 DEF Status, Asking
    <3>5. Statuses' = [Statuses EXCEPT ![r] =
              [state |-> "asks", key |-> k, max |-> x.max, ahead |-> ahead'[r]]]
      BY <2>5, <3>4, OneMoves
    <3>6. Pool!Ask(r)
      <4>1. Statuses[r] = Pool!Idle /\ k \in RouteKeys \cup CallerKeys
        BY <1>s, <2>4, <3>1 DEF Pool!Idle
      <4>2. Pool!Set(r, [state |-> "asks", key |-> k, max |-> x.max,
                         ahead |-> IF k \in CallerKeys THEN Pool!Holders(k) ELSE {}])
        BY <3>2, <3>5 DEF Pool!Set, Statuses
      <4> QED BY <3>1, <4>1, <4>2 DEF Pool!Ask, Statuses
    <3> QED BY <3>6 DEF Pool!Next
  <2> QED BY <2>6, <2>7
<1>2. CASE Lookup(r) \/ Insert(r)
  <2>1. /\ pc[r] \in {"lookup", "insert"} /\ ~held[r] /\ pc'[r] \in {"cas", "insert"}
        /\ held' = held /\ slot' = slot /\ ahead' = ahead
    BY <1>2, Known DEF Lookup, Insert, Goto, SlotInv
  <2>2. Status(r)' = Status(r)
    BY <2>1 DEF Status, Asking
  <2>3. ~DropCtx(r)
    BY <2>1 DEF DropCtx
  <2> QED BY <1>o, <2>2, <2>3, NoneMoves
<1>3. CASE AskBreaker(r) \/ LogForwarded(r) \/ Expire(r)
  <2>1. /\ pc[r] \in {"breaker", "running"} /\ held' = held /\ slot' = slot /\ seen' = seen
        /\ pc'[r] \in {"running", "ended"}
    BY <1>3, Known DEF AskBreaker, LogForwarded, Expire, Goto
  <2>2. Lane(r)' = Lane(r)
    BY <2>1 DEF Lane
  <2>3. Status(r)' = Status(r)
    BY <2>1, <2>2 DEF Status, Asking
  <2>4. ~DropCtx(r)
    BY <2>1 DEF DropCtx
  <2> QED BY <1>o, <2>3, <2>4, NoneMoves
<1>4. CASE TakeRoute(r)
  <2> DEFINE k == slot[r].key
             max == slot[r].max
  <2>1. pc[r] = "cas" /\ seen' = seen /\ ahead' = ahead
    BY <1>4 DEF TakeRoute
  <2>2. /\ ~held[r] /\ slot[r] # None /\ k \in RouteKeys /\ k \notin CallerKeys
        /\ max \in Nat /\ k \in DOMAIN routes /\ arc[r] = routes[k]
    BY <2>1, Known, AdmissionConfig DEF SlotInv
  <2>3. Statuses[r] = [state |-> "asks", key |-> k, max |-> max, ahead |-> ahead[r]]
    BY <1>s, <2>1, <2>2, StatusIs DEF Asking
  <2>4. counters[arc[r]] = Cardinality(Pool!Holders(k)) /\ counters[arc[r]] \in Nat
    BY <2>2, HoldersAre, Known DEF RouteInv
  <2>5. \A q \in Requests \ {r} : Status(q)' = Status(q)
    BY <1>o, <2>1 DEF DropCtx
  <2>6. CASE Fits(counters[arc[r]], max) /\ held' = [held EXCEPT ![r] = TRUE] /\ slot' = slot
    <3>1. TypeOK' /\ CapInv' /\ held'[r]
      BY <1>4, <2>6, TakeRouteKeeps, Known
    <3>2. PICK lane \in Rows : lane = Lane(r)'
      <4>1. SeenInv(r)'
        BY <3>1 DEF CapInv, RequestInv
      <4>2. Lane(r)' \in Rows
        BY <3>1, <4>1 DEF SeenInv, Lane
      <4> QED BY <4>2
    <3>3. Status(r)' = [state |-> "holds", key |-> k, max |-> max, lane |-> lane]
      BY <2>6, <3>1, <3>2 DEF Status
    <3>4. Statuses' = [Statuses EXCEPT ![r] =
              [state |-> "holds", key |-> k, max |-> max, lane |-> lane]]
      BY <2>5, <3>3, OneMoves
    <3>5. Pool!Take(r)
      <4>1. Statuses[r].state = "asks" /\ Statuses[r].key = k /\ Statuses[r].max = max
        BY <2>3
      <4>2. Pool!Cardinality(Pool!Holders(k)) < max
        BY <2>4, <2>6, SameCount DEF Fits
      <4>3. Pool!Set(r, [state |-> "holds", key |-> k, max |-> max, lane |-> lane])
        BY <3>4 DEF Pool!Set, Statuses
      <4> QED BY <2>2, <4>1, <4>2, <4>3 DEF Pool!Take, Statuses
    <3> QED BY <3>5 DEF Pool!Next
  <2>7. CASE ~Fits(counters[arc[r]], max) /\ held' = held /\ Reject(r)
    <3>1. Status(r)' = [state |-> "idle"]
      BY <2>2, <2>7, Known DEF Status, Asking, Reject, Goto
    <3>2. Statuses' = [Statuses EXCEPT ![r] = [state |-> "idle"]]
      BY <2>5, <3>1, OneMoves
    <3>3. Pool!Refuse(r)
      <4>1. Statuses[r].state = "asks" /\ Statuses[r].key = k /\ Statuses[r].max = max
        BY <2>3
      <4>2. Pool!Cardinality(Pool!Holders(k)) >= max
        BY <2>2, <2>4, <2>7, SameCount DEF Fits
      <4>3. Pool!Set(r, Pool!Gone(k))
        BY <2>2, <3>2 DEF Pool!Set, Pool!Gone, Pool!Idle, Statuses
      <4> QED BY <2>2, <4>1, <4>2, <4>3 DEF Pool!Refuse, Statuses
    <3> QED BY <3>3 DEF Pool!Next
  <2> QED BY <1>4, <2>6, <2>7 DEF TakeRoute
<1>5. CASE IncrCaller(r)
  BY <1>5, CallerStep
<1>6. CASE ReleaseCaller(r)
  <2>1. /\ pc[r] = "release" /\ held' = held /\ ~held[r] /\ pc'[r] \in {"release", "idle"}
    <3>1. pc[r] = "release" /\ held' = held
      BY <1>6 DEF ReleaseCaller
    <3>2. pc' = pc \/ pc' = [pc EXCEPT ![r] = "idle"]
      BY <1>6 DEF ReleaseCaller, Reject, Goto
    <3> QED BY <3>1, <3>2, Known DEF SlotInv
  <2>2. Status(r) = [state |-> "leaves"]
    BY <2>1, StatusIs
  <2>3. \A q \in Requests \ {r} : Status(q)' = Status(q)
    BY <1>o, <2>1 DEF DropCtx
  <2>4. CASE pc'[r] = "release"
    <3>1. Status(r)' = Status(r)
      BY <2>1, <2>2, <2>4 DEF Status, Asking
    <3> QED BY <2>3, <3>1, NoneMoves
  <2>5. CASE pc'[r] = "idle"
    <3>1. Status(r)' = [state |-> "idle"]
      BY <2>1, <2>5 DEF Status, Asking
    <3>2. Statuses' = [Statuses EXCEPT ![r] = [state |-> "idle"]]
      BY <2>3, <3>1, OneMoves
    <3>3. Pool!Leave(r)
      BY <1>s, <2>2, <3>2 DEF Pool!Leave, Pool!Set, Pool!Leaving, Pool!Idle, Statuses
    <3> QED BY <3>3 DEF Pool!Next
  <2> QED BY <2>1, <2>4, <2>5
<1>7. CASE DropCtx(r)
  <2>1. /\ pc[r] = "ended" /\ held' = [held EXCEPT ![r] = FALSE]
        /\ ahead' = [q \in Requests |-> ahead[q] \ {r}]
        /\ pc'[r] = IF held[r] /\ slot[r].per_caller THEN "release" ELSE "idle"
    BY <1>7, Known DEF DropCtx, Goto
  <2>2. Status(r)' = IF held[r] /\ slot[r].per_caller
                     THEN [state |-> "leaves"] ELSE [state |-> "idle"]
    BY <2>1, Known DEF Status, Asking
  <2>3. CASE ~held[r]
    <3>1. Status(r) = [state |-> "idle"]
      BY <2>1, <2>3 DEF Status, Asking
    <3>2. ASSUME NEW q \in Requests \ {r} PROVE Status(q)' = Status(q)
      <4>1. AheadInv(q)
        BY DEF CapInv, RequestInv
      <4>2. ahead'[q] = ahead[q]
        BY <2>1, <2>3, <4>1 DEF AheadInv
      <4> QED BY <1>7, <4>2, StepIsLocal, StatusStable DEF Step
    <3> QED BY <2>2, <2>3, <3>1, <3>2, NoneMoves
  <2>4. CASE held[r]
    <3>1. Statuses[r].state = "holds" /\ Statuses[r].key = slot[r].key
      BY <1>s, <2>4, StatusIs
    <3>5. slot[r] # None
      BY <2>4, Known DEF SlotInv
    <3>6. Status(r)' = Pool!Gone(slot[r].key)
      BY <2>2, <2>4, <3>5, Known, AdmissionConfig DEF Pool!Gone, Pool!Leaving, Pool!Idle
    <3>2. ASSUME NEW q \in Requests, q # r
          PROVE  Status(q)' = IF Statuses[q].state = "asks"
                              THEN [Statuses[q] EXCEPT !.ahead = @ \ {r}] ELSE Statuses[q]
      <4>1. /\ pc'[q] = pc[q] /\ slot'[q] = slot[q] /\ held'[q] = held[q] /\ seen'[q] = seen[q]
            /\ ahead'[q] = ahead[q] \ {r}
        BY <1>7, <2>1, <3>2, StepIsLocal DEF Mine, Step
      <4>2. Statuses[q] = Status(q)
        BY DEF Statuses
      <4>3. CASE ~held[q] /\ pc[q] \in Asking
        <5>1. Status(q)' = [state |-> "asks", key |-> slot[q].key, max |-> slot[q].max,
                            ahead |-> ahead[q] \ {r}]
          BY <4>1, <4>3 DEF Status, Asking
        <5>2. Statuses[q] = [state |-> "asks", key |-> slot[q].key, max |-> slot[q].max,
                             ahead |-> ahead[q]]
          BY <4>2, <4>3, StatusIs
        <5> QED BY <5>1, <5>2
      <4>4. CASE held[q] \/ pc[q] \notin Asking
        <5>1. Statuses[q].state # "asks"
          <6>1. Statuses[q].state \in {"holds", "leaves", "idle"}
            BY <4>2, <4>4, StatusIs
          <6> QED BY <6>1
        <5>2. Lane(q)' = Lane(q)
          BY <4>1 DEF Lane
        <5>3. Status(q)' = Status(q)
          BY <4>1, <4>4, <5>2 DEF Status, Asking
        <5> QED BY <4>2, <5>1, <5>3
      <4> QED BY <4>3, <4>4
    <3>3. Statuses' = [q \in Requests |->
              IF q = r THEN Pool!Gone(slot[r].key)
              ELSE IF Statuses[q].state = "asks" THEN [Statuses[q] EXCEPT !.ahead = @ \ {r}]
              ELSE Statuses[q]]
      BY <3>2, <3>6 DEF Statuses
    <3>4. Pool!Give(r)
      BY <3>1, <3>3 DEF Pool!Give, Statuses
    <3> QED BY <3>4 DEF Pool!Next
  <2> QED BY <2>3, <2>4, Known
<1> QED BY <1>1, <1>2, <1>3, <1>4, <1>5, <1>6, <1>7 DEF Step

\* The caps implement SlotPool: a route's slots are granted exactly while fewer than
\* its cap are held, a caller is refused only while as many requests as its cap are
\* counted beside it and gets none while as many of its requests as the cap have
\* held one since before it asked, at most as many as the cap pass through one row of
\* the sketch, and every slot is given back.
THEOREM CapsAreSlotPool == Spec => ImplementsSlotPool
<1>1. Init => Pool!Init
  BY DEF Init, Pool!Init, Pool!Idle, Status, Asking
<1>2. TypeOK /\ CapInv /\ [Next]_vars => [Pool!Next]_Statuses
  <2> SUFFICES ASSUME TypeOK, CapInv, [Next]_vars PROVE [Pool!Next]_Statuses
    OBVIOUS
  <2>1. CASE Next
    BY <2>1, PoolStep DEF Next
  <2>2. CASE UNCHANGED vars
    <3>1. ASSUME NEW q \in Requests PROVE Status(q)' = Status(q)
      BY <2>2, StatusStable DEF vars, Mine
    <3> QED BY <3>1, NoneMoves
  <2> QED BY <2>1, <2>2
<1>3. TypeOK /\ CapInv /\ [Next]_vars => [Pool!Next]_([r \in Requests |-> Status(r)])
  BY <1>2 DEF Statuses
<1> QED BY <1>1, <1>3, CapInvariant, PTL DEF Spec, ImplementsSlotPool, Pool!Spec

-----------------------------------------------------------------------------
(***************************************************************************)
(* The breaker's trials                                                    *)
(***************************************************************************)

\* The requests that will report to the breaker.
Reporters == {r \in Requests : pc[r] = "running"}

\* Unless a deadline cuts exchanges off, a half-open circuit never counts more trials
\* than there are requests that will report.
THEOREM TrialsReport == Spec => []TrialsHaveReporters
<1>1. Init => TrialsHaveReporters
  BY DEF Init, TrialsHaveReporters, Waits, NewBreaker
<1>2. TypeOK /\ TrialsHaveReporters /\ [Next]_vars => TrialsHaveReporters'
  <2> SUFFICES ASSUME TypeOK, TrialsHaveReporters, [Next]_vars, ~total', inner'.state = "half_open"
               PROVE  inner'.trials_in_flight <= Cardinality(Reporters')
    BY DEF TrialsHaveReporters, Waits, Reporters
  <2>n. /\ Cardinality(Reporters) \in Nat /\ Cardinality(Reporters') \in Nat
    BY Sizes DEF Reporters
  <2>b. inner \in Inner /\ inner.trials_in_flight \in Nat
    BY DEF TypeOK, Inner
  <2>w. ~total => (inner.state = "half_open" => inner.trials_in_flight <= Cardinality(Reporters))
    BY DEF TrialsHaveReporters, Waits, Reporters
  <2>1. ASSUME NEW r \in Requests, Arrive(r) \/ Step(r), inner' = inner, total' = total,
               pc[r] # "running", pc'[r] # "running"
        PROVE  inner'.trials_in_flight <= Cardinality(Reporters')
    <3>1. Reporters' = Reporters
      BY <2>1, StepIsLocal DEF Reporters, Mine
    <3> QED BY <2>1, <3>1, <2>w
  <2>2. ASSUME NEW r \in Requests,
               Arrive(r) \/ Lookup(r) \/ Insert(r) \/ TakeRoute(r) \/ ReleaseCaller(r)
                  \/ DropCtx(r)
        PROVE  inner'.trials_in_flight <= Cardinality(Reporters')
    <3>1. /\ inner' = inner /\ total' = total /\ pc[r] # "running" /\ pc'[r] # "running"
      BY <2>2 DEF TypeOK, Arrive, Lookup, Insert, TakeRoute, ReleaseCaller, DropCtx, Goto,
                  Reject
    <3> QED BY <2>1, <2>2, <3>1 DEF Step
  <2>3. ASSUME NEW r \in Requests, IncrCaller(r)
        PROVE  inner'.trials_in_flight <= Cardinality(Reporters')
    <3>1. /\ inner' = inner /\ total' = total /\ pc[r] = "incr"
          /\ \/ pc' = pc \/ pc' = [pc EXCEPT ![r] = "breaker"]
             \/ pc' = [pc EXCEPT ![r] = "release"]
      BY <2>3 DEF IncrCaller, Goto
    <3>2. pc'[r] # "running"
      BY <3>1 DEF TypeOK
    <3> QED BY <2>1, <2>3, <3>1, <3>2 DEF Step
  <2>4. ASSUME NEW r \in Requests, AskBreaker(r)
        PROVE  inner'.trials_in_flight <= Cardinality(Reporters')
    <3>1. PICK t \in {0, Cooldown} :
            /\ inner' = AllowAt(inner, t)
            /\ pc' = [pc EXCEPT ![r] = IF Allows(inner, t) THEN "running" ELSE "ended"]
      BY <2>4 DEF AskBreaker, Goto
    <3>2. pc[r] = "breaker" /\ total' = total
      BY <2>4 DEF AskBreaker
    <3>3. CASE ~Allows(inner, t)
      <4>1. inner' = inner /\ pc'[r] = "ended"
        BY <3>1, <3>3 DEF AllowAt, TypeOK
      <4> QED BY <2>1, <2>4, <3>2, <4>1 DEF Step
    <3>4. CASE Allows(inner, t)
      <4>1. pc'[r] = "running"
        BY <3>1, <3>4 DEF TypeOK
      <4>2. Reporters' = Reporters \cup {r} /\ r \notin Reporters
        BY <2>4, <3>2, <4>1, StepIsLocal DEF Reporters, Mine, Step
      <4>3. Cardinality(Reporters') = Cardinality(Reporters) + 1
        BY <4>2, Sizes DEF Reporters
      <4>4. \/ inner.state = "open" /\ inner'.trials_in_flight = 1
            \/ inner.state = "half_open" /\ inner'.trials_in_flight = inner.trials_in_flight + 1
        BY <3>1, <3>4, <2>b DEF AllowAt, EnterHalfOpen, Inner, State
      <4> QED BY <3>2, <4>3, <4>4, <2>n, <2>b, <2>w
    <3> QED BY <3>3, <3>4
  <2>5. ASSUME NEW r \in Requests, LogForwarded(r)
        PROVE  inner'.trials_in_flight <= Cardinality(Reporters')
    <3>1. pc[r] = "running" /\ pc'[r] = "ended" /\ total' = total
      BY <2>5 DEF LogForwarded, Goto, TypeOK
    <3>2. Reporters' = Reporters \ {r} /\ r \in Reporters
      BY <2>5, <3>1, StepIsLocal DEF Reporters, Mine, Step
    <3>3. Cardinality(Reporters') = Cardinality(Reporters) - 1
      BY <3>2, Sizes DEF Reporters
    <3>4. inner' \in {Cancel(inner), RecordSuccess(inner), RecordFailureAt(inner, 0)}
      BY <2>5 DEF LogForwarded
    <3>5. /\ inner.state = "half_open"
          /\ inner'.trials_in_flight = SaturatingSub(inner.trials_in_flight, 1)
      <4>1. CASE inner' = Cancel(inner)
        BY <4>1, <2>b DEF Cancel, Inner
      <4>2. CASE inner' = RecordSuccess(inner)
        BY <4>2, <2>b DEF RecordSuccess, CloseCircuit, Inner, State
      <4>3. CASE inner' = RecordFailureAt(inner, 0)
        BY <4>3, <2>b DEF RecordFailureAt, CountFailure, RestartWindow, Inner, State
      <4> QED BY <3>4, <4>1, <4>2, <4>3
    <3> QED BY <3>1, <3>3, <3>5, <2>n, <2>b, <2>w DEF SaturatingSub
  <2>6. ASSUME NEW r \in Requests, Expire(r) PROVE FALSE
    BY <2>6 DEF Expire
  <2>7. CASE UNCHANGED vars
    <3>1. Reporters' = Reporters /\ inner' = inner /\ total' = total
      BY <2>7 DEF vars, Reporters
    <3> QED BY <3>1, <2>w
  <2> QED BY <2>2, <2>3, <2>4, <2>5, <2>6, <2>7 DEF Next, Step
<1> QED BY <1>1, <1>2, AdmissionTypeCorrect, PTL DEF Spec

=============================================================================
