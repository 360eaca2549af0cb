-------------------------- MODULE SelectionProofs --------------------------
(***************************************************************************)
(* Which route a request gets and which address it dials, for every route  *)
(* file, every request, every number of targets and every answer of the    *)
(* name servers.                                                           *)
(*                                                                         *)
(* Pools comes first, then text and order, then the routes.                *)
(***************************************************************************)
EXTENDS Pools, RouteRules, FiniteSetTheorems, SequenceTheorems,
        WellFoundedInduction, TLAPS

(***************************************************************************)
(* Pools.  The balancer keeps the old members when the new set has the     *)
(* same addresses and weights, whatever their targets.  So the argument    *)
(* needs that `owners` says of every address in service what its member    *)
(* says: then a set that looks the same and was accepted is the same.      *)
(***************************************************************************)

\* No address is found under two targets.
Disjoint(found) == \A s, t \in Targets : s # t => found[s] \cap found[t] = {}

(* The inductive invariant. *)
ServiceInv ==
    /\ dns \in [Targets -> SUBSET Addrs]
    /\ listed \in [Targets -> SUBSET Addrs]
    /\ Disjoint(listed)
    /\ \A t \in Targets : listed[t] # {}
    /\ Cardinality(UNION {listed[t] : t \in Targets}) <= MaxMembers
    /\ owners = OwnersOf(listed)
    /\ answers \in Seq(SUBSET Addrs)
    /\ chosen \in [Requests -> Selected \cup {Unset}]
    /\ \/ pc = "starting" /\ members = {} /\ primed = MemberSet(listed)
       \/ pc \in {"idle", "lookup"} /\ members = MemberSet(listed) /\ primed = Unset

\* What member_set's second result says of an address it found.
LEMMA OwnerFound ==
    ASSUME NEW found \in [Targets -> SUBSET Addrs], Disjoint(found),
           NEW t \in Targets, NEW a \in found[t]
    PROVE  OwnersOf(found)[a] = t
<1>1. a \in Addrs
  OBVIOUS
<1>2. \A s \in Targets : a \in found[s] => s = t
  BY DEF Disjoint
<1>3. (CHOOSE s \in Targets : a \in found[s]) = t
  BY <1>2, Zenon
<1> QED BY <1>1, <1>3 DEF OwnersOf

\* The members of an answer: exactly one for each address of each target.
LEMMA MemberFound ==
    ASSUME NEW found \in [Targets -> SUBSET Addrs],
           NEW t \in Targets, NEW a \in found[t]
    PROVE  [addr |-> a, weight |-> Weight[t], target |-> t] \in MemberSet(found)
BY DEF MemberSet

\* Two sets of members that look the same to the balancer are the same, when the
\* second was accepted against the owners of the first.
LEMMA SameSet ==
    ASSUME NEW old \in [Targets -> SUBSET Addrs], Disjoint(old),
           NEW found \in [Targets -> SUBSET Addrs], Acceptable(found, OwnersOf(old)),
           Visible(MemberSet(found)) = Visible(MemberSet(old))
    PROVE  MemberSet(found) = MemberSet(old)
<1>1. ASSUME NEW m \in MemberSet(found), NEW n \in MemberSet(old), m.addr = n.addr
      PROVE  m = n
  <2>1. /\ m.target \in Targets /\ m.addr \in found[m.target]
        /\ n.target \in Targets /\ n.addr \in old[n.target]
    BY DEF MemberSet
  <2>2. OwnersOf(old)[n.addr] = n.target
    BY <2>1, OwnerFound
  <2>3. OwnersOf(old)[m.addr] \in {0, m.target}
    BY <2>1 DEF Acceptable
  <2>4. m.target = n.target
    BY <1>1, <2>1, <2>2, <2>3, PoolsConfig DEF Targets
  <2> QED BY <1>1, <2>4 DEF MemberSet
<1>2. ASSUME NEW m \in MemberSet(found) PROVE m \in MemberSet(old)
  <2>1. <<m.addr, m.weight>> \in Visible(MemberSet(old))
    BY DEF Visible
  <2>2. PICK n \in MemberSet(old) : <<m.addr, m.weight>> = <<n.addr, n.weight>>
    BY <2>1 DEF Visible
  <2>3. m.addr = n.addr
    BY <2>2
  <2> QED BY <1>1, <2>3
<1>3. ASSUME NEW n \in MemberSet(old) PROVE n \in MemberSet(found)
  <2>1. <<n.addr, n.weight>> \in Visible(MemberSet(found))
    BY DEF Visible
  <2>2. PICK m \in MemberSet(found) : <<n.addr, n.weight>> = <<m.addr, m.weight>>
    BY <2>1 DEF Visible
  <2>3. m.addr = n.addr
    BY <2>2
  <2> QED BY <1>1, <2>3
<1> QED BY <1>2, <1>3

\* The set in service is the one last accepted, and the owners are its owners.
LEMMA ServiceCorrect == Spec => []ServiceInv
<1>1. Init => ServiceInv
  <2> SUFFICES ASSUME Init PROVE ServiceInv
    OBVIOUS
  <2>1. /\ dns \in [Targets -> SUBSET Addrs] /\ Disjoint(dns)
        /\ \A t \in Targets : dns[t] # {}
        /\ Cardinality(UNION {dns[t] : t \in Targets}) <= MaxMembers
    BY PoolsConfig DEF Init, Acceptable, Disjoint
  <2> QED BY <2>1 DEF Init, ServiceInv
<1>2. ServiceInv /\ [Next]_vars => ServiceInv'
  <2> SUFFICES ASSUME ServiceInv, [Next]_vars PROVE ServiceInv'
    OBVIOUS
  <2> USE DEF ServiceInv
  <2>1. CASE Prime
    <3>1. pc = "starting" /\ members = {} /\ primed = MemberSet(listed)
      BY <2>1 DEF Prime
    <3>2. members' = primed
      <4>1. CASE Visible(primed) = Visible(members)
        <5>1. Visible(primed) = {}
          BY <3>1, <4>1 DEF Visible
        <5>2. \A m \in primed : <<m.addr, m.weight>> \in Visible(primed)
          BY DEF Visible
        <5>3. primed = members
          BY <3>1, <5>1, <5>2
        <5> QED BY <2>1, <3>1, <4>1, <5>3 DEF Prime, Update
      <4>2. CASE Visible(primed) # Visible(members)
        BY <2>1, <4>2 DEF Prime, Update
      <4> QED BY <4>1, <4>2
    <3> QED BY <2>1, <3>1, <3>2 DEF Prime
  <2>2. CASE BeginRefresh
    BY <2>2 DEF BeginRefresh
  <2>3. CASE Lookup
    <3>1. answers' \in Seq(SUBSET Addrs)
      <4>1. Len(answers) + 1 \in Targets
        BY <2>3, PoolsConfig DEF Lookup, Targets
      <4>2. dns[Len(answers) + 1] \in SUBSET Addrs
        BY <4>1
      <4> QED BY <2>3, <4>2 DEF Lookup
    <3> QED BY <2>3, <3>1 DEF Lookup
  <2>4. CASE LookupFails
    BY <2>4 DEF LookupFails
  <2>5. CASE Discover
    <3>1. pc = "lookup" /\ members = MemberSet(listed) /\ primed = Unset
      BY <2>5 DEF Discover
    <3>2. answers \in [Targets -> SUBSET Addrs]
      BY <2>5, PoolsConfig DEF Discover, Targets
    <3>3. CASE Acceptable(answers, owners)
      <4>1. listed' = answers /\ owners' = OwnersOf(answers) /\ Update(MemberSet(answers))
        BY <2>5, <3>3 DEF Discover
      <4>2. /\ Disjoint(answers)
            /\ \A t \in Targets : answers[t] # {}
            /\ Cardinality(UNION {answers[t] : t \in Targets}) <= MaxMembers
        BY <3>3 DEF Acceptable, Disjoint
      <4>3. members' = MemberSet(answers)
        <5>1. CASE Visible(MemberSet(answers)) = Visible(members)
          <6>1. MemberSet(answers) = MemberSet(listed)
            BY <3>1, <3>2, <3>3, <5>1, SameSet
          <6> QED BY <3>1, <4>1, <5>1, <6>1 DEF Update
        <5>2. CASE Visible(MemberSet(answers)) # Visible(members)
          BY <4>1, <5>2 DEF Update
        <5> QED BY <5>1, <5>2
      <4> QED BY <2>5, <3>1, <3>2, <4>1, <4>2, <4>3 DEF Discover
    <3>4. CASE ~Acceptable(answers, owners)
      BY <2>5, <3>1, <3>4 DEF Discover
    <3> QED BY <3>3, <3>4
  <2>6. CASE \E m \in members, success \in BOOLEAN : Check(m, success)
    BY <2>6 DEF Check
  <2>7. CASE \E r \in Requests : Select(r) \/ Finish(r)
    <3>1. PICK r \in Requests : Select(r) \/ Finish(r)
      BY <2>7
    <3>2. \A m \in members : [addr |-> m.addr, target |-> m.target] \in Selected
      BY DEF MemberSet, Selected
    <3> QED BY <3>1, <3>2 DEF Select, Finish
  <2>8. CASE ChangeRecords
    <3>1. dns' \in [Targets -> SUBSET Addrs]
      BY <2>8, PoolsConfig DEF ChangeRecords
    <3> QED BY <2>8, <3>1 DEF ChangeRecords
  <2>9. CASE UNCHANGED vars
    BY <2>9 DEF vars
  <2> QED BY <2>1, <2>2, <2>3, <2>4, <2>5, <2>6, <2>7, <2>8, <2>9 DEF Next
<1> QED BY <1>1, <1>2, PTL DEF Spec

\* Upstream::select never pairs an address with a target that does not list it.
THEOREM NeverUnderAnotherName == Spec => DialledUnderItsName
<1>1. ServiceInv /\ [Next]_vars =>
        [\A r \in Requests :
            chosen[r] = Unset /\ chosen'[r] # Unset =>
                chosen'[r].addr \in listed[chosen'[r].target]]_vars
  <2> SUFFICES ASSUME ServiceInv, Next, NEW r \in Requests,
                      chosen[r] = Unset, chosen'[r] # Unset
               PROVE  chosen'[r].addr \in listed[chosen'[r].target]
    OBVIOUS
  <2>1. PICK q \in Requests : Select(q) \/ Finish(q)
    BY DEF Next, Prime, BeginRefresh, Lookup, LookupFails, Discover, Check, ChangeRecords
  <2>2. PICK m \in members :
            chosen' = [chosen EXCEPT ![q] = [addr |-> m.addr, target |-> m.target]]
    BY <2>1 DEF Select, Finish, ServiceInv
  <2>3. chosen'[r] = [addr |-> m.addr, target |-> m.target]
    BY <2>2 DEF ServiceInv
  <2>4. m.addr \in listed[m.target]
    BY DEF ServiceInv, MemberSet
  <2> QED BY <2>3, <2>4
<1> QED BY <1>1, ServiceCorrect, PTL DEF Spec, DialledUnderItsName

\* Whatever answers arrive, every configured target keeps a member and the pool
\* stays within discovery.max_members.
THEOREM RefreshesApplyWhole == Spec => []WholeSet
<1>1. ServiceInv => WholeSet
  <2> SUFFICES ASSUME ServiceInv, members = MemberSet(listed) PROVE
                 /\ \A t \in Targets : \E m \in members : m.target = t
                 /\ Cardinality(members) <= MaxMembers
    BY DEF ServiceInv, WholeSet
  <2> USE DEF ServiceInv
  <2>1. ASSUME NEW t \in Targets PROVE \E m \in members : m.target = t
    <3>1. PICK a : a \in listed[t]
      OBVIOUS
    <3>2. [addr |-> a, weight |-> Weight[t], target |-> t] \in members
      BY <3>1, MemberFound
    <3> QED BY <3>2
  <2>2. Cardinality(members) <= MaxMembers
    <3> DEFINE found == UNION {listed[t] : t \in Targets}
               f == [m \in members |-> m.addr]
    <3>1. IsFiniteSet(found) /\ Cardinality(found) \in Nat
      <4>1. found \subseteq Addrs
        OBVIOUS
      <4>2. IsFiniteSet(Addrs)
        BY PoolsConfig
      <4> HIDE DEF found
      <4>3. IsFiniteSet(found)
        BY <4>1, <4>2, FS_Subset
      <4> QED BY <4>3, FS_CardinalityType
    <3>2. f \in Injection(members, found)
      <4>1. ASSUME NEW m \in members PROVE m.addr \in found
        <5>1. m.target \in Targets /\ m.addr \in listed[m.target]
          BY DEF MemberSet
        <5> QED BY <5>1
      <4>2. ASSUME NEW m \in members, NEW n \in members, m.addr = n.addr PROVE m = n
        <5>1. /\ m.target \in Targets /\ m.addr \in listed[m.target]
              /\ n.target \in Targets /\ n.addr \in listed[n.target]
          BY DEF MemberSet
        <5>2. m.target = n.target
          BY <4>2, <5>1 DEF Disjoint
        <5> QED BY <4>2, <5>2 DEF MemberSet
      <4> HIDE DEF found
      <4>3. f \in [members -> found]
        BY <4>1
      <4> QED BY <4>2, <4>3 DEF Injection, IsInjective
    <3> HIDE DEF found, f
    <3>3. Cardinality(members) <= Cardinality(found) /\ Cardinality(members) \in Nat
      BY <3>1, <3>2, FS_Injection, FS_CardinalityType
    <3>4. Cardinality(found) <= MaxMembers
      BY DEF found
    <3> QED BY <3>1, <3>3, <3>4, PoolsConfig
  <2> QED BY <2>1, <2>2
<1> QED BY <1>1, ServiceCorrect, PTL

-----------------------------------------------------------------------------
(***************************************************************************)
(* Health                                                                  *)
(***************************************************************************)

\* A health that agrees with the last result counts nothing against it; one that
\* does not has counted exactly the results in a row, fewer than it takes to flip.
InStep(h, s) ==
    /\ h \in Health
    /\ s \in [passed: BOOLEAN, n: Nat]
    /\ h.healthy = s.passed => h.counter = 0
    /\ h.healthy # s.passed => h.counter = s.n /\ h.counter < HealthThreshold(s.passed)

\* Every address's health is in step with its results.
HealthInv ==
    /\ health = [a \in Addrs |-> health[a]]
    /\ streak = [a \in Addrs |-> streak[a]]
    /\ \A a \in Addrs : InStep(health[a], streak[a])

\* One more result keeps them in step, on either side of the threshold.
LEMMA ResultKeepsStep ==
    ASSUME NEW h, NEW s, NEW success \in BOOLEAN, InStep(h, s)
    PROVE  InStep(Observed(h, success),
                  [passed |-> success,
                   n |-> IF s.passed # success THEN 1
                         ELSE IF s.n < Longest THEN s.n + 1 ELSE s.n])
<1> DEFINE t == [passed |-> success,
                 n |-> IF s.passed # success THEN 1
                       ELSE IF s.n < Longest THEN s.n + 1 ELSE s.n]
<1>t. /\ h \in Health /\ h.healthy \in BOOLEAN /\ h.counter \in Nat
      /\ s.passed \in BOOLEAN /\ s.n \in Nat
      /\ HealthyAfter \in Nat /\ UnhealthyAfter \in Nat /\ Longest \in Nat
      /\ \A b \in BOOLEAN : HealthThreshold(b) \in Nat /\ HealthThreshold(b) > 0
                            /\ HealthThreshold(b) <= Longest
  BY PoolsConfig DEF InStep, Health, Longest, HealthThreshold
<1>1. t \in [passed: BOOLEAN, n: Nat] /\ t.passed = success
  BY <1>t
<1>2. CASE h.healthy = success
  <2>1. Observed(h, success) = [h EXCEPT !.counter = 0]
    BY <1>2 DEF Observed
  <2>2. /\ [h EXCEPT !.counter = 0] \in Health
        /\ [h EXCEPT !.counter = 0].healthy = success
        /\ [h EXCEPT !.counter = 0].counter = 0
    BY <1>2, <1>t DEF Health
  <2> QED BY <1>1, <2>1, <2>2 DEF InStep
<1>3. CASE h.healthy # success /\ h.counter + 1 >= HealthThreshold(success)
  <2>1. Observed(h, success) = [healthy |-> success, counter |-> 0]
    BY <1>3 DEF Observed
  <2> QED BY <1>1, <2>1 DEF InStep, Health
<1>4. CASE h.healthy # success /\ ~(h.counter + 1 >= HealthThreshold(success))
  <2>1. Observed(h, success) = [h EXCEPT !.counter = @ + 1]
    BY <1>4 DEF Observed
  <2>2. /\ [h EXCEPT !.counter = @ + 1] \in Health
        /\ [h EXCEPT !.counter = @ + 1].healthy = h.healthy
        /\ [h EXCEPT !.counter = @ + 1].counter = h.counter + 1
    BY <1>t DEF Health
  <2>3. h.counter + 1 < HealthThreshold(success)
    BY <1>4, <1>t
  \* The results against it are one more: the bound on them is never in the way.
  <2>4. t.n = h.counter + 1
    <3>1. CASE s.passed = success
      <4>1. h.counter = s.n
        BY <1>4, <3>1 DEF InStep
      <4>2. s.n < Longest
        BY <2>3, <4>1, <1>t
      <4> QED BY <3>1, <4>1, <4>2
    <3>2. CASE s.passed # success
      <4>1. h.healthy = s.passed
        BY <1>4, <3>2, <1>t
      <4>2. h.counter = 0
        BY <4>1 DEF InStep
      <4> QED BY <3>2, <4>2
    <3> QED BY <3>1, <3>2
  <2> QED BY <1>4, <1>1, <2>1, <2>2, <2>3, <2>4 DEF InStep
<1> QED BY <1>2, <1>3, <1>4

\* A new member starts in step.
LEMMA NewInStep == InStep(NewHealth, NoChecks)
BY DEF InStep, NewHealth, NoChecks, Health

\* A refresh: new members start in step, the others keep their health and checks.
LEMMA UpdateKeepsStep ==
    ASSUME HealthInv, NEW set, Update(set)
    PROVE  HealthInv'
<1>1. InStep(NewHealth, NoChecks)
  BY NewInStep
<1>2. CASE UNCHANGED <<health, streak>>
  BY <1>2 DEF HealthInv, InStep
<1>3. CASE ~UNCHANGED <<health, streak>>
  <2>1. PICK kept :
          /\ health' = [a \in Addrs |-> IF a \in kept THEN health[a] ELSE NewHealth]
          /\ streak' = [a \in Addrs |-> IF a \in kept THEN streak[a] ELSE NoChecks]
    BY <1>3 DEF Update
  <2> QED BY <1>1, <2>1 DEF HealthInv, InStep
<1> QED BY <1>2, <1>3

\* Health and checks stay in step, refreshes in between or not.
LEMMA HealthCorrect == Spec => []HealthInv
<1>1. Init => HealthInv
  <2>1. InStep(NewHealth, NoChecks)
    BY NewInStep
  <2>2. ASSUME Init PROVE /\ health = [a \in Addrs |-> NewHealth]
                          /\ streak = [a \in Addrs |-> NoChecks]
    BY <2>2 DEF Init
  <2> QED BY <2>1, <2>2 DEF HealthInv
<1>2. ServiceInv /\ HealthInv /\ [Next]_vars => HealthInv'
  <2> SUFFICES ASSUME ServiceInv, HealthInv, [Next]_vars PROVE HealthInv'
    OBVIOUS
  <2>s. UNCHANGED <<health, streak>> => HealthInv'
    BY DEF HealthInv, InStep
  <2>1. CASE Prime
    BY <2>1, UpdateKeepsStep DEF Prime
  <2>2. CASE Discover
    BY <2>2, <2>s, UpdateKeepsStep DEF Discover
  <2>3. ASSUME NEW m \in members, NEW success \in BOOLEAN, Check(m, success) PROVE HealthInv'
    <3>1. m.addr \in Addrs
      BY DEF ServiceInv, MemberSet
    <3> DEFINE a == m.addr
               s == streak[a]
               t == [passed |-> success,
                     n |-> IF s.passed # success THEN 1
                           ELSE IF s.n < Longest THEN s.n + 1 ELSE s.n]
    <3>2. health' = [health EXCEPT ![a] = Observed(health[a], success)]
      BY <2>3 DEF Check
    <3>3. streak' = [streak EXCEPT ![a] = t]
      BY <2>3, <3>1 DEF Check, HealthInv
    <3>4. InStep(Observed(health[a], success), t)
      BY <3>1, ResultKeepsStep DEF HealthInv
    <3> HIDE DEF t
    <3>5. \A b \in Addrs : InStep(health'[b], streak'[b])
      BY <3>1, <3>2, <3>3, <3>4 DEF HealthInv
    <3> QED BY <3>1, <3>2, <3>3, <3>5 DEF HealthInv, InStep
  <2>4. CASE BeginRefresh \/ Lookup \/ LookupFails \/ ChangeRecords
             \/ (\E r \in Requests : Select(r) \/ Finish(r)) \/ UNCHANGED vars
    BY <2>4, <2>s DEF BeginRefresh, Lookup, LookupFails, ChangeRecords, Select, Finish, vars
  <2> QED BY <2>1, <2>2, <2>3, <2>4 DEF Next
<1> QED BY <1>1, <1>2, ServiceCorrect, PTL DEF Spec

\* The pool, the refresh under way and the health of its members keep their types.
THEOREM PoolsTypeCorrect == Spec => []TypeOK
<1> DEFINE Bounds == changes \in Nat /\ failures \in Nat
<1>1. Init => Bounds
  BY DEF Init
<1>2. Bounds /\ [Next]_vars => Bounds'
  <2> SUFFICES ASSUME Bounds, [Next]_vars PROVE Bounds'
    OBVIOUS
  <2>1. CASE LookupFails \/ ChangeRecords
    BY <2>1 DEF LookupFails, ChangeRecords
  <2>2. CASE Prime \/ BeginRefresh \/ Lookup \/ Discover
    BY <2>2 DEF Prime, BeginRefresh, Lookup, Discover
  <2>3. ASSUME NEW m \in members, NEW success \in BOOLEAN, Check(m, success) PROVE Bounds'
    BY <2>3 DEF Check
  <2>4. ASSUME NEW r \in Requests, Select(r) \/ Finish(r) PROVE Bounds'
    BY <2>4 DEF Select, Finish
  <2>5. CASE UNCHANGED vars
    BY <2>5 DEF vars
  <2> QED BY <2>1, <2>2, <2>3, <2>4, <2>5 DEF Next
<1>3. ServiceInv /\ HealthInv /\ Bounds => TypeOK
  <2> SUFFICES ASSUME ServiceInv, HealthInv, Bounds PROVE TypeOK
    OBVIOUS
  <2>1. MemberSet(listed) \in SUBSET Member
    BY PoolsConfig DEF MemberSet, Member
  <2>2. owners \in [Addrs -> 0..NTargets]
    <3>1. ASSUME NEW a \in Addrs PROVE OwnersOf(listed)[a] \in 0..NTargets
      <4>1. CASE \E t \in Targets : a \in listed[t]
        <5>1. PICK t \in Targets : a \in listed[t]
          BY <4>1
        <5>2. OwnersOf(listed)[a] = t
          BY <5>1, OwnerFound DEF ServiceInv
        <5> QED BY <5>2, PoolsConfig DEF Targets
      <4>2. CASE ~\E t \in Targets : a \in listed[t]
        BY <4>2, PoolsConfig DEF OwnersOf
      <4> QED BY <4>1, <4>2
    <3>2. owners = [a \in Addrs |-> OwnersOf(listed)[a]]
      BY DEF ServiceInv, OwnersOf
    <3> QED BY <3>1, <3>2
  <2>3. health \in [Addrs -> Health] /\ streak \in [Addrs -> [passed: BOOLEAN, n: Nat]]
    BY DEF HealthInv, InStep
  <2> QED BY <2>1, <2>2, <2>3 DEF ServiceInv, TypeOK
<1> QED BY <1>1, <1>2, <1>3, ServiceCorrect, HealthCorrect, PTL DEF Spec

\* For all thresholds and every history of checks and refreshes: a member with
\* unhealthy_after failures in a row is out of rotation, one with healthy_after
\* passed checks in a row is back in it.
THEOREM SickMembersShunned == Spec => []SickMemberShunned
<1>1. ServiceInv /\ HealthInv => SickMemberShunned
  <2> SUFFICES ASSUME ServiceInv, HealthInv, NEW m \in members
               PROVE  /\ ~streak[m.addr].passed /\ streak[m.addr].n >= UnhealthyAfter => ~Ready(m)
                      /\ streak[m.addr].passed /\ streak[m.addr].n >= HealthyAfter => Ready(m)
    BY DEF SickMemberShunned
  <2>1. m.addr \in Addrs
    BY DEF ServiceInv, MemberSet
  <2> DEFINE h == health[m.addr]
             s == streak[m.addr]
  <2>2. InStep(h, s)
    BY <2>1 DEF HealthInv
  <2> HIDE DEF h, s
  <2>t. /\ h.healthy \in BOOLEAN /\ s.passed \in BOOLEAN /\ s.n \in Nat
        /\ HealthyAfter \in Nat /\ UnhealthyAfter \in Nat
    BY <2>2, PoolsConfig DEF InStep, Health
  <2>3. h.healthy # s.passed => s.n < HealthThreshold(s.passed)
    BY <2>2 DEF InStep
  <2>4. ASSUME ~s.passed, h.healthy PROVE s.n < UnhealthyAfter
    <3>1. h.healthy # s.passed /\ HealthThreshold(s.passed) = UnhealthyAfter
      BY <2>4, <2>t, Zenon DEF HealthThreshold
    <3> QED BY <2>3, <3>1
  <2>5. ASSUME s.passed, ~h.healthy PROVE s.n < HealthyAfter
    <3>1. h.healthy # s.passed /\ HealthThreshold(s.passed) = HealthyAfter
      BY <2>5, <2>t, Zenon DEF HealthThreshold
    <3> QED BY <2>3, <3>1
  <2>6. /\ ~(~s.passed /\ s.n >= UnhealthyAfter /\ h.healthy)
        /\ ~(s.passed /\ s.n >= HealthyAfter /\ ~h.healthy)
    BY <2>4, <2>5, <2>t
  <2> QED BY <2>6 DEF Ready, h, s
<1> QED BY <1>1, ServiceCorrect, HealthCorrect, PTL

\* Of the numbers that are not good, if there are any, one comes first.
LEMMA FirstBad ==
    ASSUME NEW Good \in SUBSET Nat,
           \A n \in Nat : (\A m \in Nat : m < n => m \in Good) => n \in Good
    PROVE  Good = Nat
<1> SUFFICES ASSUME Nat \ Good # {} PROVE FALSE
  OBVIOUS
<1>1. PICK n \in Nat \ Good : \A m \in Nat \ Good : ~(<<m, n>> \in OpToRel(<, Nat))
  BY NatLessThanWellFounded, WFMin
<1>2. \A m \in Nat : m < n => m \in Good
  BY <1>1 DEF OpToRel
<1> QED BY <1>2

\* A set of numbers has a first member, and a bounded one a last.
LEMMA MinIs ==
    ASSUME NEW S \in SUBSET Nat, S # {}
    PROVE  Min(S) \in S /\ \A x \in S : Min(S) <= x
<1>1. PICK n \in S : \A m \in S : ~(<<m, n>> \in OpToRel(<, Nat))
  BY NatLessThanWellFounded, WFMin
<1>2. ASSUME NEW m \in S PROVE n <= m
  <2>1. m \in Nat /\ n \in Nat /\ ~(<<m, n>> \in OpToRel(<, Nat))
    BY <1>1
  <2> QED BY <2>1 DEF OpToRel
<1> QED BY <1>2 DEF Min

LEMMA MaxIs ==
    ASSUME NEW S \in SUBSET Nat, S # {}, NEW b \in Nat, \A x \in S : x <= b
    PROVE  Max(S) \in S /\ \A x \in S : x <= Max(S)
<1> DEFINE D == {b - x : x \in S}
<1>1. D \in SUBSET Nat /\ D # {}
  <2>1. ASSUME NEW x \in S PROVE b - x \in Nat
    <3>1. x \in Nat /\ x <= b
      OBVIOUS
    <3> QED BY <3>1
  <2> QED BY <2>1
<1>2. PICK d \in D : \A e \in D : d <= e
  BY <1>1, MinIs
<1>3. PICK m \in S : d = b - m
  BY <1>2
<1>4. \A x \in S : x <= m
  <2> SUFFICES ASSUME NEW x \in S PROVE x <= m
    OBVIOUS
  <2>1. b - x \in D
    OBVIOUS
  <2> QED BY <1>2, <1>3, <2>1
<1> QED BY <1>4 DEF Max

(***************************************************************************)
(* A finite set in order: the k-th member is the one with k-1 before it.   *)
(***************************************************************************)

Below(S, R, x) == {y \in S : <<y, x>> \in R}

StrictOrder(S, R) ==
    /\ \A x \in S : <<x, x>> \notin R
    /\ \A x, y \in S : x # y => <<x, y>> \in R \/ <<y, x>> \in R
    /\ \A x, y, z \in S : <<x, y>> \in R /\ <<y, z>> \in R => <<x, z>> \in R

\* Every number of predecessors up to the size of the set is one member's.
LEMMA Ranks ==
    ASSUME NEW S, IsFiniteSet(S), NEW R, StrictOrder(S, R)
    PROVE  /\ Cardinality(S) \in Nat
           /\ \A x \in S : Cardinality(Below(S, R, x)) \in 0..(Cardinality(S) - 1)
           /\ \A x, y \in S : <<x, y>> \in R =>
                 Cardinality(Below(S, R, x)) < Cardinality(Below(S, R, y))
           /\ \A k \in 1..Cardinality(S) : \E x \in S : Cardinality(Below(S, R, x)) = k - 1
<1>1. Cardinality(S) \in Nat
  BY FS_CardinalityType
<1>2. ASSUME NEW x \in S PROVE /\ IsFiniteSet(Below(S, R, x))
                               /\ Cardinality(Below(S, R, x)) \in Nat
  <2>1. Below(S, R, x) \subseteq S
    BY DEF Below
  <2> QED BY <2>1, FS_Subset, FS_CardinalityType
<1>3. ASSUME NEW x \in S PROVE Cardinality(Below(S, R, x)) < Cardinality(S)
  <2>1. Below(S, R, x) \subseteq S /\ Below(S, R, x) # S
    BY DEF Below, StrictOrder
  <2> QED BY <1>1, <1>2, <2>1, FS_Subset
<1>4. ASSUME NEW x \in S, NEW y \in S, <<x, y>> \in R
      PROVE  Cardinality(Below(S, R, x)) < Cardinality(Below(S, R, y))
  <2>1. /\ Below(S, R, x) \subseteq Below(S, R, y)
        /\ Below(S, R, x) # Below(S, R, y)
    BY <1>4 DEF Below, StrictOrder
  <2> QED BY <1>2, <2>1, FS_Subset
<1> DEFINE rank == [x \in S |-> Cardinality(Below(S, R, x))]
           T == 0..(Cardinality(S) - 1)
<1>5. rank \in Injection(S, T)
  <2>1. rank \in [S -> T]
    BY <1>1, <1>2, <1>3
  <2>2. ASSUME NEW x \in S, NEW y \in S, rank[x] = rank[y] PROVE x = y
    <3> SUFFICES ASSUME x # y PROVE FALSE
      OBVIOUS
    <3>1. <<x, y>> \in R \/ <<y, x>> \in R
      BY DEF StrictOrder
    <3> QED BY <1>2, <1>4, <2>2, <3>1
  <2> QED BY <2>1, <2>2 DEF Injection, IsInjective
<1>6. IsFiniteSet(T) /\ Cardinality(T) = Cardinality(S)
  <2>1. 0 \in Int /\ Cardinality(S) - 1 \in Int
    BY <1>1
  <2>2. IsFiniteSet(T) /\ Cardinality(T) = IF 0 > Cardinality(S) - 1 THEN 0 ELSE (Cardinality(S) - 1) - 0 + 1
    BY <2>1, FS_Interval
  <2> QED BY <1>1, <2>2
<1> HIDE DEF T
<1>7. Range(rank) = T
  <2>1. Range(rank) \subseteq T
    BY <1>5 DEF Injection, Range
  <2>2. Cardinality(Range(rank)) = Cardinality(S)
    <3>1. rank \in Surjection(S, Range(rank))
      BY <1>5 DEF Injection, Surjection, Range
    <3>2. rank \in Bijection(S, Range(rank))
      BY <1>5, <3>1 DEF Injection, Bijection, Surjection
    <3> QED BY <3>2, FS_Bijection DEF ExistsBijection
  <2> QED BY <1>6, <2>1, <2>2, FS_Subset
<1>8. ASSUME NEW k \in 1..Cardinality(S)
      PROVE  \E x \in S : Cardinality(Below(S, R, x)) = k - 1
  <2>1. k - 1 \in T
    BY <1>1 DEF T
  <2> QED BY <1>7, <2>1 DEF Range
<1> QED BY <1>1, <1>2, <1>3, <1>4, <1>8

\* s lists the members of S in the order R.
Lists(s, S, R) ==
    /\ Cardinality(S) \in Nat
    /\ s \in [1..Cardinality(S) -> S]
    /\ \A x \in S : \E k \in 1..Cardinality(S) : s[k] = x
    /\ \A i, j \in 1..Cardinality(S) : i < j => <<s[i], s[j]>> \in R

LEMMA Listed ==
    ASSUME NEW S, IsFiniteSet(S), NEW R, StrictOrder(S, R), NEW s,
           s \in [1..Cardinality(S) -> S],
           \A k \in 1..Cardinality(S) : Cardinality(Below(S, R, s[k])) = k - 1
    PROVE  Lists(s, S, R)
<1>1. PICK n \in Nat : n = Cardinality(S)
  BY Ranks
<1>2. \A x \in S : Cardinality(Below(S, R, x)) \in 0..(n - 1)
  BY <1>1, Ranks
<1>3. ASSUME NEW x \in S PROVE \E k \in 1..n : s[k] = x
  <2>1. PICK k \in 1..n : Cardinality(Below(S, R, x)) = k - 1
    <3>1. PICK m \in 0..(n - 1) : Cardinality(Below(S, R, x)) = m
      BY <1>2
    <3>2. m + 1 \in 1..n /\ m = (m + 1) - 1
      BY <1>1
    <3> QED BY <3>1, <3>2
  <2>2. s[k] \in S /\ Cardinality(Below(S, R, s[k])) = k - 1
    BY <1>1
  <2>3. s[k] # x => <<s[k], x>> \in R \/ <<x, s[k]>> \in R
    BY <2>2 DEF StrictOrder
  <2>4. ~(<<s[k], x>> \in R) /\ ~(<<x, s[k]>> \in R)
    BY <2>1, <2>2, Ranks
  <2> QED BY <2>3, <2>4
<1>4. ASSUME NEW i \in 1..n, NEW j \in 1..n, i < j PROVE <<s[i], s[j]>> \in R
  <2>1. /\ s[i] \in S /\ s[j] \in S
        /\ Cardinality(Below(S, R, s[i])) = i - 1
        /\ Cardinality(Below(S, R, s[j])) = j - 1
    BY <1>1
  <2>2. s[i] # s[j]
    BY <1>4, <2>1
  <2>3. ~(<<s[j], s[i]>> \in R)
    BY <1>4, <2>1, Ranks
  <2> QED BY <2>1, <2>2, <2>3 DEF StrictOrder
<1> QED BY <1>1, <1>3, <1>4 DEF Lists

Less(S) == {p \in S \X S : p[1] < p[2]}

\* Numbers in their own order.
LEMMA Ascending ==
    ASSUME NEW S \in SUBSET Int, IsFiniteSet(S)
    PROVE  /\ Lists(InOrder(S, <), S, Less(S))
           /\ \A k \in 1..Cardinality(S) :
                 Cardinality(Below(S, Less(S), InOrder(S, <)[k])) = k - 1
<1>1. StrictOrder(S, Less(S))
  BY DEF StrictOrder, Less
<1>2. \A x \in S : Below(S, Less(S), x) = {y \in S : y < x}
  BY DEF Below, Less
<1>3. Cardinality(S) \in Nat
  BY FS_CardinalityType
<1>4. PICK s : s = InOrder(S, <)
  OBVIOUS
<1>5. s = [k \in 1..Cardinality(S) |->
             CHOOSE x \in S : Cardinality({y \in S : y < x}) = k - 1]
  BY <1>4 DEF InOrder
<1>6. ASSUME NEW k \in 1..Cardinality(S)
      PROVE  s[k] \in S /\ Cardinality(Below(S, Less(S), s[k])) = k - 1
  <2>1. \E x \in S : Cardinality(Below(S, Less(S), x)) = k - 1
    BY <1>1, Ranks
  <2>2. \E x \in S : Cardinality({y \in S : y < x}) = k - 1
    BY <1>2, <2>1
  <2>3. s[k] \in S /\ Cardinality({y \in S : y < s[k]}) = k - 1
    <3>1. s[k] = CHOOSE x \in S : Cardinality({y \in S : y < x}) = k - 1
      BY <1>5
    <3> QED BY <2>2, <3>1
  <2> QED BY <1>2, <2>3
<1>7. s \in [1..Cardinality(S) -> S]
  BY <1>5, <1>6
<1> QED BY <1>1, <1>4, <1>6, <1>7, Listed

\* The first numbers of a set, in their order, come first.
LEMMA FirstOnes ==
    ASSUME NEW S \in SUBSET Int, IsFiniteSet(S), NEW b \in Int,
           NEW A, A = {x \in S : x <= b}
    PROVE  /\ IsFiniteSet(A) /\ Cardinality(A) \in Nat /\ Cardinality(A) <= Cardinality(S)
           /\ \A k \in 1..Cardinality(A) : InOrder(A, <)[k] = InOrder(S, <)[k]
<1>1. A \in SUBSET S
  OBVIOUS
<1>2. /\ IsFiniteSet(A) /\ Cardinality(A) \in Nat /\ Cardinality(S) \in Nat
      /\ Cardinality(A) <= Cardinality(S)
  BY <1>1, FS_Subset, FS_CardinalityType
<1>3. ASSUME NEW k \in 1..Cardinality(A) PROVE InOrder(A, <)[k] = InOrder(S, <)[k]
  <2>1. PICK x, y : x = InOrder(A, <)[k] /\ y = InOrder(S, <)[k]
    OBVIOUS
  <2>2. k \in 1..Cardinality(S)
    BY <1>2
  <2>3. x \in A /\ Cardinality(Below(A, Less(A), x)) = k - 1
    <3>1. A \in SUBSET Int
      BY <1>1
    <3> QED BY <1>2, <2>1, <3>1, Ascending DEF Lists
  <2>4. y \in S /\ Cardinality(Below(S, Less(S), y)) = k - 1
    BY <2>1, <2>2, Ascending DEF Lists
  <2>5. Below(A, Less(A), x) = Below(S, Less(S), x)
    <3>1. ASSUME NEW z \in S, z < x PROVE z \in A
      <4>1. x \in Int /\ z \in Int /\ x <= b
        BY <2>3
      <4> QED BY <3>1, <4>1
    <3>2. x \in S
      BY <2>3
    <3> QED BY <2>3, <3>1, <3>2 DEF Below, Less
  <2>6. StrictOrder(S, Less(S))
    BY DEF StrictOrder, Less
  <2>7. ~(<<x, y>> \in Less(S)) /\ ~(<<y, x>> \in Less(S))
    <3>1. x \in S
      BY <2>3
    <3>2. <<x, y>> \in Less(S) =>
             Cardinality(Below(S, Less(S), x)) < Cardinality(Below(S, Less(S), y))
      BY <2>4, <2>6, <3>1, Ranks
    <3>3. <<y, x>> \in Less(S) =>
             Cardinality(Below(S, Less(S), y)) < Cardinality(Below(S, Less(S), x))
      BY <2>4, <2>6, <3>1, Ranks
    <3> QED BY <2>3, <2>4, <2>5, <3>2, <3>3
  <2> QED BY <2>1, <2>3, <2>4, <2>6, <2>7 DEF StrictOrder
<1> QED BY <1>2, <1>3

(***************************************************************************)
(* Text and its segments.                                                  *)
(***************************************************************************)

\* A function on a first stretch of the numbers is a sequence.
LEMMA Sequenced ==
    ASSUME NEW S, NEW n \in Nat, NEW f \in [1..n -> S]
    PROVE  f \in Seq(S) /\ Len(f) = n /\ DOMAIN f = 1..n
OBVIOUS

\* A part of a sequence.
LEMMA Parts ==
    ASSUME NEW S, NEW t \in Seq(S), NEW a \in Nat, NEW b \in Nat,
           1 <= a, a <= b + 1, b <= Len(t)
    PROVE  /\ SubSeq(t, a, b) \in Seq(S) /\ Len(SubSeq(t, a, b)) = b - a + 1
           /\ \A i \in 1..(b - a + 1) : SubSeq(t, a, b)[i] = t[a + i - 1]
OBVIOUS

\* A letter of a text.  (The provers do not know that a literal is a string.)
Letter == STRING \cup {"/"}
Text == Seq(Letter)

\* A sequence of some elements is one of more.
LEMMA SeqWiden ==
    ASSUME NEW S, NEW T, S \subseteq T, NEW s \in Seq(S)
    PROVE  s \in Seq(T)
<1>1. PICK n \in Nat : n = Len(s) /\ s \in [1..n -> S]
  OBVIOUS
<1>2. s \in [1..n -> T]
  BY <1>1
<1> QED BY <1>2, Sequenced

\* Nothing to trim.
Trimmed(t) == t # <<>> => t[1] # "/" /\ t[Len(t)] # "/"

LEMMA Trims ==
    ASSUME NEW t \in Text
    PROVE  Trim(t) \in Text /\ Trimmed(Trim(t)) /\ (Trimmed(t) => Trim(t) = t)
<1> DEFINE kept == {i \in DOMAIN t : t[i] # "/"}
<1>1. PICK n \in Nat : n = Len(t) /\ DOMAIN t = 1..n
  BY DEF Text
<1>2. CASE kept = {}
  <2>1. Trim(t) = <<>>
    BY <1>2 DEF Trim
  <2>2. Trimmed(t) => t = <<>>
    BY <1>1, <1>2 DEF Trimmed, Text
  <2>3. Trim(t) \in Text /\ Trimmed(Trim(t))
    <3>1. <<>> \in Text
      BY EmptySeq DEF Text
    <3>2. Trimmed(<<>>)
      BY Zenon DEF Trimmed
    <3> QED BY <2>1, <3>1, <3>2
  <2> QED BY <2>1, <2>2, <2>3
<1>3. CASE kept # {}
  <2>1. kept \in SUBSET Nat /\ \A x \in kept : x <= n
    BY <1>1
  <2>2. /\ Min(kept) \in kept /\ \A x \in kept : Min(kept) <= x
        /\ Max(kept) \in kept /\ \A x \in kept : x <= Max(kept)
    BY <1>1, <1>3, <2>1, MinIs, MaxIs
  <2>3. PICK a \in 1..n, b \in 1..n : a = Min(kept) /\ b = Max(kept) /\ a <= b
    BY <1>1, <2>2
  <2>4. Trim(t) = SubSeq(t, a, b)
    BY <1>3, <2>3 DEF Trim
  <2>5. t[a] # "/" /\ t[b] # "/"
    BY <2>2, <2>3
  <2>6. /\ Trim(t) \in Text /\ Len(Trim(t)) = b - a + 1
        /\ Trim(t)[1] = t[a] /\ Trim(t)[b - a + 1] = t[b]
    <3>1. /\ a \in Nat /\ b \in Nat /\ 1 <= a /\ a <= b + 1 /\ b <= Len(t)
          /\ 1 \in 1..(b - a + 1) /\ b - a + 1 \in 1..(b - a + 1)
          /\ a + 1 - 1 = a /\ a + (b - a + 1) - 1 = b
      BY <1>1, <2>3
    <3>2. /\ SubSeq(t, a, b) \in Seq(Letter) /\ Len(SubSeq(t, a, b)) = b - a + 1
          /\ \A i \in 1..(b - a + 1) : SubSeq(t, a, b)[i] = t[a + i - 1]
      BY <3>1, Parts DEF Text
    <3>3. /\ SubSeq(t, a, b)[1] = t[a + 1 - 1]
          /\ SubSeq(t, a, b)[b - a + 1] = t[a + (b - a + 1) - 1]
      BY <3>1, <3>2
    <3> QED BY <2>4, <3>1, <3>2, <3>3 DEF Text
  <2>7. Trimmed(t) => a = 1 /\ b = n
    <3> SUFFICES ASSUME Trimmed(t) PROVE a = 1 /\ b = n
      OBVIOUS
    <3>1. t # <<>> /\ n >= 1
      BY <1>1, <2>3
    <3>2. 1 \in kept /\ n \in kept
      BY <1>1, <3>1 DEF Trimmed
    <3> QED BY <2>2, <2>3, <3>2
  <2>8. Trimmed(t) => Trim(t) = t
    BY <1>1, <2>4, <2>7 DEF Text
  <2> QED BY <2>3, <2>5, <2>6, <2>8 DEF Trimmed
<1> QED BY <1>2, <1>3

\* Where a text is cut: at its slashes and its ends.
Cuts(t) == {0, Len(t) + 1} \cup {i \in DOMAIN t : t[i] = "/"}

Cut(t) == InOrder(Cuts(t), <)

LEMMA CutsListed ==
    ASSUME NEW t \in Text
    PROVE  LET n == Cardinality(Cuts(t)) IN
           /\ IsFiniteSet(Cuts(t)) /\ Cuts(t) \in SUBSET (0..(Len(t) + 1))
           /\ n \in Nat /\ n >= 2
           /\ Cut(t) \in [1..n -> Cuts(t)]
           /\ \A i, j \in 1..n : i < j => Cut(t)[i] < Cut(t)[j]
           /\ \A x \in Cuts(t) : \E k \in 1..n : Cut(t)[k] = x
           /\ Cut(t)[1] = 0 /\ Cut(t)[n] = Len(t) + 1
           /\ \A k \in 1..(n - 1), i \in Cuts(t) :
                 ~(Cut(t)[k] < i /\ i < Cut(t)[k + 1])
<1>1. PICK len \in Nat : len = Len(t) /\ DOMAIN t = 1..len
  BY DEF Text
<1>2. /\ Cuts(t) \in SUBSET (0..(len + 1)) /\ Cuts(t) \in SUBSET Nat
      /\ 0 \in Cuts(t) /\ len + 1 \in Cuts(t)
  BY <1>1 DEF Cuts
<1>3. IsFiniteSet(Cuts(t))
  <2>1. \A x \in Cuts(t) : x <= len + 1
    BY <1>1, <1>2
  <2> QED BY <1>1, <1>2, <2>1, FS_BoundedSetOfNaturals
<1>4. PICK n, C, c : n = Cardinality(Cuts(t)) /\ C = Cuts(t) /\ c = Cut(t)
  OBVIOUS
<1>5. /\ n \in Nat /\ c \in [1..n -> C] /\ \A x \in C : \E k \in 1..n : c[k] = x
      /\ \A i, j \in 1..n : i < j => c[i] < c[j]
  <2>1. Cuts(t) \in SUBSET Int
    BY <1>2
  <2>2. Lists(c, C, Less(C))
    BY <1>3, <1>4, <2>1, Ascending DEF Cut
  <2> QED BY <1>4, <2>2 DEF Lists, Less
<1>6. \A k \in 1..n : c[k] \in Nat /\ c[k] <= len + 1
  BY <1>1, <1>2, <1>4, <1>5
<1>7. PICK a \in 1..n, z \in 1..n : c[a] = 0 /\ c[z] = len + 1
  BY <1>2, <1>4, <1>5
<1>8. a = 1
  <2>1. 1 \in 1..n /\ (1 < a => c[1] < c[a])
    BY <1>5, <1>7
  <2> QED BY <1>5, <1>6, <1>7, <2>1
<1>9. z = n
  <2>1. n \in 1..n /\ (z < n => c[z] < c[n])
    BY <1>5, <1>7
  <2> QED BY <1>5, <1>6, <1>7, <2>1
<1>10. n >= 2
  BY <1>1, <1>5, <1>7, <1>8, <1>9
<1>11. ASSUME NEW k \in 1..(n - 1), NEW i \in C, c[k] < i, i < c[k + 1] PROVE FALSE
  <2>1. PICK m \in 1..n : c[m] = i
    BY <1>5
  <2>2. k \in 1..n /\ k + 1 \in 1..n /\ k \in Nat
    BY <1>5
  <2>3. /\ m < k => c[m] < c[k]
        /\ m > k + 1 => c[k + 1] < c[m]
    BY <1>5, <2>2
  <2>4. c[m] \in Nat /\ c[k] \in Nat /\ c[k + 1] \in Nat
    BY <1>6, <2>2
  <2>5. ~(m <= k) /\ ~(m >= k + 1)
    BY <1>11, <2>1, <2>3, <2>4
  <2> QED BY <2>2, <2>5
<1> QED BY <1>1, <1>2, <1>3, <1>4, <1>5, <1>7, <1>8, <1>9, <1>10, <1>11

\* What split('/') returns.
LEMMA Splits ==
    ASSUME NEW t \in Text
    PROVE  LET n == Cardinality(Cuts(t)) IN
           /\ Split(t) \in Seq(Text) /\ Len(Split(t)) = n - 1
           /\ \A k \in 1..(n - 1) :
                 /\ Split(t)[k] = SubSeq(t, Cut(t)[k] + 1, Cut(t)[k + 1] - 1)
                 /\ Split(t)[k] \in Text
                 /\ Len(Split(t)[k]) = Cut(t)[k + 1] - Cut(t)[k] - 1
                 /\ \A i \in 1..Len(Split(t)[k]) :
                       /\ Split(t)[k][i] = t[Cut(t)[k] + i]
                       /\ Split(t)[k][i] # "/"
<1>1. PICK len \in Nat : len = Len(t) /\ DOMAIN t = 1..len
  BY DEF Text
<1>2. PICK n, C, c : n = Cardinality(Cuts(t)) /\ C = Cuts(t) /\ c = Cut(t)
  OBVIOUS
<1>3. /\ n \in Nat /\ n >= 2 /\ C \in SUBSET (0..(len + 1))
      /\ c \in [1..n -> C]
      /\ \A i, j \in 1..n : i < j => c[i] < c[j]
      /\ \A k \in 1..(n - 1), i \in C : ~(c[k] < i /\ i < c[k + 1])
  BY <1>1, <1>2, CutsListed
<1>4. c = InOrder({0, Len(t) + 1} \cup {i \in DOMAIN t : t[i] = "/"}, <)
  BY <1>2 DEF Cut, Cuts
<1>5. Len(c) = n
  BY <1>3, Sequenced
<1>6. Split(t) = [k \in 1..(n - 1) |-> SubSeq(t, c[k] + 1, c[k + 1] - 1)]
  BY <1>4, <1>5 DEF Split
<1>7. ASSUME NEW k \in 1..(n - 1)
      PROVE  /\ Split(t)[k] = SubSeq(t, c[k] + 1, c[k + 1] - 1)
             /\ Split(t)[k] \in Text
             /\ Len(Split(t)[k]) = c[k + 1] - c[k] - 1
             /\ \A i \in 1..Len(Split(t)[k]) :
                   Split(t)[k][i] = t[c[k] + i] /\ Split(t)[k][i] # "/"
  <2>1. PICK a \in Nat, b \in Nat : /\ a = c[k] /\ b = c[k + 1] /\ a < b /\ b <= len + 1
                                    /\ k + 1 \in 1..n
    <3>1. k \in 1..n /\ k + 1 \in 1..n /\ k < k + 1
      BY <1>3
    <3>2. c[k] \in 0..(len + 1) /\ c[k + 1] \in 0..(len + 1)
      BY <1>3, <3>1
    <3>3. c[k] < c[k + 1]
      BY <1>3, <3>1
    <3> QED BY <1>1, <3>1, <3>2, <3>3
  <2>2. PICK seg : seg = SubSeq(t, a + 1, b - 1)
    OBVIOUS
  <2>3. /\ seg \in Text /\ Len(seg) = b - a - 1
        /\ \A i \in 1..(b - a - 1) : seg[i] = t[a + i]
    <3>1. /\ a + 1 \in Nat /\ b - 1 \in Nat /\ 1 <= a + 1 /\ a + 1 <= (b - 1) + 1
          /\ b - 1 <= Len(t) /\ (b - 1) - (a + 1) + 1 = b - a - 1
      <4>1. a \in Nat /\ b \in Nat /\ a < b /\ b <= len + 1 /\ len \in Nat
        BY <1>1, <2>1
      <4>2. len = Len(t)
        BY <1>1
      <4> QED BY <4>1, <4>2
    <3>2. /\ seg \in Seq(Letter) /\ Len(seg) = (b - 1) - (a + 1) + 1
          /\ \A i \in 1..((b - 1) - (a + 1) + 1) : seg[i] = t[(a + 1) + i - 1]
      BY <2>2, <3>1, Parts DEF Text
    <3>3. \A i \in 1..(b - a - 1) : (a + 1) + i - 1 = a + i
      BY <2>1
    <3> QED BY <3>1, <3>2, <3>3 DEF Text
  <2>4. Split(t)[k] = seg
    BY <1>6, <2>1, <2>2
  <2>5. ASSUME NEW i \in 1..(b - a - 1) PROVE t[a + i] # "/"
    <3>1. a < a + i /\ a + i < b /\ a + i \in 1..len
      BY <1>1, <2>1
    <3>2. a + i \notin C
      BY <1>3, <2>1, <3>1
    <3> QED BY <1>1, <1>2, <3>1, <3>2 DEF Cuts
  <2>6. Split(t)[k] = SubSeq(t, c[k] + 1, c[k + 1] - 1)
    BY <1>6
  <2>7. \A i \in 1..Len(Split(t)[k]) : Split(t)[k][i] = t[c[k] + i] /\ Split(t)[k][i] # "/"
    BY <2>1, <2>3, <2>4, <2>5
  <2> QED BY <2>1, <2>3, <2>4, <2>6, <2>7
<1>8. Split(t) \in [1..(n - 1) -> Text]
  BY <1>6, <1>7
<1>9. n - 1 \in Nat
  BY <1>3
<1>10. Split(t) \in Seq(Text) /\ Len(Split(t)) = n - 1
  BY <1>8, <1>9, Sequenced
<1> QED BY <1>2, <1>7, <1>10

\* A prefix of a sequence, by its elements.
LEMMA PrefixIs ==
    ASSUME NEW S, NEW s \in Seq(S), NEW t \in Seq(S)
    PROVE  IsPrefix(s, t) <=> Len(s) <= Len(t) /\ \A i \in 1..Len(s) : s[i] = t[i]
<1> SUFFICES ASSUME Len(s) <= Len(t)
             PROVE  SubSeq(s, 1, Len(s)) = SubSeq(t, 1, Len(s))
                       <=> \A i \in 1..Len(s) : s[i] = t[i]
  BY DEF IsPrefix
<1>1. PICK n \in Nat : n = Len(s)
  OBVIOUS
<1>2. PICK a, b : a = SubSeq(s, 1, n) /\ b = SubSeq(t, 1, n)
  OBVIOUS
<1>3. /\ a \in Seq(S) /\ b \in Seq(S) /\ Len(a) = n /\ Len(b) = n
      /\ \A i \in 1..n : a[i] = s[i] /\ b[i] = t[i]
  <2>1. 1 \in Nat /\ 1 <= 1 /\ 1 <= n + 1 /\ n <= Len(s) /\ n <= Len(t) /\ n - 1 + 1 = n
    BY <1>1
  <2>2. \A i \in 1..n : 1 + i - 1 = i
    OBVIOUS
  <2>3. /\ SubSeq(s, 1, n) \in Seq(S) /\ SubSeq(t, 1, n) \in Seq(S)
        /\ Len(SubSeq(s, 1, n)) = n - 1 + 1 /\ Len(SubSeq(t, 1, n)) = n - 1 + 1
        /\ \A i \in 1..(n - 1 + 1) : /\ SubSeq(s, 1, n)[i] = s[1 + i - 1]
                                     /\ SubSeq(t, 1, n)[i] = t[1 + i - 1]
    BY <1>1, <2>1, Parts
  <2> QED BY <1>2, <2>1, <2>2, <2>3
<1>4. a = b <=> \A i \in 1..n : a[i] = b[i]
  BY <1>2, <1>3
<1> QED BY <1>1, <1>2, <1>3, <1>4

\* A text is under a prefix if and only if it starts with it and ends there or
\* goes on with a slash.
LEMMA UnderIs ==
    ASSUME NEW t \in Text, NEW p \in Text
    PROVE  UnderPrefix(t, p) <=> /\ Len(p) <= Len(t) /\ \A i \in 1..Len(p) : t[i] = p[i]
                                 /\ Len(p) + 1 \in Cuts(t)
<1>1. PICK n \in Nat, m \in Nat : /\ n = Len(t) /\ DOMAIN t = 1..n
                                  /\ m = Len(p) /\ DOMAIN p = 1..m
  BY DEF Text
<1>2. IsPrefix(p, t) <=> m <= n /\ \A i \in 1..m : t[i] = p[i]
  BY <1>1, PrefixIs DEF Text
<1>3. m <= n => (m + 1 \in Cuts(t) <=> (n > m => t[m + 1] = "/"))
  BY <1>1 DEF Cuts
<1> QED BY <1>1, <1>2, <1>3 DEF UnderPrefix

\* The cuts of a text under a prefix start with the cuts of the prefix.
LEMMA CutsOfPrefix ==
    ASSUME NEW t \in Text, NEW p \in Text, UnderPrefix(t, p)
    PROVE  /\ Cardinality(Cuts(p)) <= Cardinality(Cuts(t))
           /\ \A k \in 1..Cardinality(Cuts(p)) : Cut(p)[k] = Cut(t)[k]
<1>1. PICK n \in Nat, m \in Nat : /\ n = Len(t) /\ DOMAIN t = 1..n
                                  /\ m = Len(p) /\ DOMAIN p = 1..m
  BY DEF Text
<1>2. m <= n /\ (\A i \in 1..m : t[i] = p[i]) /\ m + 1 \in Cuts(t)
  BY <1>1, UnderIs
<1>3. Cuts(p) = {x \in Cuts(t) : x <= m + 1}
  <2>1. ASSUME NEW x \in Cuts(p) PROVE x \in Cuts(t) /\ x <= m + 1
    <3>1. x = 0 \/ x = m + 1 \/ (x \in 1..m /\ p[x] = "/")
      BY <1>1 DEF Cuts
    <3>2. CASE x = 0
      BY <1>1, <3>2 DEF Cuts
    <3>3. CASE x = m + 1
      BY <1>1, <1>2, <3>3
    <3>4. CASE x \in 1..m /\ p[x] = "/"
      <4>1. x \in 1..n /\ t[x] = "/"
        BY <1>1, <1>2, <3>4
      <4> QED BY <1>1, <3>4, <4>1 DEF Cuts
    <3> QED BY <3>1, <3>2, <3>3, <3>4
  <2>2. ASSUME NEW x \in Cuts(t), x <= m + 1 PROVE x \in Cuts(p)
    <3>1. x = 0 \/ x = n + 1 \/ (x \in 1..n /\ t[x] = "/")
      BY <1>1 DEF Cuts
    <3>2. CASE x = 0
      BY <1>1, <3>2 DEF Cuts
    <3>3. CASE x = m + 1
      BY <1>1, <3>3 DEF Cuts
    <3>4. CASE x # 0 /\ x # m + 1
      <4>1. x \in 1..m /\ t[x] = "/"
        BY <1>1, <1>2, <2>2, <3>1, <3>4
      <4> QED BY <1>1, <1>2, <4>1 DEF Cuts
    <3> QED BY <3>1, <3>2, <3>3, <3>4
  <2> QED BY <2>1, <2>2
<1>4. IsFiniteSet(Cuts(t)) /\ Cuts(t) \in SUBSET Int /\ m + 1 \in Int
  BY <1>1, CutsListed
<1> QED BY <1>3, <1>4, FirstOnes DEF Cut

LEMMA Offset ==
    ASSUME NEW u \in Int, NEW v \in Int, NEW i \in 1..(v - 1), i > u
    PROVE  i - u \in 1..(v - u - 1) /\ u + (i - u) = i
OBVIOUS

\* A text is under a prefix if and only if the segments of the prefix are the
\* first segments of the text.
LEMMA SplitPrefix ==
    ASSUME NEW t \in Text, NEW p \in Text
    PROVE  UnderPrefix(t, p) <=>
              \E k \in 1..Len(Split(t)) : SubSeq(Split(t), 1, k) = Split(p)
<1>1. PICK n, m, C, D, c, d : /\ n = Cardinality(Cuts(t)) /\ m = Cardinality(Cuts(p))
                              /\ C = Cuts(t) /\ D = Cuts(p) /\ c = Cut(t) /\ d = Cut(p)
  OBVIOUS
<1>2. PICK x \in Nat, y \in Nat : /\ x = Len(t) /\ DOMAIN t = 1..x
                                  /\ y = Len(p) /\ DOMAIN p = 1..y
  BY DEF Text
<1>3. /\ n \in Nat /\ n >= 2 /\ C \in SUBSET (0..(x + 1)) /\ c \in [1..n -> C]
      /\ c[1] = 0 /\ c[n] = x + 1 /\ \A i, j \in 1..n : i < j => c[i] < c[j]
      /\ m \in Nat /\ m >= 2 /\ D \in SUBSET (0..(y + 1)) /\ d \in [1..m -> D]
      /\ d[1] = 0 /\ d[m] = y + 1 /\ \A i, j \in 1..m : i < j => d[i] < d[j]
  BY <1>1, <1>2, CutsListed
<1>4. PICK s \in Seq(Text), r \in Seq(Text) :
         /\ s = Split(t) /\ Len(s) = n - 1 /\ r = Split(p) /\ Len(r) = m - 1
  BY <1>1, Splits
<1>5. /\ \A k \in 1..(n - 1) : /\ s[k] \in Text /\ Len(s[k]) = c[k + 1] - c[k] - 1
                               /\ \A i \in 1..Len(s[k]) : s[k][i] = t[c[k] + i]
      /\ \A k \in 1..(m - 1) : /\ r[k] \in Text /\ Len(r[k]) = d[k + 1] - d[k] - 1
                               /\ \A i \in 1..Len(r[k]) : r[k][i] = p[d[k] + i]
  BY <1>1, <1>4, Splits
<1>6. \A k \in 1..(n - 1) : /\ SubSeq(s, 1, k) \in Seq(Text) /\ Len(SubSeq(s, 1, k)) = k
                            /\ \A i \in 1..k : SubSeq(s, 1, k)[i] = s[i]
  <2> SUFFICES ASSUME NEW k \in 1..(n - 1)
               PROVE  /\ SubSeq(s, 1, k) \in Seq(Text) /\ Len(SubSeq(s, 1, k)) = k
                      /\ \A i \in 1..k : SubSeq(s, 1, k)[i] = s[i]
    OBVIOUS
  <2>1. 1 \in Nat /\ k \in Nat /\ 1 <= 1 /\ 1 <= k + 1 /\ k <= Len(s) /\ k - 1 + 1 = k
    BY <1>3, <1>4
  <2>2. \A i \in 1..k : 1 + i - 1 = i
    OBVIOUS
  <2>3. /\ SubSeq(s, 1, k) \in Seq(Text) /\ Len(SubSeq(s, 1, k)) = k - 1 + 1
        /\ \A i \in 1..(k - 1 + 1) : SubSeq(s, 1, k)[i] = s[1 + i - 1]
    BY <1>4, <2>1, Parts
  <2> QED BY <2>1, <2>2, <2>3
<1>7. ASSUME UnderPrefix(t, p) PROVE \E k \in 1..(n - 1) : SubSeq(s, 1, k) = r
  <2>1. m <= n /\ \A k \in 1..m : d[k] = c[k]
    BY <1>1, <1>7, CutsOfPrefix
  <2>2. y <= x /\ \A i \in 1..y : t[i] = p[i]
    BY <1>2, <1>7, UnderIs
  <2>3. m - 1 \in 1..(n - 1)
    BY <1>3, <2>1
  <2>4. ASSUME NEW k \in 1..(m - 1) PROVE s[k] = r[k]
    <3>1. /\ k \in 1..m /\ k + 1 \in 1..m /\ k \in 1..(n - 1)
          /\ d[k] = c[k] /\ d[k + 1] = c[k + 1]
      BY <1>3, <2>1
    <3>2. s[k] \in Text /\ r[k] \in Text /\ Len(s[k]) = Len(r[k])
      BY <1>5, <3>1
    <3>3. PICK l \in Nat : l = Len(r[k])
      BY <3>2 DEF Text
    <3>4. ASSUME NEW i \in 1..l PROVE s[k][i] = r[k][i]
      <4>1. s[k][i] = t[c[k] + i] /\ r[k][i] = p[c[k] + i]
        BY <1>5, <3>1, <3>2, <3>3
      <4>2. d[k] \in Nat /\ d[k + 1] \in Nat /\ d[k + 1] <= y + 1
        <5>1. d[k] \in D /\ d[k + 1] \in D
          BY <1>3, <3>1
        <5>2. d[k] \in 0..(y + 1) /\ d[k + 1] \in 0..(y + 1)
          BY <1>3, <5>1
        <5> QED BY <5>2
      <4>3. l = d[k + 1] - d[k] - 1
        BY <1>5, <3>3
      <4>4. c[k] + i \in 1..y
        BY <3>1, <4>2, <4>3
      <4> QED BY <2>2, <4>1, <4>4
    <3>5. PICK a \in Seq(Letter), b \in Seq(Letter) : a = s[k] /\ b = r[k]
      BY <3>2 DEF Text
    <3>6. Len(a) = l /\ Len(b) = l /\ \A i \in 1..l : a[i] = b[i]
      BY <3>2, <3>3, <3>4, <3>5
    <3>7. a = b
      BY <3>3, <3>6, SeqEqual
    <3> QED BY <3>5, <3>7
  <2>5. SubSeq(s, 1, m - 1) = r
    <3>1. PICK q : q = SubSeq(s, 1, m - 1)
      OBVIOUS
    <3>2. q \in Seq(Text) /\ Len(q) = m - 1 /\ \A i \in 1..(m - 1) : q[i] = r[i]
      BY <1>6, <2>3, <2>4, <3>1
    <3>3. q = r
      BY <1>4, <3>2, SeqEqual
    <3> QED BY <3>1, <3>3
  <2> QED BY <2>3, <2>5
<1>8. ASSUME NEW k \in 1..(n - 1), SubSeq(s, 1, k) = r PROVE UnderPrefix(t, p)
  <2>1. k = m - 1 /\ \A i \in 1..(m - 1) : s[i] = r[i]
    BY <1>4, <1>6, <1>8
  <2> DEFINE Same(j) == j \in 1..m => c[j] = d[j] /\ \A i \in 1..(d[j] - 1) : t[i] = p[i]
             Good == {j \in Nat : Same(j)}
  <2>2. ASSUME NEW j \in Nat, \A i \in Nat : i < j => i \in Good PROVE j \in Good
    <3>1. CASE j \notin 2..m
      BY <1>3, <3>1
    <3>2. CASE j \in 2..m
      <4>1. PICK l \in 1..(m - 1) : l = j - 1 /\ l + 1 = j /\ l \in 1..m /\ l \in 1..(n - 1)
        BY <1>3, <2>1, <3>2
      <4>2. c[l] = d[l] /\ \A i \in 1..(d[l] - 1) : t[i] = p[i]
        BY <2>2, <4>1
      <4>3. s[l] = r[l] /\ Len(s[l]) = c[j] - c[l] - 1 /\ Len(r[l]) = d[j] - d[l] - 1
        BY <1>5, <2>1, <4>1
      <4>4. /\ d[l] \in 0..(y + 1) /\ d[j] \in 0..(y + 1) /\ c[l] \in Nat /\ c[j] \in 0..(x + 1)
            /\ d[l] \in D /\ c[l] \in C /\ d[l] < d[j] /\ c[l] < c[j]
        <5>1. /\ l \in 1..m /\ j \in 1..m /\ l < j /\ l \in 1..n /\ j \in 1..n
          BY <1>3, <2>1, <3>2, <4>1
        <5>2. /\ d[l] \in D /\ d[j] \in D /\ c[l] \in C /\ c[j] \in C
              /\ d[l] < d[j] /\ c[l] < c[j]
          BY <1>3, <5>1
        <5>3. /\ d[l] \in 0..(y + 1) /\ d[j] \in 0..(y + 1)
              /\ c[l] \in 0..(x + 1) /\ c[j] \in 0..(x + 1)
          BY <1>3, <5>2
        <5> QED BY <5>2, <5>3
      <4>5. c[j] = d[j]
        BY <4>2, <4>3, <4>4
      <4>6. ASSUME NEW i \in 1..(d[j] - 1) PROVE t[i] = p[i]
        <5>1. CASE i < d[l]
          <6>1. i \in 1..(d[l] - 1)
            BY <4>4, <5>1
          <6> QED BY <4>2, <6>1
        <5>2. CASE i = d[l]
          <6>1. i \in 1..x /\ i \in 1..y /\ i \in C /\ i \in D
            BY <4>2, <4>4, <4>5, <5>2
          <6> QED BY <1>1, <1>2, <6>1 DEF Cuts
        <5>3. CASE i > d[l]
          <6>1. i - d[l] \in 1..Len(r[l]) /\ d[l] + (i - d[l]) = i
            <7>1. PICK u \in Int, v \in Int : u = d[l] /\ v = d[j]
              BY <1>2, <4>4
            <7>2. Len(r[l]) = v - u - 1
              BY <4>3, <7>1
            <7>3. i \in 1..(v - 1) /\ i \in Int /\ i > u
              BY <4>6, <5>3, <7>1
            <7>4. i - u \in 1..(v - u - 1) /\ u + (i - u) = i
              BY <7>3, Offset
            <7> QED BY <7>1, <7>2, <7>4
          <6>2. r[l][i - d[l]] = p[i] /\ s[l][i - d[l]] = t[i]
            BY <1>5, <4>1, <4>2, <4>3, <6>1
          <6> QED BY <4>3, <6>2
        <5> QED BY <4>4, <5>1, <5>2, <5>3
      <4> QED BY <4>5, <4>6
    <3> QED BY <3>1, <3>2
  <2>3. m \in Good
    <3>1. Good \in SUBSET Nat
      OBVIOUS
    <3> HIDE DEF Good
    <3> QED BY <1>3, <2>2, <3>1, FirstBad
  <2>4. c[m] = y + 1 /\ \A i \in 1..y : t[i] = p[i]
    BY <1>3, <2>3
  <2>5. y + 1 \in C /\ y <= x
    <3>1. m \in 1..n
      BY <1>3, <2>1
    <3>2. c[m] \in C /\ (m < n => c[m] < c[n])
      BY <1>3, <3>1
    <3>3. y + 1 \in 0..(x + 1)
      BY <1>3, <2>4, <3>2
    <3> QED BY <2>4, <3>2, <3>3
  <2> QED BY <1>1, <1>2, <2>4, <2>5, UnderIs
<1> QED BY <1>4, <1>7, <1>8

(***************************************************************************)
(* Folds: the library takes the last element off a set of positions.       *)
(***************************************************************************)

Folding(base, take, n, g) ==
    [s \in SUBSET (1..n) |-> IF s = {} THEN base ELSE take[<<g[s \ {Max(s)}], Max(s)>>]]

\* The last position is one of the set, and leaves a smaller one.
LEMMA LastLeaves ==
    ASSUME NEW n \in Nat, NEW s \in SUBSET (1..n), s # {}
    PROVE  /\ Max(s) \in s /\ \A x \in s : x <= Max(s)
           /\ s \ {Max(s)} \in SUBSET (1..n)
           /\ Cardinality(s) \in Nat
           /\ Cardinality(s \ {Max(s)}) \in Nat
           /\ Cardinality(s \ {Max(s)}) < Cardinality(s)
<1>1. s \in SUBSET Nat /\ \A x \in s : x <= n
  OBVIOUS
<1>2. Max(s) \in s /\ \A x \in s : x <= Max(s)
  BY <1>1, MaxIs
<1>3. IsFiniteSet(s) /\ IsFiniteSet(s \ {Max(s)})
  BY <1>1, FS_BoundedSetOfNaturals, FS_Subset
<1>4. Cardinality(s) \in Nat /\ Cardinality(s \ {Max(s)}) \in Nat
  BY <1>3, FS_CardinalityType
<1>5. Cardinality(s \ {Max(s)}) = Cardinality(s) - 1
  BY <1>2, <1>3, FS_RemoveElement
<1>6. Cardinality(s \ {Max(s)}) < Cardinality(s)
  BY <1>4, <1>5
<1>7. s \ {Max(s)} \in SUBSET (1..n)
  OBVIOUS
<1> QED BY <1>2, <1>4, <1>6, <1>7

\* There is such a fold: up to any size, by the folds of smaller sets.
LEMMA FoldExists ==
    ASSUME NEW n \in Nat, NEW A, NEW base \in A, NEW take,
           \A a \in A, i \in 1..n : take[<<a, i>>] \in A
    PROVE  \E g : /\ g = Folding(base, take, n, g)
                  /\ \A s \in SUBSET (1..n) : g[s] \in A
<1> DEFINE P == SUBSET (1..n)
           Upto(m, g) == \A s \in P : Cardinality(s) <= m => g[s] = Folding(base, take, n, g)[s]
           Good == {m \in Nat : \E g \in [P -> A] : Upto(m, g)}
<1>1. \A s \in P : IsFiniteSet(s) /\ Cardinality(s) \in Nat
  <2> SUFFICES ASSUME NEW s \in P PROVE IsFiniteSet(s) /\ Cardinality(s) \in Nat
    OBVIOUS
  <2>1. IsFiniteSet(1..n)
    BY FS_Interval
  <2> QED BY <2>1, FS_Subset, FS_CardinalityType
<1>2. ASSUME NEW g \in [P -> A] PROVE Folding(base, take, n, g) \in [P -> A]
  <2>1. ASSUME NEW s \in P PROVE Folding(base, take, n, g)[s] \in A
    <3>1. CASE s = {}
      BY <3>1 DEF Folding
    <3>2. CASE s # {}
      <4>1. g[s \ {Max(s)}] \in A /\ Max(s) \in 1..n
        BY <3>2, LastLeaves
      <4>2. Folding(base, take, n, g)[s] = take[<<g[s \ {Max(s)}], Max(s)>>]
        BY <3>2, Zenon DEF Folding
      <4> QED BY <4>1, <4>2
    <3> QED BY <3>1, <3>2
  <2>2. Folding(base, take, n, g) = [s \in P |-> Folding(base, take, n, g)[s]]
    BY DEF Folding
  <2> QED BY <2>1, <2>2
<1>3. ASSUME NEW m \in Nat, \A i \in Nat : i < m => i \in Good PROVE m \in Good
  <2>1. CASE m = 0
    <3> DEFINE zero == [s \in P |-> base]
    <3>1. ASSUME NEW s \in P, Cardinality(s) <= m PROVE zero[s] = Folding(base, take, n, zero)[s]
      <4>1. s = {}
        BY <1>1, <2>1, <3>1, FS_EmptySet
      <4> QED BY <4>1 DEF Folding
    <3>2. zero \in [P -> A]
      OBVIOUS
    <3> QED BY <3>1, <3>2
  <2>2. CASE m # 0
    <3>1. m - 1 \in Nat /\ m - 1 < m
      BY <2>2
    <3>2. PICK g \in [P -> A] : Upto(m - 1, g)
      BY <1>3, <3>1
    <3>3. PICK h \in [P -> A] : h = Folding(base, take, n, g)
      BY <1>2
    <3>4. ASSUME NEW s \in P, Cardinality(s) <= m PROVE h[s] = Folding(base, take, n, h)[s]
      <4>1. CASE s = {}
        BY <3>3, <4>1 DEF Folding
      <4>2. CASE s # {}
        <5>1. s \ {Max(s)} \in P /\ Cardinality(s \ {Max(s)}) <= m - 1
          BY <1>1, <3>4, <4>2, LastLeaves
        <5>2. h[s \ {Max(s)}] = g[s \ {Max(s)}]
          BY <3>2, <3>3, <5>1
        <5>3. h[s] = take[<<g[s \ {Max(s)}], Max(s)>>]
          BY <3>3, <4>2, Zenon DEF Folding
        <5>4. Folding(base, take, n, h)[s] = take[<<h[s \ {Max(s)}], Max(s)>>]
          BY <4>2, Zenon DEF Folding
        <5> QED BY <5>2, <5>3, <5>4, Zenon
      <4> QED BY <4>1, <4>2
    <3>5. Upto(m, h)
      BY <3>4
    <3> QED BY <3>5
  <2> QED BY <2>1, <2>2
<1>4. Good = Nat
  <2> HIDE DEF Good
  <2>1. Good \in SUBSET Nat
    BY DEF Good
  <2> QED BY <1>3, <2>1, FirstBad
<1>5. IsFiniteSet(1..n) /\ Cardinality(1..n) \in Nat
  BY <1>1
<1>6. PICK g \in [P -> A] : Upto(Cardinality(1..n), g)
  BY <1>4, <1>5
<1>7. \A s \in P : g[s] = Folding(base, take, n, g)[s]
  <2> SUFFICES ASSUME NEW s \in P PROVE g[s] = Folding(base, take, n, g)[s]
    OBVIOUS
  <2>1. Cardinality(s) <= Cardinality(1..n)
    BY <1>5, FS_Subset
  <2> QED BY <1>6, <2>1
<1>8. Folding(base, take, n, g) \in [P -> A]
  BY <1>2
<1>9. g = Folding(base, take, n, g)
  <2>1. PICK h \in [P -> A] : h = Folding(base, take, n, g)
    BY <1>8
  <2>2. \A s \in P : g[s] = h[s]
    BY <1>7, <2>1
  <2> QED BY <2>1, <2>2
<1>10. \A s \in SUBSET (1..n) : g[s] \in A
  OBVIOUS
<1> QED BY <1>9, <1>10

\* The join of segments.
Joining(segs, g) ==
    [s \in SUBSET (DOMAIN segs) |->
        IF s = {} THEN <<>>
        ELSE IF g[s \ {Max(s)}] = <<>> THEN segs[Max(s)]
             ELSE g[s \ {Max(s)}] \o <<"/">> \o segs[Max(s)]]
Joined(segs) == CHOOSE g : g = Joining(segs, g)

LEMMA JoinFolds == ASSUME NEW segs PROVE Join(segs) = Joined(segs)[DOMAIN segs]
BY DEF Join, FoldLeft, MapThenFoldSet, Joined, Joining

\* The last of the first k positions.
LEMMA LastOf ==
    ASSUME NEW n \in Nat, NEW k \in 1..n
    PROVE  /\ 1..k \in SUBSET (1..n) /\ 1..k # {} /\ Max(1..k) = k
           /\ (1..k) \ {k} = 1..(k - 1)
<1>1. k \in 1..k /\ 1..k \in SUBSET (1..n)
  OBVIOUS
<1>2. Max(1..k) \in 1..k /\ \A x \in 1..k : x <= Max(1..k)
  BY <1>1, LastLeaves
<1>3. Max(1..k) = k
  BY <1>1, <1>2
<1> QED BY <1>1, <1>3

\* Two texts with a slash between them.
LEMMA Slashed ==
    ASSUME NEW t \in Text, NEW u \in Text
    PROVE  /\ t \o <<"/">> \o u \in Text
           /\ Len(t \o <<"/">> \o u) = Len(t) + 1 + Len(u)
           /\ \A i \in 1..Len(t) : (t \o <<"/">> \o u)[i] = t[i]
           /\ \A i \in 1..Len(u) : (t \o <<"/">> \o u)[Len(t) + 1 + i] = u[i]
<1>1. PICK a \in Seq(Letter), b \in Seq(Letter) : a = t /\ b = u
  BY DEF Text
<1>2. PICK o \in Seq(Letter) : o = <<"/">> /\ Len(o) = 1
  <2>1. "/" \in Letter
    BY DEF Letter
  <2>2. <<"/">> \in Seq(Letter) /\ Len(<<"/">>) = 1
    BY <2>1
  <2> QED BY <2>2
<1>3. PICK c : c = a \o o
  OBVIOUS
<1>4. c \in Seq(Letter) /\ Len(c) = Len(a) + 1 /\ \A i \in 1..Len(a) : c[i] = a[i]
  BY <1>2, <1>3
<1>5. PICK d : d = c \o b
  OBVIOUS
<1>6. /\ d \in Seq(Letter) /\ Len(d) = Len(c) + Len(b)
      /\ \A i \in 1..(Len(c) + Len(b)) : d[i] = IF i <= Len(c) THEN c[i] ELSE b[i - Len(c)]
  <2>1. c \in Seq(Letter) /\ b \in Seq(Letter)
    BY <1>4
  <2>2. /\ c \o b \in Seq(Letter) /\ Len(c \o b) = Len(c) + Len(b)
        /\ \A i \in 1..(Len(c) + Len(b)) :
              (c \o b)[i] = IF i <= Len(c) THEN c[i] ELSE b[i - Len(c)]
    BY <2>1, ConcatProperties, Zenon
  <2> QED BY <1>5, <2>2, Zenon
<1>7. PICK m \in Nat, n \in Nat : m = Len(a) /\ n = Len(b) /\ Len(c) = m + 1
  BY <1>4
<1>8. \A i \in 1..m : i \in 1..(m + 1 + n) /\ i <= m + 1
  OBVIOUS
<1>9. \A i \in 1..n : /\ m + 1 + i \in 1..(m + 1 + n) /\ ~(m + 1 + i <= m + 1)
                      /\ (m + 1 + i) - (m + 1) = i
  OBVIOUS
<1>10. /\ \A i \in 1..m : d[i] = a[i]
       /\ \A i \in 1..n : d[m + 1 + i] = b[i]
  BY <1>4, <1>6, <1>7, <1>8, <1>9
<1>11. d = t \o <<"/">> \o u
  BY <1>1, <1>2, <1>3, <1>5
<1> QED BY <1>1, <1>6, <1>7, <1>10, <1>11 DEF Text

\* Segment after segment, with a slash between them.
LEMMA JoinSteps ==
    ASSUME NEW n \in Nat, NEW segs \in Seq(Text), Len(segs) = n
    PROVE  /\ Join(segs) = Joined(segs)[1..n]
           /\ Joined(segs)[1..0] = <<>>
           /\ \A k \in 1..n : Joined(segs)[1..k] =
                 IF Joined(segs)[1..(k - 1)] = <<>> THEN segs[k]
                 ELSE Joined(segs)[1..(k - 1)] \o <<"/">> \o segs[k]
<1>1. DOMAIN segs = 1..n /\ <<>> \in Text /\ \A k \in 1..n : segs[k] \in Text
  BY EmptySeq DEF Text
<1>2. \A t, u \in Text : t \o <<"/">> \o u \in Text
  BY Slashed
<1>2a. PICK take : take = [p \in Text \X (1..n) |->
                   IF p[1] = <<>> THEN segs[p[2]] ELSE p[1] \o <<"/">> \o segs[p[2]]]
  OBVIOUS
<1>4. \A t \in Text, k \in 1..n :
         take[<<t, k>>] = IF t = <<>> THEN segs[k] ELSE t \o <<"/">> \o segs[k]
  BY <1>2a
<1>3. \A t \in Text, k \in 1..n : take[<<t, k>>] \in Text
  BY <1>1, <1>2, <1>4
<1>5. PICK g : /\ g = Folding(<<>>, take, n, g)
               /\ \A s \in SUBSET (1..n) : g[s] \in Text
  <2>1. PICK e \in Text : e = <<>>
    BY <1>1
  <2>2. \E g : g = Folding(e, take, n, g) /\ \A s \in SUBSET (1..n) : g[s] \in Text
    BY <1>3, FoldExists
  <2> QED BY <2>1, <2>2
<1>6. Joining(segs, g) = g
  <2>1. ASSUME NEW s \in SUBSET (1..n)
        PROVE  Joining(segs, g)[s] = Folding(<<>>, take, n, g)[s]
    <3>1. CASE s = {}
      BY <1>1, <3>1 DEF Joining, Folding
    <3>2. CASE s # {}
      <4>1. g[s \ {Max(s)}] \in Text /\ Max(s) \in 1..n
        BY <1>5, <3>2, LastLeaves
      <4>2. Folding(<<>>, take, n, g)[s] = take[<<g[s \ {Max(s)}], Max(s)>>]
        BY <3>2, Zenon DEF Folding
      <4>3. s \in SUBSET DOMAIN segs
        BY <1>1
      <4>4. Joining(segs, g)[s] = IF g[s \ {Max(s)}] = <<>> THEN segs[Max(s)]
                                  ELSE g[s \ {Max(s)}] \o <<"/">> \o segs[Max(s)]
        BY <3>2, <4>3, Zenon DEF Joining
      <4> QED BY <1>4, <4>1, <4>2, <4>4
    <3> QED BY <3>1, <3>2
  <2>2. PICK h : h = Joining(segs, g)
    OBVIOUS
  <2>3. /\ h = [s \in SUBSET (1..n) |-> h[s]]
        /\ g = [s \in SUBSET (1..n) |-> g[s]]
    BY <1>1, <1>5, <2>2 DEF Joining, Folding
  <2>4. \A s \in SUBSET (1..n) : h[s] = g[s]
    BY <1>5, <2>1, <2>2
  <2> QED BY <2>2, <2>3, <2>4
<1>7. Joined(segs) = Joining(segs, Joined(segs))
  BY <1>6 DEF Joined
<1>8. PICK j : j = Joined(segs)
  OBVIOUS
<1>9. \A s \in SUBSET (1..n) : j[s] = Joining(segs, j)[s]
  BY <1>7, <1>8
<1>10. j[{}] = <<>>
  <2>1. {} \in SUBSET (1..n) /\ {} \in SUBSET DOMAIN segs
    OBVIOUS
  <2> QED BY <1>9, <2>1, Zenon DEF Joining
<1>11. ASSUME NEW k \in 1..n
       PROVE  j[1..k] = IF j[1..(k - 1)] = <<>> THEN segs[k]
                        ELSE j[1..(k - 1)] \o <<"/">> \o segs[k]
  <2>1. PICK s, b : s = 1..k /\ b = 1..(k - 1)
    OBVIOUS
  <2>2. s \in SUBSET (1..n) /\ s # {} /\ Max(s) = k /\ s \ {k} = b
    BY <2>1, LastOf
  <2>3. s \in SUBSET DOMAIN segs
    BY <1>1, <2>2
  <2>4. Joining(segs, j)[s] = IF j[s \ {Max(s)}] = <<>> THEN segs[Max(s)]
                              ELSE j[s \ {Max(s)}] \o <<"/">> \o segs[Max(s)]
    BY <2>2, <2>3, Zenon DEF Joining
  <2>5. j[s] = IF j[b] = <<>> THEN segs[k] ELSE j[b] \o <<"/">> \o segs[k]
    BY <1>9, <2>2, <2>4
  <2> QED BY <2>1, <2>5
<1>12. 1..0 = {}
  OBVIOUS
<1> QED BY <1>1, <1>8, <1>10, <1>11, <1>12, JoinFolds

\* A segment of a canonical path.
Segment(s) == s \in Text /\ Len(s) > 0 /\ \A i \in 1..Len(s) : s[i] # "/"

\* A join of segments starts and ends with one.
LEMMA JoinTrimmed ==
    ASSUME NEW segs \in Seq(Text), \A k \in 1..Len(segs) : Segment(segs[k])
    PROVE  Join(segs) \in Text /\ Trimmed(Join(segs))
<1>1. PICK n \in Nat : n = Len(segs)
  OBVIOUS
<1>2. PICK j : j = Joined(segs)
  OBVIOUS
<1>3. /\ Join(segs) = j[1..n] /\ j[1..0] = <<>>
      /\ \A k \in 1..n : j[1..k] = IF j[1..(k - 1)] = <<>> THEN segs[k]
                                   ELSE j[1..(k - 1)] \o <<"/">> \o segs[k]
  BY <1>1, <1>2, JoinSteps
<1> DEFINE Fine(k) == k <= n => j[1..k] \in Text /\ Trimmed(j[1..k])
           Good == {k \in Nat : Fine(k)}
<1>4. ASSUME NEW k \in Nat, \A i \in Nat : i < k => i \in Good PROVE k \in Good
  <2>1. CASE k = 0
    BY <1>3, <2>1, EmptySeq, Zenon DEF Trimmed, Text
  <2>2. CASE k \in 1..n
    <3>1. PICK t : t = j[1..(k - 1)]
      OBVIOUS
    <3>2. t \in Text /\ Trimmed(t)
      <4>1. k - 1 \in Nat /\ k - 1 < k /\ k - 1 <= n
        BY <2>2
      <4> QED BY <1>4, <3>1, <4>1
    <3>3. PICK s \in Text : s = segs[k] /\ Len(s) > 0 /\ \A i \in 1..Len(s) : s[i] # "/"
      BY <1>1, <2>2 DEF Segment
    <3>4. j[1..k] = IF t = <<>> THEN s ELSE t \o <<"/">> \o s
      BY <1>3, <2>2, <3>1, <3>3
    <3>5. CASE t = <<>>
      <4>1. s[1] # "/" /\ s[Len(s)] # "/"
        BY <3>3 DEF Text
      <4> QED BY <3>3, <3>4, <3>5, <4>1 DEF Trimmed
    <3>6. CASE t # <<>>
      <4>1. PICK u : u = t \o <<"/">> \o s
        OBVIOUS
      <4>2. /\ u \in Text /\ Len(u) = Len(t) + 1 + Len(s) /\ u[1] = t[1]
            /\ u[Len(u)] = s[Len(s)]
        <5>1. PICK a \in Nat, b \in Nat : a = Len(t) /\ b = Len(s) /\ a > 0 /\ b > 0
          BY <3>2, <3>3, <3>6 DEF Text
        <5>2. /\ u \in Text /\ Len(u) = a + 1 + b /\ \A i \in 1..a : u[i] = t[i]
              /\ \A i \in 1..b : u[a + 1 + i] = s[i]
          BY <3>2, <4>1, <5>1, Slashed
        <5>3. 1 \in 1..a /\ b \in 1..b
          BY <5>1
        <5>4. u[1] = t[1] /\ u[a + 1 + b] = s[b]
          BY <5>2, <5>3
        <5> QED BY <5>1, <5>2, <5>4
      <4>3. s[Len(s)] # "/" /\ t[1] # "/"
        BY <3>2, <3>3, <3>6 DEF Text, Trimmed
      <4> QED BY <3>4, <3>6, <4>1, <4>2, <4>3 DEF Trimmed
    <3> QED BY <3>5, <3>6
  <2>3. CASE k > n
    BY <1>1, <2>3
  <2> QED BY <1>1, <2>1, <2>2, <2>3
<1>5. n \in Good
  <2>1. Good \in SUBSET Nat
    OBVIOUS
  <2> HIDE DEF Good
  <2> QED BY <1>1, <1>4, <2>1, FirstBad
<1> QED BY <1>1, <1>3, <1>5

(***************************************************************************)
(* Canonical paths.                                                        *)
(***************************************************************************)

\* The elements at some positions, in order: what Kept returns.
Listing(K) == InOrder(K, <)
Picked(s, K) == [k \in DOMAIN Listing(K) |-> s[Listing(K)[k]]]

LEMMA PickedInOrder ==
    ASSUME NEW S, NEW s \in Seq(S), NEW K \in SUBSET (1..Len(s)),
           NEW n, n = Cardinality(K), NEW at, at = Listing(K)
    PROVE  /\ n \in Nat /\ Picked(s, K) \in Seq(S) /\ Len(Picked(s, K)) = n
           /\ at \in [1..n -> K] /\ \A j \in K : \E k \in 1..n : at[k] = j
           /\ \A i, j \in 1..n : i < j => at[i] < at[j]
           /\ \A k \in 1..n : Picked(s, K)[k] = s[at[k]] /\ Picked(s, K)[k] \in S
<1>1. PICK len \in Nat : len = Len(s)
  OBVIOUS
<1>2. K \in SUBSET Int /\ IsFiniteSet(K)
  <2>1. IsFiniteSet(1..len)
    BY FS_Interval
  <2>2. K \in SUBSET (1..len)
    BY <1>1
  <2>3. IsFiniteSet(K)
    BY <2>1, <2>2, FS_Subset
  <2> QED BY <2>2, <2>3
<1>4. Lists(Listing(K), K, Less(K))
  BY <1>2, Ascending DEF Listing
<1>5. /\ n \in Nat /\ at \in [1..n -> K] /\ \A j \in K : \E k \in 1..n : at[k] = j
      /\ \A i, j \in 1..n : i < j => at[i] < at[j]
  BY <1>4 DEF Lists, Less
<1>6. Picked(s, K) = [k \in 1..n |-> s[at[k]]]
  BY <1>5 DEF Picked
<1>7. ASSUME NEW k \in 1..n PROVE s[at[k]] \in S
  <2>1. at[k] \in 1..len
    BY <1>1, <1>5
  <2> QED BY <1>1, <2>1
<1>8. Picked(s, K) \in [1..n -> S]
  BY <1>6, <1>7
<1>9. Picked(s, K) \in Seq(S) /\ Len(Picked(s, K)) = n
  BY <1>5, <1>8, Sequenced
<1> QED BY <1>5, <1>6, <1>7, <1>9

LEMMA QueryDropped ==
    ASSUME NEW raw \in Seq(Raw) PROVE BeforeQuery(raw) \in Seq(Raw)
<1> DEFINE marks == {i \in DOMAIN raw : raw[i] = [char |-> "?", layers |-> 0]}
<1>1. CASE marks = {}
  BY <1>1 DEF BeforeQuery
<1>2. CASE marks # {}
  <2>1. PICK n \in Nat : n = Len(raw) /\ DOMAIN raw = 1..n
    OBVIOUS
  <2>2. Min(marks) \in marks
    <3>1. marks \in SUBSET Nat
      BY <2>1
    <3> QED BY <1>2, <3>1, MinIs
  <2>3. PICK m \in 1..n : m = Min(marks)
    BY <2>1, <2>2
  <2>4. BeforeQuery(raw) = SubSeq(raw, 1, m - 1)
    BY <1>2, <2>3 DEF BeforeQuery
  <2>5. 1 \in Nat /\ m - 1 \in Nat /\ 1 <= 1 /\ 1 <= (m - 1) + 1 /\ m - 1 <= Len(raw)
    BY <2>1
  <2>6. SubSeq(raw, 1, m - 1) \in Seq(Raw)
    BY <2>5, Parts
  <2> QED BY <2>4, <2>6
<1> QED BY <1>1, <1>2

\* The characters of a path as it was written, as a text.
LEMMA Decodes ==
    ASSUME NEW raw \in Seq(Raw)
    PROVE  [i \in DOMAIN raw |-> raw[i].char] \in Text
<1>1. PICK n \in Nat : n = Len(raw) /\ DOMAIN raw = 1..n
  OBVIOUS
<1>2. ASSUME NEW i \in 1..n PROVE raw[i].char \in Letter
  <2>1. raw[i] \in Raw
    BY <1>1
  <2>2. raw[i].char \in STRING
    BY <2>1 DEF Raw
  <2> QED BY <2>2 DEF Letter
<1>3. [i \in 1..n |-> raw[i].char] \in [1..n -> Letter]
  BY <1>2
<1>4. [i \in 1..n |-> raw[i].char] \in Seq(Letter)
  BY <1>3, Sequenced
<1> QED BY <1>1, <1>4 DEF Text

\* The segments of a text that are not empty, and the text they join to.
SegmentsOf(t) == Kept(Split(t), LAMBDA s : s # <<>>)

LEMMA KeptSegments ==
    ASSUME NEW t \in Text
    PROVE  /\ SegmentsOf(t) \in Seq(Text)
           /\ \A k \in 1..Len(SegmentsOf(t)) : Segment(SegmentsOf(t)[k])
           /\ Join(SegmentsOf(t)) \in Text /\ Trimmed(Join(SegmentsOf(t)))
<1>1. PICK n \in Nat, all \in Seq(Text) : /\ all = Split(t) /\ Len(all) = n
                                          /\ DOMAIN all = 1..n
  BY Splits
<1>2. \A k \in 1..n : all[k] \in Text /\ \A i \in 1..Len(all[k]) : all[k][i] # "/"
  <2>1. n = Cardinality(Cuts(t)) - 1
    BY <1>1, Splits
  <2> QED BY <1>1, <2>1, Splits
<1>3. PICK K : K = {k \in DOMAIN all : all[k] # <<>>}
  OBVIOUS
<1>4. SegmentsOf(t) = Picked(all, K)
  BY <1>1, <1>3 DEF SegmentsOf, Kept, Picked, Listing
<1>5. K \in SUBSET (1..Len(all))
  BY <1>1, <1>3
<1>6. PICK m, segs, at : m = Cardinality(K) /\ segs = Picked(all, K) /\ at = Listing(K)
  OBVIOUS
<1>9. /\ m \in Nat /\ segs \in Seq(Text) /\ at \in [1..m -> K] /\ Len(segs) = m
      /\ \A k \in 1..m : segs[k] = all[at[k]]
  BY <1>5, <1>6, PickedInOrder
<1>7. ASSUME NEW k \in 1..m PROVE Segment(segs[k])
  <2>1. at[k] \in 1..n /\ all[at[k]] # <<>>
    BY <1>1, <1>3, <1>9
  <2>2. PICK s \in Text : s = segs[k]
    BY <1>2, <1>9, <2>1
  <2>3. s # <<>> /\ \A i \in 1..Len(s) : s[i] # "/"
    BY <1>2, <1>9, <2>1, <2>2
  <2>4. Len(s) > 0
    BY <2>2, <2>3 DEF Text
  <2> QED BY <2>2, <2>3, <2>4 DEF Segment
<1>8. Join(segs) \in Text /\ Trimmed(Join(segs))
  BY <1>9, <1>7, JoinTrimmed
<1> QED BY <1>4, <1>6, <1>7, <1>8, <1>9

\* A canonical path is a trimmed text.
LEMMA CanonicalTrimmed ==
    ASSUME NEW raw \in Seq(Raw), Canonicalize(raw) # None
    PROVE  Canonicalize(raw) \in Text /\ Trimmed(Canonicalize(raw))
<1>1. PICK path \in Seq(Raw) : path = BeforeQuery(raw)
  BY QueryDropped
<1>2. PICK t \in Text : t = [i \in DOMAIN path |-> path[i].char]
  BY <1>1, Decodes
<1>3. Canonicalize(raw) = Join(SegmentsOf(t))
  BY <1>1, <1>2 DEF Canonicalize, SegmentsOf
<1> QED BY <1>3, KeptSegments

(***************************************************************************)
(* Hosts.                                                                  *)
(***************************************************************************)

\* A suffix of a sequence, by its elements from the last.
LEMMA SuffixIs ==
    ASSUME NEW S, NEW s \in Seq(S), NEW t \in Seq(S)
    PROVE  IsSuffix(s, t) <=>
              /\ Len(s) <= Len(t)
              /\ \A i \in 1..Len(s) : s[Len(s) - i + 1] = t[Len(t) - i + 1]
<1>1. ASSUME NEW u \in Seq(S)
      PROVE  /\ Reverse(u) \in Seq(S) /\ Len(Reverse(u)) = Len(u)
             /\ \A i \in 1..Len(u) : Reverse(u)[i] = u[Len(u) - i + 1]
  <2>1. PICK n \in Nat : n = Len(u)
    OBVIOUS
  <2>2. \A i \in 1..n : n - i + 1 \in 1..n
    OBVIOUS
  <2>3. Reverse(u) = [i \in 1..n |-> u[n - i + 1]]
    BY <2>1 DEF Reverse
  <2>4. Reverse(u) \in [1..n -> S]
    BY <2>1, <2>2, <2>3
  <2>5. Reverse(u) \in Seq(S) /\ Len(Reverse(u)) = n
    BY <2>4, Sequenced
  <2> QED BY <2>1, <2>3, <2>5
<1>2. PICK a \in Seq(S), b \in Seq(S) :
         /\ a = Reverse(s) /\ Len(a) = Len(s) /\ \A i \in 1..Len(s) : a[i] = s[Len(s) - i + 1]
         /\ b = Reverse(t) /\ Len(b) = Len(t) /\ \A i \in 1..Len(t) : b[i] = t[Len(t) - i + 1]
  BY <1>1
<1>3. IsPrefix(a, b) <=> Len(a) <= Len(b) /\ \A i \in 1..Len(a) : a[i] = b[i]
  BY PrefixIs
<1>4. IsSuffix(s, t) <=> IsPrefix(a, b)
  BY <1>2 DEF IsSuffix
<1>5. Len(s) <= Len(t) => \A i \in 1..Len(s) : i \in 1..Len(t)
  OBVIOUS
<1> QED BY <1>2, <1>3, <1>4, <1>5

\* Two patterns that match the same host overlap.
LEMMA HostsOverlap ==
    ASSUME NEW p, NEW q, NEW host \in Seq(STRING),
           p.kind \in {"exact", "suffix"}, p.name \in Seq(STRING),
           q.kind \in {"exact", "suffix"}, q.name \in Seq(STRING),
           HostMatches(p, host), HostMatches(q, host)
    PROVE  Overlaps(p, q)
<1>1. PICK a \in Seq(STRING), b \in Seq(STRING) : a = p.name /\ b = q.name
  OBVIOUS
<1>2. CASE p.kind = "exact" /\ q.kind = "exact"
  BY <1>2 DEF HostMatches, Overlaps
<1>3. CASE p.kind = "exact" /\ q.kind = "suffix"
  BY <1>3 DEF HostMatches, Overlaps
<1>4. CASE p.kind = "suffix" /\ q.kind = "exact"
  BY <1>4 DEF HostMatches, Overlaps
<1>5. CASE p.kind = "suffix" /\ q.kind = "suffix"
  <2>1. IsSuffix(a, host) /\ IsSuffix(b, host)
    BY <1>1, <1>5 DEF HostMatches
  <2>2. PICK k \in Nat, m \in Nat, n \in Nat : k = Len(a) /\ m = Len(b) /\ n = Len(host)
    OBVIOUS
  <2>3. /\ \A i \in 1..k : a[k - i + 1] = host[n - i + 1]
        /\ \A i \in 1..m : b[m - i + 1] = host[n - i + 1]
    BY <2>1, <2>2, SuffixIs
  <2>4. CASE k <= m
    <3>1. \A i \in 1..k : a[k - i + 1] = b[m - i + 1]
      BY <2>3, <2>4
    <3>2. IsSuffix(a, b)
      BY <2>2, <2>4, <3>1, SuffixIs
    <3> QED BY <1>1, <1>5, <3>2 DEF Overlaps
  <2>5. CASE m <= k
    <3>1. \A i \in 1..m : b[m - i + 1] = a[k - i + 1]
      BY <2>3, <2>5
    <3>2. IsSuffix(b, a)
      BY <2>2, <2>5, <3>1, SuffixIs
    <3> QED BY <1>1, <1>5, <3>2 DEF Overlaps
  <2> QED BY <2>4, <2>5
<1> QED BY <1>2, <1>3, <1>4, <1>5

(***************************************************************************)
(* Looking a route up.                                                     *)
(***************************************************************************)

\* The first of a set of positions, 0 if there is none.
First(S) == IF S = {} THEN 0 ELSE Min(S)

Hits(rs, path, host, method) ==
    {i \in 1..Len(rs) : UnderPrefix(path, rs[i].prefix) /\ Serves(rs[i], host, method)}

LEMMA FirstIs ==
    ASSUME NEW S \in SUBSET (Nat \ {0})
    PROVE  /\ First(S) \in Nat
           /\ First(S) = 0 <=> S = {}
           /\ First(S) # 0 => First(S) \in S /\ \A i \in S : First(S) <= i
<1>1. S # {} => Min(S) \in S /\ \A i \in S : Min(S) <= i
  <2>1. S \in SUBSET Nat
    OBVIOUS
  <2> QED BY <2>1, MinIs
<1> QED BY <1>1 DEF First

\* There is only one first.
LEMMA OneFirst ==
    ASSUME NEW S \in SUBSET (Nat \ {0}), NEW x \in S, \A i \in S : x <= i
    PROVE  First(S) = x
<1>1. PICK f \in Nat : /\ f = First(S) /\ (f = 0 <=> S = {})
                       /\ f # 0 => f \in S /\ \A i \in S : f <= i
  BY FirstIs
<1>2. x \in Nat /\ f \in S /\ f <= x /\ x <= f
  BY <1>1
<1> QED BY <1>1, <1>2

\* The scan takes the first route that matches.
LEMMA ScanIs ==
    ASSUME NEW rs, NEW path, NEW host, NEW method
    PROVE  Scan(rs, path, host, method) = First(Hits(rs, path, host, method))
BY DEF Scan, SelectInSeq, First, Hits

Serving(rs, S, host, method) == {i \in S : Serves(rs[i], host, method)}

\* Looking at a node moves the first route found so far to the first one of the
\* node if that comes earlier.
LEMMA ConsiderIs ==
    ASSUME NEW rs, NEW host, NEW method
    PROVE  \A n \in Nat : \A positions, found \in SUBSET (1..n) :
              Consider(rs, positions, First(found), host, method)
                 = First(found \cup Serving(rs, positions, host, method))
<1> SUFFICES ASSUME NEW n \in Nat, NEW positions \in SUBSET (1..n),
                    NEW found \in SUBSET (1..n)
             PROVE  Consider(rs, positions, First(found), host, method)
                       = First(found \cup Serving(rs, positions, host, method))
  OBVIOUS
<1>0. PICK hits : hits = Serving(rs, positions, host, method)
  OBVIOUS
<1>8. hits = {i \in positions : Serves(rs[i], host, method)}
  BY <1>0 DEF Serving
<1> SUFFICES Consider(rs, positions, First(found), host, method) = First(found \cup hits)
  BY <1>0
<1>1. PICK best \in Nat : best = First(found)
  <2>1. found \in SUBSET (Nat \ {0})
    OBVIOUS
  <2> QED BY <2>1, FirstIs
<1>2. /\ best = 0 <=> found = {}
      /\ best # 0 => best \in found /\ \A i \in found : best <= i
  <2>1. found \in SUBSET (Nat \ {0})
    OBVIOUS
  <2> QED BY <1>1, <2>1, FirstIs
<1> DEFINE early == {i \in positions : (best # 0 => i < best) /\ Serves(rs[i], host, method)}
<1>3. Consider(rs, positions, best, host, method) = IF early = {} THEN best ELSE Min(early)
  BY DEF Consider
<1>4. early \in SUBSET Nat /\ early \subseteq hits /\ hits \in SUBSET (1..n)
      /\ \A i \in hits : i \in early \/ (best # 0 /\ best <= i)
  <2>1. \A i \in positions : i \in Nat /\ i \in 1..n
    OBVIOUS
  <2>2. early \in SUBSET Nat /\ early \subseteq hits
    BY <1>8, <2>1
  <2>3. hits \in SUBSET (1..n)
    BY <1>8, <2>1
  <2>4. ASSUME NEW i \in hits PROVE i \in early \/ (best # 0 /\ best <= i)
    <3>1. i \in Nat /\ i \in positions /\ Serves(rs[i], host, method)
      BY <1>8, <2>1
    <3> QED BY <3>1
  <2> QED BY <2>2, <2>3, <2>4
<1> HIDE DEF early
<1>5. found \cup hits \in SUBSET (Nat \ {0})
  <2>1. \A i \in 1..n : i \in Nat \ {0}
    OBVIOUS
  <2> QED BY <1>4, <2>1
<1>6. CASE early = {}
  <2>1. CASE best = 0
    <3>1. found \cup hits = {}
      BY <1>2, <1>4, <1>6, <2>1
    <3> QED BY <1>1, <1>3, <1>6, <2>1, <3>1 DEF First
  <2>2. CASE best # 0
    <3>1. best \in found \cup hits /\ \A i \in found \cup hits : best <= i
      BY <1>2, <1>4, <1>6, <2>2
    <3>2. First(found \cup hits) = best
      BY <1>5, <3>1, OneFirst
    <3> QED BY <1>1, <1>3, <1>6, <3>2
  <2> QED BY <2>1, <2>2
<1>7. CASE early # {}
  <2>1. PICK x \in early : x = Min(early) /\ \A i \in early : x <= i
    BY <1>4, <1>7, MinIs
  <2>2. x \in hits /\ x \in Nat /\ (best # 0 => x < best)
    BY <1>4, <2>1 DEF early
  <2>3. \A i \in found \cup hits : x <= i
    <3>1. ASSUME NEW i \in found PROVE x <= i
      <4>1. best # 0 /\ best <= i /\ i \in Nat
        BY <1>2
      <4> QED BY <2>2, <4>1
    <3>2. ASSUME NEW i \in hits PROVE x <= i
      <4>1. i \in Nat /\ (i \in early \/ (best # 0 /\ best <= i))
        BY <1>4
      <4> QED BY <2>1, <2>2, <4>1
    <3> QED BY <3>1, <3>2
  <2>4. First(found \cup hits) = x
    BY <1>5, <2>2, <2>3, OneFirst
  <2> QED BY <1>1, <1>3, <1>7, <2>1, <2>4
<1> QED BY <1>6, <1>7

\* The walk down the trie.
Walked(path) == [k \in DOMAIN Split(path) |-> SubSeq(Split(path), 1, k)]
Visits(trie, path) ==
    IF path = <<>> THEN << <<>> >>
    ELSE Kept(Walked(path), LAMBDA node : node \in DOMAIN trie)
Seeking(rs, trie, visits, host, method, g) ==
    [s \in SUBSET (DOMAIN visits) |->
        IF s = {} THEN 0
        ELSE Consider(rs, trie[visits[Max(s)]], g[s \ {Max(s)}], host, method)]
Sought(rs, trie, visits, host, method) ==
    CHOOSE g : g = Seeking(rs, trie, visits, host, method, g)

LEMMA FindFolds ==
    ASSUME NEW rs, NEW path, NEW host, NEW method
    PROVE  Find(rs, path, host, method) =
              Sought(rs, Trie(rs), Visits(Trie(rs), path), host, method)
                  [DOMAIN Visits(Trie(rs), path)]
BY DEF Find, FoldLeft, MapThenFoldSet, Sought, Seeking, Visits, Walked

\* The routes at the nodes a walk visits.
Met(rs, n, trie, visits, m, host, method) ==
    {i \in 1..n : /\ \E k \in 1..m : i \in trie[visits[k]]
                  /\ Serves(rs[i], host, method)}

\* What the walk has found is the first route at a node it has visited.
LEMMA SeekSteps ==
    ASSUME NEW rs, NEW n \in Nat, NEW trie, NEW visits, NEW host, NEW method,
           NEW m \in Nat, DOMAIN visits = 1..m,
           \A k \in 1..m : trie[visits[k]] \in SUBSET (1..n)
    PROVE  Sought(rs, trie, visits, host, method)[1..m] =
              First(Met(rs, n, trie, visits, m, host, method))
<1> SUFFICES Sought(rs, trie, visits, host, method)[1..m] =
              First({i \in 1..n : /\ \E k \in 1..m : i \in trie[visits[k]]
                                  /\ Serves(rs[i], host, method)})
  BY DEF Met
<1> DEFINE found(k) == {i \in 1..n : /\ \E l \in 1..k : i \in trie[visits[l]]
                                     /\ Serves(rs[i], host, method)}
           hits(k) == {i \in trie[visits[k]] : Serves(rs[i], host, method)}
           held(k) == trie[visits[k]]
<1>1. PICK take : take = [p \in (0..n) \X (1..m) |->
                            Consider(rs, held(p[2]), p[1], host, method)]
  OBVIOUS
<1>2. \A b \in 0..n, k \in 1..m :
         take[<<b, k>>] = Consider(rs, held(k), b, host, method)
  BY <1>1
<1>3. ASSUME NEW b \in 0..n, NEW k \in 1..m
      PROVE  Consider(rs, held(k), b, host, method) \in 0..n
  <2>1. PICK S \in SUBSET (1..n) : S = held(k)
    OBVIOUS
  <2>2. PICK T : T = {i \in S : (b # 0 => i < b) /\ Serves(rs[i], host, method)}
    OBVIOUS
  <2>3. Consider(rs, S, b, host, method) = IF T = {} THEN b ELSE Min(T)
    BY <2>2 DEF Consider
  <2>4. T \in SUBSET Nat /\ T \in SUBSET (1..n)
    BY <2>1, <2>2
  <2>5. T # {} => Min(T) \in T
    BY <2>4, MinIs
  <2>6. (IF T = {} THEN b ELSE Min(T)) \in 0..n
    <3>1. CASE T = {}
      BY <3>1
    <3>2. CASE T # {}
      <4>1. PICK x \in 1..n : x = Min(T)
        BY <2>4, <2>5, <3>2
      <4>2. x \in 0..n
        OBVIOUS
      <4> QED BY <3>2, <4>1, <4>2
    <3> QED BY <3>1, <3>2
  <2> QED BY <2>1, <2>3, <2>6
<1>4. \A b \in 0..n, k \in 1..m : take[<<b, k>>] \in 0..n
  BY <1>2, <1>3
<1>5. PICK g : /\ g = Folding(0, take, m, g)
               /\ \A s \in SUBSET (1..m) : g[s] \in 0..n
  <2>1. PICK A : A = 0..n
    OBVIOUS
  <2>2. 0 \in A /\ \A b \in A, k \in 1..m : take[<<b, k>>] \in A
    BY <1>4, <2>1
  <2>3. \E g : g = Folding(0, take, m, g) /\ \A s \in SUBSET (1..m) : g[s] \in A
    BY <2>2, FoldExists
  <2> QED BY <2>1, <2>3
<1>6. PICK h : h = Seeking(rs, trie, visits, host, method, g)
  OBVIOUS
<1>7. h = g
  <2>1. ASSUME NEW s \in SUBSET (1..m) PROVE h[s] = g[s]
    <3>1. g[s] = Folding(0, take, m, g)[s]
      BY <1>5
    <3>2. CASE s = {}
      BY <1>6, <3>1, <3>2 DEF Seeking, Folding
    <3>3. CASE s # {}
      <4>1. g[s \ {Max(s)}] \in 0..n /\ Max(s) \in 1..m
        BY <1>5, <3>3, LastLeaves
      <4>2. Folding(0, take, m, g)[s] = take[<<g[s \ {Max(s)}], Max(s)>>]
        BY <3>3, Zenon DEF Folding
      <4>3. s \in SUBSET DOMAIN visits
        OBVIOUS
      <4>4. h[s] = Consider(rs, held(Max(s)), g[s \ {Max(s)}], host, method)
        BY <1>6, <3>3, <4>3, Zenon DEF Seeking
      <4>5. take[<<g[s \ {Max(s)}], Max(s)>>]
               = Consider(rs, held(Max(s)), g[s \ {Max(s)}], host, method)
        BY <1>2, <4>1
      <4> QED BY <3>1, <4>2, <4>4, <4>5
    <3> QED BY <3>2, <3>3
  <2>2. /\ h = [s \in SUBSET (1..m) |-> h[s]]
        /\ g = [s \in SUBSET (1..m) |-> g[s]]
    BY <1>5, <1>6 DEF Seeking, Folding
  <2> QED BY <2>1, <2>2
<1>8. PICK j : /\ j = Sought(rs, trie, visits, host, method)
               /\ j = Seeking(rs, trie, visits, host, method, j)
  BY <1>6, <1>7 DEF Sought
<1>9. j[1..0] = 0
  <2>1. 1..0 = {} /\ {} \in SUBSET DOMAIN visits
    OBVIOUS
  <2> QED BY <1>8, <2>1, Zenon DEF Seeking
<1>10. ASSUME NEW k \in 1..m
       PROVE  j[1..k] = Consider(rs, held(k), j[1..(k - 1)], host, method)
  <2>1. PICK s, b : s = 1..k /\ b = 1..(k - 1)
    OBVIOUS
  <2>2. s \in SUBSET (1..m) /\ s # {} /\ Max(s) = k /\ s \ {k} = b
    BY <2>1, LastOf
  <2>3. s \in SUBSET DOMAIN visits
    BY <2>2
  <2>4. j[s] = Consider(rs, held(Max(s)), j[s \ {Max(s)}], host, method)
    BY <1>8, <2>2, <2>3, Zenon DEF Seeking
  <2> QED BY <2>1, <2>2, <2>4
<1> DEFINE Fine(k) == k <= m => j[1..k] = First(found(k))
           Good == {k \in Nat : Fine(k)}
<1>11. ASSUME NEW k \in Nat, \A i \in Nat : i < k => i \in Good PROVE k \in Good
  <2>1. CASE k = 0
    <3>1. found(0) = {}
      OBVIOUS
    <3> QED BY <1>9, <2>1, <3>1 DEF First
  <2>2. CASE k \in 1..m
    <3>1. k - 1 \in Nat /\ k - 1 < k /\ k - 1 <= m
      BY <2>2
    <3>2. j[1..(k - 1)] = First(found(k - 1))
      BY <1>11, <3>1
    <3>3. PICK before \in SUBSET (1..n), new, S \in SUBSET (1..n) :
             before = found(k - 1) /\ new = hits(k) /\ S = held(k)
      BY <2>2
    <3>4. new = {i \in S : Serves(rs[i], host, method)}
      BY <3>3
    <3>5. Consider(rs, S, First(before), host, method) = First(before \cup new)
      <4>1. Consider(rs, S, First(before), host, method)
               = First(before \cup Serving(rs, S, host, method))
        <5>1. \A p, f \in SUBSET (1..n) :
                 Consider(rs, p, First(f), host, method)
                    = First(f \cup Serving(rs, p, host, method))
          BY ConsiderIs
        <5> QED BY <5>1
      <4> QED BY <3>4, <4>1 DEF Serving
    <3>6. before \cup new = found(k)
      <4>1. \A l \in 1..k : l \in 1..(k - 1) \/ l = k
        OBVIOUS
      <4>2. \A l \in 1..(k - 1) : l \in 1..k
        OBVIOUS
      <4>3. \A i : i \in before <=> /\ i \in 1..n /\ Serves(rs[i], host, method)
                                    /\ \E l \in 1..(k - 1) : i \in trie[visits[l]]
        BY <3>3
      <4>4. \A i : i \in new <=> i \in S /\ Serves(rs[i], host, method)
        BY <3>4
      <4>5. \A i : i \in S => i \in 1..n
        BY <3>3
      <4>6. S = trie[visits[k]] /\ k \in 1..k
        BY <2>2, <3>3
      <4> HIDE DEF held, hits
      <4> QED BY <4>1, <4>2, <4>3, <4>4, <4>5, <4>6
    <3>7. j[1..k] = First(found(k))
      BY <1>10, <2>2, <3>2, <3>3, <3>5, <3>6
    <3> QED BY <3>7
  <2>3. CASE k > m
    BY <2>3
  <2> QED BY <2>1, <2>2, <2>3
<1>12. m \in Good
  <2>1. Good \in SUBSET Nat
    OBVIOUS
  <2> HIDE DEF Good
  <2> QED BY <1>11, <2>1, FirstBad
<1> QED BY <1>8, <1>12

\* Routes a trie can be built of.
Indexable(rs, n) ==
    /\ n \in Nat /\ DOMAIN rs = 1..n /\ Len(rs) = n
    /\ \A i \in 1..n : rs[i].prefix \in Text /\ rs[i].prefix # <<>>

\* A node of the trie holds the routes whose prefix has these segments.
LEMMA TrieIs ==
    ASSUME NEW rs, NEW n, Indexable(rs, n)
    PROVE  /\ \A node \in DOMAIN Trie(rs) : /\ Trie(rs)[node] \in SUBSET (1..n)
                                            /\ \A i \in 1..n : i \in Trie(rs)[node]
                                                 <=> Split(rs[i].prefix) = node
           /\ \A i \in 1..n : Split(rs[i].prefix) \in DOMAIN Trie(rs)
           /\ <<>> \in DOMAIN Trie(rs)
<1>1. PICK at : at = [i \in 1..n |-> IF rs[i].prefix = <<>> THEN <<>> ELSE Split(rs[i].prefix)]
  OBVIOUS
<1>2. \A i \in 1..n : at[i] = Split(rs[i].prefix)
  BY <1>1 DEF Indexable
<1>3. PICK deep : deep = UNION {Prefixes(leaf) : leaf \in {at[i] : i \in 1..n}}
  OBVIOUS
<1>8. PICK nodes : nodes = deep \cup {<<>>}
  OBVIOUS
<1>4. Trie(rs) = [node \in nodes |-> {i \in 1..n : at[i] = node}]
  <2>1. Trie(rs) =
           [node \in (UNION {Prefixes(leaf) :
                leaf \in {IF rs[i].prefix = <<>> THEN <<>> ELSE Split(rs[i].prefix) : i \in 1..n}})
                \cup {<<>>} |->
              {i \in 1..n :
                 (IF rs[i].prefix = <<>> THEN <<>> ELSE Split(rs[i].prefix)) = node}]
    BY DEF Trie, Indexable
  <2>2. {IF rs[i].prefix = <<>> THEN <<>> ELSE Split(rs[i].prefix) : i \in 1..n}
           = {at[i] : i \in 1..n}
    BY <1>1
  <2>3. \A node : {i \in 1..n :
                    (IF rs[i].prefix = <<>> THEN <<>> ELSE Split(rs[i].prefix)) = node}
                   = {i \in 1..n : at[i] = node}
    BY <1>1
  <2> QED BY <1>3, <1>8, <2>1, <2>2, <2>3
<1>5. ASSUME NEW i \in 1..n PROVE Split(rs[i].prefix) \in nodes
  <2>1. PICK leaf \in Seq(Text) : leaf = Split(rs[i].prefix) /\ leaf = at[i]
    <3>1. rs[i].prefix \in Text
      BY DEF Indexable
    <3>2. Split(rs[i].prefix) \in Seq(Text)
      BY <3>1, Splits
    <3> QED BY <1>2, <3>2
  <2>2. SubSeq(leaf, 1, Len(leaf)) = leaf /\ Len(leaf) \in 0..Len(leaf)
    OBVIOUS
  <2>3. leaf \in Prefixes(leaf)
    BY <2>2 DEF Prefixes
  <2>4. leaf \in {at[k] : k \in 1..n}
    BY <2>1
  <2>5. leaf \in deep
    BY <1>3, <2>3, <2>4
  <2> QED BY <1>8, <2>1, <2>5
<1>6. DOMAIN Trie(rs) = nodes /\ <<>> \in nodes
  <2>1. <<>> \in nodes
    BY <1>8
  <2> QED BY <1>4, <2>1
<1>7. ASSUME NEW node \in nodes
      PROVE  /\ Trie(rs)[node] \in SUBSET (1..n)
             /\ \A i \in 1..n : i \in Trie(rs)[node] <=> Split(rs[i].prefix) = node
  <2>1. Trie(rs)[node] = {i \in 1..n : at[i] = node}
    BY <1>4
  <2> QED BY <1>2, <2>1
<1> QED BY <1>5, <1>6, <1>7

\* The index takes the first route that matches, as the scan does.
LEMMA FindIs ==
    ASSUME NEW rs, NEW n, Indexable(rs, n), NEW path \in Text, NEW host, NEW method
    PROVE  Find(rs, path, host, method) = First(Hits(rs, path, host, method))
<1>1. n \in Nat /\ Len(rs) = n
  BY DEF Indexable
<1>2. PICK trie : trie = Trie(rs)
  OBVIOUS
<1>3. /\ \A node \in DOMAIN trie : /\ trie[node] \in SUBSET (1..n)
                                   /\ \A i \in 1..n : i \in trie[node]
                                        <=> Split(rs[i].prefix) = node
      /\ \A i \in 1..n : Split(rs[i].prefix) \in DOMAIN trie
      /\ <<>> \in DOMAIN trie
  BY <1>2, TrieIs
<1>4. PICK visits : visits = Visits(trie, path)
  OBVIOUS
<1>5. ASSUME NEW m \in Nat, DOMAIN visits = 1..m,
             \A k \in 1..m : visits[k] \in DOMAIN trie,
             \A i \in 1..n : UnderPrefix(path, rs[i].prefix)
                              <=> \E k \in 1..m : visits[k] = Split(rs[i].prefix)
      PROVE  Find(rs, path, host, method) = First(Hits(rs, path, host, method))
  <2>1. \A k \in 1..m : trie[visits[k]] \in SUBSET (1..n)
    BY <1>3, <1>5
  <2>2. Sought(rs, trie, visits, host, method)[1..m] =
           First(Met(rs, n, trie, visits, m, host, method))
    BY <1>1, <1>5, <2>1, SeekSteps
  <2>3. \A i \in 1..n : (\E k \in 1..m : i \in trie[visits[k]])
                            <=> UnderPrefix(path, rs[i].prefix)
    BY <1>3, <1>5
  <2>4. Met(rs, n, trie, visits, m, host, method) = Hits(rs, path, host, method)
    BY <1>1, <2>3 DEF Hits, Met
  <2> QED BY <1>2, <1>4, <1>5, <2>2, <2>4, FindFolds
<1>6. PICK all \in Seq(Text), len \in Nat : all = Split(path) /\ len = Len(all) /\ len >= 1
  <2>1. Split(path) \in Seq(Text) /\ Len(Split(path)) >= 1
    <3>1. Cardinality(Cuts(path)) \in Nat /\ Cardinality(Cuts(path)) >= 2
      BY CutsListed
    <3> QED BY <3>1, Splits
  <2> QED BY <2>1
<1>7. \A i \in 1..n : UnderPrefix(path, rs[i].prefix)
                      <=> \E k \in 1..len : SubSeq(all, 1, k) = Split(rs[i].prefix)
  BY <1>6, SplitPrefix DEF Indexable
<1>8. CASE path = <<>>
  <2>1. DOMAIN visits = 1..1 /\ visits[1] = <<>>
    BY <1>4, <1>8 DEF Visits
  <2>2. ASSUME NEW i \in 1..n PROVE ~UnderPrefix(path, rs[i].prefix) /\ Split(rs[i].prefix) # <<>>
    <3>1. rs[i].prefix \in Text /\ rs[i].prefix # <<>>
      BY DEF Indexable
    <3>2. Len(rs[i].prefix) > 0
      BY <3>1 DEF Text
    <3>3. Len(path) = 0
      BY <1>8
    <3>4. ~UnderPrefix(path, rs[i].prefix)
      BY <3>1, <3>2, <3>3, UnderIs
    <3>5. Cardinality(Cuts(rs[i].prefix)) \in Nat /\ Cardinality(Cuts(rs[i].prefix)) >= 2
      BY <3>1, CutsListed
    <3>6. Len(Split(rs[i].prefix)) >= 1
      BY <3>1, <3>5, Splits
    <3> QED BY <3>4, <3>6
  <2> QED BY <1>3, <1>5, <2>1, <2>2
<1>9. CASE path # <<>>
  <2>1. PICK w : w = Walked(path)
    OBVIOUS
  <2>2. w = [k \in 1..len |-> SubSeq(all, 1, k)]
    BY <1>6, <2>1 DEF Walked
  <2>3. w \in Seq(Seq(Text)) /\ Len(w) = len /\ DOMAIN w = 1..len
    <3>1. ASSUME NEW k \in 1..len PROVE SubSeq(all, 1, k) \in Seq(Text)
      <4>1. 1 \in Nat /\ k \in Nat /\ 1 <= 1 /\ 1 <= k + 1 /\ k <= Len(all)
        BY <1>6
      <4> QED BY <4>1, Parts
    <3>2. w \in [1..len -> Seq(Text)]
      BY <2>2, <3>1
    <3> QED BY <1>6, <3>2, Sequenced
  <2>4. PICK K : K = {k \in DOMAIN w : w[k] \in DOMAIN trie}
    OBVIOUS
  <2>5. visits = Picked(w, K)
    BY <1>4, <1>9, <2>1, <2>4 DEF Visits, Kept, Picked, Listing
  <2>6. PICK m, at : m = Cardinality(K) /\ at = Listing(K)
    OBVIOUS
  <2>7. /\ m \in Nat /\ Len(visits) = m /\ visits \in Seq(Seq(Text))
        /\ at \in [1..m -> K] /\ \A j \in K : \E k \in 1..m : at[k] = j
        /\ \A k \in 1..m : visits[k] = w[at[k]]
    <3>1. K \in SUBSET (1..Len(w))
      BY <2>3, <2>4
    <3>2. PICK S : S = Seq(Text)
      OBVIOUS
    <3>3. w \in Seq(S)
      BY <2>3, <3>2
    <3>4. /\ m \in Nat /\ Picked(w, K) \in Seq(S) /\ Len(Picked(w, K)) = m
          /\ at \in [1..m -> K] /\ \A j \in K : \E k \in 1..m : at[k] = j
          /\ \A k \in 1..m : Picked(w, K)[k] = w[at[k]] /\ Picked(w, K)[k] \in S
      BY <2>6, <3>1, <3>3, PickedInOrder
    <3> QED BY <2>5, <3>2, <3>4
  <2>8. DOMAIN visits = 1..m
    BY <2>7
  <2>9. \A k \in 1..m : visits[k] \in DOMAIN trie
    BY <2>4, <2>7
  <2>10. ASSUME NEW i \in 1..n
         PROVE  UnderPrefix(path, rs[i].prefix)
                   <=> \E k \in 1..m : visits[k] = Split(rs[i].prefix)
    <3>1. PICK leaf \in DOMAIN trie : leaf = Split(rs[i].prefix)
      BY <1>3
    <3>2. UnderPrefix(path, rs[i].prefix) <=> \E k \in 1..len : w[k] = leaf
      BY <1>7, <2>2, <3>1
    <3>3. ASSUME NEW k \in 1..len, w[k] = leaf PROVE \E j \in 1..m : visits[j] = leaf
      <4>1. k \in K
        BY <2>3, <2>4, <3>1, <3>3
      <4> QED BY <2>7, <3>3, <4>1
    <3>4. ASSUME NEW j \in 1..m, visits[j] = leaf PROVE \E k \in 1..len : w[k] = leaf
      <4>1. at[j] \in 1..len
        BY <2>3, <2>4, <2>7
      <4> QED BY <2>7, <3>4, <4>1
    <3> QED BY <3>1, <3>2, <3>3, <3>4
  <2> QED BY <1>5, <2>7, <2>8, <2>9, <2>10
<1> QED BY <1>8, <1>9

(***************************************************************************)
(* A route file becomes a table.                                           *)
(***************************************************************************)

\* The methods a route allows.
MethodsOf(r) ==
    IF r.methods # None THEN r.methods
    ELSE IF DefaultMethods # None THEN DefaultMethods ELSE {}

\* What a route of the table says of the route of the file it was made from.
From(m, r) ==
    /\ m.prefix = Trim(r.prefix) /\ m.prefix \in Text
    /\ m.hosts = r.hosts /\ m.auth = r.auth /\ m.upstream = r.upstream
    /\ m.methods = MethodsOf(r)

LEMMA NamedIs ==
    ASSUME NEW r \in RouteInput
    PROVE  From(Named(Inherit(r)), r)
<1>1. r.prefix \in Seq(STRING)
  BY DEF RouteInput
<1>2. r.prefix \in Text
  <2>1. STRING \subseteq Letter
    BY DEF Letter
  <2> QED BY <1>1, <2>1, SeqWiden DEF Text
<1>3. PICK p \in Text : p = Trim(r.prefix)
  BY <1>2, Trims
<1>4. PICK h : h = Inherit(r)
  OBVIOUS
<1>5. PICK fields : /\ {"prefix", "hosts", "auth", "upstream", "methods", "id"} \subseteq fields
                    /\ DOMAIN r = fields
  BY DEF RouteInput
<1>6. /\ DOMAIN h = fields
      /\ h.prefix = r.prefix /\ h.hosts = r.hosts /\ h.auth = r.auth /\ h.upstream = r.upstream
      /\ h.methods = MethodsOf(r)
  BY <1>4, <1>5 DEF Inherit, MethodsOf
<1>7. PICK id : Named(h) = [h EXCEPT !.prefix = p, !.id = id]
  BY <1>3, <1>6 DEF Named
<1>8. /\ Named(h).prefix = p /\ Named(h).hosts = r.hosts /\ Named(h).auth = r.auth
      /\ Named(h).upstream = r.upstream /\ Named(h).methods = MethodsOf(r)
  BY <1>5, <1>6, <1>7
<1> QED BY <1>3, <1>4, <1>8 DEF From

\* s has, at each place, the member that belongs there if there is one.
Picks(s, S, R) ==
    /\ s = [k \in 1..Cardinality(S) |-> s[k]]
    /\ \A k \in 1..Cardinality(S) :
          (\E x \in S : Cardinality(Below(S, R, x)) = k - 1)
             => s[k] \in S /\ Cardinality(Below(S, R, s[k])) = k - 1

\* A finite set in an order of its own.
LEMMA Ordered ==
    ASSUME NEW S, IsFiniteSet(S), NEW R, StrictOrder(S, R), NEW s, Picks(s, S, R)
    PROVE  Lists(s, S, R)
<1>1. PICK n \in Nat : n = Cardinality(S)
  BY Ranks
<1>2. \A k \in 1..n : \E x \in S : Cardinality(Below(S, R, x)) = k - 1
  BY <1>1, Ranks
<1>3. \A k \in 1..n : s[k] \in S /\ Cardinality(Below(S, R, s[k])) = k - 1
  BY <1>1, <1>2 DEF Picks
<1>4. s \in [1..n -> S]
  <2>1. s = [k \in 1..n |-> s[k]]
    BY <1>1 DEF Picks
  <2> QED BY <1>3, <2>1
<1> QED BY <1>1, <1>3, <1>4, Listed

\* The enabled routes, group by group.
Group(rs) == [k \in DOMAIN rs |-> GroupOrder[rs[k].auth]]
FileBefore(rs) ==
    {p \in (DOMAIN rs) \X (DOMAIN rs) :
        \/ Group(rs)[p[1]] < Group(rs)[p[2]]
        \/ Group(rs)[p[1]] = Group(rs)[p[2]] /\ p[1] < p[2]}
FileOrder(rs) ==
    LET Before(i, j) ==
            \/ GroupOrder[rs[i].auth] < GroupOrder[rs[j].auth]
            \/ GroupOrder[rs[i].auth] = GroupOrder[rs[j].auth] /\ i < j
    IN  InOrder({i \in DOMAIN rs : rs[i].enabled}, Before)

LEMMA InFileBefore ==
    ASSUME NEW rs, NEW i \in DOMAIN rs, NEW j \in DOMAIN rs
    PROVE  <<i, j>> \in FileBefore(rs) <=>
              \/ GroupOrder[rs[i].auth] < GroupOrder[rs[j].auth]
              \/ GroupOrder[rs[i].auth] = GroupOrder[rs[j].auth] /\ i < j
<1>1. PICK p : p = <<i, j>>
  OBVIOUS
<1>2. p \in (DOMAIN rs) \X (DOMAIN rs) /\ p[1] = i /\ p[2] = j
  <2>1. PICK D : D = DOMAIN rs
    OBVIOUS
  <2>2. p \in D \X D /\ p[1] = i /\ p[2] = j
    BY <1>1, <2>1
  <2> QED BY <2>1, <2>2
<1>3. p \in FileBefore(rs) <=> \/ Group(rs)[p[1]] < Group(rs)[p[2]]
                               \/ Group(rs)[p[1]] = Group(rs)[p[2]] /\ p[1] < p[2]
  BY <1>2 DEF FileBefore
<1>4. Group(rs)[i] = GroupOrder[rs[i].auth] /\ Group(rs)[j] = GroupOrder[rs[j].auth]
  BY DEF Group
<1> QED BY <1>1, <1>2, <1>3, <1>4

FileChoice(rs, E, k) ==
    CHOOSE x \in E :
        Cardinality({y \in E :
                    \/ GroupOrder[rs[y].auth] < GroupOrder[rs[x].auth]
                    \/ GroupOrder[rs[y].auth] = GroupOrder[rs[x].auth] /\ y < x}) = k - 1

LEMMA FileOrderIs ==
    ASSUME NEW rs \in Seq(RouteInput), NEW E, E = {i \in DOMAIN rs : rs[i].enabled}
    PROVE  /\ Flatten(rs) = [k \in DOMAIN FileOrder(rs) |->
                                Named(Inherit(rs[FileOrder(rs)[k]]))]
           /\ DOMAIN FileOrder(rs) = 1..Cardinality(E) /\ Cardinality(E) \in Nat
           /\ Lists(FileOrder(rs), E, FileBefore(rs))
<1>1. Flatten(rs) = [k \in DOMAIN FileOrder(rs) |-> Named(Inherit(rs[FileOrder(rs)[k]]))]
  BY DEF Flatten, FileOrder
<1>2. PICK len \in Nat : len = Len(rs) /\ DOMAIN rs = 1..len
  OBVIOUS
<1>3. IsFiniteSet(E)
  <2>1. IsFiniteSet(1..len) /\ E \subseteq 1..len
    BY <1>2, FS_Interval
  <2> QED BY <2>1, FS_Subset
<1>4. PICK group : group = [i \in 1..len |-> GroupOrder[rs[i].auth]]
  OBVIOUS
<1>5. group \in [1..len -> Int]
  <2>1. ASSUME NEW i \in 1..len PROVE GroupOrder[rs[i].auth] \in Int
    <3>1. rs[i].auth \in {"public", "optional", "required", "machine"}
      <4>1. PICK r \in RouteInput : r = rs[i]
        BY <1>2
      <4>2. r.auth \in Tiers
        BY DEF RouteInput
      <4> QED BY <4>1, <4>2 DEF Tiers
    <3>2. /\ GroupOrder["public"] = 1 /\ GroupOrder["optional"] = 2
          /\ GroupOrder["required"] = 3 /\ GroupOrder["machine"] = 4
      BY DEF GroupOrder
    <3> QED BY <3>1, <3>2
  <2> QED BY <1>4, <2>1
<1>15. \A i, j \in DOMAIN rs :
          <<i, j>> \in FileBefore(rs) <=>
             \/ GroupOrder[rs[i].auth] < GroupOrder[rs[j].auth]
             \/ GroupOrder[rs[i].auth] = GroupOrder[rs[j].auth] /\ i < j
  BY InFileBefore
<1>6. \A i, j \in 1..len : <<i, j>> \in FileBefore(rs) <=>
             \/ group[i] < group[j]
             \/ group[i] = group[j] /\ i < j
  BY <1>2, <1>4, <1>15
<1>16. E \subseteq 1..len
  BY <1>2
<1>7. StrictOrder(E, FileBefore(rs))
  <2>1. \A x \in E : group[x] \in Int /\ x \in Int /\ x \in 1..len
    BY <1>5, <1>16
  <2> QED BY <1>6, <2>1 DEF StrictOrder
<1>8. PICK s : s = FileOrder(rs)
  OBVIOUS
<1>9. s = [k \in 1..Cardinality(E) |-> FileChoice(rs, E, k)]
  BY <1>8 DEF FileOrder, InOrder, FileChoice
<1>10. \A x \in E : {y \in E :
                    \/ GroupOrder[rs[y].auth] < GroupOrder[rs[x].auth]
                    \/ GroupOrder[rs[y].auth] = GroupOrder[rs[x].auth] /\ y < x}
                       = Below(E, FileBefore(rs), x)
  BY <1>2, <1>15, <1>16 DEF Below
<1>11. ASSUME NEW k \in 1..Cardinality(E),
              \E x \in E : Cardinality(Below(E, FileBefore(rs), x)) = k - 1
       PROVE  s[k] \in E /\ Cardinality(Below(E, FileBefore(rs), s[k])) = k - 1
  <2>1. \E x \in E : Cardinality({y \in E :
                    \/ GroupOrder[rs[y].auth] < GroupOrder[rs[x].auth]
                    \/ GroupOrder[rs[y].auth] = GroupOrder[rs[x].auth] /\ y < x}) = k - 1
    BY <1>10, <1>11
  <2>2. s[k] = CHOOSE x \in E :
                Cardinality({y \in E :
                    \/ GroupOrder[rs[y].auth] < GroupOrder[rs[x].auth]
                    \/ GroupOrder[rs[y].auth] = GroupOrder[rs[x].auth] /\ y < x}) = k - 1
    BY <1>9 DEF FileChoice
  <2>3. s[k] \in E /\ Cardinality({y \in E :
                    \/ GroupOrder[rs[y].auth] < GroupOrder[rs[s[k]].auth]
                    \/ GroupOrder[rs[y].auth] = GroupOrder[rs[s[k]].auth] /\ y < s[k]}) = k - 1
    BY <2>1, <2>2
  <2> QED BY <1>10, <2>3
<1>12. Picks(s, E, FileBefore(rs))
  <2>1. \A k \in 1..Cardinality(E) :
           (\E x \in E : Cardinality(Below(E, FileBefore(rs), x)) = k - 1)
              => s[k] \in E /\ Cardinality(Below(E, FileBefore(rs), s[k])) = k - 1
    BY <1>11
  <2>2. s = [k \in 1..Cardinality(E) |-> s[k]]
    BY <1>9
  <2> QED BY <2>1, <2>2 DEF Picks
<1>13. Cardinality(E) \in Nat
  BY <1>3, FS_CardinalityType
<1>14. Lists(s, E, FileBefore(rs))
  BY <1>3, <1>7, <1>12, Ordered
<1>17. DOMAIN s = 1..Cardinality(E)
  BY <1>9
<1> QED BY <1>1, <1>8, <1>13, <1>14, <1>17

\* The order of the routes in a table.
Key(r) == <<IF r.hosts = {} THEN 1 ELSE 0, -Len(r.prefix)>>
Sooner(rs, i, j) ==
    \/ Key(rs[i])[1] < Key(rs[j])[1]
    \/ Key(rs[i])[1] = Key(rs[j])[1] /\ Key(rs[i])[2] < Key(rs[j])[2]
    \/ Key(rs[i]) = Key(rs[j]) /\ i < j
TableBefore(rs) == {p \in (DOMAIN rs) \X (DOMAIN rs) : Sooner(rs, p[1], p[2])}
TableOrder(rs) ==
    LET Rank(r) == <<IF r.hosts = {} THEN 1 ELSE 0, -Len(r.prefix)>>
        Before(i, j) ==
            LET a == Rank(rs[i])
                b == Rank(rs[j])
            IN  \/ a[1] < b[1]
                \/ a[1] = b[1] /\ a[2] < b[2]
                \/ a = b /\ i < j
    IN  InOrder(DOMAIN rs, Before)
TableChoice(rs, k) ==
    CHOOSE x \in DOMAIN rs :
        Cardinality({y \in DOMAIN rs : Sooner(rs, y, x)}) = k - 1

LEMMA InTableBefore ==
    ASSUME NEW rs, NEW i \in DOMAIN rs, NEW j \in DOMAIN rs
    PROVE  <<i, j>> \in TableBefore(rs) <=> Sooner(rs, i, j)
<1>1. PICK p : p = <<i, j>>
  OBVIOUS
<1>2. p \in (DOMAIN rs) \X (DOMAIN rs) /\ p[1] = i /\ p[2] = j
  BY <1>1
<1> QED BY <1>1, <1>2 DEF TableBefore

\* Routes of a table: their prefixes are texts.
Prefixed(rs, n) ==
    /\ n \in Nat /\ rs = [i \in 1..n |-> rs[i]]
    /\ \A i \in 1..n : rs[i].prefix \in Text

LEMMA TableOrderIs ==
    ASSUME NEW rs, NEW n, Prefixed(rs, n)
    PROVE  /\ Sorted(rs) = [k \in DOMAIN TableOrder(rs) |-> rs[TableOrder(rs)[k]]]
           /\ DOMAIN TableOrder(rs) = 1..n
           /\ Lists(TableOrder(rs), 1..n, TableBefore(rs))
<1>1. Sorted(rs) = [k \in DOMAIN TableOrder(rs) |-> rs[TableOrder(rs)[k]]]
  BY DEF Sorted, TableOrder
<1>2. n \in Nat /\ DOMAIN rs = 1..n
  BY DEF Prefixed
<1>3. IsFiniteSet(1..n) /\ Cardinality(1..n) = n
  BY <1>2, FS_Interval
<1>4. PICK E : E = 1..n
  OBVIOUS
<1>5. PICK a, b : /\ a = [i \in 1..n |-> Key(rs[i])[1]]
                  /\ b = [i \in 1..n |-> Key(rs[i])[2]]
  OBVIOUS
<1>6. \A i \in 1..n : /\ a[i] \in Int /\ b[i] \in Int
                      /\ Key(rs[i])[1] = a[i] /\ Key(rs[i])[2] = b[i]
                      /\ Key(rs[i]) = <<a[i], b[i]>>
  <2> SUFFICES ASSUME NEW i \in 1..n
               PROVE  /\ a[i] \in Int /\ b[i] \in Int
                      /\ Key(rs[i])[1] = a[i] /\ Key(rs[i])[2] = b[i]
                      /\ Key(rs[i]) = <<a[i], b[i]>>
    OBVIOUS
  <2>1. PICK m \in Nat : m = Len(rs[i].prefix)
    BY DEF Prefixed, Text
  <2>2. PICK x \in Int : Key(rs[i]) = <<x, -m>>
    <3>1. CASE rs[i].hosts = {}
      BY <2>1, <3>1 DEF Key
    <3>2. CASE rs[i].hosts # {}
      BY <2>1, <3>2 DEF Key
    <3> QED BY <3>1, <3>2
  <2> QED BY <1>5, <2>1, <2>2
<1>7. \A i, j \in 1..n : <<i, j>> \in TableBefore(rs) <=> Sooner(rs, i, j)
  BY <1>2, InTableBefore
<1>8. \A i, j \in 1..n : Sooner(rs, i, j) <=> \/ a[i] < a[j]
                                              \/ a[i] = a[j] /\ b[i] < b[j]
                                              \/ a[i] = a[j] /\ b[i] = b[j] /\ i < j
  <2> SUFFICES ASSUME NEW i \in 1..n, NEW j \in 1..n
               PROVE  Sooner(rs, i, j) <=> \/ a[i] < a[j]
                                           \/ a[i] = a[j] /\ b[i] < b[j]
                                           \/ a[i] = a[j] /\ b[i] = b[j] /\ i < j
    OBVIOUS
  <2>1. Key(rs[i]) = Key(rs[j]) <=> a[i] = a[j] /\ b[i] = b[j]
    BY <1>6
  <2> QED BY <1>6, <2>1 DEF Sooner
<1>9. StrictOrder(E, TableBefore(rs))
  BY <1>4, <1>6, <1>7, <1>8 DEF StrictOrder
<1>10. PICK s : s = TableOrder(rs)
  OBVIOUS
<1>11. s = [k \in 1..Cardinality(DOMAIN rs) |-> TableChoice(rs, k)]
  BY <1>10 DEF TableOrder, InOrder, TableChoice, Sooner, Key
<1>12. s = [k \in 1..Cardinality(E) |-> TableChoice(rs, k)]
  BY <1>2, <1>4, <1>11
<1>13. \A x \in E : {y \in E : Sooner(rs, y, x)} = Below(E, TableBefore(rs), x)
  BY <1>4, <1>7 DEF Below
<1>14. ASSUME NEW k \in 1..Cardinality(E),
              \E x \in E : Cardinality(Below(E, TableBefore(rs), x)) = k - 1
       PROVE  s[k] \in E /\ Cardinality(Below(E, TableBefore(rs), s[k])) = k - 1
  <2>1. \E x \in E : Cardinality({y \in E : Sooner(rs, y, x)}) = k - 1
    BY <1>13, <1>14
  <2>2. s[k] = CHOOSE x \in E : Cardinality({y \in E : Sooner(rs, y, x)}) = k - 1
    BY <1>2, <1>4, <1>12 DEF TableChoice
  <2>3. s[k] \in E /\ Cardinality({y \in E : Sooner(rs, y, s[k])}) = k - 1
    BY <2>1, <2>2
  <2> QED BY <1>13, <2>3
<1>15. Picks(s, E, TableBefore(rs))
  <2>1. \A k \in 1..Cardinality(E) :
           (\E x \in E : Cardinality(Below(E, TableBefore(rs), x)) = k - 1)
              => s[k] \in E /\ Cardinality(Below(E, TableBefore(rs), s[k])) = k - 1
    BY <1>14
  <2>2. s = [k \in 1..Cardinality(E) |-> s[k]]
    BY <1>12
  <2> QED BY <2>1, <2>2 DEF Picks
<1>16. Lists(s, E, TableBefore(rs))
  BY <1>3, <1>4, <1>9, <1>15, Ordered
<1>17. DOMAIN s = 1..n
  BY <1>3, <1>4, <1>12
<1> QED BY <1>1, <1>4, <1>10, <1>16, <1>17

\* A route that does not come before another one in the order of a table.
NotAfter(a, b) ==
    /\ a.hosts = {} => b.hosts = {}
    /\ (a.hosts = {}) = (b.hosts = {}) => Len(a.prefix) >= Len(b.prefix)

LEMMA SoonerIs ==
    ASSUME NEW rs, NEW n, Prefixed(rs, n), NEW i \in 1..n, NEW j \in 1..n, Sooner(rs, i, j)
    PROVE  NotAfter(rs[i], rs[j])
<1>1. PICK a \in Nat, b \in Nat : a = Len(rs[i].prefix) /\ b = Len(rs[j].prefix)
  <2>1. rs[i].prefix \in Text /\ rs[j].prefix \in Text
    BY DEF Prefixed
  <2> QED BY <2>1 DEF Text
<1>2. PICK x \in Int, y \in Int : /\ x = (IF rs[i].hosts = {} THEN 1 ELSE 0)
                                  /\ y = (IF rs[j].hosts = {} THEN 1 ELSE 0)
  OBVIOUS
<1>3. Key(rs[i]) = <<x, -a>> /\ Key(rs[j]) = <<y, -b>>
  BY <1>1, <1>2 DEF Key
<1>4. x < y \/ (x = y /\ -a <= -b)
  BY <1>3 DEF Sooner
<1> QED BY <1>1, <1>2, <1>4 DEF NotAfter

\* The enabled routes of a file, wherever the order puts them.
Flattened(rs, n, at) ==
    /\ Prefixed(Flatten(rs), n)
    /\ \A k \in 1..n : /\ at[k] \in DOMAIN rs /\ rs[at[k]].enabled
                       /\ From(Flatten(rs)[k], rs[at[k]])
                       /\ Flatten(rs)[k] = Named(Inherit(rs[at[k]]))
    /\ \A i \in DOMAIN rs : rs[i].enabled => \E k \in 1..n : at[k] = i

LEMMA FlatIs ==
    ASSUME NEW rs \in Seq(RouteInput)
    PROVE  \E n, at : Flattened(rs, n, at)
<1>1. PICK E : E = {i \in DOMAIN rs : rs[i].enabled}
  OBVIOUS
<1>2. PICK n, at : n = Cardinality(E) /\ at = FileOrder(rs)
  OBVIOUS
<1>3. /\ Flatten(rs) = [k \in DOMAIN at |-> Named(Inherit(rs[at[k]]))]
      /\ DOMAIN at = 1..n /\ n \in Nat /\ Lists(at, E, FileBefore(rs))
  BY <1>1, <1>2, FileOrderIs
<1>4. /\ \A k \in 1..n : at[k] \in E
      /\ \A i \in E : \E k \in 1..n : at[k] = i
  BY <1>2, <1>3 DEF Lists
<1>5. ASSUME NEW k \in 1..n
      PROVE  /\ at[k] \in DOMAIN rs /\ rs[at[k]].enabled
             /\ From(Flatten(rs)[k], rs[at[k]])
             /\ Flatten(rs)[k] = Named(Inherit(rs[at[k]]))
  <2>1. at[k] \in DOMAIN rs /\ rs[at[k]].enabled
    BY <1>1, <1>4
  <2>2. PICK r \in RouteInput : r = rs[at[k]]
    BY <2>1
  <2>3. Flatten(rs)[k] = Named(Inherit(r))
    BY <1>3, <2>2
  <2>4. From(Flatten(rs)[k], r)
    BY <2>3, NamedIs
  <2> QED BY <2>1, <2>2, <2>3, <2>4
<1>6. Prefixed(Flatten(rs), n)
  <2>1. \A k \in 1..n : Flatten(rs)[k].prefix \in Text
    BY <1>5 DEF From
  <2> QED BY <1>3, <2>1 DEF Prefixed
<1>7. \A i \in DOMAIN rs : rs[i].enabled => \E k \in 1..n : at[k] = i
  BY <1>1, <1>4
<1> QED BY <1>5, <1>6, <1>7 DEF Flattened

\* The routes of a table, sorted.
Arranged(rs, n, at) ==
    /\ Prefixed(Sorted(rs), n)
    /\ Sorted(rs) = [k \in 1..n |-> rs[at[k]]]
    /\ \A k \in 1..n : at[k] \in 1..n
    /\ \A i \in 1..n : \E k \in 1..n : at[k] = i
    /\ \A i, j \in 1..n : i < j => NotAfter(Sorted(rs)[i], Sorted(rs)[j])

LEMMA SortedIs ==
    ASSUME NEW rs, NEW n, Prefixed(rs, n)
    PROVE  \E at : Arranged(rs, n, at)
<1>1. n \in Nat /\ DOMAIN rs = 1..n /\ Cardinality(1..n) = n
  <2>1. n \in Nat /\ DOMAIN rs = 1..n
    BY DEF Prefixed
  <2> QED BY <2>1, FS_Interval
<1>2. PICK at : at = TableOrder(rs)
  OBVIOUS
<1>3. /\ Sorted(rs) = [k \in DOMAIN at |-> rs[at[k]]] /\ DOMAIN at = 1..n
      /\ Lists(at, 1..n, TableBefore(rs))
  BY <1>2, TableOrderIs
<1>4. /\ \A k \in 1..n : at[k] \in 1..n
      /\ \A i \in 1..n : \E k \in 1..n : at[k] = i
      /\ \A i, j \in 1..n : i < j => <<at[i], at[j]>> \in TableBefore(rs)
  BY <1>1, <1>3 DEF Lists
<1>5. Sorted(rs) = [k \in 1..n |-> rs[at[k]]]
  BY <1>3
<1>6. ASSUME NEW i \in 1..n, NEW j \in 1..n, i < j
      PROVE  NotAfter(Sorted(rs)[i], Sorted(rs)[j])
  <2>1. PICK a \in 1..n, b \in 1..n : a = at[i] /\ b = at[j]
    BY <1>4
  <2>2. Sooner(rs, a, b)
    BY <1>1, <1>4, <1>6, <2>1, InTableBefore
  <2>3. NotAfter(rs[a], rs[b])
    BY <2>2, SoonerIs
  <2> QED BY <1>5, <2>1, <2>3
<1>7. Prefixed(Sorted(rs), n)
  <2>1. \A k \in 1..n : Sorted(rs)[k].prefix \in Text
    BY <1>4, <1>5 DEF Prefixed
  <2> QED BY <1>1, <1>5, <2>1 DEF Prefixed
<1> QED BY <1>4, <1>5, <1>6, <1>7 DEF Arranged

\* Whether a listener serves a route.
ServedOn(r, l) == (r.auth = "machine") = (l = "internal")

\* The routes of a table that a listener serves, in the same order.
Allotted(all, l, T, n, at) ==
    /\ n \in Nat /\ DOMAIN T = 1..n /\ Len(T) = n
    /\ \A k \in 1..n : /\ at[k] \in DOMAIN all /\ T[k] = all[at[k]]
                       /\ ServedOn(T[k], l)
    /\ \A i \in DOMAIN all : ServedOn(all[i], l) => \E k \in 1..n : at[k] = i
    /\ \A i, j \in 1..n : i < j => at[i] < at[j]

\* A record with the fields of a table.
IsTable(table) ==
    table = [x \in DOMAIN table |-> table[x]] /\ {"routes", "deny"} \subseteq DOMAIN table

LEMMA AllottedIs ==
    ASSUME NEW table, IsTable(table), NEW all, all = table.routes,
           NEW m, Prefixed(all, m), NEW l \in Listeners
    PROVE  \E n, at : Allotted(all, l, OnListener(table, l).routes, n, at)
<1>1. m \in Nat /\ all = [k \in 1..m |-> all[k]]
  BY DEF Prefixed
<1>2. DOMAIN all = 1..m
  BY <1>1
<1>3. PICK S : S = {all[k] : k \in 1..m}
  OBVIOUS
<1>4. all \in Seq(S) /\ Len(all) = m
  <2>1. \A k \in 1..m : all[k] \in S
    BY <1>3
  <2>2. all \in [1..m -> S]
    BY <1>1, <2>1
  <2> QED BY <1>1, <2>2, Sequenced
<1>5. PICK K : K = {i \in 1..m : ServedOn(all[i], l)}
  OBVIOUS
<1>6. PICK T : T = Picked(all, K)
  OBVIOUS
<1>7. OnListener(table, l).routes = T
  <2>1. CASE l = "public"
    <3>1. K = {i \in DOMAIN all : all[i].auth # "machine"}
      BY <1>2, <1>5, <2>1 DEF ServedOn
    <3>2. Kept(all, LAMBDA r : r.auth # "machine") = T
      BY <1>6, <3>1 DEF Kept, Picked, Listing
    <3>3. OnListener(table, l) = [table EXCEPT !.routes = T]
      BY <2>1, <3>2 DEF OnListener
    <3> QED BY <3>3 DEF IsTable
  <2>2. CASE l = "internal"
    <3>1. K = {i \in DOMAIN all : all[i].auth = "machine"}
      BY <1>2, <1>5, <2>2 DEF ServedOn
    <3>2. Kept(all, LAMBDA r : r.auth = "machine") = T
      BY <1>6, <3>1 DEF Kept, Picked, Listing
    <3>3. OnListener(table, l) = [table EXCEPT !.routes = T, !.deny = {}]
      BY <2>2, <3>2 DEF OnListener
    <3> QED BY <3>3 DEF IsTable
  <2> QED BY <2>1, <2>2 DEF Listeners
<1>8. PICK n, at : n = Cardinality(K) /\ at = Listing(K)
  OBVIOUS
<1>9. /\ n \in Nat /\ T \in Seq(S) /\ Len(T) = n
      /\ at \in [1..n -> K] /\ \A j \in K : \E k \in 1..n : at[k] = j
      /\ \A i, j \in 1..n : i < j => at[i] < at[j]
      /\ \A k \in 1..n : T[k] = all[at[k]]
  <2>1. K \in SUBSET (1..Len(all))
    BY <1>4, <1>5
  <2>2. all \in Seq(S)
    BY <1>4
  <2>3. /\ n \in Nat /\ Picked(all, K) \in Seq(S) /\ Len(Picked(all, K)) = n
        /\ at \in [1..n -> K] /\ \A j \in K : \E k \in 1..n : at[k] = j
        /\ \A k \in 1..n : Picked(all, K)[k] = all[at[k]] /\ Picked(all, K)[k] \in S
    BY <1>8, <2>1, <2>2, PickedInOrder
  <2>4. \A i, j \in 1..n : i < j => at[i] < at[j]
    BY <1>8, <2>1, <2>2, PickedInOrder
  <2> QED BY <1>6, <2>3, <2>4
<1>10. DOMAIN T = 1..n
  BY <1>9
<1>11. \A k \in 1..n : at[k] \in 1..m /\ ServedOn(T[k], l)
  BY <1>5, <1>9
<1>12. \A i \in 1..m : ServedOn(all[i], l) => \E k \in 1..n : at[k] = i
  BY <1>5, <1>9
<1>13. Allotted(all, l, T, n, at)
  BY <1>2, <1>9, <1>10, <1>11, <1>12 DEF Allotted
<1> QED BY <1>7, <1>13

\* The rows of a listener's table are the enabled routes of the file that are
\* the listener's, in the order of the table.
Rows(f, l, T, n, at) ==
    /\ n \in Nat /\ DOMAIN T = 1..n /\ Len(T) = n
    /\ \A k \in 1..n : /\ at[k] \in DOMAIN f.routes /\ f.routes[at[k]].enabled
                       /\ ServedOn(f.routes[at[k]], l)
                       /\ From(T[k], f.routes[at[k]])
                       /\ T[k] = Named(Inherit(f.routes[at[k]]))
    /\ \A i \in DOMAIN f.routes : f.routes[i].enabled /\ ServedOn(f.routes[i], l)
                                     => \E k \in 1..n : at[k] = i
    /\ \A i, j \in 1..n : i < j => NotAfter(T[i], T[j])

\* What validation says of the rows.
Sound(T, n) ==
    /\ \A k \in 1..n : ValidRoute(T[k]) /\ ~Malformed(T[k])
    /\ \A i, j \in 1..n : i # j => ~ConflictingRoutes(T[i], T[j])

LEMMA TableRows ==
    ASSUME NEW f, f.routes \in Seq(RouteInput), ValidTable(BuildWith(f)), NEW l \in Listeners
    PROVE  \E n, at : /\ Rows(f, l, OnListener(BuildWith(f), l).routes, n, at)
                      /\ Sound(OnListener(BuildWith(f), l).routes, n)
<1>1. PICK rs \in Seq(RouteInput) : rs = f.routes
  OBVIOUS
<1>2. PICK m, from : Flattened(rs, m, from)
  BY FlatIs
<1>3. PICK flat : flat = Flatten(rs)
  OBVIOUS
<1>4. Prefixed(flat, m)
  BY <1>2, <1>3 DEF Flattened
<1>5. PICK to : Arranged(flat, m, to)
  BY <1>4, SortedIs
<1>6. PICK table : table = BuildWith(f)
  OBVIOUS
<1>7. PICK all : all = Sorted(flat)
  OBVIOUS
<1>8. PICK deny, errors : /\ table = [deny |-> deny, routes |-> all, errors |-> errors]
                          /\ errors = \E i \in DOMAIN flat : Malformed(flat[i])
  BY <1>1, <1>3, <1>6, <1>7 DEF BuildWith
<1>9. IsTable(table)
  BY <1>8 DEF IsTable
<1>10. table.routes = all /\ table.errors = errors
  BY <1>8
<1>11. /\ Prefixed(all, m) /\ all = [k \in 1..m |-> flat[to[k]]]
       /\ \A k \in 1..m : to[k] \in 1..m
       /\ \A i \in 1..m : \E k \in 1..m : to[k] = i
       /\ \A i, j \in 1..m : i < j => NotAfter(all[i], all[j])
  BY <1>5, <1>7 DEF Arranged
<1>12. DOMAIN all = 1..m /\ m \in Nat
  BY <1>11 DEF Prefixed
<1>13. PICK T : T = OnListener(table, l).routes
  OBVIOUS
<1>14. PICK n, sel : Allotted(all, l, T, n, sel)
  <2>1. \E n, sel : Allotted(all, l, OnListener(table, l).routes, n, sel)
    BY <1>9, <1>10, <1>11, AllottedIs
  <2> QED BY <1>13, <2>1
<1>15. PICK at : at = [k \in 1..n |-> from[to[sel[k]]]]
  OBVIOUS
<1>16. /\ n \in Nat /\ DOMAIN T = 1..n /\ Len(T) = n
       /\ \A k \in 1..n : sel[k] \in 1..m /\ T[k] = all[sel[k]] /\ ServedOn(T[k], l)
       /\ \A i \in 1..m : ServedOn(all[i], l) => \E k \in 1..n : sel[k] = i
       /\ \A i, j \in 1..n : i < j => sel[i] < sel[j]
  BY <1>12, <1>14 DEF Allotted
<1>17. /\ \A k \in 1..m : /\ from[k] \in DOMAIN rs /\ rs[from[k]].enabled
                          /\ From(flat[k], rs[from[k]])
                          /\ flat[k] = Named(Inherit(rs[from[k]]))
       /\ \A i \in DOMAIN rs : rs[i].enabled => \E k \in 1..m : from[k] = i
  BY <1>2, <1>3 DEF Flattened
<1>18. ASSUME NEW k \in 1..n
       PROVE  /\ at[k] \in DOMAIN rs /\ rs[at[k]].enabled /\ ServedOn(rs[at[k]], l)
              /\ From(T[k], rs[at[k]]) /\ T[k] = Named(Inherit(rs[at[k]]))
  <2>1. PICK j \in 1..m : j = to[sel[k]] /\ T[k] = flat[j] /\ at[k] = from[j]
    BY <1>11, <1>15, <1>16
  <2>2. ServedOn(T[k], l) /\ From(T[k], rs[at[k]])
    BY <1>16, <1>17, <2>1
  <2>3. ServedOn(rs[at[k]], l)
    BY <2>2 DEF ServedOn, From
  <2> QED BY <1>17, <2>1, <2>2, <2>3
<1>19. ASSUME NEW i \in DOMAIN rs, rs[i].enabled, ServedOn(rs[i], l)
       PROVE  \E k \in 1..n : at[k] = i
  <2>1. PICK j \in 1..m : from[j] = i
    BY <1>17, <1>19
  <2>2. PICK h \in 1..m : to[h] = j
    BY <1>11
  <2>3. From(all[h], rs[i])
    BY <1>11, <1>17, <2>1, <2>2
  <2>4. ServedOn(all[h], l)
    BY <1>19, <2>3 DEF ServedOn, From
  <2>5. PICK k \in 1..n : sel[k] = h
    BY <1>16, <2>4
  <2> QED BY <1>15, <2>1, <2>2, <2>5
<1>20. ASSUME NEW i \in 1..n, NEW j \in 1..n, i < j PROVE NotAfter(T[i], T[j])
  <2>1. PICK a \in 1..m, b \in 1..m : a = sel[i] /\ b = sel[j] /\ a < b
    BY <1>16, <1>20
  <2> QED BY <1>11, <1>16, <2>1
<1>21. Rows(f, l, T, n, at)
  BY <1>1, <1>16, <1>18, <1>19, <1>20 DEF Rows
<1>22. /\ ~errors
       /\ \A i \in 1..m : ValidRoute(all[i])
       /\ \A i, j \in 1..m : i # j => ~ConflictingRoutes(all[i], all[j])
  BY <1>6, <1>10, <1>12 DEF ValidTable
<1>23. \A k \in 1..m : ~Malformed(all[k])
  <2>1. DOMAIN flat = 1..m
    BY <1>4 DEF Prefixed
  <2> QED BY <1>8, <1>11, <1>22, <2>1
<1>24. \A k \in 1..n : ValidRoute(T[k]) /\ ~Malformed(T[k])
  BY <1>16, <1>22, <1>23
<1>25. ASSUME NEW i \in 1..n, NEW j \in 1..n, i # j PROVE ~ConflictingRoutes(T[i], T[j])
  <2>1. PICK a \in 1..m, b \in 1..m : a = sel[i] /\ b = sel[j]
    BY <1>16
  <2>2. a # b
    <3>1. i < j \/ j < i
      BY <1>16, <1>25
    <3> QED BY <1>16, <2>1, <3>1
  <2> QED BY <1>16, <1>22, <2>1, <2>2
<1>26. Sound(T, n)
  BY <1>24, <1>25 DEF Sound
<1> QED BY <1>6, <1>13, <1>21, <1>26

\* The routes of a file that may serve a request.
Eligible(f, l, path, host, method) ==
    {i \in DOMAIN f.routes :
        /\ f.routes[i].enabled /\ ServedOn(f.routes[i], l)
        /\ UnderPrefix(path, Trim(f.routes[i].prefix))
        /\ Serves([hosts |-> f.routes[i].hosts, methods |-> MethodsOf(f.routes[i])],
                   host, method)}

\* They are the rows of the table that match it.
LEMMA HitsEligible ==
    ASSUME NEW f, NEW l, NEW T, NEW n, NEW at, Rows(f, l, T, n, at),
           NEW path, NEW host, NEW method
    PROVE  /\ Hits(T, path, host, method) \in SUBSET (1..n)
           /\ \A k \in Hits(T, path, host, method) : at[k] \in Eligible(f, l, path, host, method)
           /\ \A i \in Eligible(f, l, path, host, method) :
                 \E k \in Hits(T, path, host, method) : at[k] = i
<1>1. Len(T) = n
  BY DEF Rows
<1>2. Hits(T, path, host, method) =
         {k \in 1..n : UnderPrefix(path, T[k].prefix) /\ Serves(T[k], host, method)}
  BY <1>1 DEF Hits
<1>3. ASSUME NEW k \in 1..n
      PROVE  k \in Hits(T, path, host, method)
                <=> at[k] \in Eligible(f, l, path, host, method)
  <2>1. PICK r, m : r = f.routes[at[k]] /\ m = T[k]
    OBVIOUS
  <2>2. /\ at[k] \in DOMAIN f.routes /\ r.enabled /\ ServedOn(r, l)
        /\ m.prefix = Trim(r.prefix) /\ m.hosts = r.hosts /\ m.methods = MethodsOf(r)
    BY <2>1 DEF Rows, From
  <2>3. Serves(m, host, method)
           <=> Serves([hosts |-> r.hosts, methods |-> MethodsOf(r)], host, method)
    BY <2>2 DEF Serves
  <2>4. k \in Hits(T, path, host, method)
           <=> UnderPrefix(path, m.prefix) /\ Serves(m, host, method)
    BY <1>2, <2>1
  <2>5. at[k] \in Eligible(f, l, path, host, method)
           <=> /\ UnderPrefix(path, Trim(r.prefix))
               /\ Serves([hosts |-> r.hosts, methods |-> MethodsOf(r)], host, method)
    BY <2>1, <2>2 DEF Eligible
  <2> QED BY <2>2, <2>3, <2>4, <2>5
<1>4. ASSUME NEW i \in Eligible(f, l, path, host, method)
      PROVE  \E k \in Hits(T, path, host, method) : at[k] = i
  <2>1. i \in DOMAIN f.routes /\ f.routes[i].enabled /\ ServedOn(f.routes[i], l)
    BY DEF Eligible
  <2>2. PICK k \in 1..n : at[k] = i
    BY <2>1 DEF Rows
  <2> QED BY <1>3, <2>2
<1> QED BY <1>2, <1>3, <1>4

(***************************************************************************)
(* Which route a request gets.                                             *)
(***************************************************************************)

\* A path is under at most one prefix of each length.
LEMMA OnePrefix ==
    ASSUME NEW path \in Text, NEW a \in Text, NEW b \in Text, Len(a) = Len(b),
           UnderPrefix(path, a), UnderPrefix(path, b)
    PROVE  a = b
<1>1. /\ \A i \in 1..Len(a) : path[i] = a[i]
      /\ \A i \in 1..Len(b) : path[i] = b[i]
  BY UnderIs
<1>2. PICK n \in Nat : n = Len(a) /\ n = Len(b)
  BY DEF Text
<1>3. \A i \in 1..n : a[i] = b[i]
  BY <1>1, <1>2
<1>4. a \in Seq(Letter) /\ b \in Seq(Letter)
  BY DEF Text
<1> QED BY <1>2, <1>3, <1>4

\* Routes that serve the same host overlap in their hosts.
LEMMA HostsMeet ==
    ASSUME NEW a, NEW b, NEW host, host \in {None} \cup Seq(STRING), NEW method,
           \A p \in a.hosts : p.kind \in {"exact", "suffix"} /\ p.name \in Seq(STRING),
           \A p \in b.hosts : p.kind \in {"exact", "suffix"} /\ p.name \in Seq(STRING),
           Serves(a, host, method), Serves(b, host, method)
    PROVE  \/ a.hosts = {} \/ b.hosts = {}
           \/ \E p \in a.hosts, q \in b.hosts : Overlaps(p, q)
<1> SUFFICES ASSUME a.hosts # {}, b.hosts # {}
             PROVE  \E p \in a.hosts, q \in b.hosts : Overlaps(p, q)
  OBVIOUS
<1>1. /\ host # None
      /\ \E p \in a.hosts : HostMatches(p, host)
      /\ \E q \in b.hosts : HostMatches(q, host)
  BY DEF Serves
<1>2. PICK p \in a.hosts, q \in b.hosts : HostMatches(p, host) /\ HostMatches(q, host)
  BY <1>1
<1>3. host \in Seq(STRING)
  BY <1>1
<1>4. Overlaps(p, q)
  BY <1>2, <1>3, HostsOverlap
<1> QED BY <1>4

\* The hosts of a row are patterns that parse.
LEMMA HostsParse ==
    ASSUME NEW r \in RouteInput, NEW m, From(m, r), ~Malformed(m)
    PROVE  \A p \in m.hosts : p.kind \in {"exact", "suffix"} /\ p.name \in Seq(STRING)
<1> SUFFICES ASSUME NEW p \in m.hosts
             PROVE  p.kind \in {"exact", "suffix"} /\ p.name \in Seq(STRING)
  OBVIOUS
<1>1. PICK hosts : hosts = r.hosts /\ hosts = m.hosts
  BY DEF From
<1>2. hosts \in SUBSET [kind: {"exact", "suffix", "malformed"}, name: Seq(STRING)]
  BY <1>1 DEF RouteInput
<1>3. p \in [kind: {"exact", "suffix", "malformed"}, name: Seq(STRING)]
  BY <1>1, <1>2
<1>4. p.kind # "malformed"
  BY DEF Malformed
<1>5. p.kind \in {"exact", "suffix", "malformed"} /\ p.name \in Seq(STRING)
  BY <1>3
<1> QED BY <1>4, <1>5

\* Of two rows that match a request the earlier one outranks the later.
LEMMA EarlierOutranks ==
    ASSUME NEW f, f.routes \in Seq(RouteInput), NEW l, NEW T, NEW n, NEW at,
           Rows(f, l, T, n, at), Sound(T, n),
           NEW path \in Text, NEW host, host \in {None} \cup Seq(STRING), NEW method,
           NEW i \in Hits(T, path, host, method), NEW j \in Hits(T, path, host, method),
           i < j
    PROVE  Outranks(f.routes[at[i]], f.routes[at[j]])
<1>1. PICK a, b, r, s : /\ a = T[i] /\ b = T[j]
                        /\ r = f.routes[at[i]] /\ s = f.routes[at[j]]
  OBVIOUS
<1>2. Len(T) = n /\ n \in Nat
  BY DEF Rows
<1>3. /\ i \in 1..n /\ j \in 1..n /\ i # j
      /\ UnderPrefix(path, a.prefix) /\ UnderPrefix(path, b.prefix)
      /\ Serves(a, host, method) /\ Serves(b, host, method)
  BY <1>1, <1>2 DEF Hits
<1>4. /\ From(a, r) /\ From(b, s) /\ NotAfter(a, b)
      /\ at[i] \in DOMAIN f.routes /\ at[j] \in DOMAIN f.routes
      /\ ServedOn(r, l) /\ ServedOn(s, l)
  BY <1>1, <1>3 DEF Rows
<1>5. r \in RouteInput /\ s \in RouteInput
  BY <1>1, <1>4
<1>6. ~Malformed(a) /\ ~Malformed(b) /\ ~ConflictingRoutes(a, b)
  BY <1>1, <1>3 DEF Sound
<1>7. PICK p \in Text, q \in Text : p = a.prefix /\ q = b.prefix
  BY <1>4 DEF From
<1>8. PICK x \in Nat, y \in Nat : x = Len(p) /\ y = Len(q)
  BY DEF Text
<1>9. ASSUME (r.hosts = {}) = (s.hosts = {}), ~(x > y) PROVE FALSE
  <2>1. (a.hosts = {}) = (b.hosts = {}) /\ x >= y
    BY <1>4, <1>7, <1>8, <1>9 DEF From, NotAfter
  <2>2. Len(p) = Len(q)
    BY <1>8, <1>9, <2>1
  <2>3. a.prefix = b.prefix
    BY <1>3, <1>7, <2>2, OnePrefix
  <2>4. (a.auth = "machine") = (b.auth = "machine")
    BY <1>4 DEF From, ServedOn
  <2>5. a.methods = {} \/ b.methods = {} \/ a.methods \cap b.methods # {}
    BY <1>3 DEF Serves
  <2>6. /\ \A k \in a.hosts : k.kind \in {"exact", "suffix"} /\ k.name \in Seq(STRING)
        /\ \A k \in b.hosts : k.kind \in {"exact", "suffix"} /\ k.name \in Seq(STRING)
    BY <1>4, <1>5, <1>6, HostsParse
  <2>7. \/ a.hosts = {} \/ b.hosts = {}
        \/ \E k \in a.hosts, h \in b.hosts : Overlaps(k, h)
    BY <1>3, <2>6, HostsMeet
  <2> QED BY <1>6, <2>1, <2>3, <2>4, <2>5, <2>7 DEF ConflictingRoutes
<1>10. ASSUME r.hosts = {} PROVE s.hosts = {}
  BY <1>4, <1>10 DEF From, NotAfter
<1>11. Trim(r.prefix) = p /\ Trim(s.prefix) = q
  BY <1>4, <1>7 DEF From
<1> QED BY <1>1, <1>8, <1>9, <1>10, <1>11 DEF Outranks

HeaderHost(header) == IF header = None THEN None ELSE NormalizeHost(header)
RowAt(T, x) == IF x = 0 THEN None ELSE T[x]

\* The table is looked up the same way with and without its index.
LEMMA LookupIs ==
    ASSUME NEW f, NEW l, NEW T, NEW n, NEW at, Rows(f, l, T, n, at), Sound(T, n)
    PROVE  \A table, header, method : \A path \in Text :
              table.routes = T /\ Trimmed(path) =>
                 MatchRequest(table, header, path, method)
                    = RowAt(T, First(Hits(T, path, HeaderHost(header), method)))
<1> SUFFICES ASSUME NEW table, NEW header, NEW method, NEW path \in Text,
                    table.routes = T, Trimmed(path)
             PROVE  MatchRequest(table, header, path, method)
                       = RowAt(T, First(Hits(T, path, HeaderHost(header), method)))
  OBVIOUS
<1>0. PICK host, x : host = HeaderHost(header) /\ x = First(Hits(T, path, host, method))
  OBVIOUS
<1>1. Trim(path) = path
  BY Trims
<1>2. Scan(T, path, host, method) = x
  BY <1>0, ScanIs
<1>3. Indexable(T, n)
  <2>1. n \in Nat /\ DOMAIN T = 1..n /\ Len(T) = n
    BY DEF Rows
  <2>2. ASSUME NEW i \in 1..n PROVE T[i].prefix \in Text /\ T[i].prefix # <<>>
    <3>1. T[i].prefix \in Text
      BY DEF Rows, From
    <3>2. ValidRoute(T[i])
      BY DEF Sound
    <3> QED BY <3>1, <3>2 DEF ValidRoute
  <2> QED BY <2>1, <2>2 DEF Indexable
<1>4. Find(T, path, host, method) = x
  BY <1>0, <1>3, FindIs
<1>5. MatchRequest(table, header, path, method) =
         LET At(i) == IF i = 0 THEN None ELSE T[i]
         IN  At(IF Len(T) > IndexAbove THEN Find(T, path, host, method)
                ELSE Scan(T, path, host, method))
  BY <1>0, <1>1 DEF MatchRequest, HeaderHost
<1>6. (IF Len(T) > IndexAbove THEN Find(T, path, host, method)
       ELSE Scan(T, path, host, method)) = x
  BY <1>2, <1>4
<1> QED BY <1>0, <1>5, <1>6 DEF RowAt

(***************************************************************************)
(* What the gateway does with a request.                                   *)
(***************************************************************************)

\* The order of the mounts.
TrimmedMounts == [i \in DOMAIN Mounts |-> Trim(Mounts[i])]
MountLen(i) == Len(TrimmedMounts[i])
Longer(i, j) == \/ MountLen(i) > MountLen(j)
                \/ MountLen(i) = MountLen(j) /\ i < j
MountBefore == {p \in (DOMAIN Mounts) \X (DOMAIN Mounts) : Longer(p[1], p[2])}
MountChoice(k) ==
    CHOOSE x \in DOMAIN Mounts :
        Cardinality({y \in DOMAIN Mounts : Longer(y, x)}) = k - 1

LEMMA InMountBefore ==
    ASSUME NEW i \in DOMAIN Mounts, NEW j \in DOMAIN Mounts
    PROVE  <<i, j>> \in MountBefore <=> Longer(i, j)
<1>1. PICK p : p = <<i, j>>
  OBVIOUS
<1>2. p \in (DOMAIN Mounts) \X (DOMAIN Mounts) /\ p[1] = i /\ p[2] = j
  BY <1>1
<1> QED BY <1>1, <1>2 DEF MountBefore

\* The mounts in their order, as texts.
LEMMA BasesTyped ==
    /\ DOMAIN BasePaths \in SUBSET Nat
    /\ \A k \in DOMAIN BasePaths : BasePaths[k] \in Text
    /\ BasePaths \in Seq(Text)
<1>1. PICK n \in Nat : n = Len(Mounts) /\ DOMAIN Mounts = 1..n
  BY RulesConfig
<1>2. ASSUME NEW i \in 1..n PROVE TrimmedMounts[i] \in Text /\ MountLen(i) \in Nat
  <2>1. PICK m \in Seq(STRING) : m = Mounts[i]
    BY <1>1, RulesConfig
  <2>2. STRING \subseteq Letter
    BY DEF Letter
  <2>3. m \in Text
    BY <2>2, SeqWiden DEF Text
  <2>4. Trim(m) \in Text
    BY <2>3, Trims
  <2>5. TrimmedMounts[i] \in Text
    BY <1>1, <2>1, <2>4 DEF TrimmedMounts
  <2> QED BY <2>5 DEF MountLen, Text
<1>3. PICK E : E = 1..n
  OBVIOUS
<1>4. IsFiniteSet(E) /\ Cardinality(E) = n
  BY <1>3, FS_Interval
<1>5. \A i, j \in E : <<i, j>> \in MountBefore <=> Longer(i, j)
  BY <1>1, <1>3, InMountBefore
<1>6. StrictOrder(E, MountBefore)
  <2>1. PICK len : len = [i \in 1..n |-> MountLen(i)]
    OBVIOUS
  <2>2. \A i \in E : len[i] \in Nat /\ len[i] = MountLen(i) /\ i \in Int
    BY <1>2, <1>3, <2>1
  <2>3. \A i, j \in E : <<i, j>> \in MountBefore <=>
                         len[i] > len[j] \/ (len[i] = len[j] /\ i < j)
    BY <1>5, <2>2 DEF Longer
  <2> QED BY <2>2, <2>3 DEF StrictOrder
<1>7. PICK s : s = [k \in 1..Cardinality(DOMAIN Mounts) |-> MountChoice(k)]
  OBVIOUS
<1>8. BasePaths = [k \in DOMAIN s |-> TrimmedMounts[s[k]]]
  BY <1>7 DEF BasePaths, InOrder, TrimmedMounts, MountChoice, Longer, MountLen
<1>9. \A x \in E : {y \in E : Longer(y, x)} = Below(E, MountBefore, x)
  BY <1>5 DEF Below
<1>10. s = [k \in 1..Cardinality(E) |-> MountChoice(k)]
  BY <1>1, <1>3, <1>7
<1>11. ASSUME NEW k \in 1..Cardinality(E),
              \E x \in E : Cardinality(Below(E, MountBefore, x)) = k - 1
       PROVE  s[k] \in E /\ Cardinality(Below(E, MountBefore, s[k])) = k - 1
  <2>1. \E x \in E : Cardinality({y \in E : Longer(y, x)}) = k - 1
    BY <1>9, <1>11
  <2>2. s[k] = CHOOSE x \in E : Cardinality({y \in E : Longer(y, x)}) = k - 1
    BY <1>1, <1>3, <1>10 DEF MountChoice
  <2>3. s[k] \in E /\ Cardinality({y \in E : Longer(y, s[k])}) = k - 1
    BY <2>1, <2>2
  <2> QED BY <1>9, <2>3
<1>12. Picks(s, E, MountBefore)
  <2>1. \A k \in 1..Cardinality(E) :
           (\E x \in E : Cardinality(Below(E, MountBefore, x)) = k - 1)
              => s[k] \in E /\ Cardinality(Below(E, MountBefore, s[k])) = k - 1
    BY <1>11
  <2>2. s = [k \in 1..Cardinality(E) |-> s[k]]
    BY <1>10
  <2> QED BY <2>1, <2>2 DEF Picks
<1>13. Lists(s, E, MountBefore)
  BY <1>4, <1>6, <1>12, Ordered
<1>14. \A k \in 1..n : s[k] \in 1..n
  BY <1>3, <1>4, <1>13 DEF Lists
<1>15. DOMAIN s = 1..n
  BY <1>4, <1>10
<1>16. DOMAIN BasePaths = 1..n /\ \A k \in 1..n : BasePaths[k] = TrimmedMounts[s[k]]
  BY <1>8, <1>15
<1>17. \A k \in 1..n : BasePaths[k] \in Text
  BY <1>2, <1>14, <1>16
<1>18. (1..n) \in SUBSET Nat
  OBVIOUS
<1>19. BasePaths \in [1..n -> Text]
  BY <1>8, <1>15, <1>16, <1>17
<1>20. BasePaths \in Seq(Text)
  BY <1>19, Sequenced
<1> QED BY <1>16, <1>17, <1>18, <1>20

LEMMA StartTrimmed == ASSUME NEW raw \in Seq(Raw) PROVE TrimStart(raw) \in Seq(Raw)
<1> DEFINE kept == {i \in DOMAIN raw : raw[i] # Slash}
<1>1. CASE kept = {}
  BY <1>1 DEF TrimStart
<1>2. CASE kept # {}
  <2>1. PICK n \in Nat : n = Len(raw) /\ DOMAIN raw = 1..n
    OBVIOUS
  <2>2. Min(kept) \in kept
    <3>1. kept \in SUBSET Nat
      BY <2>1
    <3> QED BY <1>2, <3>1, MinIs
  <2>3. PICK m \in 1..n : m = Min(kept)
    BY <2>1, <2>2
  <2>4. TrimStart(raw) = SubSeq(raw, m, n)
    BY <1>2, <2>1, <2>3 DEF TrimStart
  <2>5. m \in Nat /\ 1 <= m /\ m <= n + 1 /\ n <= Len(raw)
    BY <2>1
  <2>6. SubSeq(raw, m, n) \in Seq(Raw)
    BY <2>1, <2>5, Parts
  <2> QED BY <2>4, <2>6
<1> QED BY <1>1, <1>2

\* What is left of a path beneath a mount.
LEMMA StripTyped ==
    ASSUME NEW raw \in Seq(Raw), StripBase(raw) # None
    PROVE  StripBase(raw) \in Seq(Raw)
<1>1. PICK path \in Seq(Raw) : path = TrimStart(raw)
  BY StartTrimmed
<1> DEFINE Rest(base) == SubSeq(path, Len(base) + 1, Len(path))
           fits == {i \in DOMAIN BasePaths :
                      \/ BasePaths[i] = <<>>
                      \/ /\ IsPrefix(Plain(BasePaths[i]), path)
                         /\ \/ Rest(BasePaths[i]) = <<>>
                            \/ Head(Rest(BasePaths[i])) = Slash}
           base == BasePaths[Min(fits)]
<1>2. StripBase(raw) =
         IF fits = {} THEN None
         ELSE IF base = <<>> THEN path
         ELSE IF Rest(base) = <<>> THEN <<>> ELSE Tail(Rest(base))
  BY <1>1 DEF StripBase
<1>3. fits # {}
  BY <1>2
<1>4. fits \in SUBSET Nat
  BY BasesTyped
<1>5. Min(fits) \in fits
  BY <1>3, <1>4, MinIs
<1>6. PICK k \in DOMAIN BasePaths : k = Min(fits) /\ k \in fits
  BY <1>5
<1>7. PICK b \in Text : b = BasePaths[k]
  BY BasesTyped
<1>8. PICK rest : rest = SubSeq(path, Len(b) + 1, Len(path))
  OBVIOUS
<1>9. StripBase(raw) = IF b = <<>> THEN path ELSE IF rest = <<>> THEN <<>> ELSE Tail(rest)
  BY <1>2, <1>3, <1>6, <1>7, <1>8
<1>10. b = <<>> \/ IsPrefix(Plain(b), path)
  BY <1>6, <1>7
<1>11. CASE b = <<>>
  BY <1>9, <1>11
<1>12. CASE b # <<>>
  <2>1. PICK m \in Nat, n \in Nat : m = Len(b) /\ DOMAIN b = 1..m /\ n = Len(path)
    BY DEF Text
  <2>2. Len(Plain(b)) = m
    BY <2>1 DEF Plain
  <2>3. m <= n
    BY <1>10, <1>12, <2>1, <2>2 DEF IsPrefix
  <2>4. rest \in Seq(Raw)
    <3>1. m + 1 \in Nat /\ 1 <= m + 1 /\ m + 1 <= n + 1 /\ n <= Len(path)
      BY <2>1, <2>3
    <3>2. SubSeq(path, m + 1, n) \in Seq(Raw)
      BY <2>1, <3>1, Parts
    <3> QED BY <1>8, <2>1, <3>2
  <2>5. rest # <<>> => Tail(rest) \in Seq(Raw)
    BY <2>4
  <2> QED BY <1>9, <1>12, <2>5
<1> QED BY <1>11, <1>12

\* What RightRoute asks of an answer.
Right(f, l, path, host, method, g) ==
    LET may == Eligible(f, l, path, host, method)
    IN  IF may = {} THEN g.result = "no_route"
        ELSE /\ g.result = "route"
             /\ \E i \in may :
                   /\ \A j \in may \ {i} : Outranks(f.routes[i], f.routes[j])
                   /\ g.route.auth = f.routes[i].auth
                   /\ g.route.hosts = f.routes[i].hosts
                   /\ g.route.prefix = Trim(f.routes[i].prefix)
                   /\ g.route.upstream = f.routes[i].upstream

HostOf(q) == HeaderHost(q.host)

\* The row of the table a request gets, if it gets one.
Chosen(f, q, path, T, n, at, hits, x) ==
    /\ T = OnListener(BuildWith(f), q.listener).routes
    /\ Rows(f, q.listener, T, n, at) /\ Sound(T, n)
    /\ hits = Hits(T, path, HostOf(q), q.method) /\ hits \in SUBSET (1..n)
    /\ x \in Nat /\ (x = 0 <=> hits = {})
    /\ x # 0 => x \in hits /\ \A i \in hits : x <= i
    /\ MatchRequest(OnListener(BuildWith(f), q.listener), q.host, path, q.method)
          = RowAt(T, x)
    /\ \A k \in 1..n : /\ T[k] # None /\ T[k].upstream \in Upstreams
                       /\ T[k].auth = "machine" => MachineSecret

LEMMA HostTyped == ASSUME NEW q \in Queries PROVE HostOf(q) \in {None} \cup Seq(STRING)
<1>1. q.host \in {None} \cup [name: Seq(STRING), port: BOOLEAN]
  BY RulesConfig
<1>2. CASE q.host = None
  BY <1>2 DEF HostOf, HeaderHost
<1>3. CASE q.host # None
  <2>1. q.host \in [name: Seq(STRING), port: BOOLEAN]
    BY <1>1, <1>3
  <2>2. q.host.name \in Seq(STRING)
    BY <2>1
  <2> QED BY <1>3, <2>2 DEF HostOf, HeaderHost, NormalizeHost
<1> QED BY <1>2, <1>3

LEMMA ChosenIs ==
    ASSUME NEW f \in Files, ValidTable(BuildWith(f)), NEW q \in Queries,
           NEW path \in Text, Trimmed(path)
    PROVE  \E T, n, at, hits, x : Chosen(f, q, path, T, n, at, hits, x)
<1>1. PICK l \in Listeners : l = q.listener
  BY RulesConfig
<1>2. f.routes \in Seq(RouteInput)
  BY RulesConfig
<1>3. PICK table, T : table = OnListener(BuildWith(f), l) /\ T = table.routes
  OBVIOUS
<1>4. PICK n, at : Rows(f, l, T, n, at) /\ Sound(T, n)
  BY <1>2, <1>3, TableRows
<1>5. PICK host, method, header : /\ host = HostOf(q) /\ method = q.method /\ header = q.host
                                  /\ host = HeaderHost(header)
  BY DEF HostOf
<1>6. PICK hits : hits = Hits(T, path, host, method)
  OBVIOUS
<1>7. hits \in SUBSET (1..n) /\ n \in Nat
  <2>1. hits \in SUBSET (1..n)
    BY <1>4, <1>6, HitsEligible
  <2> QED BY <1>4, <2>1 DEF Rows
<1>8. PICK x \in Nat : /\ x = First(hits) /\ (x = 0 <=> hits = {})
                       /\ x # 0 => x \in hits /\ \A i \in hits : x <= i
  <2>1. hits \in SUBSET (Nat \ {0})
    BY <1>7
  <2> QED BY <2>1, FirstIs
<1>9. MatchRequest(table, header, path, method) = RowAt(T, x)
  <2>1. MatchRequest(table, header, path, method)
           = RowAt(T, First(Hits(T, path, HeaderHost(header), method)))
    <3>1. \A t, h, m : \A p \in Text :
             t.routes = T /\ Trimmed(p) =>
                MatchRequest(t, h, p, m) = RowAt(T, First(Hits(T, p, HeaderHost(h), m)))
      BY <1>4, LookupIs
    <3> QED BY <1>3, <3>1
  <2> QED BY <1>5, <1>6, <1>8, <2>1
<1>10. ASSUME NEW k \in 1..n
       PROVE  /\ T[k] # None /\ T[k].upstream \in Upstreams
              /\ T[k].auth = "machine" => MachineSecret
  <2>1. PICK i \in DOMAIN f.routes : T[k] = Named(Inherit(f.routes[i]))
    BY <1>4 DEF Rows
  <2>2. T[k] # None
    BY <2>1, RulesConfig
  <2>3. ValidRoute(T[k])
    BY <1>4 DEF Sound
  <2> QED BY <2>2, <2>3 DEF ValidRoute
<1>11. Chosen(f, q, path, T, n, at, hits, x)
  BY <1>1, <1>3, <1>4, <1>5, <1>6, <1>7, <1>8, <1>9, <1>10 DEF Chosen
<1> QED BY <1>11

\* Every row that was chosen is forwarded.
LEMMA RowForwarded ==
    ASSUME NEW q, NEW path, NEW m, m # None, m.upstream \in Upstreams,
           m.auth = "machine" => MachineSecret
    PROVE  /\ Forward(q, path, m) =
                 [result |-> "route", route |-> m,
                  path |-> UpstreamUri(BasePath[m.upstream], UpstreamPath(m, path)),
                  key |-> KeyOn(q.listener, m, path)]
           /\ Forward(q, path, None) = Refused("no_route")
  BY DEF Forward

\* Once the path is known, the answer is the right route of the file.
LEMMA ForwardRight ==
    ASSUME NEW f \in Files, ValidTable(BuildWith(f)), NEW q \in Queries,
           NEW path \in Text, Trimmed(path), NEW g,
           g = Forward(q, path, MatchRequest(OnListener(BuildWith(f), q.listener),
                                             q.host, path, q.method))
    PROVE  Right(f, q.listener, path, HostOf(q), q.method, g)
<1>1. PICK T, n, at, hits, x : Chosen(f, q, path, T, n, at, hits, x)
  BY ChosenIs
<1>2. f.routes \in Seq(RouteInput)
  BY RulesConfig
<1>3. PICK host, method, l : host = HostOf(q) /\ method = q.method /\ l = q.listener
  OBVIOUS
<1>4. host \in {None} \cup Seq(STRING)
  BY <1>3, HostTyped
<1>5. PICK may : may = Eligible(f, l, path, host, method)
  OBVIOUS
<1>6. /\ Rows(f, l, T, n, at) /\ Sound(T, n) /\ n \in Nat /\ x \in Nat
      /\ hits = Hits(T, path, host, method) /\ hits \in SUBSET (1..n)
      /\ (x = 0 <=> hits = {}) /\ (x # 0 => x \in hits /\ \A i \in hits : x <= i)
  BY <1>1, <1>3 DEF Chosen, Rows
<1>7. /\ \A k \in hits : at[k] \in may
      /\ \A i \in may : \E k \in hits : at[k] = i
  BY <1>5, <1>6, HitsEligible
<1>8. g = Forward(q, path, RowAt(T, x))
  BY <1>1 DEF Chosen
<1>9. CASE x = 0
  <2>1. may = {}
    BY <1>6, <1>7, <1>9
  <2>2. g = Refused("no_route")
    BY <1>8, <1>9 DEF Forward, RowAt
  <2>3. g.result = "no_route"
    BY <2>2 DEF Refused
  <2> QED BY <1>3, <1>5, <2>1, <2>3 DEF Right
<1>10. CASE x # 0
  <2>1. x \in 1..n /\ x \in hits /\ at[x] \in may
    BY <1>6, <1>7, <1>10
  <2>2. PICK r, m : r = f.routes[at[x]] /\ m = T[x]
    OBVIOUS
  <2>3. From(m, r)
    BY <1>6, <2>1, <2>2 DEF Rows
  <2>4. m # None /\ m.upstream \in Upstreams /\ (m.auth = "machine" => MachineSecret)
    <3>1. \A k \in 1..n : /\ T[k] # None /\ T[k].upstream \in Upstreams
                          /\ T[k].auth = "machine" => MachineSecret
      BY <1>1 DEF Chosen
    <3> QED BY <2>1, <2>2, <3>1
  <2>5. g = Forward(q, path, m)
    BY <1>8, <1>10, <2>2 DEF RowAt
  <2>6. g.result = "route" /\ g.route = m
    BY <2>4, <2>5, RowForwarded
  <2>7. ASSUME NEW j \in may \ {at[x]} PROVE Outranks(r, f.routes[j])
    <3>1. PICK k \in hits : at[k] = j
      BY <1>7
    <3>2. k \in Nat /\ x < k
      <4>1. x \in Nat /\ k \in Nat /\ x <= k /\ k # x
        BY <1>6, <1>10, <2>1, <3>1, <2>7
      <4> QED BY <4>1
    <3>3. Outranks(f.routes[at[x]], f.routes[at[k]])
      BY <1>2, <1>4, <1>6, <2>1, <3>2, EarlierOutranks
    <3> QED BY <2>2, <3>1, <3>3
  <2>8. /\ g.route.auth = r.auth /\ g.route.hosts = r.hosts
        /\ g.route.prefix = Trim(r.prefix) /\ g.route.upstream = r.upstream
    BY <2>3, <2>6 DEF From
  <2>9. may # {}
    BY <2>1
  <2>10. \E i \in may :
            /\ \A j \in may \ {i} : Outranks(f.routes[i], f.routes[j])
            /\ g.route.auth = f.routes[i].auth
            /\ g.route.hosts = f.routes[i].hosts
            /\ g.route.prefix = Trim(f.routes[i].prefix)
            /\ g.route.upstream = f.routes[i].upstream
    BY <2>1, <2>2, <2>7, <2>8
  <2> QED BY <1>3, <1>5, <2>6, <2>9, <2>10 DEF Right
<1> QED BY <1>9, <1>10

Unmatched == {"health", "outside_mount", "unsafe_path", "denied"}

LEMMA GatewayRight ==
    ASSUME NEW f \in Files, ValidTable(BuildWith(f)), NEW q \in Queries, NEW g,
           g = Gateway(Loaded(f), q), g.result \notin Unmatched
    PROVE  Right(f, q.listener, Canonicalize(StripBase(q.path)), HostOf(q), q.method, g)
<1>1. PICK l \in Listeners : l = q.listener
  BY RulesConfig
<1>2. PICK table : table = OnListener(BuildWith(f), l)
  OBVIOUS
<1>3. Loaded(f)[l] = table
  BY <1>2 DEF Loaded
<1>4. PICK raw, path : raw = StripBase(q.path) /\ path = Canonicalize(raw)
  OBVIOUS
<1>5. q.path # Plain(HealthPath) /\ raw # None
  <2>1. ASSUME q.path = Plain(HealthPath) PROVE FALSE
    BY <2>1 DEF Gateway, Refused, Unmatched
  <2>2. ASSUME raw = None, q.path # Plain(HealthPath) PROVE FALSE
    BY <1>4, <2>2 DEF Gateway, Refused, Unmatched
  <2> QED BY <2>1, <2>2
<1>6. g = Allow(table, q, path)
  BY <1>1, <1>3, <1>4, <1>5 DEF Gateway
<1>7. path # None /\ ~IsDenied(table, path)
  BY <1>6 DEF Allow, Refused, Unmatched
<1>8. g = Forward(q, path, MatchRequest(table, q.host, path, q.method))
  BY <1>6, <1>7 DEF Allow
<1>9. path \in Text /\ Trimmed(path)
  <2>1. q.path \in Seq(Raw)
    BY RulesConfig
  <2>2. raw \in Seq(Raw)
    BY <1>4, <1>5, <2>1, StripTyped
  <2> QED BY <1>4, <1>7, <2>2, CanonicalTrimmed
<1>10. Right(f, q.listener, path, HostOf(q), q.method, g)
  BY <1>1, <1>2, <1>8, <1>9, ForwardRight
<1> QED BY <1>4, <1>10

(***************************************************************************)
(* What the tools say.                                                     *)
(***************************************************************************)

\* A part of a sequence without its first element.
LEMMA TailPart ==
    ASSUME NEW S, NEW s \in Seq(S), NEW a \in Nat, NEW b \in Nat,
           1 <= a, a <= b, b <= Len(s)
    PROVE  /\ SubSeq(s, a, b) # <<>> /\ Head(SubSeq(s, a, b)) = s[a]
           /\ Tail(SubSeq(s, a, b)) = SubSeq(s, a + 1, b)
<1>1. PICK t : t = SubSeq(s, a, b)
  OBVIOUS
<1>2. /\ t \in Seq(S) /\ Len(t) = b - a + 1
      /\ \A i \in 1..(b - a + 1) : t[i] = s[a + i - 1]
  BY <1>1, Parts
<1>3. t # <<>> /\ Head(t) = s[a]
  BY <1>2
<1>4. PICK u, v : u = Tail(t) /\ v = SubSeq(s, a + 1, b)
  OBVIOUS
<1>5. /\ u \in Seq(S) /\ Len(u) = b - a
      /\ \A i \in 1..(b - a) : u[i] = t[i + 1]
  BY <1>2, <1>3, <1>4
<1>6. /\ v \in Seq(S) /\ Len(v) = b - (a + 1) + 1
      /\ \A i \in 1..(b - (a + 1) + 1) : v[i] = s[(a + 1) + i - 1]
  <2>1. a + 1 \in Nat /\ 1 <= a + 1 /\ a + 1 <= b + 1
    OBVIOUS
  <2> QED BY <1>4, <2>1, Parts
<1>7. PICK d \in Nat : d = b - a /\ d = b - (a + 1) + 1 /\ d + 1 = b - a + 1
  OBVIOUS
<1>8. ASSUME NEW i \in 1..d PROVE u[i] = v[i]
  <2>1. i + 1 \in 1..(d + 1) /\ a + (i + 1) - 1 = (a + 1) + i - 1
    BY <1>7
  <2> QED BY <1>2, <1>5, <1>6, <1>7, <2>1
<1>9. u = v
  BY <1>5, <1>6, <1>7, <1>8
<1> QED BY <1>1, <1>3, <1>4, <1>9

\* The tools remove the mounts as the gateway does.
LEMMA MountsAgree ==
    ASSUME NEW raw \in Seq(Raw)
    PROVE  StripMount(raw) = StripBase(raw)
<1>1. PICK path \in Seq(Raw) : path = TrimStart(raw)
  BY StartTrimmed
<1>2. PICK n \in Nat : n = Len(path) /\ DOMAIN path = 1..n
  OBVIOUS
<1>0. PICK bases : bases = BasePaths
  OBVIOUS
<1> DEFINE Rest(base) == SubSeq(path, Len(base) + 1, Len(path))
           Fits(base) == \/ base = <<>>
                         \/ /\ IsPrefix(Plain(base), path)
                            /\ \/ Rest(base) = <<>>
                               \/ Head(Rest(base)) = Slash
           Left(base) == IF base = <<>> THEN path
                         ELSE IF Rest(base) = <<>> THEN <<>> ELSE Tail(Rest(base))
           Removed(base) ==
               IF base = <<>> THEN path
               ELSE IF ~ IsPrefix(Plain(base), path) THEN None
               ELSE IF Len(path) = Len(base) THEN <<>>
               ELSE IF path[Len(base) + 1] = Slash
               THEN SubSeq(path, Len(base) + 2, Len(path)) ELSE None
           fits == {i \in DOMAIN bases : Fits(bases[i])}
           hits == {i \in 1..Len(bases) : Removed(bases[i]) # None}
<1>3. StripBase(raw) = IF fits = {} THEN None ELSE Left(bases[Min(fits)])
  BY <1>0, <1>1 DEF StripBase
<1>4. StripMount(raw) =
         LET i == IF hits = {} THEN 0 ELSE Min(hits)
         IN  IF i = 0 THEN None ELSE Removed(bases[i])
  BY <1>0, <1>1 DEF StripMount, SelectInSeq
<1>5. PICK len \in Nat : len = Len(bases) /\ DOMAIN bases = 1..len
                          /\ \A k \in 1..len : bases[k] \in Text
  BY <1>0, BasesTyped
<1>6. ASSUME NEW b \in Text
      PROVE  /\ Removed(b) # None <=> Fits(b)
             /\ Fits(b) => Removed(b) = Left(b)
  <2>1. CASE b = <<>>
    <3>1. path # None
      BY RulesConfig
    <3> QED BY <2>1, <3>1
  <2>2. CASE b # <<>> /\ ~IsPrefix(Plain(b), path)
    BY <2>2
  <2>3. CASE b # <<>> /\ IsPrefix(Plain(b), path)
    <3>1. PICK m \in Nat : m = Len(b) /\ DOMAIN b = 1..m
      BY DEF Text
    <3>2. Len(Plain(b)) = m
      BY <3>1 DEF Plain
    <3>3. m <= n
      BY <1>2, <2>3, <3>1, <3>2 DEF IsPrefix
    <3>4. CASE m = n
      <4>1. Rest(b) = <<>>
        <5>1. Len(SubSeq(path, m + 1, n)) = 0 /\ SubSeq(path, m + 1, n) \in Seq(Raw)
          <6>1. m + 1 \in Nat /\ 1 <= m + 1 /\ m + 1 <= n + 1 /\ n <= Len(path)
                /\ n - (m + 1) + 1 = 0
            BY <1>2, <3>4
          <6> QED BY <1>2, <6>1, Parts
        <5> QED BY <1>2, <3>1, <5>1
      <4>2. <<>> # None
        <5>1. <<>> \in Seq(Raw)
          OBVIOUS
        <5> QED BY <5>1, RulesConfig
      <4>3. Removed(b) = <<>>
        BY <1>2, <2>3, <3>1, <3>4
      <4>4. Left(b) = <<>>
        BY <2>3, <4>1
      <4>5. Fits(b)
        BY <2>3, <4>1
      <4> HIDE DEF Removed, Fits, Left
      <4> QED BY <4>2, <4>3, <4>4, <4>5
    <3>5. CASE m < n
      <4>1. /\ Rest(b) # <<>> /\ Head(Rest(b)) = path[m + 1]
            /\ Tail(Rest(b)) = SubSeq(path, m + 2, n)
        <5>1. m + 1 \in Nat /\ 1 <= m + 1 /\ m + 1 <= n /\ n <= Len(path) /\ (m + 1) + 1 = m + 2
          BY <1>2, <3>5
        <5>2. /\ SubSeq(path, m + 1, n) # <<>> /\ Head(SubSeq(path, m + 1, n)) = path[m + 1]
              /\ Tail(SubSeq(path, m + 1, n)) = SubSeq(path, (m + 1) + 1, n)
          BY <1>2, <5>1, TailPart
        <5> QED BY <1>2, <3>1, <5>1, <5>2
      <4>2. SubSeq(path, m + 2, n) # None
        <5>1. m + 2 \in Nat /\ 1 <= m + 2 /\ m + 2 <= n + 1 /\ n <= Len(path)
          BY <1>2, <3>5
        <5>2. SubSeq(path, m + 2, n) \in Seq(Raw)
          BY <1>2, <5>1, Parts
        <5> QED BY <5>2, RulesConfig
      <4>3. Fits(b) <=> path[m + 1] = Slash
        BY <2>3, <4>1
      <4>4. Removed(b) = IF path[m + 1] = Slash THEN SubSeq(path, m + 2, n) ELSE None
        BY <1>2, <2>3, <3>1, <3>5
      <4>5. Left(b) = SubSeq(path, m + 2, n)
        BY <2>3, <4>1
      <4> HIDE DEF Removed, Fits, Left
      <4> QED BY <4>2, <4>3, <4>4, <4>5
    <3> QED BY <3>3, <3>4, <3>5
  <2> QED BY <2>1, <2>2, <2>3
<1> HIDE DEF Removed, Fits, Left
<1>7. hits = fits
  BY <1>5, <1>6
<1>8. CASE fits = {}
  BY <1>3, <1>4, <1>7, <1>8
<1>9. CASE fits # {}
  <2>1. fits \in SUBSET Nat
    BY <1>5
  <2>2. Min(fits) \in fits
    BY <1>9, <2>1, MinIs
  <2>3. PICK k \in 1..len : k = Min(fits) /\ Fits(bases[k])
    BY <1>5, <2>2
  <2>4. StripBase(raw) = Left(bases[k])
    BY <1>3, <1>9, <2>3
  <2>5. StripMount(raw) = Removed(bases[k])
    <3>1. k # 0
      OBVIOUS
    <3> HIDE DEF fits, hits
    <3> QED BY <1>4, <1>7, <1>9, <2>3, <3>1
  <2>6. Removed(bases[k]) = Left(bases[k])
    BY <1>5, <1>6, <2>3
  <2> QED BY <2>4, <2>5, <2>6
<1> QED BY <1>8, <1>9

\* The trimmed end of a text is the end of the trimmed text.
LEMMA TrimSuffix ==
    ASSUME NEW s \in Text, NEW t \in Text
    PROVE  s \o t \in Text /\ IsSuffix(Trim(t), Trim(s \o t))
<1>1. PICK u : u = s \o t
  OBVIOUS
<1>2. PICK m \in Nat, n \in Nat : m = Len(s) /\ n = Len(t)
  BY DEF Text
<1>3. /\ u \in Seq(Letter) /\ Len(u) = m + n
      /\ \A i \in 1..n : u[m + i] = t[i]
  <2>1. s \in Seq(Letter) /\ t \in Seq(Letter)
    BY DEF Text
  <2> QED BY <1>1, <1>2, <2>1
<1>4. u \in Text
  BY <1>3 DEF Text
<1>5. Trim(u) \in Text /\ Trim(u) \in Seq(Letter)
  BY <1>4, Trims DEF Text
<1> DEFINE keptt == {i \in DOMAIN t : t[i] # "/"}
           keptu == {i \in DOMAIN u : u[i] # "/"}
<1>6. CASE keptt = {}
  <2>1. Trim(t) = <<>>
    BY <1>6 DEF Trim
  <2>2. <<>> \in Seq(Letter) /\ Len(<<>>) = 0 /\ Len(Trim(u)) \in Nat
    BY <1>5
  <2>3. IsSuffix(<<>>, Trim(u))
    <3>1. Len(<<>>) <= Len(Trim(u))
      BY <2>2
    <3>2. \A i \in 1..Len(<<>>) : <<>>[Len(<<>>) - i + 1] = Trim(u)[Len(Trim(u)) - i + 1]
      BY <2>2
    <3> QED BY <1>5, <2>2, <3>1, <3>2, SuffixIs
  <2> QED BY <1>1, <1>4, <2>1, <2>3
<1>7. CASE keptt # {}
  <2>1. /\ DOMAIN t = 1..n /\ DOMAIN u = 1..(m + n) /\ keptt \in SUBSET (1..n)
        /\ keptu \in SUBSET (1..(m + n))
        /\ \A i \in keptt : m + i \in keptu
        /\ \A i \in keptu : i > m => i - m \in keptt
    <3>1. DOMAIN t = 1..n /\ DOMAIN u = 1..(m + n)
      BY <1>2, <1>3 DEF Text
    <3>2. ASSUME NEW i \in keptt PROVE m + i \in keptu
      <4>1. i \in 1..n /\ t[i] # "/" /\ m + i \in 1..(m + n)
        BY <3>1
      <4> QED BY <1>3, <3>1, <4>1
    <3>3. ASSUME NEW i \in keptu, i > m PROVE i - m \in keptt
      <4>1. i \in 1..(m + n) /\ u[i] # "/" /\ i - m \in 1..n /\ m + (i - m) = i
        BY <3>1, <3>3
      <4> QED BY <1>3, <3>1, <4>1
    <3> QED BY <3>1, <3>2, <3>3
  <2>2. PICK a \in 1..n, b \in 1..n :
           /\ a = Min(keptt) /\ b = Max(keptt) /\ a \in keptt /\ b \in keptt
           /\ \A i \in keptt : a <= i /\ i <= b
    <3>1. keptt \in SUBSET Nat /\ \A x \in keptt : x <= n
      BY <2>1
    <3>2. Min(keptt) \in keptt /\ \A x \in keptt : Min(keptt) <= x
      BY <1>7, <3>1, MinIs
    <3>3. Max(keptt) \in keptt /\ \A x \in keptt : x <= Max(keptt)
      BY <1>7, <3>1, MaxIs
    <3> HIDE DEF keptt
    <3> QED BY <2>1, <3>2, <3>3
  <2>3. PICK c \in 1..(m + n), d \in 1..(m + n) :
           /\ c = Min(keptu) /\ d = Max(keptu) /\ c \in keptu /\ d \in keptu
           /\ \A i \in keptu : c <= i /\ i <= d
    <3>1. keptu \in SUBSET Nat /\ (\A x \in keptu : x <= m + n) /\ keptu # {} /\ m + n \in Nat
      BY <1>7, <2>1
    <3>2. Min(keptu) \in keptu /\ \A x \in keptu : Min(keptu) <= x
      BY <3>1, MinIs
    <3>3. Max(keptu) \in keptu /\ \A x \in keptu : x <= Max(keptu)
      BY <3>1, MaxIs
    <3> HIDE DEF keptu
    <3> QED BY <2>1, <3>2, <3>3
  <2>4. Trim(t) = SubSeq(t, a, b) /\ Trim(u) = SubSeq(u, c, d)
    <3>1. keptu # {}
      BY <2>3
    <3> QED BY <1>7, <2>2, <2>3, <3>1 DEF Trim
  <2>5. c <= m + a /\ d = m + b
    <3>1. m + a \in keptu /\ m + b \in keptu
      BY <2>1, <2>2
    <3>2. d > m => d - m \in keptt
      BY <2>1, <2>3
    <3>3. c <= m + a /\ m + b <= d
      BY <2>3, <3>1
    <3>4. d - m <= b
      BY <2>2, <3>2, <3>3
    <3> HIDE DEF keptu, keptt
    <3> QED BY <3>3, <3>4
  <2> HIDE DEF keptu, keptt
  <2>6. PICK v, w : v = Trim(t) /\ w = Trim(u)
    OBVIOUS
  <2>7. a <= b
    BY <2>2
  <2>8. /\ v \in Seq(Letter) /\ Len(v) = b - a + 1
        /\ \A i \in 1..(b - a + 1) : v[i] = t[a + i - 1]
    <3>1. t \in Seq(Letter) /\ a \in Nat /\ b \in Nat /\ 1 <= a /\ a <= b + 1 /\ b <= Len(t)
      BY <1>2, <2>7 DEF Text
    <3> QED BY <2>4, <2>6, <3>1, Parts
  <2>9. /\ w \in Seq(Letter) /\ Len(w) = d - c + 1
        /\ \A i \in 1..(d - c + 1) : w[i] = u[c + i - 1]
    <3>1. c \in Nat /\ d \in Nat /\ 1 <= c /\ c <= d + 1 /\ d <= Len(u)
      BY <1>3, <2>5, <2>7
    <3> QED BY <1>3, <2>4, <2>6, <3>1, Parts
  <2>10. Len(v) <= Len(w)
    BY <2>5, <2>8, <2>9
  <2>11. ASSUME NEW i \in 1..Len(v)
         PROVE  v[Len(v) - i + 1] = w[Len(w) - i + 1]
    <3>1. i \in 1..(b - a + 1)
      BY <2>8
    <3>2. /\ (b - a + 1) - i + 1 \in 1..(b - a + 1)
          /\ a + ((b - a + 1) - i + 1) - 1 = b - i + 1
          /\ b - i + 1 \in 1..n
          /\ (d - c + 1) - i + 1 \in 1..(d - c + 1)
          /\ c + ((d - c + 1) - i + 1) - 1 = m + (b - i + 1)
      BY <2>5, <3>1
    <3>3. v[(b - a + 1) - i + 1] = t[b - i + 1]
      BY <2>8, <3>2
    <3>4. w[(d - c + 1) - i + 1] = u[m + (b - i + 1)]
      BY <2>9, <3>2
    <3> QED BY <1>3, <2>8, <2>9, <3>2, <3>3, <3>4
  <2>12. IsSuffix(v, w)
    BY <2>8, <2>9, <2>10, <2>11, SuffixIs
  <2> QED BY <1>1, <1>4, <2>6, <2>12
<1> QED BY <1>6, <1>7

\* A target as it is sent.
Target == Seq([char: Letter, layers: Nat])

LEMMA SeenConcat ==
    ASSUME NEW a \in Target, NEW b \in Target
    PROVE  /\ Seen(a) \in Text /\ Seen(b) \in Text
           /\ a \o b \in Target /\ Seen(a \o b) = Seen(a) \o Seen(b)
<1>1. PICK C : C = [char: Letter, layers: Nat]
  OBVIOUS
<1>2. PICK s \in Seq(C), t \in Seq(C), m \in Nat, n \in Nat :
         s = a /\ t = b /\ m = Len(s) /\ n = Len(t)
  <2>1. a \in Seq(C) /\ b \in Seq(C)
    BY <1>1 DEF Target
  <2>2. Len(a) \in Nat /\ Len(b) \in Nat
    BY <2>1
  <2> QED BY <2>1, <2>2
<1>3. PICK u : u = s \o t
  OBVIOUS
<1>4. /\ u \in Seq(C) /\ Len(u) = m + n
      /\ \A i \in 1..m : u[i] = s[i]
      /\ \A i \in 1..n : u[m + i] = t[i]
  BY <1>2, <1>3
<1>5. ASSUME NEW x \in Seq(C)
      PROVE  /\ Seen(x) \in Seq(Letter) /\ Len(Seen(x)) = Len(x)
             /\ \A i \in 1..Len(x) : Seen(x)[i] = x[i].char
  <2>1. PICK l \in Nat : l = Len(x) /\ DOMAIN x = 1..l
    OBVIOUS
  <2>2. ASSUME NEW i \in 1..l PROVE x[i].char \in Letter
    <3>1. PICK c \in C : c = x[i]
      BY <2>1
    <3>2. c.char \in Letter
      BY <1>1
    <3> QED BY <3>1, <3>2
  <2>3. Seen(x) = [i \in 1..l |-> x[i].char]
    BY <2>1 DEF Seen
  <2>4. Seen(x) \in [1..l -> Letter]
    BY <2>2, <2>3
  <2>5. Seen(x) \in Seq(Letter) /\ Len(Seen(x)) = l
    BY <2>1, <2>4, Sequenced
  <2> QED BY <2>1, <2>3, <2>5
<1>6. PICK p \in Seq(Letter), q \in Seq(Letter), r \in Seq(Letter) :
         p = Seen(s) /\ q = Seen(t) /\ r = Seen(u)
  BY <1>2, <1>4, <1>5
<1>7. /\ Len(p) = m /\ Len(q) = n /\ Len(r) = m + n
      /\ \A i \in 1..m : p[i] = s[i].char
      /\ \A i \in 1..n : q[i] = t[i].char
      /\ \A i \in 1..(m + n) : r[i] = u[i].char
  BY <1>2, <1>4, <1>5, <1>6
<1>8. PICK v : v = p \o q
  OBVIOUS
<1>9. /\ v \in Seq(Letter) /\ Len(v) = m + n
      /\ \A i \in 1..m : v[i] = p[i]
      /\ \A i \in 1..n : v[m + i] = q[i]
  BY <1>6, <1>7, <1>8
<1>10. ASSUME NEW i \in 1..(m + n) PROVE v[i] = r[i]
  <2>1. CASE i <= m
    <3>1. i \in 1..m
      BY <2>1
    <3>2. v[i] = p[i] /\ p[i] = s[i].char
      BY <1>7, <1>9, <3>1
    <3>3. r[i] = u[i].char /\ u[i] = s[i]
      BY <1>4, <1>7, <3>1
    <3> QED BY <3>2, <3>3
  <2>2. CASE i > m
    <3>1. PICK k \in 1..n : m + k = i
      <4>1. i - m \in 1..n /\ m + (i - m) = i
        BY <2>2
      <4> QED BY <4>1
    <3>2. v[i] = q[k] /\ q[k] = t[k].char
      BY <1>7, <1>9, <3>1
    <3>3. r[i] = u[i].char /\ u[i] = t[k]
      BY <1>4, <1>7, <3>1
    <3> QED BY <3>2, <3>3
  <2> QED BY <2>1, <2>2
<1>11. v = r
  BY <1>6, <1>7, <1>9, <1>10
<1> QED BY <1>1, <1>2, <1>3, <1>4, <1>6, <1>8, <1>11 DEF Target, Text

LEMMA SeenText ==
    ASSUME NEW t \in Text
    PROVE  /\ Plain(t) \in Target /\ Seen(Plain(t)) = t
           /\ EncodePathSegments(t) \in Target /\ Seen(EncodePathSegments(t)) = t
           /\ <<Slash>> \in Target /\ Seen(<<Slash>>) = <<"/">>
<1>1. PICK n \in Nat : n = Len(t) /\ DOMAIN t = 1..n /\ \A i \in 1..n : t[i] \in Letter
  BY DEF Text
<1>2. PICK C : C = [char: Letter, layers: Nat]
  OBVIOUS
<1>3. Plain(t) \in Seq(C) /\ DOMAIN Plain(t) = 1..n
  <2>1. Plain(t) = [i \in 1..n |-> [char |-> t[i], layers |-> 0]]
    BY <1>1 DEF Plain
  <2>2. \A i \in 1..n : [char |-> t[i], layers |-> 0] \in C
    BY <1>1, <1>2
  <2>3. Plain(t) \in [1..n -> C]
    BY <2>1, <2>2
  <2> QED BY <1>1, <2>3, Sequenced
<1>4. EncodePathSegments(t) \in Seq(C) /\ DOMAIN EncodePathSegments(t) = 1..n
  <2>1. EncodePathSegments(t) =
           [i \in 1..n |-> [char |-> t[i], layers |-> IF t[i] \in Encoded THEN 1 ELSE 0]]
    BY <1>1 DEF EncodePathSegments
  <2>2. \A i \in 1..n : [char |-> t[i], layers |-> IF t[i] \in Encoded THEN 1 ELSE 0] \in C
    BY <1>1, <1>2
  <2>3. EncodePathSegments(t) \in [1..n -> C]
    BY <2>1, <2>2
  <2> QED BY <1>1, <2>3, Sequenced
<1>5. <<Slash>> \in Seq(C)
  <2>1. Slash \in C
    BY <1>2 DEF Slash, Letter
  <2> QED BY <2>1
<1>6. t = [i \in 1..n |-> t[i]]
  BY <1>1 DEF Text
<1>7. Seen(Plain(t)) = t
  <2>1. Seen(Plain(t)) = [i \in 1..n |-> t[i]]
    BY <1>1, <1>3 DEF Seen, Plain
  <2> QED BY <1>6, <2>1
<1>8. Seen(EncodePathSegments(t)) = t
  <2>1. Seen(EncodePathSegments(t)) = [i \in 1..n |-> t[i]]
    BY <1>1, <1>4 DEF Seen, EncodePathSegments
  <2> QED BY <1>6, <2>1
<1>9. Seen(<<Slash>>) = <<"/">>
  <2>1. DOMAIN <<Slash>> = 1..1 /\ <<Slash>>[1] = Slash /\ Slash.char = "/"
    BY DEF Slash
  <2>2. Seen(<<Slash>>) = [i \in 1..1 |-> "/"]
    BY <2>1 DEF Seen
  <2>3. <<"/">> = [i \in 1..1 |-> "/"]
    OBVIOUS
  <2> QED BY <2>2, <2>3
<1> QED BY <1>2, <1>3, <1>4, <1>5, <1>7, <1>8, <1>9 DEF Target

\* What an upstream sees of its target.
LEMMA SeenUri ==
    ASSUME NEW base \in Text, NEW p \in Text
    PROVE  Seen(UpstreamUri(base, p)) =
              (IF base = <<>> THEN <<>> ELSE <<"/">> \o base) \o
              (IF p = <<>> /\ base # <<>> THEN <<>> ELSE <<"/">> \o p)
<1>1. <<>> \in Target /\ Seen(<<>>) = <<>>
  BY DEF Target, Seen
<1>2. PICK a, b : /\ a = (IF base = <<>> THEN <<>> ELSE <<Slash>> \o Plain(base))
                  /\ b = (IF p = <<>> /\ base # <<>> THEN <<>>
                           ELSE <<Slash>> \o EncodePathSegments(p))
  OBVIOUS
<1>3. /\ a \in Target
      /\ Seen(a) = IF base = <<>> THEN <<>> ELSE <<"/">> \o base
  <2>1. /\ <<Slash>> \o Plain(base) \in Target
        /\ Seen(<<Slash>> \o Plain(base)) = Seen(<<Slash>>) \o Seen(Plain(base))
    BY SeenText, SeenConcat
  <2>2. Seen(<<Slash>>) = <<"/">> /\ Seen(Plain(base)) = base
    BY SeenText
  <2> QED BY <1>1, <1>2, <2>1, <2>2
<1>4. /\ b \in Target
      /\ Seen(b) = IF p = <<>> /\ base # <<>> THEN <<>> ELSE <<"/">> \o p
  <2>1. /\ <<Slash>> \o EncodePathSegments(p) \in Target
        /\ Seen(<<Slash>> \o EncodePathSegments(p))
              = Seen(<<Slash>>) \o Seen(EncodePathSegments(p))
    BY SeenText, SeenConcat
  <2>2. Seen(<<Slash>>) = <<"/">> /\ Seen(EncodePathSegments(p)) = p
    BY SeenText
  <2> QED BY <1>1, <1>2, <2>1, <2>2
<1>5. Seen(a \o b) = Seen(a) \o Seen(b)
  BY <1>3, <1>4, SeenConcat
<1> QED BY <1>2, <1>3, <1>4, <1>5 DEF UpstreamUri

\* What a route makes of a canonical path is a text.
LEMMA UpstreamPathTyped ==
    ASSUME NEW m, m.prefix \in Text, NEW path \in Text
    PROVE  UpstreamPath(m, path) \in Text
<1>1. CASE m.strip_prefix /\ UnderPrefix(path, m.prefix)
  <2>1. PICK p \in Text, a \in Nat, n \in Nat : p = m.prefix /\ a = Len(p) /\ n = Len(path)
    BY DEF Text
  <2>2. a <= n
    BY <1>1, <2>1, UnderIs
  <2>3. UpstreamPath(m, path) = SubSeq(path, a + 2, n)
    BY <1>1, <2>1 DEF UpstreamPath
  <2>4. SubSeq(path, a + 2, n) \in Text
    <3>1. path \in Seq(Letter)
      BY DEF Text
    <3>2. CASE a = n
      <4>1. SubSeq(path, a + 2, n) = <<>>
        BY <2>1, <3>1, <3>2
      <4>2. <<>> \in Seq(Letter)
        OBVIOUS
      <4> HIDE DEF Text
      <4>3. <<>> \in Text
        BY <4>2 DEF Text
      <4> QED BY <4>1, <4>3
    <3>3. CASE a < n
      <4>1. a + 2 \in Nat /\ 1 <= a + 2 /\ a + 2 <= n + 1 /\ n <= Len(path)
        BY <2>1, <3>3
      <4>2. SubSeq(path, a + 2, n) \in Seq(Letter)
        BY <2>1, <3>1, <4>1, Parts
      <4> QED BY <4>2 DEF Text
    <3> QED BY <2>2, <3>2, <3>3
  <2> QED BY <2>3, <2>4
<1>2. CASE ~(m.strip_prefix /\ UnderPrefix(path, m.prefix))
  BY <1>2 DEF UpstreamPath
<1> QED BY <1>1, <1>2

\* The path the tools show is the end of the one an upstream sees.
LEMMA ShownIsSeen ==
    ASSUME NEW base \in Text, NEW p \in Text
    PROVE  IsSuffix(Trim(<<"/">> \o p), Trim(Seen(UpstreamUri(base, p))))
<1>1. PICK e \in Text, s \in Text, t \in Text : e = <<>> /\ s = <<"/">> /\ t = s \o p
  <2>1. <<"/">> \in Seq(Letter) /\ <<>> \in Seq(Letter) /\ p \in Seq(Letter)
    BY DEF Letter, Text
  <2>2. <<"/">> \in Text /\ <<>> \in Text /\ <<"/">> \o p \in Text
    BY <2>1 DEF Text
  <2> QED BY <2>2
<1>2. PICK front \in Text : front = IF base = <<>> THEN e ELSE s \o base
  <2>1. s \o base \in Text
    BY <1>1 DEF Text
  <2> QED BY <1>1, <2>1
<1>3. Seen(UpstreamUri(base, p)) = front \o (IF p = <<>> /\ base # <<>> THEN e ELSE t)
  BY <1>1, <1>2, SeenUri
<1>4. CASE p = <<>> /\ base # <<>>
  <2>1. t = s
    BY <1>1, <1>4
  <2>2. Trim(t) = Trim(e)
    <3>1. DOMAIN s = 1..1 /\ s[1] = "/"
      BY <1>1
    <3>2. {i \in DOMAIN s : s[i] # "/"} = {}
      BY <3>1
    <3>3. Trim(s) = <<>>
      BY <3>2 DEF Trim
    <3>4. {i \in DOMAIN e : e[i] # "/"} = {}
      BY <1>1
    <3>5. Trim(e) = <<>>
      BY <3>4 DEF Trim
    <3> QED BY <2>1, <3>3, <3>5
  <2>3. Seen(UpstreamUri(base, p)) = front \o e
    BY <1>3, <1>4
  <2>4. IsSuffix(Trim(e), Trim(front \o e))
    BY TrimSuffix
  <2> QED BY <1>1, <2>2, <2>3, <2>4
<1>5. CASE ~(p = <<>> /\ base # <<>>)
  <2>1. Seen(UpstreamUri(base, p)) = front \o t
    BY <1>3, <1>5
  <2>2. IsSuffix(Trim(t), Trim(front \o t))
    BY TrimSuffix
  <2> QED BY <1>1, <2>1, <2>2
<1> QED BY <1>4, <1>5

\* The tool says what was served.
Agrees(d, g) ==
    /\ d.result = g.result /\ d.route = g.route /\ d.key = g.key
    /\ g.result = "route" => IsSuffix(Trim(d.path), Trim(Seen(g.path)))

\* From the canonical path on, a tool agrees with the gateway.
ToolAllow(table, q, path) ==
    IF path = None THEN Refused("unsafe_path")
    ELSE IF IsDenied(table, path) THEN Refused("denied")
    ELSE Report(q, path, MatchRequest(table, q.host, path, q.method))

LEMMA RefusedAgree ==
    ASSUME NEW x, x # "route" PROVE Agrees(Refused(x), Refused(x))
  BY DEF Agrees, Refused

LEMMA BaseTyped == ASSUME NEW u \in Upstreams PROVE BasePath[u] \in Text
<1>1. BasePath[u] \in Seq(STRING)
  BY RulesConfig
<1>2. STRING \subseteq Letter
  BY DEF Letter
<1> QED BY <1>1, <1>2, SeqWiden DEF Text

LEMMA ToolAllows ==
    ASSUME NEW f \in Files, ValidTable(BuildWith(f)), NEW q \in Queries,
           NEW path, path # None => path \in Text /\ Trimmed(path),
           NEW table, table = OnListener(BuildWith(f), q.listener)
    PROVE  Agrees(ToolAllow(table, q, path), Allow(table, q, path))
<1>1. CASE path = None
  BY <1>1, RefusedAgree DEF ToolAllow, Allow
<1>2. CASE path # None /\ IsDenied(table, path)
  BY <1>2, RefusedAgree DEF ToolAllow, Allow
<1>3. CASE path # None /\ ~IsDenied(table, path)
  <2>1. path \in Text /\ Trimmed(path)
    BY <1>3
  <2>2. PICK T, n, at, hits, x : Chosen(f, q, path, T, n, at, hits, x)
    BY <2>1, ChosenIs
  <2>3. PICK m : m = RowAt(T, x)
    OBVIOUS
  <2>4. MatchRequest(table, q.host, path, q.method) = m
    BY <2>2, <2>3 DEF Chosen
  <2>5. Allow(table, q, path) = Forward(q, path, m)
    BY <1>3, <2>4 DEF Allow
  <2>6. ToolAllow(table, q, path) = Report(q, path, m)
    BY <1>3, <2>4 DEF ToolAllow
  <2>7. CASE x = 0
    <3>1. m = None
      BY <2>3, <2>7 DEF RowAt
    <3>2. Forward(q, path, m) = Refused("no_route") /\ Report(q, path, m) = Refused("no_route")
      BY <3>1 DEF Forward, Report
    <3> QED BY <2>5, <2>6, <3>2, RefusedAgree
  <2>8. CASE x # 0
    <3>1. x \in 1..n /\ m = T[x]
      BY <2>2, <2>3, <2>8 DEF Chosen, RowAt
    <3>2. m # None /\ m.upstream \in Upstreams /\ (m.auth = "machine" => MachineSecret)
      <4>1. \A k \in 1..n : /\ T[k] # None /\ T[k].upstream \in Upstreams
                            /\ T[k].auth = "machine" => MachineSecret
        BY <2>2 DEF Chosen
      <4> QED BY <3>1, <4>1
    <3>3. m.prefix \in Text
      BY <2>2, <3>1 DEF Chosen, Rows, From
    <3>4. PICK p \in Text, base \in Text : p = UpstreamPath(m, path) /\ base = BasePath[m.upstream]
      BY <2>1, <3>2, <3>3, UpstreamPathTyped, BaseTyped
    <3>5. PICK key : key = KeyOn(q.listener, m, path)
      OBVIOUS
    <3>6. Forward(q, path, m) = [result |-> "route", route |-> m,
                                 path |-> UpstreamUri(base, p), key |-> key]
      BY <3>2, <3>4, <3>5, RowForwarded
    <3>7. Report(q, path, m) = [result |-> "route", route |-> m,
                                path |-> <<"/">> \o p, key |-> key]
      BY <3>2, <3>4, <3>5 DEF Report
    <3>8. IsSuffix(Trim(<<"/">> \o p), Trim(Seen(UpstreamUri(base, p))))
      BY ShownIsSeen
    <3>9. Agrees(Report(q, path, m), Forward(q, path, m))
      BY <3>6, <3>7, <3>8 DEF Agrees
    <3> QED BY <2>5, <2>6, <3>9
  <2> QED BY <2>7, <2>8
<1> QED BY <1>1, <1>2, <1>3

\* The canonical path of a request, if it has one.
LEMMA PathTyped ==
    ASSUME NEW q \in Queries, StripBase(q.path) # None, NEW path,
           path = Canonicalize(StripBase(q.path)), path # None
    PROVE  path \in Text /\ Trimmed(path)
<1>1. q.path \in Seq(Raw)
  BY RulesConfig
<1>2. StripBase(q.path) \in Seq(Raw)
  BY <1>1, StripTyped
<1> QED BY <1>2, CanonicalTrimmed

LEMMA TestSays ==
    ASSUME NEW f \in Files, ValidTable(BuildWith(f)), NEW q \in Queries,
           Gateway(Loaded(f), q).result # "health"
    PROVE  Agrees(Decide(Loaded(f), q), Gateway(Loaded(f), q))
<1>1. PICK l \in Listeners : l = q.listener
  BY RulesConfig
<1>2. PICK table : table = OnListener(BuildWith(f), l) /\ Loaded(f)[l] = table
  BY DEF Loaded
<1>3. q.path # Plain(HealthPath)
  BY DEF Gateway, Refused
<1>4. PICK raw : raw = StripBase(q.path) /\ raw = StripMount(q.path)
  <2>1. q.path \in Seq(Raw)
    BY RulesConfig
  <2> QED BY <2>1, MountsAgree
<1>5. CASE raw = None
  BY <1>3, <1>4, <1>5, RefusedAgree DEF Gateway, Decide
<1>6. CASE raw # None
  <2>1. PICK path : path = Canonicalize(raw)
    OBVIOUS
  <2>2. Gateway(Loaded(f), q) = Allow(table, q, path)
    BY <1>1, <1>2, <1>3, <1>4, <1>6, <2>1 DEF Gateway
  <2>3. Decide(Loaded(f), q) = ToolAllow(table, q, path)
    BY <1>1, <1>2, <1>4, <1>6, <2>1 DEF Decide, ToolAllow
  <2>4. path # None => path \in Text /\ Trimmed(path)
    BY <1>4, <1>6, <2>1, PathTyped
  <2> QED BY <1>1, <1>2, <2>2, <2>3, <2>4, ToolAllows
<1> QED BY <1>5, <1>6

LEMMA ExplainSays ==
    ASSUME NEW f \in Files, ValidTable(BuildWith(f)), NEW q \in Queries,
           q.listener = "internal" => InternalListen
    PROVE  Agrees(Explain(Loaded(f), q), Gateway(Loaded(f), q))
<1>1. PICK l \in Listeners : l = q.listener
  BY RulesConfig
<1>2. PICK table : table = OnListener(BuildWith(f), l) /\ Loaded(f)[l] = table
  BY DEF Loaded
<1>3. BeforeQuery(q.path) = q.path
  BY RulesConfig
<1>4. PICK raw : raw = StripBase(q.path) /\ raw = StripMount(q.path)
  <2>1. q.path \in Seq(Raw)
    BY RulesConfig
  <2> QED BY <2>1, MountsAgree
<1>5. CASE q.path = Plain(HealthPath)
  BY <1>3, <1>5, RefusedAgree DEF Gateway, Explain
<1>6. CASE q.path # Plain(HealthPath) /\ raw = None
  BY <1>3, <1>4, <1>6, RefusedAgree DEF Gateway, Explain
<1>7. CASE q.path # Plain(HealthPath) /\ raw # None
  <2>1. PICK path : path = Canonicalize(raw)
    OBVIOUS
  <2>2. Gateway(Loaded(f), q) = Allow(table, q, path)
    BY <1>1, <1>2, <1>4, <1>7, <2>1 DEF Gateway
  <2>3. Explain(Loaded(f), q) = ToolAllow(table, q, path)
    BY <1>1, <1>2, <1>3, <1>4, <1>7, <2>1 DEF Explain, ToolAllow
  <2>4. path # None => path \in Text /\ Trimmed(path)
    BY <1>4, <1>7, <2>1, PathTyped
  <2> QED BY <1>1, <1>2, <2>2, <2>3, <2>4, ToolAllows
<1> QED BY <1>5, <1>6, <1>7

(***************************************************************************)
(* What lagos diff leaves unsaid.                                          *)
(***************************************************************************)

\* The report shows no difference between two routes.
Twin(a, b) == RouteFields(a) = RouteFields(b)

LEMMA TwinIs ==
    ASSUME NEW a, NEW b, Twin(a, b)
    PROVE  /\ a.auth = b.auth /\ a.prefix = b.prefix /\ a.hosts = b.hosts
           /\ a.methods = b.methods /\ a.upstream = b.upstream
           /\ a.strip_prefix = b.strip_prefix
           /\ ClientKeyRule(a, a.prefix) = ClientKeyRule(b, b.prefix)
<1>1. PICK v, w : v = RouteFields(a) /\ w = RouteFields(b)
  OBVIOUS
<1>2. /\ v.tier = a.auth /\ v.prefix = a.prefix /\ v.hosts = a.hosts
      /\ v.methods = a.methods /\ v.upstream = a.upstream
      /\ v.strip_prefix = a.strip_prefix /\ v.client_key = ClientKeyRule(a, a.prefix)
  BY <1>1 DEF RouteFields
<1>3. /\ w.tier = b.auth /\ w.prefix = b.prefix /\ w.hosts = b.hosts
      /\ w.methods = b.methods /\ w.upstream = b.upstream
      /\ w.strip_prefix = b.strip_prefix /\ w.client_key = ClientKeyRule(b, b.prefix)
  BY <1>1 DEF RouteFields
<1>4. v = w
  BY <1>1 DEF Twin
<1> QED BY <1>2, <1>3, <1>4

\* Every row of one has a twin in the other.
Covered(T, U) == \A k \in DOMAIN T : \E j \in DOMAIN U : Twin(T[k], U[j])

LEMMA SurfaceCovers ==
    ASSUME NEW old, NEW new, Unchanged(old, new)
    PROVE  /\ old.deny = new.deny
           /\ Covered(old.routes, new.routes) /\ Covered(new.routes, old.routes)
<1>1. PICK A, B : /\ A = {<<old.routes[i].id, RouteFields(old.routes[i])>> :
                            i \in DOMAIN old.routes}
                  /\ B = {<<new.routes[i].id, RouteFields(new.routes[i])>> :
                            i \in DOMAIN new.routes}
  OBVIOUS
<1>2. A = B /\ old.deny = new.deny
  BY <1>1 DEF Unchanged
<1>3. ASSUME NEW k \in DOMAIN old.routes
      PROVE  \E j \in DOMAIN new.routes : Twin(old.routes[k], new.routes[j])
  <2>1. <<old.routes[k].id, RouteFields(old.routes[k])>> \in B
    BY <1>1, <1>2
  <2>2. PICK j \in DOMAIN new.routes :
           <<old.routes[k].id, RouteFields(old.routes[k])>>
              = <<new.routes[j].id, RouteFields(new.routes[j])>>
    BY <1>1, <2>1
  <2>3. RouteFields(old.routes[k]) = RouteFields(new.routes[j])
    BY <2>2
  <2> QED BY <2>3 DEF Twin
<1>4. ASSUME NEW k \in DOMAIN new.routes
      PROVE  \E j \in DOMAIN old.routes : Twin(new.routes[k], old.routes[j])
  <2>1. <<new.routes[k].id, RouteFields(new.routes[k])>> \in A
    BY <1>1, <1>2
  <2>2. PICK j \in DOMAIN old.routes :
           <<new.routes[k].id, RouteFields(new.routes[k])>>
              = <<old.routes[j].id, RouteFields(old.routes[j])>>
    BY <1>1, <2>1
  <2>3. RouteFields(new.routes[k]) = RouteFields(old.routes[j])
    BY <2>2
  <2> QED BY <2>3 DEF Twin
<1> QED BY <1>2, <1>3, <1>4 DEF Covered

\* The rows of a listener's table are those of the table it serves.
Portion(T, all, l) ==
    /\ \A k \in DOMAIN T : \E i \in DOMAIN all : T[k] = all[i] /\ ServedOn(all[i], l)
    /\ \A i \in DOMAIN all : ServedOn(all[i], l) => \E k \in DOMAIN T : T[k] = all[i]

DenyOn(deny, l) == IF l = "public" THEN deny ELSE {}

LEMMA Portions ==
    ASSUME NEW f, f.routes \in Seq(RouteInput), NEW l \in Listeners,
           NEW table, table = BuildWith(f)
    PROVE  /\ Portion(OnListener(table, l).routes, table.routes, l)
           /\ OnListener(table, l).deny = DenyOn(table.deny, l)
<1>1. PICK rs \in Seq(RouteInput) : rs = f.routes
  OBVIOUS
<1>2. PICK m, from : Flattened(rs, m, from)
  BY FlatIs
<1>3. PICK flat : flat = Flatten(rs)
  OBVIOUS
<1>4. Prefixed(flat, m)
  BY <1>2, <1>3 DEF Flattened
<1>5. PICK to : Arranged(flat, m, to)
  BY <1>4, SortedIs
<1>6. PICK all : all = Sorted(flat)
  OBVIOUS
<1>7. PICK deny, errors : table = [deny |-> deny, routes |-> all, errors |-> errors]
  BY <1>1, <1>3, <1>6 DEF BuildWith
<1>8. IsTable(table) /\ table.routes = all /\ table.deny = deny
  BY <1>7 DEF IsTable
<1>9. Prefixed(all, m)
  BY <1>5, <1>6 DEF Arranged
<1>10. PICK T : T = OnListener(table, l).routes
  OBVIOUS
<1>11. PICK n, sel : Allotted(all, l, T, n, sel)
  <2>1. \E n, sel : Allotted(all, l, OnListener(table, l).routes, n, sel)
    BY <1>8, <1>9, AllottedIs
  <2> QED BY <1>10, <2>1
<1>12. Portion(T, all, l)
  <2>1. /\ DOMAIN T = 1..n
        /\ \A k \in 1..n : sel[k] \in DOMAIN all /\ T[k] = all[sel[k]] /\ ServedOn(T[k], l)
        /\ \A i \in DOMAIN all : ServedOn(all[i], l) => \E k \in 1..n : sel[k] = i
    BY <1>11 DEF Allotted
  <2>2. ASSUME NEW k \in DOMAIN T
        PROVE  \E i \in DOMAIN all : T[k] = all[i] /\ ServedOn(all[i], l)
    <3>1. sel[k] \in DOMAIN all /\ T[k] = all[sel[k]] /\ ServedOn(T[k], l)
      BY <2>1
    <3>2. ServedOn(all[sel[k]], l)
      BY <3>1
    <3> QED BY <3>1, <3>2
  <2>3. ASSUME NEW i \in DOMAIN all, ServedOn(all[i], l)
        PROVE  \E k \in DOMAIN T : T[k] = all[i]
    <3>1. PICK k \in 1..n : sel[k] = i
      BY <2>1, <2>3
    <3> QED BY <2>1, <3>1
  <2> QED BY <2>2, <2>3 DEF Portion
<1>13. OnListener(table, l).deny = DenyOn(deny, l)
  <2>1. CASE l = "public"
    <3>1. PICK r : OnListener(table, l) = [table EXCEPT !.routes = r]
      BY <2>1 DEF OnListener
    <3>2. OnListener(table, l).deny = deny
      BY <1>7, <3>1
    <3> QED BY <2>1, <3>2 DEF DenyOn
  <2>2. CASE l = "internal"
    <3>1. PICK r : OnListener(table, l) = [table EXCEPT !.routes = r, !.deny = {}]
      BY <2>2 DEF OnListener
    <3>2. OnListener(table, l).deny = {}
      BY <1>7, <3>1
    <3> QED BY <2>2, <3>2 DEF DenyOn
  <2> QED BY <2>1, <2>2 DEF Listeners
<1> QED BY <1>8, <1>10, <1>12, <1>13

LEMMA PortionsCovered ==
    ASSUME NEW all, NEW other, Covered(all, other), NEW l, NEW T, NEW U,
           Portion(T, all, l), Portion(U, other, l)
    PROVE  Covered(T, U)
<1> SUFFICES ASSUME NEW k \in DOMAIN T
             PROVE  \E j \in DOMAIN U : Twin(T[k], U[j])
  BY DEF Covered
<1>1. PICK i \in DOMAIN all : T[k] = all[i] /\ ServedOn(all[i], l)
  BY DEF Portion
<1>2. PICK h \in DOMAIN other : Twin(all[i], other[h])
  BY DEF Covered
<1>3. all[i].auth = other[h].auth
  BY <1>2, TwinIs
<1>4. ServedOn(other[h], l)
  BY <1>1, <1>3 DEF ServedOn
<1>5. PICK j \in DOMAIN U : U[j] = other[h]
  BY <1>4 DEF Portion
<1>6. Twin(T[k], U[j])
  BY <1>1, <1>2, <1>5
<1> QED BY <1>6

\* Which of two rows comes before the other does not depend on their table.
Above(a, b) ==
    \/ a.hosts # {} /\ b.hosts = {}
    \/ (a.hosts = {}) = (b.hosts = {}) /\ Len(a.prefix) > Len(b.prefix)

LEMMA HitsAbove ==
    ASSUME NEW f \in Files, NEW q \in Queries, NEW path \in Text,
           NEW T, NEW n, NEW at, NEW hits, NEW x, Chosen(f, q, path, T, n, at, hits, x),
           NEW j \in hits, j # x
    PROVE  x # 0 /\ Above(T[x], T[j])
<1>1. f.routes \in Seq(RouteInput)
  BY RulesConfig
<1>2. PICK host, method, l : host = HostOf(q) /\ method = q.method /\ l = q.listener
  OBVIOUS
<1>3. host \in {None} \cup Seq(STRING)
  BY <1>2, HostTyped
<1>4. /\ Rows(f, l, T, n, at) /\ Sound(T, n)
      /\ hits = Hits(T, path, host, method) /\ hits \in SUBSET (1..n)
      /\ x \in Nat /\ n \in Nat /\ x # 0 /\ x \in hits /\ x <= j
  BY <1>2 DEF Chosen, Rows
<1>5. x \in 1..n /\ j \in 1..n /\ x < j
  <2>1. x \in Nat /\ j \in Nat /\ x <= j /\ j # x
    BY <1>4
  <2> QED BY <1>4, <2>1
<1>6. PICK r, s, a, b : /\ r = f.routes[at[x]] /\ s = f.routes[at[j]]
                        /\ a = T[x] /\ b = T[j]
  OBVIOUS
<1>7. Outranks(r, s)
  BY <1>1, <1>3, <1>4, <1>5, <1>6, EarlierOutranks
<1>8. From(a, r) /\ From(b, s)
  BY <1>4, <1>5, <1>6 DEF Rows
<1>9. Above(a, b)
  BY <1>7, <1>8 DEF Outranks, From, Above
<1> QED BY <1>4, <1>6, <1>9

\* Each match of one table has a twin among the matches of the other.
LEMMA HitsCovered ==
    ASSUME NEW f, NEW g, NEW q, NEW path, NEW T, NEW n, NEW at, NEW hits, NEW x,
           Chosen(f, q, path, T, n, at, hits, x),
           NEW U, NEW m, NEW to, NEW picks, NEW y,
           Chosen(g, q, path, U, m, to, picks, y),
           Covered(T, U), NEW k \in hits
    PROVE  \E j \in picks : Twin(T[k], U[j])
<1>1. PICK host, method : host = HostOf(q) /\ method = q.method
  OBVIOUS
<1>2. /\ hits = Hits(T, path, host, method) /\ picks = Hits(U, path, host, method)
      /\ DOMAIN T = 1..n /\ Len(T) = n /\ DOMAIN U = 1..m /\ Len(U) = m
  BY <1>1 DEF Chosen, Rows
<1>3. k \in 1..n /\ UnderPrefix(path, T[k].prefix) /\ Serves(T[k], host, method)
  BY <1>2 DEF Hits
<1>4. PICK j \in 1..m : Twin(T[k], U[j])
  BY <1>2, <1>3 DEF Covered
<1>5. PICK a, b : a = T[k] /\ b = U[j]
  OBVIOUS
<1>6. a.prefix = b.prefix /\ a.hosts = b.hosts /\ a.methods = b.methods
  BY <1>4, <1>5, TwinIs
<1>7. UnderPrefix(path, b.prefix) /\ Serves(b, host, method)
  BY <1>3, <1>5, <1>6 DEF Serves
<1>8. j \in picks
  BY <1>2, <1>5, <1>7 DEF Hits
<1> QED BY <1>4, <1>8

\* Tables without a difference give a request twins.
LEMMA TwinsChosen ==
    ASSUME NEW f \in Files, NEW g \in Files, NEW q \in Queries, NEW path \in Text,
           NEW T, NEW n, NEW at, NEW hits, NEW x, Chosen(f, q, path, T, n, at, hits, x),
           NEW U, NEW m, NEW to, NEW picks, NEW y, Chosen(g, q, path, U, m, to, picks, y),
           Covered(T, U), Covered(U, T)
    PROVE  (x = 0 <=> y = 0) /\ (x # 0 => Twin(T[x], U[y]))
<1>1. /\ (x = 0 <=> hits = {}) /\ (x # 0 => x \in hits)
      /\ (y = 0 <=> picks = {}) /\ (y # 0 => y \in picks)
  BY DEF Chosen
<1>2. ASSUME NEW k \in hits PROVE \E j \in picks : Twin(T[k], U[j])
  BY HitsCovered
<1>3. ASSUME NEW j \in picks PROVE \E k \in hits : Twin(U[j], T[k])
  BY HitsCovered
<1>4. x = 0 <=> y = 0
  BY <1>1, <1>2, <1>3
<1>5. ASSUME x # 0 PROVE Twin(T[x], U[y])
  <2>1. x \in hits /\ y \in picks
    BY <1>1, <1>4, <1>5
  <2>2. PICK j \in picks : Twin(T[x], U[j])
    BY <1>2, <2>1
  <2>3. PICK k \in hits : Twin(U[y], T[k])
    BY <1>3, <2>1
  <2>4. CASE j = y
    BY <2>2, <2>4
  <2>5. CASE k = x
    BY <2>3, <2>5 DEF Twin
  <2>6. CASE j # y /\ k # x
    <3>1. Above(T[x], T[k])
      BY <2>6, HitsAbove
    <3>2. Above(U[y], U[j])
      BY <2>6, HitsAbove
    <3>3. PICK a, b, c, d : a = T[x] /\ b = U[j] /\ c = U[y] /\ d = T[k]
      OBVIOUS
    <3>4. a.hosts = b.hosts /\ a.prefix = b.prefix /\ c.hosts = d.hosts /\ c.prefix = d.prefix
      BY <2>2, <2>3, <3>3, TwinIs
    <3>5. PICK u \in Nat, v \in Nat : u = Len(a.prefix) /\ v = Len(c.prefix)
      <4>1. x \in 1..n /\ y \in 1..m
        BY <2>1 DEF Chosen
      <4>2. T[x].prefix \in Text /\ U[y].prefix \in Text
        BY <4>1 DEF Chosen, Rows, From
      <4>3. Len(a.prefix) \in Nat /\ Len(c.prefix) \in Nat
        BY <3>3, <4>2 DEF Text
      <4> QED BY <4>3
    <3>6. (a.hosts # {} /\ c.hosts = {}) \/ ((a.hosts = {}) = (c.hosts = {}) /\ u > v)
      BY <3>1, <3>3, <3>4, <3>5 DEF Above
    <3>7. (c.hosts # {} /\ a.hosts = {}) \/ ((c.hosts = {}) = (a.hosts = {}) /\ v > u)
      BY <3>2, <3>3, <3>4, <3>5 DEF Above
    <3> QED BY <3>5, <3>6, <3>7
  <2> QED BY <2>4, <2>5, <2>6
<1> QED BY <1>4, <1>5

\* What a client notices of an answer.
SameAnswer(a, b) == a.result = b.result /\ a.path = b.path /\ a.key = b.key

LEMMA TwinKeys ==
    ASSUME NEW a, NEW b, Twin(a, b), NEW path
    PROVE  ClientKeyRule(a, path) = ClientKeyRule(b, path)
<1>1. /\ a.auth = b.auth
      /\ ClientKeyRule(a, a.prefix) = ClientKeyRule(b, b.prefix)
  BY TwinIs
<1>2. CASE ~KeysOn \/ a.auth = "machine"
  BY <1>1, <1>2 DEF ClientKeyRule
<1>3. CASE KeysOn /\ a.auth # "machine"
  <2>1. ASSUME NEW r, NEW p, r.auth = a.auth
        PROVE  ClientKeyRule(r, p) = "exempt_route" <=> r.client_key = FALSE
    BY <1>3, <2>1 DEF ClientKeyRule
  <2>2. a.client_key = FALSE <=> b.client_key = FALSE
    BY <1>1, <2>1
  <2>3. (a.client_key = FALSE) = (b.client_key = FALSE)
    BY <2>2
  <2> QED BY <1>1, <1>3, <2>2 DEF ClientKeyRule
<1> QED BY <1>2, <1>3

LEMMA TwinsForwarded ==
    ASSUME NEW q, NEW path, NEW a, NEW b, Twin(a, b), a # None, b # None,
           a.upstream \in Upstreams, b.upstream \in Upstreams,
           a.auth = "machine" => MachineSecret, b.auth = "machine" => MachineSecret
    PROVE  SameAnswer(Forward(q, path, a), Forward(q, path, b))
<1>1. /\ a.upstream = b.upstream /\ a.strip_prefix = b.strip_prefix /\ a.prefix = b.prefix
  BY TwinIs
<1>2. UpstreamPath(a, path) = UpstreamPath(b, path)
  BY <1>1 DEF UpstreamPath
<1>3. KeyOn(q.listener, a, path) = KeyOn(q.listener, b, path)
  BY TwinKeys DEF KeyOn
<1>4. PICK uri, key : /\ uri = UpstreamUri(BasePath[a.upstream], UpstreamPath(a, path))
                      /\ key = KeyOn(q.listener, a, path)
  OBVIOUS
<1>5. Forward(q, path, a) = [result |-> "route", route |-> a, path |-> uri, key |-> key]
  BY <1>4, RowForwarded
<1>6. Forward(q, path, b) = [result |-> "route", route |-> b, path |-> uri, key |-> key]
  BY <1>1, <1>2, <1>3, <1>4, RowForwarded
<1> QED BY <1>5, <1>6 DEF SameAnswer

LEMMA DiffSays ==
    ASSUME NEW f \in Files, ValidTable(BuildWith(f)), NEW g \in Files,
           ValidTable(BuildWith(g)), Unchanged(BuildWith(f), BuildWith(g)),
           NEW q \in Queries
    PROVE  SameAnswer(Gateway(Loaded(f), q), Gateway(Loaded(g), q))
<1>1. PICK l \in Listeners : l = q.listener
  BY RulesConfig
<1>2. PICK old, new : old = BuildWith(f) /\ new = BuildWith(g)
  OBVIOUS
<1>3. PICK A, B : /\ A = OnListener(old, l) /\ Loaded(f)[l] = A
                  /\ B = OnListener(new, l) /\ Loaded(g)[l] = B
  BY <1>2 DEF Loaded
<1>4. PICK T, U : T = A.routes /\ U = B.routes
  OBVIOUS
<1>5. f.routes \in Seq(RouteInput) /\ g.routes \in Seq(RouteInput)
  BY RulesConfig
<1>6. /\ Portion(T, old.routes, l) /\ A.deny = DenyOn(old.deny, l)
      /\ Portion(U, new.routes, l) /\ B.deny = DenyOn(new.deny, l)
  BY <1>2, <1>3, <1>4, <1>5, Portions
<1>7. /\ old.deny = new.deny /\ Covered(old.routes, new.routes)
      /\ Covered(new.routes, old.routes)
  BY <1>2, SurfaceCovers
<1>8. Covered(T, U) /\ Covered(U, T) /\ A.deny = B.deny
  BY <1>6, <1>7, PortionsCovered
<1>9. CASE q.path = Plain(HealthPath)
  BY <1>9 DEF Gateway, SameAnswer
<1>10. CASE q.path # Plain(HealthPath) /\ StripBase(q.path) = None
  BY <1>10 DEF Gateway, SameAnswer
<1>11. CASE q.path # Plain(HealthPath) /\ StripBase(q.path) # None
  <2>1. PICK path : path = Canonicalize(StripBase(q.path))
    OBVIOUS
  <2>2. Gateway(Loaded(f), q) = Allow(A, q, path) /\ Gateway(Loaded(g), q) = Allow(B, q, path)
    BY <1>1, <1>3, <1>11, <2>1 DEF Gateway
  <2>3. IsDenied(A, path) <=> IsDenied(B, path)
    BY <1>8 DEF IsDenied
  <2>4. CASE path = None
    BY <2>2, <2>4 DEF Allow, SameAnswer
  <2>5. CASE path # None /\ IsDenied(A, path)
    BY <2>2, <2>3, <2>5 DEF Allow, SameAnswer
  <2>6. CASE path # None /\ ~IsDenied(A, path)
    <3>1. path \in Text /\ Trimmed(path)
      BY <1>11, <2>1, <2>6, PathTyped
    <3>2. PICK V, n, at, hits, x : Chosen(f, q, path, V, n, at, hits, x)
      BY <3>1, ChosenIs
    <3>3. PICK W, m, to, picks, y : Chosen(g, q, path, W, m, to, picks, y)
      BY <3>1, ChosenIs
    <3>4. V = T /\ W = U
      BY <1>1, <1>2, <1>3, <1>4, <3>2, <3>3 DEF Chosen
    <3>5. Covered(V, W) /\ Covered(W, V)
      BY <1>8, <3>4
    <3>6. (x = 0 <=> y = 0) /\ (x # 0 => Twin(V[x], W[y]))
      BY <3>1, <3>2, <3>3, <3>5, TwinsChosen
    <3>7. /\ Gateway(Loaded(f), q) = Forward(q, path, RowAt(V, x))
          /\ Gateway(Loaded(g), q) = Forward(q, path, RowAt(W, y))
      <4>1. /\ MatchRequest(A, q.host, path, q.method) = RowAt(V, x)
            /\ MatchRequest(B, q.host, path, q.method) = RowAt(W, y)
        BY <1>1, <1>2, <1>3, <3>2, <3>3 DEF Chosen
      <4> QED BY <2>2, <2>3, <2>6, <4>1 DEF Allow
    <3>8. CASE x = 0
      BY <3>6, <3>7, <3>8 DEF RowAt, SameAnswer
    <3>9. CASE x # 0
      <4>1. PICK a, b : a = V[x] /\ b = W[y]
        OBVIOUS
      <4>2. x \in 1..n /\ y \in 1..m /\ RowAt(V, x) = a /\ RowAt(W, y) = b
        BY <3>2, <3>3, <3>6, <3>9, <4>1 DEF Chosen, RowAt
      <4>3. /\ \A k \in 1..n : /\ V[k] # None /\ V[k].upstream \in Upstreams
                               /\ V[k].auth = "machine" => MachineSecret
            /\ \A k \in 1..m : /\ W[k] # None /\ W[k].upstream \in Upstreams
                               /\ W[k].auth = "machine" => MachineSecret
        BY <3>2, <3>3 DEF Chosen
      <4>4. /\ a # None /\ a.upstream \in Upstreams /\ (a.auth = "machine" => MachineSecret)
            /\ b # None /\ b.upstream \in Upstreams /\ (b.auth = "machine" => MachineSecret)
        BY <4>1, <4>2, <4>3
      <4>5. Twin(a, b)
        BY <3>6, <3>9, <4>1
      <4>6. SameAnswer(Forward(q, path, a), Forward(q, path, b))
        BY <4>4, <4>5, TwinsForwarded
      <4> QED BY <3>7, <4>2, <4>6
    <3> QED BY <3>8, <3>9
  <2> QED BY <2>4, <2>5, <2>6
<1> QED BY <1>9, <1>10, <1>11

(***************************************************************************)
(* Split and join.                                                         *)
(***************************************************************************)

LEMMA SameText ==
    ASSUME NEW u \in Text, NEW v \in Text, Len(u) = Len(v),
           \A i \in 1..Len(u) : u[i] = v[i]
    PROVE  u = v
<1>1. PICK n \in Nat : n = Len(u)
  BY DEF Text
<1>2. DOMAIN u = 1..n /\ DOMAIN v = 1..n
  BY <1>1 DEF Text
<1>3. u = [i \in 1..n |-> u[i]] /\ v = [i \in 1..n |-> v[i]]
  BY <1>2 DEF Text
<1>4. [i \in 1..n |-> u[i]] = [i \in 1..n |-> v[i]]
  BY <1>1
<1> QED BY <1>3, <1>4, Zenon

\* A list of a set of numbers from the least to the greatest.
Climbs(c, n, C) ==
    /\ n \in Nat /\ \A k \in 1..n : c[k] \in C /\ c[k] \in Int
    /\ \A i, j \in 1..n : i < j => c[i] < c[j]
    /\ \A x \in C : \E k \in 1..n : c[k] = x

LEMMA ClimbsOnce ==
    ASSUME NEW c, NEW n, NEW d, NEW m, NEW C, Climbs(c, n, C), Climbs(d, m, C)
    PROVE  n = m /\ \A k \in 1..n : c[k] = d[k]
<1>1. /\ n \in Nat /\ m \in Nat
      /\ \A k \in 1..n : c[k] \in C /\ c[k] \in Int
      /\ \A k \in 1..m : d[k] \in C /\ d[k] \in Int
      /\ \A i, j \in 1..n : i < j => c[i] < c[j]
      /\ \A i, j \in 1..m : i < j => d[i] < d[j]
      /\ \A x \in C : \E k \in 1..n : c[k] = x
      /\ \A x \in C : \E k \in 1..m : d[k] = x
  BY DEF Climbs
<1> DEFINE Good == {k \in Nat : k \in 1..n /\ k \in 1..m => c[k] = d[k]}
<1>2. ASSUME NEW k \in Nat, \A i \in Nat : i < k => i \in Good PROVE k \in Good
  <2> SUFFICES ASSUME k \in 1..n, k \in 1..m PROVE c[k] = d[k]
    OBVIOUS
  <2>1. ASSUME NEW i \in Nat, 1 <= i, i < k PROVE c[i] = d[i] /\ c[i] < c[k] /\ d[i] < d[k]
    <3>1. i \in 1..n /\ i \in 1..m /\ i \in Good
      BY <1>1, <1>2, <2>1
    <3> QED BY <1>1, <2>1, <3>1
  <2>2. PICK j \in 1..m : d[j] = c[k]
    BY <1>1
  <2>3. PICK h \in 1..n : c[h] = d[k]
    BY <1>1
  <2>4. c[k] \in Int /\ d[k] \in Int
    BY <1>1
  <2>5. d[k] <= c[k]
    <3>1. ~(j < k)
      <4> SUFFICES ASSUME j < k PROVE FALSE
        OBVIOUS
      <4>1. c[j] = d[j] /\ c[j] < c[k]
        BY <2>1
      <4> QED BY <2>2, <2>4, <4>1
    <3>2. j = k \/ d[k] < d[j]
      BY <1>1, <3>1
    <3> QED BY <2>2, <2>4, <3>2
  <2>6. c[k] <= d[k]
    <3>1. ~(h < k)
      <4> SUFFICES ASSUME h < k PROVE FALSE
        OBVIOUS
      <4>1. c[h] = d[h] /\ d[h] < d[k]
        BY <2>1
      <4> QED BY <2>3, <2>4, <4>1
    <3>2. h = k \/ c[k] < c[h]
      BY <1>1, <3>1
    <3> QED BY <2>3, <2>4, <3>2
  <2> QED BY <2>4, <2>5, <2>6
<1>3. Good = Nat
  <2>1. Good \in SUBSET Nat
    OBVIOUS
  <2> HIDE DEF Good
  <2> QED BY <1>2, <2>1, FirstBad
<1>4. \A k \in 1..n : k \in 1..m => c[k] = d[k]
  <2>1. \A k \in 1..n : k \in Good
    BY <1>1, <1>3
  <2> QED BY <2>1
<1>5. ~(n < m)
  <2> SUFFICES ASSUME n < m PROVE FALSE
    OBVIOUS
  <2>1. n + 1 \in 1..m
    BY <1>1
  <2>2. PICK i \in 1..n : c[i] = d[n + 1]
    BY <1>1, <2>1
  <2>3. i \in 1..m /\ i < n + 1
    BY <1>1
  <2>4. c[i] = d[i] /\ d[i] < d[n + 1] /\ d[n + 1] \in Int
    BY <1>1, <1>4, <2>1, <2>3
  <2> QED BY <2>2, <2>4
<1>6. ~(m < n)
  <2> SUFFICES ASSUME m < n PROVE FALSE
    OBVIOUS
  <2>1. m + 1 \in 1..n
    BY <1>1
  <2>2. PICK i \in 1..m : d[i] = c[m + 1]
    BY <1>1, <2>1
  <2>3. i \in 1..n /\ i < m + 1
    BY <1>1
  <2>4. c[i] = d[i] /\ c[i] < c[m + 1] /\ c[m + 1] \in Int
    BY <1>1, <1>4, <2>1, <2>3
  <2> QED BY <2>2, <2>4
<1>7. n = m
  BY <1>1, <1>5, <1>6
<1> QED BY <1>4, <1>7

\* The texts that lie between some cuts of a text.
Between(s, n, t, c) ==
    /\ s \in Seq(Text) /\ Len(s) = n
    /\ \A k \in 1..n : /\ Len(s[k]) = c[k + 1] - c[k] - 1
                       /\ \A i \in 1..Len(s[k]) : s[k][i] = t[c[k] + i]

\* They are its split if all its cuts are there.
LEMMA SplitIs ==
    ASSUME NEW t \in Text, NEW n \in Nat, NEW c, Climbs(c, n + 1, Cuts(t)),
           NEW s, Between(s, n, t, c)
    PROVE  s = Split(t)
<1>0. /\ s \in Seq(Text) /\ Len(s) = n
      /\ \A k \in 1..n : /\ Len(s[k]) = c[k + 1] - c[k] - 1
                         /\ \A i \in 1..Len(s[k]) : s[k][i] = t[c[k] + i]
  BY DEF Between
<1>1. PICK m, C, d : m = Cardinality(Cuts(t)) /\ C = Cuts(t) /\ d = Cut(t)
  OBVIOUS
<1>2. PICK len \in Nat : len = Len(t)
  BY DEF Text
<1>3. /\ m \in Nat /\ m >= 2 /\ d \in [1..m -> C] /\ C \in SUBSET (0..(len + 1))
      /\ \A i, j \in 1..m : i < j => d[i] < d[j]
  BY <1>1, <1>2, CutsListed
<1>4. Climbs(d, m, C)
  <2>1. \A x \in C : x \in Int
    BY <1>2, <1>3
  <2>2. \A k \in 1..m : d[k] \in C /\ d[k] \in Int
    BY <1>3, <2>1
  <2>3. \A x \in C : \E k \in 1..m : d[k] = x
    BY <1>1, CutsListed
  <2> QED BY <1>3, <2>2, <2>3 DEF Climbs
<1>5. n + 1 = m /\ \A k \in 1..(n + 1) : c[k] = d[k]
  BY <1>1, <1>4, ClimbsOnce
<1>6. PICK r \in Seq(Text) : /\ r = Split(t) /\ Len(r) = m - 1
                             /\ \A k \in 1..(m - 1) :
                                   /\ Len(r[k]) = d[k + 1] - d[k] - 1
                                   /\ \A i \in 1..Len(r[k]) : r[k][i] = t[d[k] + i]
  BY <1>1, Splits
<1>7. ASSUME NEW k \in 1..n PROVE s[k] = r[k]
  <2>1. k \in 1..(n + 1) /\ k + 1 \in 1..(n + 1) /\ k \in 1..(m - 1) /\ k \in 1..Len(s)
        /\ k \in 1..Len(r)
    BY <1>0, <1>5, <1>6
  <2>2. PICK u \in Text, v \in Text : u = s[k] /\ v = r[k]
    BY <1>0, <2>1
  <2>3. c[k] = d[k] /\ c[k + 1] = d[k + 1]
    BY <1>5, <2>1
  <2>4. PICK l \in Nat : l = Len(u) /\ l = Len(v)
    <3>1. Len(u) \in Nat
      BY DEF Text
    <3>2. Len(u) = c[k + 1] - c[k] - 1
      BY <1>0, <2>2
    <3>3. Len(v) = d[k + 1] - d[k] - 1
      BY <1>6, <2>1, <2>2
    <3> QED BY <2>3, <3>1, <3>2, <3>3
  <2>5. ASSUME NEW i \in 1..l PROVE u[i] = v[i]
    <3>1. u[i] = t[c[k] + i]
      BY <1>0, <2>2, <2>4
    <3>2. v[i] = t[d[k] + i]
      BY <1>6, <2>1, <2>2, <2>4
    <3> QED BY <2>3, <3>1, <3>2
  <2>6. u = v
    BY <2>4, <2>5, SameText
  <2> QED BY <2>2, <2>6
<1>8. Len(r) = n
  BY <1>3, <1>5, <1>6
<1>9. s = r
  <2>1. PICK S : S = Text
    OBVIOUS
  <2>2. s \in Seq(S) /\ r \in Seq(S) /\ Len(s) = n /\ Len(r) = n /\ \A k \in 1..n : s[k] = r[k]
    BY <1>0, <1>7, <1>8, <2>1
  <2> QED BY <2>2
<1> QED BY <1>6, <1>9

LEMMA SlashedMid ==
    ASSUME NEW t \in Text, NEW u \in Text
    PROVE  (t \o <<"/">> \o u)[Len(t) + 1] = "/"
<1>1. PICK a \in Seq(Letter), b \in Seq(Letter), m \in Nat : a = t /\ b = u /\ m = Len(a)
  BY DEF Text
<1>2. PICK o \in Seq(Letter) : o = <<"/">> /\ Len(o) = 1 /\ o[1] = "/"
  <2>1. "/" \in Letter
    BY DEF Letter
  <2>2. <<"/">> \in Seq(Letter) /\ Len(<<"/">>) = 1 /\ <<"/">>[1] = "/"
    BY <2>1
  <2> QED BY <2>2
<1>3. PICK c : c = a \o o
  OBVIOUS
<1>4. c \in Seq(Letter) /\ Len(c) = m + 1 /\ c[m + 1] = o[1]
  BY <1>1, <1>2, <1>3
<1>5. m + 1 \in 1..Len(c) /\ m + 1 \in 1..(Len(c) + Len(b))
  BY <1>1, <1>4
<1>6. (c \o b)[m + 1] = c[m + 1]
  BY <1>4, <1>5
<1> QED BY <1>1, <1>2, <1>3, <1>4, <1>6

\* The cuts of two texts with a slash between them.
SlashCut(a, b, C, D, T) ==
    /\ \A x \in C : x \in T
    /\ \A y \in D : Len(a) + 1 + y \in T
    /\ \A x \in T : x \in C \/ \E y \in D : x = Len(a) + 1 + y

LEMMA SlashedCuts ==
    ASSUME NEW a \in Text, NEW b \in Text
    PROVE  SlashCut(a, b, Cuts(a), Cuts(b), Cuts(a \o <<"/">> \o b))
<1>9. PICK m \in Nat : m = Len(a)
  BY DEF Text
<1>0. PICK t : t = a \o <<"/">> \o b /\ m = Len(a)
  BY <1>9
<1>1. PICK n \in Nat : n = Len(b) /\ DOMAIN b = 1..n
  BY DEF Text
<1>2. /\ DOMAIN a = 1..m /\ t \in Text /\ Len(t) = m + 1 + n /\ DOMAIN t = 1..(m + 1 + n)
      /\ \A i \in 1..m : t[i] = a[i]
      /\ \A i \in 1..n : t[m + 1 + i] = b[i]
  <2>1. DOMAIN a = 1..m
    BY <1>0 DEF Text
  <2>2. /\ t \in Text /\ Len(t) = m + 1 + n
        /\ \A i \in 1..m : t[i] = a[i]
        /\ \A i \in 1..n : t[m + 1 + i] = b[i]
    BY <1>0, <1>1, Slashed
  <2>3. DOMAIN t = 1..Len(t)
    BY <2>2 DEF Text
  <2> QED BY <2>1, <2>2, <2>3
<1>3. t[m + 1] = "/"
  BY <1>0, SlashedMid
<1>4. /\ Cuts(a) = {0, m + 1} \cup {i \in 1..m : a[i] = "/"}
      /\ Cuts(b) = {0, n + 1} \cup {i \in 1..n : b[i] = "/"}
      /\ Cuts(t) = {0, m + 1 + n + 1} \cup {i \in 1..(m + 1 + n) : t[i] = "/"}
  BY <1>1, <1>2 DEF Cuts
<1>5. ASSUME NEW x \in Cuts(a) PROVE x \in Cuts(t)
  <2>1. x = 0 \/ x = m + 1 \/ (x \in 1..m /\ a[x] = "/")
    BY <1>4
  <2>2. CASE x = m + 1
    <3>1. m + 1 \in 1..(m + 1 + n)
      OBVIOUS
    <3> QED BY <1>3, <1>4, <2>2, <3>1
  <2>3. CASE x \in 1..m /\ a[x] = "/"
    <3>1. x \in 1..(m + 1 + n) /\ t[x] = "/"
      BY <1>2, <2>3
    <3> QED BY <1>4, <3>1
  <2> QED BY <1>4, <2>1, <2>2, <2>3
<1>6. ASSUME NEW y \in Cuts(b) PROVE m + 1 + y \in Cuts(t)
  <2>1. y = 0 \/ y = n + 1 \/ (y \in 1..n /\ b[y] = "/")
    BY <1>4
  <2>2. CASE y = 0
    <3>1. m + 1 + y = m + 1 /\ m + 1 \in 1..(m + 1 + n)
      BY <2>2
    <3> QED BY <1>3, <1>4, <3>1
  <2>3. CASE y = n + 1
    <3>1. m + 1 + y = m + 1 + n + 1
      BY <2>3
    <3> QED BY <1>4, <3>1
  <2>4. CASE y \in 1..n /\ b[y] = "/"
    <3>1. m + 1 + y \in 1..(m + 1 + n) /\ t[m + 1 + y] = "/"
      BY <1>2, <2>4
    <3> QED BY <1>4, <3>1
  <2> QED BY <2>1, <2>2, <2>3, <2>4
<1>7. ASSUME NEW x \in Cuts(t), x \notin Cuts(a) PROVE \E y \in Cuts(b) : x = m + 1 + y
  <2>1. x = m + 1 + n + 1 \/ (x \in 1..(m + 1 + n) /\ t[x] = "/" /\ x # m + 1)
    BY <1>4, <1>7
  <2>2. CASE x = m + 1 + n + 1
    <3>1. n + 1 \in Cuts(b) /\ x = m + 1 + (n + 1)
      BY <1>4, <2>2
    <3> QED BY <3>1
  <2>3. CASE x \in 1..(m + 1 + n) /\ t[x] = "/" /\ x # m + 1
    <3>1. ~(x \in 1..m)
      BY <1>2, <1>4, <1>7, <2>3
    <3>2. PICK y \in 1..n : x = m + 1 + y
      <4>1. x - m - 1 \in 1..n /\ x = m + 1 + (x - m - 1)
        BY <2>3, <3>1
      <4> QED BY <4>1
    <3>3. b[y] = "/"
      BY <1>2, <2>3, <3>2
    <3> QED BY <1>4, <3>2, <3>3
  <2> QED BY <2>1, <2>2, <2>3
<1>8. SlashCut(a, b, Cuts(a), Cuts(b), Cuts(t))
  BY <1>0, <1>5, <1>6, <1>7 DEF SlashCut
<1> QED BY <1>0, <1>8

\* The segments of two texts with a slash between them.
LEMMA SplitSlashed ==
    ASSUME NEW a \in Text, NEW b \in Text
    PROVE  Split(a \o <<"/">> \o b) = Split(a) \o Split(b)
<1>1. PICK t : t = a \o <<"/">> \o b
  OBVIOUS
<1>2. PICK m \in Nat, n \in Nat : m = Len(a) /\ n = Len(b)
  BY DEF Text
<1>3. /\ t \in Text /\ \A i \in 1..m : t[i] = a[i]
      /\ \A i \in 1..n : t[m + 1 + i] = b[i]
  BY <1>1, <1>2, Slashed
<1>4. PICK p, q, C, D, c, d : /\ p = Cardinality(Cuts(a)) /\ q = Cardinality(Cuts(b))
                              /\ C = Cuts(a) /\ D = Cuts(b) /\ c = Cut(a) /\ d = Cut(b)
  OBVIOUS
<1>5. /\ p \in Nat /\ p >= 2 /\ C \in SUBSET (0..(m + 1)) /\ c \in [1..p -> C]
      /\ c[1] = 0 /\ c[p] = m + 1 /\ \A i, j \in 1..p : i < j => c[i] < c[j]
      /\ q \in Nat /\ q >= 2 /\ D \in SUBSET (0..(n + 1)) /\ d \in [1..q -> D]
      /\ d[1] = 0 /\ d[q] = n + 1 /\ \A i, j \in 1..q : i < j => d[i] < d[j]
  BY <1>2, <1>4, CutsListed
<1>6. /\ \A x \in C : \E k \in 1..p : c[k] = x
      /\ \A y \in D : \E k \in 1..q : d[k] = y
  <2>1. \A x \in Cuts(a) : \E k \in 1..Cardinality(Cuts(a)) : Cut(a)[k] = x
    BY CutsListed
  <2>2. \A x \in Cuts(b) : \E k \in 1..Cardinality(Cuts(b)) : Cut(b)[k] = x
    BY CutsListed
  <2> QED BY <1>4, <2>1, <2>2
<1>7. /\ \A k \in 1..p : c[k] \in C /\ c[k] \in Nat /\ c[k] <= m + 1
      /\ \A k \in 1..q : d[k] \in D /\ d[k] \in Nat /\ d[k] <= n + 1
      /\ \A k \in 2..q : d[k] > 0
  <2>1. /\ \A x \in C : x \in Nat /\ x <= m + 1
        /\ \A y \in D : y \in Nat /\ y <= n + 1
    BY <1>5
  <2>2. \A k \in 2..q : 1 \in 1..q /\ k \in 1..q /\ 1 < k
    BY <1>5
  <2>3. \A k \in 2..q : d[1] < d[k]
    BY <1>5, <2>2
  <2> QED BY <1>5, <2>1, <2>3
<1>8. PICK r \in Seq(Text), s \in Seq(Text) :
         /\ r = Split(a) /\ Len(r) = p - 1 /\ s = Split(b) /\ Len(s) = q - 1
  BY <1>4, Splits
<1>9. /\ \A k \in 1..(p - 1) : /\ Len(r[k]) = c[k + 1] - c[k] - 1
                               /\ \A i \in 1..Len(r[k]) : r[k][i] = a[c[k] + i]
      /\ \A k \in 1..(q - 1) : /\ Len(s[k]) = d[k + 1] - d[k] - 1
                               /\ \A i \in 1..Len(s[k]) : s[k][i] = b[d[k] + i]
  BY <1>4, <1>8, Splits
<1>10. PICK u : u = r \o s
  OBVIOUS
<1>11. PICK N \in Nat : N = p - 1 + (q - 1)
  BY <1>5
<1>12. /\ u \in Seq(Text) /\ Len(u) = N
       /\ \A k \in 1..(p - 1) : u[k] = r[k]
       /\ \A k \in 1..(q - 1) : u[p - 1 + k] = s[k]
  <2>1. PICK S : S = Text
    OBVIOUS
  <2>2. PICK x \in Nat, y \in Nat : x = p - 1 /\ y = q - 1
    BY <1>5
  <2>3. r \in Seq(S) /\ s \in Seq(S) /\ Len(r) = x /\ Len(s) = y
    BY <1>8, <2>1, <2>2
  <2>4. /\ r \o s \in Seq(S) /\ Len(r \o s) = x + y
        /\ \A k \in 1..x : (r \o s)[k] = r[k]
        /\ \A k \in 1..y : (r \o s)[x + k] = s[k]
    BY <2>3
  <2> QED BY <1>10, <1>11, <2>1, <2>2, <2>4
<1>13. PICK e : e = [k \in 1..(N + 1) |-> IF k <= p THEN c[k] ELSE m + 1 + d[k - p + 1]]
  OBVIOUS
<1>14. /\ \A k \in 1..p : k \in 1..(N + 1) /\ e[k] = c[k]
       /\ \A h \in 1..q : p - 1 + h \in 1..(N + 1) /\ e[p - 1 + h] = m + 1 + d[h]
  <2>1. ASSUME NEW k \in 1..p PROVE k \in 1..(N + 1) /\ e[k] = c[k]
    <3>1. k \in 1..(N + 1) /\ k <= p
      BY <1>5, <1>11
    <3> QED BY <1>13, <3>1
  <2>2. ASSUME NEW h \in 1..q PROVE p - 1 + h \in 1..(N + 1) /\ e[p - 1 + h] = m + 1 + d[h]
    <3>1. p - 1 + h \in 1..(N + 1) /\ (p - 1 + h) - p + 1 = h
      BY <1>5, <1>11
    <3>2. CASE h = 1
      <4>1. p - 1 + h = p /\ p \in 1..p
        BY <1>5, <3>2
      <4> QED BY <1>5, <2>1, <3>1, <3>2, <4>1
    <3>3. CASE h # 1
      <4>1. ~(p - 1 + h <= p)
        BY <1>5, <3>3
      <4> QED BY <1>13, <3>1, <4>1
    <3> QED BY <3>2, <3>3
  <2> QED BY <2>1, <2>2
<1>15. ASSUME NEW k \in 1..(N + 1), ~(k <= p)
       PROVE  \E h \in 2..q : k = p - 1 + h
  <2>1. k - p + 1 \in 2..q /\ k = p - 1 + (k - p + 1)
    BY <1>5, <1>11, <1>15
  <2> QED BY <2>1
<1>16. Climbs(e, N + 1, Cuts(t))
  <2>1. /\ \A x \in C : x \in Cuts(t)
        /\ \A y \in D : m + 1 + y \in Cuts(t)
        /\ \A x \in Cuts(t) : x \in C \/ \E y \in D : x = m + 1 + y
    <3>1. SlashCut(a, b, Cuts(a), Cuts(b), Cuts(a \o <<"/">> \o b))
      BY SlashedCuts
    <3>2. SlashCut(a, b, C, D, Cuts(t))
      BY <1>1, <1>4, <3>1
    <3> QED BY <1>2, <3>2 DEF SlashCut
  <2>2. ASSUME NEW k \in 1..(N + 1) PROVE e[k] \in Cuts(t) /\ e[k] \in Int
    <3>1. CASE k <= p
      <4>1. k \in 1..p
        BY <3>1
      <4> QED BY <1>7, <1>14, <2>1, <4>1
    <3>2. CASE ~(k <= p)
      <4>1. PICK h \in 2..q : k = p - 1 + h
        BY <1>15, <3>2
      <4>2. h \in 1..q
        OBVIOUS
      <4>3. e[k] = m + 1 + d[h] /\ d[h] \in D /\ d[h] \in Nat
        BY <1>7, <1>14, <4>1, <4>2
      <4> QED BY <2>1, <4>3
    <3> QED BY <3>1, <3>2
  <2>3. ASSUME NEW i \in 1..(N + 1), NEW j \in 1..(N + 1), i < j PROVE e[i] < e[j]
    <3>1. CASE j <= p
      <4>1. i \in 1..p /\ j \in 1..p
        BY <1>5, <2>3, <3>1
      <4> QED BY <1>5, <1>14, <2>3, <4>1
    <3>2. CASE i <= p /\ ~(j <= p)
      <4>1. PICK h \in 2..q : j = p - 1 + h
        BY <1>15, <3>2
      <4>2. h \in 1..q /\ i \in 1..p
        BY <3>2
      <4>3. e[i] = c[i] /\ c[i] \in Nat /\ c[i] <= m + 1
        BY <1>7, <1>14, <4>2
      <4>4. e[j] = m + 1 + d[h] /\ d[h] \in Nat /\ d[h] > 0
        BY <1>7, <1>14, <4>1, <4>2
      <4> QED BY <4>3, <4>4
    <3>3. CASE ~(i <= p)
      <4>1. ~(j <= p)
        BY <1>5, <2>3, <3>3
      <4>2. PICK g \in 2..q : i = p - 1 + g
        BY <1>15, <3>3
      <4>3. PICK h \in 2..q : j = p - 1 + h
        BY <1>15, <4>1
      <4>4. g \in 1..q /\ h \in 1..q /\ g < h
        BY <1>5, <2>3, <4>2, <4>3
      <4>5. d[g] < d[h] /\ d[g] \in Nat /\ d[h] \in Nat
        BY <1>5, <1>7, <4>4
      <4>6. e[i] = m + 1 + d[g] /\ e[j] = m + 1 + d[h]
        BY <1>14, <4>2, <4>3, <4>4
      <4> QED BY <4>5, <4>6
    <3> QED BY <3>1, <3>2, <3>3
  <2>4. ASSUME NEW x \in Cuts(t) PROVE \E k \in 1..(N + 1) : e[k] = x
    <3>1. CASE x \in C
      <4>1. PICK k \in 1..p : c[k] = x
        BY <1>6, <3>1
      <4> QED BY <1>14, <4>1
    <3>2. CASE x \notin C
      <4>1. PICK y \in D : x = m + 1 + y
        BY <2>1, <3>2
      <4>2. PICK h \in 1..q : d[h] = y
        BY <1>6
      <4> QED BY <1>14, <4>1, <4>2
    <3> QED BY <3>1, <3>2
  <2>5. N + 1 \in Nat
    OBVIOUS
  <2> QED BY <2>2, <2>3, <2>4, <2>5 DEF Climbs
<1>17. ASSUME NEW k \in 1..N
       PROVE  /\ Len(u[k]) = e[k + 1] - e[k] - 1
              /\ \A i \in 1..Len(u[k]) : u[k][i] = t[e[k] + i]
  <2>1. CASE k <= p - 1
    <3>1. k \in 1..(p - 1) /\ k \in 1..p /\ k + 1 \in 1..p
      BY <1>5, <2>1
    <3>2. PICK v : v = u[k]
      OBVIOUS
    <3>3. v = r[k] /\ e[k] = c[k] /\ e[k + 1] = c[k + 1]
      BY <1>12, <1>14, <3>1, <3>2
    <3>4. /\ Len(v) = c[k + 1] - c[k] - 1
          /\ \A i \in 1..Len(v) : v[i] = a[c[k] + i]
      BY <1>9, <3>1, <3>3
    <3>5. ASSUME NEW i \in 1..Len(v) PROVE v[i] = t[c[k] + i]
      <4>1. c[k] + i \in 1..m
        <5>1. c[k] \in Nat /\ c[k + 1] \in Nat /\ c[k + 1] <= m + 1
          BY <1>7, <3>1
        <5>2. i \in 1..(c[k + 1] - c[k] - 1)
          BY <3>4
        <5> QED BY <5>1, <5>2
      <4> QED BY <1>3, <3>4, <4>1
    <3> QED BY <3>2, <3>3, <3>4, <3>5
  <2>2. CASE ~(k <= p - 1)
    <3>1. PICK h \in 1..(q - 1) : k = p - 1 + h
      <4>1. k - p + 1 \in 1..(q - 1) /\ k = p - 1 + (k - p + 1)
        BY <1>5, <1>11, <2>2
      <4> QED BY <4>1
    <3>2. h \in 1..q /\ h + 1 \in 1..q /\ k + 1 = p - 1 + (h + 1)
      BY <1>5, <3>1
    <3>3. PICK v : v = u[k]
      OBVIOUS
    <3>4. v = s[h] /\ e[k] = m + 1 + d[h] /\ e[k + 1] = m + 1 + d[h + 1]
      BY <1>12, <1>14, <3>1, <3>2, <3>3
    <3>5. /\ Len(v) = d[h + 1] - d[h] - 1
          /\ \A i \in 1..Len(v) : v[i] = b[d[h] + i]
      BY <1>9, <3>4
    <3>6. d[h] \in Nat /\ d[h + 1] \in Nat /\ d[h + 1] <= n + 1
      BY <1>7, <3>2
    <3>7. Len(v) = e[k + 1] - e[k] - 1
      BY <3>4, <3>5, <3>6
    <3>8. ASSUME NEW i \in 1..Len(v) PROVE v[i] = t[e[k] + i]
      <4>1. i \in 1..(d[h + 1] - d[h] - 1)
        BY <3>5
      <4>2. d[h] + i \in 1..n /\ m + 1 + (d[h] + i) = (m + 1 + d[h]) + i
        BY <3>6, <4>1
      <4>3. t[m + 1 + (d[h] + i)] = b[d[h] + i]
        BY <1>3, <4>2
      <4> QED BY <3>4, <3>5, <4>2, <4>3
    <3> QED BY <3>3, <3>7, <3>8
  <2> QED BY <2>1, <2>2
<1>18. u = Split(t)
  <2>1. Between(u, N, t, e)
    BY <1>12, <1>17 DEF Between
  <2> QED BY <1>3, <1>16, <2>1, SplitIs
<1> QED BY <1>1, <1>8, <1>10, <1>18

\* A text without a slash is its only segment.
LEMMA SplitOne ==
    ASSUME NEW t \in Text, \A i \in 1..Len(t) : t[i] # "/"
    PROVE  Split(t) = <<t>>
<1>1. PICK n \in Nat : n = Len(t) /\ DOMAIN t = 1..n
  BY DEF Text
<1>2. Cuts(t) = {0, n + 1}
  BY <1>1 DEF Cuts
<1>3. PICK c : c = [k \in 1..2 |-> IF k = 1 THEN 0 ELSE n + 1]
  OBVIOUS
<1>4. c[1] = 0 /\ c[2] = n + 1
  BY <1>3
<1>5. Climbs(c, 1 + 1, Cuts(t))
  <2>1. 1..(1 + 1) = {1, 2}
    OBVIOUS
  <2>2. \A k \in {1, 2} : c[k] \in {0, n + 1} /\ c[k] \in Int
    BY <1>4
  <2>3. \A i, j \in {1, 2} : i < j => c[i] < c[j]
    BY <1>4
  <2>4. \A x \in {0, n + 1} : \E k \in {1, 2} : c[k] = x
    BY <1>4
  <2> QED BY <1>2, <2>1, <2>2, <2>3, <2>4 DEF Climbs
<1>6. PICK s : s = <<t>>
  OBVIOUS
<1>7. s \in Seq(Text) /\ Len(s) = 1 /\ s[1] = t
  BY <1>6
<1>8. ASSUME NEW k \in 1..1
      PROVE  /\ Len(s[k]) = c[k + 1] - c[k] - 1
             /\ \A i \in 1..Len(s[k]) : s[k][i] = t[c[k] + i]
  <2>1. k = 1 /\ k + 1 = 2 /\ s[k] = t
    BY <1>7
  <2>2. Len(t) = c[2] - c[1] - 1
    BY <1>1, <1>4
  <2>3. \A i \in 1..n : c[1] + i = i
    BY <1>4
  <2> QED BY <1>1, <2>1, <2>2, <2>3
<1>9. 1 \in Nat /\ Between(s, 1, t, c)
  BY <1>7, <1>8 DEF Between
<1> QED BY <1>5, <1>6, <1>9, SplitIs

\* Splitting undoes joining.
LEMMA SplitJoin ==
    ASSUME NEW segs \in Seq(Text), Len(segs) > 0,
           \A k \in 1..Len(segs) : Segment(segs[k])
    PROVE  Split(Join(segs)) = segs
<1>1. PICK n \in Nat : n = Len(segs) /\ n > 0
  OBVIOUS
<1>2. PICK j : j = Joined(segs)
  OBVIOUS
<1>3. /\ Join(segs) = j[1..n] /\ j[1..0] = <<>>
      /\ \A k \in 1..n : j[1..k] = IF j[1..(k - 1)] = <<>> THEN segs[k]
                                   ELSE j[1..(k - 1)] \o <<"/">> \o segs[k]
  BY <1>1, <1>2, JoinSteps
<1> DEFINE Fine(k) == k \in 1..n => /\ j[1..k] \in Text /\ j[1..k] # <<>>
                                    /\ Split(j[1..k]) = SubSeq(segs, 1, k)
           Good == {k \in Nat : Fine(k)}
<1>4. ASSUME NEW k \in Nat, \A i \in Nat : i < k => i \in Good PROVE k \in Good
  <2> SUFFICES ASSUME k \in 1..n
               PROVE  /\ j[1..k] \in Text /\ j[1..k] # <<>>
                      /\ Split(j[1..k]) = SubSeq(segs, 1, k)
    OBVIOUS
  <2>1. PICK s \in Text : /\ s = segs[k] /\ Len(s) > 0 /\ \A i \in 1..Len(s) : s[i] # "/"
                          /\ s # <<>>
    <3>1. PICK s \in Text : s = segs[k] /\ Len(s) > 0 /\ \A i \in 1..Len(s) : s[i] # "/"
      BY <1>1 DEF Segment
    <3> QED BY <3>1 DEF Text
  <2>2. Split(s) = <<s>>
    BY <2>1, SplitOne
  <2>3. SubSeq(segs, 1, k) = SubSeq(segs, 1, k - 1) \o <<s>>
    <3>1. 1 \in 1..Len(segs) /\ k \in 1..Len(segs)
      BY <1>1
    <3> QED BY <2>1, <3>1, SubSeqRecursiveSecond
  <2>4. CASE k = 1
    <3>1. j[1..(k - 1)] = <<>>
      BY <1>3, <2>4
    <3>2. j[1..k] = s
      BY <1>3, <2>1, <3>1
    <3>3. SubSeq(segs, 1, k) = <<s>>
      <4>1. SubSeq(segs, 1, k - 1) = <<>>
        BY <2>4, SubSeqEmpty
      <4>2. <<s>> \in Seq(Text)
        BY <2>1
      <4>3. <<>> \o <<s>> = <<s>>
        BY <4>2, ConcatEmptySeq
      <4> QED BY <2>3, <4>1, <4>3
    <3> QED BY <2>1, <2>2, <3>2, <3>3
  <2>5. CASE k # 1
    <3>1. k - 1 \in Nat /\ k - 1 < k /\ k - 1 \in 1..n
      BY <2>5
    <3>2. PICK t : t = j[1..(k - 1)]
      OBVIOUS
    <3>3. t \in Text /\ t # <<>> /\ Split(t) = SubSeq(segs, 1, k - 1)
      BY <1>4, <3>1, <3>2
    <3>4. j[1..k] = t \o <<"/">> \o s
      BY <1>3, <2>1, <3>2, <3>3
    <3>5. Split(t \o <<"/">> \o s) = Split(t) \o Split(s)
      BY <2>1, <3>3, SplitSlashed
    <3>6. PICK u : u = t \o <<"/">> \o s
      OBVIOUS
    <3>7. u \in Text /\ u # <<>>
      <4>1. u \in Text /\ Len(u) = Len(t) + 1 + Len(s)
        BY <2>1, <3>3, <3>6, Slashed
      <4>2. Len(t) \in Nat /\ Len(s) \in Nat
        BY <2>1, <3>3 DEF Text
      <4>3. Len(u) > 0
        BY <4>1, <4>2
      <4> QED BY <4>1, <4>3
    <3> QED BY <2>2, <2>3, <3>3, <3>4, <3>5, <3>6, <3>7
  <2> QED BY <2>4, <2>5
<1>5. n \in Good
  <2>1. Good \in SUBSET Nat
    OBVIOUS
  <2> HIDE DEF Good
  <2> QED BY <1>1, <1>4, <2>1, FirstBad
<1>6. Split(j[1..n]) = SubSeq(segs, 1, n)
  BY <1>1, <1>5
<1>7. SubSeq(segs, 1, n) = segs
  BY <1>1
<1> QED BY <1>3, <1>6, <1>7

\* A text, without what follows one of its slashes, and with it.
LEMMA Rejoin ==
    ASSUME NEW t \in Text, NEW m \in Nat, NEW b \in Nat, 1 <= m, m <= b, b <= Len(t),
           t[m] = "/"
    PROVE  SubSeq(t, 1, m - 1) \o <<"/">> \o SubSeq(t, m + 1, b) = SubSeq(t, 1, b)
<1>1. PICK s \in Seq(Letter), len \in Nat : s = t /\ len = Len(s)
  BY DEF Text
<1>2. /\ 1 \in 1..(Len(s) + 1) /\ m - 1 \in (1 - 1)..Len(s) /\ b \in (m - 1)..Len(s)
      /\ m \in 1..Len(s) /\ b \in m..Len(s)
  BY <1>1
<1>3. SubSeq(s, 1, m - 1) \o SubSeq(s, m - 1 + 1, b) = SubSeq(s, 1, b)
  BY <1>2, ConcatAdjacentSubSeq
<1>4. SubSeq(s, m, b) = <<s[m]>> \o SubSeq(s, m + 1, b)
  BY <1>2, SubSeqRecursiveFirst
<1>5. PICK u \in Seq(Letter), o \in Seq(Letter), v \in Seq(Letter) :
         u = SubSeq(s, 1, m - 1) /\ o = <<s[m]>> /\ v = SubSeq(s, m + 1, b)
  <2>1. /\ 1 \in Nat /\ m - 1 \in Nat /\ 1 <= m - 1 + 1 /\ m - 1 <= Len(s)
        /\ m + 1 \in Nat /\ 1 <= m + 1 /\ m + 1 <= b + 1 /\ b <= Len(s)
    BY <1>1
  <2>2. SubSeq(s, 1, m - 1) \in Seq(Letter) /\ SubSeq(s, m + 1, b) \in Seq(Letter)
    BY <2>1, Parts
  <2>3. <<s[m]>> \in Seq(Letter)
    BY <1>1, <1>2
  <2> QED BY <2>2, <2>3
<1>6. (u \o o) \o v = u \o (o \o v)
  BY ConcatAssociative
<1>7. m - 1 + 1 = m
  OBVIOUS
<1> QED BY <1>1, <1>3, <1>4, <1>5, <1>6, <1>7

\* Joining undoes splitting.
LEMMA JoinSplit ==
    ASSUME NEW t \in Text, Trimmed(t)
    PROVE  Join(Split(t)) = t
<1>1. PICK m, C, c, segs : /\ m = Cardinality(Cuts(t)) /\ C = Cuts(t) /\ c = Cut(t)
                           /\ segs = Split(t)
  OBVIOUS
<1>2. PICK len \in Nat : len = Len(t)
  BY DEF Text
<1>3. /\ m \in Nat /\ m >= 2 /\ c \in [1..m -> C] /\ C \in SUBSET (0..(len + 1))
      /\ \A i, k \in 1..m : i < k => c[i] < c[k]
      /\ c[1] = 0 /\ c[m] = len + 1
  BY <1>1, <1>2, CutsListed
<1>4. PICK n \in Nat : n = m - 1 /\ n >= 1
  <2>1. m - 1 \in Nat /\ m - 1 >= 1
    BY <1>3
  <2> QED BY <2>1
<1>5. /\ segs \in Seq(Text) /\ Len(segs) = n
      /\ \A k \in 1..n : segs[k] = SubSeq(t, c[k] + 1, c[k + 1] - 1)
  BY <1>1, <1>4, Splits
<1>6. PICK j : j = Joined(segs)
  OBVIOUS
<1>7. /\ Join(segs) = j[1..n] /\ j[1..0] = <<>>
      /\ \A k \in 1..n : j[1..k] = IF j[1..(k - 1)] = <<>> THEN segs[k]
                                   ELSE j[1..(k - 1)] \o <<"/">> \o segs[k]
  BY <1>5, <1>6, JoinSteps
<1>8. \A k \in 1..m : c[k] \in Nat /\ c[k] <= len + 1 /\ c[k] \in C
  <2>1. \A x \in C : x \in Nat /\ x <= len + 1
    BY <1>3
  <2>2. \A k \in 1..m : c[k] \in C
    BY <1>3
  <2> QED BY <2>1, <2>2
<1>9. \A x \in 1..len : x \in C => t[x] = "/"
  BY <1>1, <1>2 DEF Cuts
<1>10. len >= 1 => t[1] # "/"
  BY <1>2 DEF Trimmed, Text
<1> DEFINE Fine(k) == k \in 1..n => j[1..k] = SubSeq(t, 1, c[k + 1] - 1)
           Good == {k \in Nat : Fine(k)}
<1>11. ASSUME NEW k \in Nat, \A i \in Nat : i < k => i \in Good PROVE k \in Good
  <2> SUFFICES ASSUME k \in 1..n PROVE j[1..k] = SubSeq(t, 1, c[k + 1] - 1)
    OBVIOUS
  <2>1. k \in 1..m /\ k + 1 \in 1..m
    BY <1>3, <1>4
  <2>2. PICK a \in Nat, b \in Nat : a = c[k] /\ b = c[k + 1] /\ a < b /\ b <= len + 1
    BY <1>3, <1>8, <2>1
  <2>3. segs[k] = SubSeq(t, a + 1, b - 1)
    BY <1>5, <2>2
  <2>4. CASE k = 1
    <3>1. j[1..(k - 1)] = <<>> /\ a = 0
      BY <1>3, <1>7, <2>2, <2>4
    <3> QED BY <1>7, <2>2, <2>3, <3>1
  <2>5. CASE k # 1
    <3>1. k - 1 \in Nat /\ k - 1 < k /\ k - 1 \in 1..n /\ k - 1 + 1 = k
      BY <2>5
    <3>2. j[1..(k - 1)] = SubSeq(t, 1, a - 1)
      <4>1. j[1..(k - 1)] = SubSeq(t, 1, c[k - 1 + 1] - 1)
        BY <1>11, <3>1
      <4> QED BY <2>2, <3>1, <4>1
    <3>3. a \in 1..len /\ t[a] = "/" /\ a > 1
      <4>1. c[1] < c[k]
        BY <1>3, <2>1, <2>5
      <4>2. a \in 1..len
        BY <1>3, <2>2, <4>1
      <4>3. t[a] = "/"
        BY <1>8, <1>9, <2>1, <2>2, <4>2
      <4> QED BY <1>10, <4>2, <4>3
    <3>4. SubSeq(t, 1, a - 1) # <<>>
      <4>1. 1 \in Nat /\ a - 1 \in Nat /\ 1 <= a - 1 + 1 /\ a - 1 <= Len(t)
        BY <1>2, <3>3
      <4>2. Len(SubSeq(t, 1, a - 1)) = a - 1 - 1 + 1
        BY <4>1, Parts DEF Text
      <4>3. PICK u : u = SubSeq(t, 1, a - 1)
        OBVIOUS
      <4>4. Len(u) = a - 1 /\ a - 1 > 0
        BY <3>3, <4>2, <4>3
      <4>5. u # <<>>
        BY <4>4
      <4> QED BY <4>3, <4>5
    <3>5. j[1..k] = SubSeq(t, 1, a - 1) \o <<"/">> \o SubSeq(t, a + 1, b - 1)
      BY <1>7, <2>3, <3>2, <3>4
    <3>6. b - 1 \in Nat /\ 1 <= a /\ a <= b - 1 /\ b - 1 <= Len(t)
      BY <1>2, <2>2, <3>3
    <3>7. SubSeq(t, 1, a - 1) \o <<"/">> \o SubSeq(t, a + 1, b - 1) = SubSeq(t, 1, b - 1)
      BY <3>3, <3>6, Rejoin
    <3> QED BY <2>2, <3>5, <3>7
  <2> QED BY <2>4, <2>5
<1>12. n \in Good
  <2>1. Good \in SUBSET Nat
    OBVIOUS
  <2> HIDE DEF Good
  <2> QED BY <1>11, <2>1, FirstBad
<1>13. j[1..n] = SubSeq(t, 1, len + 1 - 1)
  <2>1. n \in 1..n /\ n + 1 = m
    BY <1>3, <1>4
  <2>2. j[1..n] = SubSeq(t, 1, c[n + 1] - 1)
    BY <1>12, <2>1
  <2>3. c[n + 1] = len + 1
    BY <1>3, <2>1
  <2> QED BY <2>2, <2>3
<1>14. SubSeq(t, 1, len + 1 - 1) = t
  BY <1>2 DEF Text
<1> QED BY <1>1, <1>7, <1>13, <1>14

\* A slash before a trimmed text is all that trimming removes.
LEMMA TrimSlash ==
    ASSUME NEW t \in Text, Trimmed(t)
    PROVE  Trim(<<"/">> \o t) = t
<1>1. PICK n \in Nat : n = Len(t)
  BY DEF Text
<1>2. PICK u : u = <<"/">> \o t
  OBVIOUS
<1>3. /\ u \in Text /\ Len(u) = n + 1 /\ DOMAIN u = 1..(n + 1)
      /\ u[1] = "/" /\ \A i \in 1..n : u[1 + i] = t[i]
  <2>1. PICK o \in Seq(Letter) : o = <<"/">> /\ Len(o) = 1 /\ o[1] = "/"
    <3>1. "/" \in Letter
      BY DEF Letter
    <3>2. <<"/">> \in Seq(Letter) /\ Len(<<"/">>) = 1 /\ <<"/">>[1] = "/"
      BY <3>1
    <3> QED BY <3>2
  <2>2. PICK v \in Seq(Letter) : v = t
    BY DEF Text
  <2>3. u = o \o v
    BY <1>2, <2>1, <2>2
  <2>4. u \in Seq(Letter) /\ Len(u) = n + 1 /\ u[1] = o[1] /\ \A i \in 1..n : u[1 + i] = v[i]
    BY <1>1, <2>1, <2>2, <2>3
  <2>5. DOMAIN u = 1..(n + 1)
    BY <2>4
  <2> QED BY <2>1, <2>2, <2>4, <2>5 DEF Text
<1>4. PICK kept : kept = {i \in DOMAIN u : u[i] # "/"}
  OBVIOUS
<1>5. Trim(u) = IF kept = {} THEN <<>> ELSE SubSeq(u, Min(kept), Max(kept))
  BY <1>4 DEF Trim
<1>6. CASE n = 0
  <2>1. kept = {}
    BY <1>3, <1>4, <1>6
  <2>2. t = <<>>
    <3>1. t # <<>> => Len(t) > 0
      BY DEF Text
    <3> QED BY <1>1, <1>6, <3>1
  <2> QED BY <1>2, <1>5, <2>1, <2>2
<1>7. CASE n # 0
  <2>1. t # <<>>
    BY <1>1, <1>7
  <2>2. t[1] # "/" /\ t[n] # "/"
    BY <1>1, <2>1 DEF Trimmed
  <2>3. u[2] = t[1] /\ u[n + 1] = t[n]
    <3>1. 1 \in 1..n /\ n \in 1..n /\ 1 + 1 = 2 /\ 1 + n = n + 1
      BY <1>7
    <3>2. u[1 + 1] = t[1] /\ u[1 + n] = t[n]
      BY <1>3, <3>1
    <3> QED BY <3>1, <3>2
  <2>4. /\ 2 \in kept /\ n + 1 \in kept /\ kept \in SUBSET Nat
        /\ \A x \in kept : 2 <= x /\ x <= n + 1
    <3>1. 2 \in DOMAIN u /\ n + 1 \in DOMAIN u
      BY <1>3, <1>7
    <3>2. \A x \in DOMAIN u : x \in Nat /\ (x = 1 \/ 2 <= x) /\ x <= n + 1
      BY <1>3
    <3>3. 2 \in kept /\ n + 1 \in kept
      BY <1>4, <2>2, <2>3, <3>1
    <3>4. 1 \notin kept
      BY <1>3, <1>4
    <3> QED BY <1>4, <3>2, <3>3, <3>4
  <2>5. Min(kept) = 2 /\ Max(kept) = n + 1
    <3>1. Min(kept) \in kept /\ \A x \in kept : Min(kept) <= x
      BY <2>4, MinIs
    <3>2. Max(kept) \in kept /\ \A x \in kept : x <= Max(kept)
      <4>1. n + 1 \in Nat /\ kept # {} /\ \A x \in kept : x <= n + 1
        BY <2>4
      <4> QED BY <2>4, <4>1, MaxIs
    <3>3. Min(kept) <= 2 /\ 2 <= Min(kept) /\ Max(kept) <= n + 1 /\ n + 1 <= Max(kept)
      BY <2>4, <3>1, <3>2
    <3>4. Min(kept) \in Nat /\ Max(kept) \in Nat
      BY <2>4, <3>1, <3>2
    <3> QED BY <3>3, <3>4
  <2>6. PICK w : w = SubSeq(u, 2, n + 1)
    OBVIOUS
  <2>7. w \in Text /\ Len(w) = n /\ \A i \in 1..n : w[i] = t[i]
    <3>1. 2 \in Nat /\ n + 1 \in Nat /\ 1 <= 2 /\ 2 <= n + 1 + 1 /\ n + 1 <= Len(u)
      BY <1>3, <1>7
    <3>2. /\ w \in Seq(Letter) /\ Len(w) = n + 1 - 2 + 1
          /\ \A i \in 1..(n + 1 - 2 + 1) : w[i] = u[2 + i - 1]
      BY <1>3, <2>6, <3>1, Parts DEF Text
    <3>3. n + 1 - 2 + 1 = n /\ \A i \in 1..n : 2 + i - 1 = 1 + i
      OBVIOUS
    <3> QED BY <1>3, <3>2, <3>3 DEF Text
  <2>8. w = t
    <3>1. Len(w) = Len(t) /\ \A i \in 1..Len(w) : w[i] = t[i]
      BY <1>1, <2>7
    <3> QED BY <2>7, <3>1, SameText
  <2>9. kept # {}
    BY <2>4
  <2> QED BY <1>2, <1>5, <2>5, <2>6, <2>8, <2>9
<1> QED BY <1>6, <1>7

\* Two trimmed texts with a slash between them are a trimmed text.
LEMMA TrimmedSlashed ==
    ASSUME NEW t \in Text, t # <<>>, Trimmed(t), NEW s \in Text, s # <<>>, Trimmed(s)
    PROVE  t \o <<"/">> \o s \in Text /\ Trimmed(t \o <<"/">> \o s)
<1>1. PICK u : u = t \o <<"/">> \o s
  OBVIOUS
<1>2. PICK a \in Nat, b \in Nat : a = Len(t) /\ b = Len(s) /\ a > 0 /\ b > 0
  <2>1. Len(t) \in Nat /\ Len(s) \in Nat /\ Len(t) > 0 /\ Len(s) > 0
    BY DEF Text
  <2> QED BY <2>1
<1>3. /\ u \in Text /\ Len(u) = a + 1 + b /\ \A i \in 1..a : u[i] = t[i]
      /\ \A i \in 1..b : u[a + 1 + i] = s[i]
  BY <1>1, <1>2, Slashed
<1>4. 1 \in 1..a /\ b \in 1..b
  BY <1>2
<1>5. u[1] = t[1] /\ u[Len(u)] = s[b]
  BY <1>3, <1>4
<1>6. t[1] # "/" /\ s[b] # "/"
  BY <1>2 DEF Trimmed
<1> QED BY <1>1, <1>3, <1>5, <1>6 DEF Trimmed

\* An empty first segment leaves no trace.
LEMMA JoinLead ==
    ASSUME NEW segs \in Seq(Text)
    PROVE  Join(<< <<>> >> \o segs) = Join(segs)
<1>1. PICK n \in Nat : n = Len(segs)
  OBVIOUS
<1>2. PICK all : all = << <<>> >> \o segs
  OBVIOUS
<1>3. PICK S, e : S = Text /\ e = <<>> /\ e \in S
  <2>1. <<>> \in Text
    BY EmptySeq DEF Text
  <2> QED BY <2>1
<1>4. /\ all \in Seq(Text) /\ Len(all) = n + 1 /\ all[1] = <<>>
      /\ \A k \in 1..n : all[k + 1] = segs[k]
  <2>1. PICK o \in Seq(S) : o = <<e>> /\ Len(o) = 1 /\ o[1] = e
    <3>1. e \in S
      BY <1>3
    <3>2. <<e>> \in Seq(S) /\ Len(<<e>>) = 1 /\ <<e>>[1] = e
      BY <3>1
    <3> QED BY <3>2
  <2>2. all = o \o segs /\ segs \in Seq(S)
    BY <1>2, <1>3, <2>1
  <2>3. all \in Seq(S) /\ Len(all) = 1 + n /\ all[1] = e
    BY <1>1, <2>1, <2>2
  <2>4. \A k \in 1..n : all[1 + k] = segs[k]
    BY <1>1, <2>1, <2>2
  <2>5. \A k \in 1..n : 1 + k = k + 1
    OBVIOUS
  <2> QED BY <1>3, <2>3, <2>4, <2>5
<1>5. PICK j, h : j = Joined(segs) /\ h = Joined(all)
  OBVIOUS
<1>6. /\ Join(segs) = j[1..n] /\ j[1..0] = <<>>
      /\ \A k \in 1..n : j[1..k] = IF j[1..(k - 1)] = <<>> THEN segs[k]
                                   ELSE j[1..(k - 1)] \o <<"/">> \o segs[k]
  BY <1>1, <1>5, JoinSteps
<1>7. /\ Join(all) = h[1..(n + 1)] /\ h[1..0] = <<>>
      /\ \A k \in 1..(n + 1) : h[1..k] = IF h[1..(k - 1)] = <<>> THEN all[k]
                                         ELSE h[1..(k - 1)] \o <<"/">> \o all[k]
  <2>1. n + 1 \in Nat
    OBVIOUS
  <2> QED BY <1>4, <1>5, <2>1, JoinSteps
<1> DEFINE Fine(k) == k \in 0..n => h[1..(k + 1)] = j[1..k]
           Good == {k \in Nat : Fine(k)}
<1>8. ASSUME NEW k \in Nat, \A i \in Nat : i < k => i \in Good PROVE k \in Good
  <2> SUFFICES ASSUME k \in 0..n PROVE h[1..(k + 1)] = j[1..k]
    OBVIOUS
  <2>1. CASE k = 0
    <3>1. 1 \in 1..(n + 1) /\ 1 - 1 = 0 /\ k + 1 = 1
      BY <2>1
    <3>2. h[1..1] = IF h[1..(1 - 1)] = <<>> THEN all[1]
                    ELSE h[1..(1 - 1)] \o <<"/">> \o all[1]
      BY <1>7, <3>1
    <3> QED BY <1>4, <1>6, <1>7, <2>1, <3>1, <3>2
  <2>2. CASE k # 0
    <3>1. k - 1 \in Nat /\ k - 1 < k /\ k - 1 \in 0..n /\ k - 1 + 1 = k /\ k \in 1..n
      BY <2>2
    <3>2. h[1..k] = j[1..(k - 1)]
      <4>1. h[1..(k - 1 + 1)] = j[1..(k - 1)]
        BY <1>8, <3>1
      <4> QED BY <3>1, <4>1
    <3>3. k + 1 \in 1..(n + 1) /\ k + 1 - 1 = k
      BY <3>1
    <3>4. h[1..(k + 1)] = IF h[1..(k + 1 - 1)] = <<>> THEN all[k + 1]
                          ELSE h[1..(k + 1 - 1)] \o <<"/">> \o all[k + 1]
      BY <1>7, <3>3
    <3>5. all[k + 1] = segs[k]
      BY <1>4, <3>1
    <3>6. j[1..k] = IF j[1..(k - 1)] = <<>> THEN segs[k]
                    ELSE j[1..(k - 1)] \o <<"/">> \o segs[k]
      BY <1>6, <3>1
    <3> QED BY <3>2, <3>3, <3>4, <3>5, <3>6
  <2> QED BY <2>1, <2>2
<1>9. n \in Good
  <2>1. Good \in SUBSET Nat
    OBVIOUS
  <2> HIDE DEF Good
  <2> QED BY <1>8, <2>1, FirstBad
<1>10. h[1..(n + 1)] = j[1..n]
  BY <1>9
<1> QED BY <1>2, <1>6, <1>7, <1>10

\* No segment of a canonical path is empty or a dot segment.
Clean(path) ==
    \A k \in 1..Len(Split(path)) : /\ Segment(Split(path)[k])
                                   /\ Split(path)[k] \notin Dots

LEMMA CanonicalClean ==
    ASSUME NEW raw \in Seq(Raw), NEW path, path = Canonicalize(raw), path # None,
           path # <<>>
    PROVE  Clean(path)
<1>1. PICK p \in Seq(Raw) : p = BeforeQuery(raw)
  BY QueryDropped
<1>2. PICK t \in Text : t = [i \in DOMAIN p |-> p[i].char]
  BY <1>1, Decodes
<1>3. PICK segs \in Seq(Text) : /\ segs = SegmentsOf(t)
                                /\ \A k \in 1..Len(segs) : Segment(segs[k])
  BY KeptSegments
<1>4. path = Join(segs)
  BY <1>1, <1>2, <1>3 DEF Canonicalize, SegmentsOf
<1>5. ToSet(segs) \cap Dots = {}
  BY <1>1, <1>2, <1>3 DEF Canonicalize, SegmentsOf
<1>6. Len(segs) > 0
  <2>1. ASSUME Len(segs) = 0 PROVE FALSE
    <3>1. Join(segs) = Joined(segs)[1..0] /\ Joined(segs)[1..0] = <<>>
      <4>1. 0 \in Nat /\ Len(segs) = 0
        BY <2>1
      <4> QED BY <4>1, JoinSteps
    <3> QED BY <1>4, <3>1
  <2>2. Len(segs) \in Nat
    OBVIOUS
  <2> QED BY <2>1, <2>2
<1>7. Split(path) = segs
  BY <1>3, <1>4, <1>6, SplitJoin
<1>8. \A k \in 1..Len(segs) : segs[k] \in ToSet(segs)
  BY DEF ToSet
<1> QED BY <1>3, <1>5, <1>7, <1>8 DEF Clean

\* The rest of a path under a prefix.
Rest(path, prefix) == SubSeq(path, Len(prefix) + 2, Len(path))

LEMMA RestOf ==
    ASSUME NEW path \in Text, Trimmed(path), path # <<>>, Clean(path),
           NEW prefix \in Text, UnderPrefix(path, prefix), Len(path) > Len(prefix)
    PROVE  /\ Rest(path, prefix) \in Text /\ Rest(path, prefix) # <<>>
           /\ Trimmed(Rest(path, prefix))
           /\ Split(path) = Split(prefix) \o Split(Rest(path, prefix))
<1>0. PICK p : p = Rest(path, prefix)
  OBVIOUS
<1>1. PICK n \in Nat, m \in Nat : n = Len(path) /\ m = Len(prefix) /\ n > m
  BY DEF Text
<1>2. /\ \A i \in 1..m : path[i] = prefix[i]
      /\ m + 1 \in Cuts(path)
  BY <1>1, UnderIs
<1>3. path[m + 1] = "/"
  <2>1. DOMAIN path = 1..n
    BY <1>1 DEF Text
  <2>2. m + 1 # 0 /\ m + 1 # n + 1
    BY <1>1
  <2> QED BY <1>1, <1>2, <2>1, <2>2 DEF Cuts
<1>4. path[n] # "/"
  BY <1>1 DEF Trimmed
<1>5. m + 2 <= n
  <2>1. m + 1 # n
    BY <1>3, <1>4
  <2> QED BY <1>1, <2>1
<1>6. p \in Text /\ Len(p) = n - m - 1 /\ \A i \in 1..(n - m - 1) : p[i] = path[m + 1 + i]
  <2>1. m + 2 \in Nat /\ 1 <= m + 2 /\ m + 2 <= n + 1 /\ n <= Len(path)
    BY <1>1, <1>5
  <2>2. p = SubSeq(path, m + 2, n)
    BY <1>0, <1>1 DEF Rest
  <2>3. /\ p \in Seq(Letter) /\ Len(p) = n - (m + 2) + 1
        /\ \A i \in 1..(n - (m + 2) + 1) : p[i] = path[m + 2 + i - 1]
    <3>1. PICK a \in Nat : a = m + 2
      BY <2>1
    <3>2. /\ SubSeq(path, a, n) \in Seq(Letter) /\ Len(SubSeq(path, a, n)) = n - a + 1
          /\ \A i \in 1..(n - a + 1) : SubSeq(path, a, n)[i] = path[a + i - 1]
      BY <2>1, <3>1, Parts DEF Text
    <3> QED BY <2>2, <3>1, <3>2
  <2>4. n - (m + 2) + 1 = n - m - 1 /\ \A i \in 1..(n - m - 1) : m + 2 + i - 1 = m + 1 + i
    OBVIOUS
  <2> QED BY <2>3, <2>4 DEF Text
<1>7. PICK u : u = prefix \o <<"/">> \o p
  OBVIOUS
<1>8. /\ u \in Text /\ Len(u) = n
      /\ \A i \in 1..m : u[i] = prefix[i]
      /\ \A i \in 1..(n - m - 1) : u[m + 1 + i] = p[i]
      /\ u[m + 1] = "/"
  <2>1. /\ u \in Text /\ Len(u) = m + 1 + Len(p)
        /\ \A i \in 1..m : u[i] = prefix[i]
        /\ \A i \in 1..Len(p) : u[m + 1 + i] = p[i]
        /\ u[m + 1] = "/"
    BY <1>1, <1>6, <1>7, Slashed, SlashedMid
  <2>2. m + 1 + (n - m - 1) = n
    OBVIOUS
  <2> QED BY <1>6, <2>1, <2>2
<1>9. path = u
  <2>1. ASSUME NEW i \in 1..n PROVE u[i] = path[i]
    <3>1. i \in 1..m \/ i = m + 1 \/ (i - m - 1 \in 1..(n - m - 1) /\ m + 1 + (i - m - 1) = i)
      OBVIOUS
    <3>2. CASE i \in 1..m
      BY <1>2, <1>8, <3>2
    <3>3. CASE i = m + 1
      BY <1>3, <1>8, <3>3
    <3>4. CASE i - m - 1 \in 1..(n - m - 1) /\ m + 1 + (i - m - 1) = i
      <4>1. PICK h \in 1..(n - m - 1) : m + 1 + h = i
        BY <3>4
      <4> QED BY <1>6, <1>8, <4>1
    <3> QED BY <3>1, <3>2, <3>3, <3>4
  <2> QED BY <1>1, <1>8, <2>1, SameText
<1>10. Split(path) = Split(prefix) \o Split(p)
  <2>1. Split(prefix \o <<"/">> \o p) = Split(prefix) \o Split(p)
    BY <1>6, SplitSlashed
  <2> QED BY <1>7, <1>9, <2>1
<1>11. Len(p) > 0
  BY <1>5, <1>6
<1>12. p # <<>>
  <2>1. ASSUME p = <<>> PROVE FALSE
    <3>1. Len(p) = 0
      BY <2>1, Zenon, EmptySeq
    <3> QED BY <1>11, <3>1
  <2> QED BY <2>1
<1>13. p[1] # "/"
  <2>1. PICK a \in Seq(Text), b \in Seq(Text) : a = Split(prefix) /\ b = Split(p)
    BY <1>6, Splits
  <2>2. PICK c : c = Cardinality(Cuts(p))
    OBVIOUS
  <2>3. /\ c \in Nat /\ c >= 2 /\ Len(b) = c - 1 /\ Cut(p)[1] = 0
    BY <1>6, <2>1, <2>2, CutsListed, Splits
  <2>4. 1 \in 1..(c - 1) /\ 1 \in 1..Len(b)
    BY <2>3
  <2>5. PICK s : s = b[1]
    OBVIOUS
  <2>6. \A i \in 1..Len(s) : s[i] = p[0 + i] /\ s[i] # "/"
    <3>1. 1 \in 1..(Cardinality(Cuts(p)) - 1)
      BY <2>2, <2>4
    <3>2. \A i \in 1..Len(Split(p)[1]) : /\ Split(p)[1][i] = p[Cut(p)[1] + i]
                                         /\ Split(p)[1][i] # "/"
      BY <1>6, <3>1, Splits
    <3> QED BY <2>1, <2>3, <2>5, <3>2
  <2>7. Segment(s)
    <3>1. PICK x \in Nat : x = Len(a)
      BY <2>1
    <3>2. Split(path) = a \o b
      BY <1>10, <2>1
    <3>3. PICK S : S = Text
      OBVIOUS
    <3>4. a \in Seq(S) /\ b \in Seq(S)
      BY <2>1, <3>3
    <3>5. x + 1 \in 1..Len(a \o b) /\ (a \o b)[x + 1] = b[1]
      BY <2>4, <3>1, <3>4
    <3> QED BY <2>5, <3>2, <3>5 DEF Clean
  <2>8. 1 \in 1..Len(s) /\ 0 + 1 = 1
    BY <2>7 DEF Segment, Text
  <2>9. s[1] = p[0 + 1] /\ s[1] # "/"
    BY <2>6, <2>8
  <2> QED BY <2>8, <2>9
<1>14. p[Len(p)] # "/"
  <2>1. n - m - 1 \in 1..(n - m - 1) /\ m + 1 + (n - m - 1) = n
    BY <1>5
  <2>2. p[n - m - 1] = path[m + 1 + (n - m - 1)]
    BY <1>6, <2>1
  <2> QED BY <1>4, <1>6, <2>1, <2>2
<1> QED BY <1>0, <1>6, <1>10, <1>12, <1>13, <1>14 DEF Trimmed

\* No query starts in a request target.
Unqueried(uri) == \A i \in DOMAIN uri : uri[i] # [char |-> "?", layers |-> 0]

LEMMA UnqueriedConcat ==
    ASSUME NEW a \in Target, Unqueried(a), NEW b \in Target, Unqueried(b)
    PROVE  a \o b \in Target /\ Unqueried(a \o b)
<1>1. PICK S : S = [char: Letter, layers: Nat]
  OBVIOUS
<1>2. a \in Seq(S) /\ b \in Seq(S)
  BY <1>1 DEF Target
<1>3. PICK m \in Nat, n \in Nat : m = Len(a) /\ n = Len(b)
  BY <1>2
<1>4. PICK u : u = a \o b
  OBVIOUS
<1>5. /\ u \in Seq(S) /\ Len(u) = m + n /\ \A i \in 1..m : u[i] = a[i]
      /\ \A i \in 1..n : u[m + i] = b[i]
  BY <1>2, <1>3, <1>4
<1>6. DOMAIN u = 1..(m + n) /\ DOMAIN a = 1..m /\ DOMAIN b = 1..n
  BY <1>2, <1>3, <1>5
<1>7. PICK x : x = [char |-> "?", layers |-> 0]
  OBVIOUS
<1>8. (\A i \in 1..m : a[i] # x) /\ (\A i \in 1..n : b[i] # x)
  BY <1>6, <1>7 DEF Unqueried
<1>9. ASSUME NEW i \in 1..(m + n) PROVE u[i] # x
  <2>1. i \in 1..m \/ (i - m \in 1..n /\ m + (i - m) = i)
    OBVIOUS
  <2>2. CASE i \in 1..m
    BY <1>5, <1>8, <2>2
  <2>3. CASE i - m \in 1..n /\ m + (i - m) = i
    <3>1. PICK h \in 1..n : m + h = i
      BY <2>3
    <3> QED BY <1>5, <1>8, <3>1
  <2> QED BY <2>1, <2>2, <2>3
<1> QED BY <1>1, <1>4, <1>5, <1>6, <1>7, <1>9 DEF Unqueried, Target

LEMMA UriUnqueried ==
    ASSUME NEW base \in Text, \A i \in DOMAIN base : base[i] # "?", NEW p \in Text
    PROVE  BeforeQuery(UpstreamUri(base, p)) = UpstreamUri(base, p)
<1>1. PICK x : x = [char |-> "?", layers |-> 0]
  OBVIOUS
<1>2. x.char = "?" /\ x.layers = 0
  BY <1>1
<1>3. PICK o, b, e, z : /\ o = <<Slash>> /\ b = Plain(base) /\ e = EncodePathSegments(p)
                        /\ z = <<>>
  OBVIOUS
<1>4. o \in Target /\ b \in Target /\ e \in Target /\ z \in Target
  BY <1>3, SeenText, EmptySeq DEF Target
<1>5. Unqueried(o)
  <2>1. DOMAIN o = {1} /\ o[1] = Slash
    BY <1>3
  <2>2. Slash.char = "/"
    BY DEF Slash
  <2>3. o[1] # x
    BY <1>2, <2>1, <2>2
  <2> QED BY <1>1, <2>1, <2>3 DEF Unqueried
<1>6. Unqueried(b)
  <2>1. ASSUME NEW i \in DOMAIN b PROVE b[i] # x
    <3>1. DOMAIN b = DOMAIN base /\ b[i] = [char |-> base[i], layers |-> 0]
      BY <1>3 DEF Plain
    <3>2. b[i].char = base[i] /\ base[i] # "?"
      BY <3>1
    <3> QED BY <1>2, <3>2
  <2> QED BY <1>1, <2>1 DEF Unqueried
<1>7. Unqueried(e)
  <2>1. ASSUME NEW i \in DOMAIN e PROVE e[i] # x
    <3>1. e[i] = [char |-> p[i], layers |-> IF p[i] \in Encoded THEN 1 ELSE 0]
      BY <1>3 DEF EncodePathSegments
    <3>2. e[i].char = p[i] /\ e[i].layers = IF p[i] \in Encoded THEN 1 ELSE 0
      BY <3>1
    <3>3. CASE p[i] = "?"
      <4>1. e[i].layers = 1
        BY <3>2, <3>3 DEF Encoded
      <4> QED BY <1>2, <4>1
    <3>4. CASE p[i] # "?"
      BY <1>2, <3>2, <3>4
    <3> QED BY <3>3, <3>4
  <2> QED BY <1>1, <2>1 DEF Unqueried
<1>8. Unqueried(z)
  BY <1>3 DEF Unqueried
<1>9. PICK front, back : /\ front = (IF base = <<>> THEN z ELSE o \o b)
                         /\ back = (IF p = <<>> /\ base # <<>> THEN z ELSE o \o e)
  OBVIOUS
<1>10. front \in Target /\ Unqueried(front)
  <2>1. o \o b \in Target /\ Unqueried(o \o b)
    BY <1>4, <1>5, <1>6, UnqueriedConcat
  <2> QED BY <1>4, <1>8, <1>9, <2>1
<1>11. back \in Target /\ Unqueried(back)
  <2>1. o \o e \in Target /\ Unqueried(o \o e)
    BY <1>4, <1>5, <1>7, UnqueriedConcat
  <2> QED BY <1>4, <1>8, <1>9, <2>1
<1>12. PICK uri : uri = front \o back
  OBVIOUS
<1>13. Unqueried(uri)
  BY <1>10, <1>11, <1>12, UnqueriedConcat
<1>14. UpstreamUri(base, p) = uri
  BY <1>3, <1>9, <1>12 DEF UpstreamUri
<1>15. BeforeQuery(uri) = uri
  <2>1. {i \in DOMAIN uri : uri[i] = [char |-> "?", layers |-> 0]} = {}
    BY <1>13 DEF Unqueried
  <2> QED BY <2>1 DEF BeforeQuery
<1> QED BY <1>14, <1>15

\* A path below a base.
Landing(base, p) ==
    IF base = <<>> THEN p ELSE IF p = <<>> THEN base ELSE base \o <<"/">> \o p

LEMMA LandingTrimmed ==
    ASSUME NEW base \in Text, Trimmed(base), NEW p \in Text, Trimmed(p)
    PROVE  Landing(base, p) \in Text /\ Trimmed(Landing(base, p))
<1>1. CASE base # <<>> /\ p # <<>>
  <2>1. base \o <<"/">> \o p \in Text /\ Trimmed(base \o <<"/">> \o p)
    BY <1>1, TrimmedSlashed
  <2> QED BY <1>1, <2>1 DEF Landing
<1>2. CASE base = <<>> \/ p = <<>>
  BY <1>2 DEF Landing
<1> QED BY <1>1, <1>2

\* The upstream sees it.
LEMMA LandingSeen ==
    ASSUME NEW base \in Text, Trimmed(base), NEW p \in Text, Trimmed(p)
    PROVE  Trim(Seen(UpstreamUri(base, p))) = Landing(base, p)
<1>1. PICK t : t = Landing(base, p)
  OBVIOUS
<1>2. t \in Text /\ Trimmed(t)
  BY <1>1, LandingTrimmed
<1>3. PICK o \in Seq(Letter), b \in Seq(Letter), c \in Seq(Letter) :
         o = <<"/">> /\ b = base /\ c = p
  <2>1. "/" \in Letter
    BY DEF Letter
  <2>2. <<"/">> \in Seq(Letter)
    BY <2>1
  <2> QED BY <2>2 DEF Text
<1>4. Seen(UpstreamUri(base, p)) =
         (IF b = <<>> THEN <<>> ELSE o \o b) \o
         (IF c = <<>> /\ b # <<>> THEN <<>> ELSE o \o c)
  BY <1>3, SeenUri
<1>5. Seen(UpstreamUri(base, p)) = o \o t
  <2>1. CASE b = <<>>
    <3>1. <<>> \o (o \o c) = o \o c
      <4>1. o \o c \in Seq(Letter)
        OBVIOUS
      <4> QED BY <4>1, ConcatEmptySeq
    <3>2. t = c
      BY <1>1, <1>3, <2>1 DEF Landing
    <3> QED BY <1>4, <2>1, <3>1, <3>2
  <2>2. CASE b # <<>> /\ c = <<>>
    <3>1. (o \o b) \o <<>> = o \o b
      <4>1. o \o b \in Seq(Letter)
        OBVIOUS
      <4> QED BY <4>1, ConcatEmptySeq
    <3>2. t = b
      BY <1>1, <1>3, <2>2 DEF Landing
    <3> QED BY <1>4, <2>2, <3>1, <3>2
  <2>3. CASE b # <<>> /\ c # <<>>
    <3>1. t = (b \o o) \o c
      BY <1>1, <1>3, <2>3 DEF Landing
    <3>2. (o \o b) \o (o \o c) = o \o ((b \o o) \o c)
      <4>1. o \o c \in Seq(Letter)
        OBVIOUS
      <4>2. (o \o b) \o (o \o c) = o \o (b \o (o \o c))
        BY <4>1, ConcatAssociative
      <4>3. (b \o o) \o c = b \o (o \o c)
        BY ConcatAssociative
      <4> QED BY <4>2, <4>3
    <3> QED BY <1>4, <2>3, <3>1, <3>2
  <2> QED BY <2>1, <2>2, <2>3
<1>6. Trim(<<"/">> \o t) = t
  BY <1>2, TrimSlash
<1> QED BY <1>1, <1>3, <1>5, <1>6

\* Its segments are those of the base and those of the path.
LEMMA LandingJoined ==
    ASSUME NEW base \in Text, Trimmed(base), NEW p \in Text, Trimmed(p), NEW rest,
           rest = IF p = <<>> THEN <<>> ELSE Split(p)
    PROVE  Trim(Join(Split(base) \o rest)) = Landing(base, p)
<1>1. PICK a \in Seq(Text), b \in Seq(Text) : a = Split(base) /\ b = Split(p)
  BY Splits
<1>2. PICK t \in Text : t = Landing(base, p) /\ Trimmed(t)
  BY LandingTrimmed
<1>3. Trim(t) = t
  BY <1>2, Trims
<1>4. Join(Split(base) \o rest) = t
  <2>1. CASE p = <<>>
    <3>1. a \o rest = a
      BY <2>1, ConcatEmptySeq
    <3>2. Join(a) = base
      BY <1>1, JoinSplit
    <3>3. t = base
      BY <1>2, <2>1 DEF Landing
    <3> QED BY <1>1, <3>1, <3>2, <3>3
  <2>2. CASE p # <<>> /\ base = <<>>
    <3>1. a = << <<>> >>
      <4>1. \A i \in 1..Len(base) : base[i] # "/"
        BY <2>2
      <4>2. Split(base) = <<base>>
        BY <4>1, SplitOne
      <4> QED BY <1>1, <2>2, <4>2
    <3>2. Join(<< <<>> >> \o b) = Join(b)
      BY JoinLead
    <3>3. Join(b) = p
      BY <1>1, JoinSplit
    <3>4. t = p
      BY <1>2, <2>2 DEF Landing
    <3> QED BY <1>1, <2>2, <3>1, <3>2, <3>3, <3>4
  <2>3. CASE p # <<>> /\ base # <<>>
    <3>1. t = base \o <<"/">> \o p
      BY <1>2, <2>3 DEF Landing
    <3>2. Split(base \o <<"/">> \o p) = Split(base) \o Split(p)
      BY SplitSlashed
    <3>3. Split(t) = Split(base) \o rest
      BY <2>3, <3>1, <3>2
    <3>4. Join(Split(t)) = t
      BY <1>2, JoinSplit
    <3> QED BY <3>3, <3>4
  <2> QED BY <2>1, <2>2, <2>3
<1> QED BY <1>2, <1>3, <1>4

\* Only the base can add a dot segment.
LEMMA LandingClean ==
    ASSUME NEW base \in Text, NEW p \in Text,
           p # <<>> => \A k \in 1..Len(Split(p)) : Split(p)[k] \notin Dots
    PROVE  ToSet(Split(Landing(base, p))) \cap Dots \subseteq ToSet(Split(base))
<1>1. PICK a \in Seq(Text), b \in Seq(Text) : a = Split(base) /\ b = Split(p)
  BY Splits
<1>2. p # <<>> => ToSet(b) \cap Dots = {}
  BY <1>1 DEF ToSet
<1>3. CASE p = <<>>
  <2>1. Landing(base, p) = base
    BY <1>3 DEF Landing
  <2> QED BY <2>1
<1>4. CASE p # <<>> /\ base = <<>>
  <2>1. Landing(base, p) = p
    BY <1>4 DEF Landing
  <2> QED BY <1>1, <1>2, <1>4, <2>1
<1>5. CASE p # <<>> /\ base # <<>>
  <2>1. Landing(base, p) = base \o <<"/">> \o p
    BY <1>5 DEF Landing
  <2>2. Split(base \o <<"/">> \o p) = Split(base) \o Split(p)
    BY SplitSlashed
  <2>3. ASSUME NEW s \in ToSet(a \o b) PROVE s \in ToSet(a) \/ s \in ToSet(b)
    <3>1. PICK S : S = Text
      OBVIOUS
    <3>2. PICK m \in Nat, n \in Nat : m = Len(a) /\ n = Len(b)
      OBVIOUS
    <3>3. a \in Seq(S) /\ b \in Seq(S)
      BY <3>1
    <3>4. /\ DOMAIN a = 1..m /\ DOMAIN b = 1..n /\ DOMAIN (a \o b) = 1..(m + n)
          /\ \A i \in 1..m : (a \o b)[i] = a[i]
          /\ \A i \in 1..n : (a \o b)[m + i] = b[i]
      BY <3>2, <3>3
    <3>5. PICK i \in 1..(m + n) : s = (a \o b)[i]
      BY <2>3, <3>4 DEF ToSet
    <3>6. i \in 1..m \/ (i - m \in 1..n /\ m + (i - m) = i)
      OBVIOUS
    <3>7. CASE i \in 1..m
      BY <3>4, <3>5, <3>7 DEF ToSet
    <3>8. CASE i - m \in 1..n /\ m + (i - m) = i
      <4>1. PICK h \in 1..n : m + h = i
        BY <3>8
      <4>2. s = b[h]
        BY <3>4, <3>5, <4>1
      <4> QED BY <3>4, <4>2 DEF ToSet
    <3> QED BY <3>6, <3>7, <3>8
  <2>4. Split(Landing(base, p)) = a \o b
    BY <1>1, <2>1, <2>2
  <2> QED BY <1>1, <1>2, <1>5, <2>3, <2>4
<1> QED BY <1>3, <1>4, <1>5

(***************************************************************************)
(* The file, its tables, the answer of the gateway and what a tool says.   *)
(***************************************************************************)
FileServed ==
    file # None => /\ file \in Files /\ ValidTable(BuildWith(file))
                   /\ tables = Loaded(file)
AnswerServed ==
    asked # None \/ served # None =>
        /\ file # None /\ asked \in Queries
        /\ asked.listener = "internal" => InternalListen
        /\ served = Gateway(tables, asked)
ToldTrue ==
    told # None =>
        /\ file # None
        /\ \/ /\ asked # None
              /\ told = [tool |-> "test", says |-> Decide(tables, asked)]
           \/ /\ asked # None
              /\ told = [tool |-> "explain", says |-> Explain(tables, asked)]
           \/ \E g \in Revisions :
                 /\ ValidTable(BuildWith(g))
                 /\ told = [tool |-> "diff", with |-> g,
                            quiet |-> Unchanged(BuildWith(file), BuildWith(g))]
RulesInv == FileServed /\ AnswerServed /\ ToldTrue

LEMMA RulesInvRight == RulesInv => RightRoute
<1> SUFFICES ASSUME RulesInv, served # None,
                    served.result \notin {"health", "outside_mount", "unsafe_path", "denied"}
             PROVE  IF Candidates = {} THEN served.result = "no_route"
                    ELSE /\ served.result = "route"
                         /\ \E i \in Candidates :
                               LET r == file.routes[i]
                               IN  /\ \A j \in Candidates \ {i} : Outranks(r, file.routes[j])
                                   /\ served.route.auth = r.auth
                                   /\ served.route.hosts = r.hosts
                                   /\ served.route.prefix = Trim(r.prefix)
                                   /\ served.route.upstream = r.upstream
  BY DEF RightRoute
<1>1. /\ file \in Files /\ ValidTable(BuildWith(file)) /\ asked \in Queries
      /\ served = Gateway(Loaded(file), asked)
  BY DEF RulesInv, FileServed, AnswerServed
<1>2. served.result \notin Unmatched
  BY DEF Unmatched
<1>3. Right(file, asked.listener, Matched, HostOf(asked), asked.method, served)
  BY <1>1, <1>2, GatewayRight DEF Matched
<1>4. Candidates = Eligible(file, asked.listener, Matched, HostOf(asked), asked.method)
  BY DEF Candidates, Eligible, HostOf, HeaderHost, ServedOn, MethodsOf
<1> QED BY <1>3, <1>4 DEF Right

LEMMA RulesInvTools == RulesInv => OfflineToolsAgree
<1> SUFFICES ASSUME RulesInv, told # None PROVE OfflineToolsAgree
  BY DEF OfflineToolsAgree, TestAgrees, ExplainAgrees, DiffAgrees
<1>1. file \in Files /\ ValidTable(BuildWith(file)) /\ tables = Loaded(file)
  BY DEF RulesInv, FileServed, ToldTrue
<1>2. CASE /\ asked # None
           /\ told = [tool |-> "test", says |-> Decide(tables, asked)]
  <2>1. /\ told.tool # "explain" /\ told.tool # "diff"
        /\ told.says = Decide(Loaded(file), asked)
    BY <1>1, <1>2
  <2>2. asked \in Queries /\ served = Gateway(Loaded(file), asked)
    BY <1>1, <1>2 DEF RulesInv, AnswerServed
  <2>3. ASSUME served.result # "health" PROVE SaysWhatWasServed
    <3>1. Agrees(told.says, served)
      BY <1>1, <2>1, <2>2, <2>3, TestSays
    <3> QED BY <3>1 DEF Agrees, SaysWhatWasServed
  <2> QED BY <2>1, <2>3 DEF OfflineToolsAgree, TestAgrees, ExplainAgrees, DiffAgrees
<1>3. CASE /\ asked # None
           /\ told = [tool |-> "explain", says |-> Explain(tables, asked)]
  <2>1. /\ told.tool # "test" /\ told.tool # "diff"
        /\ told.says = Explain(Loaded(file), asked)
    BY <1>1, <1>3
  <2>2. /\ asked \in Queries /\ served = Gateway(Loaded(file), asked)
        /\ asked.listener = "internal" => InternalListen
    BY <1>1, <1>3 DEF RulesInv, AnswerServed
  <2>3. Agrees(told.says, served)
    BY <1>1, <2>1, <2>2, ExplainSays
  <2>4. SaysWhatWasServed
    BY <2>3 DEF Agrees, SaysWhatWasServed
  <2> QED BY <2>1, <2>4 DEF OfflineToolsAgree, TestAgrees, ExplainAgrees, DiffAgrees
<1>4. ASSUME NEW g \in Revisions, ValidTable(BuildWith(g)),
             told = [tool |-> "diff", with |-> g,
                     quiet |-> Unchanged(BuildWith(file), BuildWith(g))]
      PROVE  OfflineToolsAgree
  <2>1. told.tool # "test" /\ told.tool # "explain" /\ told.with = g
    BY <1>4
  <2>2. told.quiet = Unchanged(BuildWith(file), BuildWith(g))
    BY <1>4
  <2>3. g \in Files
    BY RulesConfig
  <2>4. ASSUME told.quiet, NEW q \in Queries
        PROVE  SameAnswer(Gateway(tables, q), Gateway(Loaded(told.with), q))
    BY <1>1, <1>4, <2>1, <2>2, <2>3, <2>4, DiffSays
  <2>5. DiffAgrees
    BY <2>4 DEF DiffAgrees, SameAnswer
  <2> QED BY <2>1, <2>5 DEF OfflineToolsAgree, TestAgrees, ExplainAgrees
<1> QED BY <1>2, <1>3, <1>4 DEF RulesInv, ToldTrue

LEMMA RulesStep == RulesInv /\ [RulesNext]_rulesVars => RulesInv'
<1> SUFFICES ASSUME RulesInv, [RulesNext]_rulesVars PROVE RulesInv'
  OBVIOUS
<1> USE DEF RulesInv, FileServed, AnswerServed, ToldTrue
<1>1. ASSUME NEW f \in Files, Boot(f) PROVE RulesInv'
  <2>1. served = None /\ asked = None /\ told = None
    BY <1>1 DEF Boot
  <2> QED BY <1>1, <2>1 DEF Boot
<1>2. ASSUME NEW q \in Queries, Serve(q) PROVE RulesInv'
  BY <1>2 DEF Serve
<1>3. CASE RunTest
  BY <1>3 DEF RunTest
<1>4. CASE RunExplain
  BY <1>4 DEF RunExplain
<1>5. ASSUME NEW h \in Revisions, RunDiff(h) PROVE RulesInv'
  <2>1. file # None /\ asked = None /\ asked' = None
    BY <1>5, RulesConfig DEF RunDiff
  <2>2. ToldTrue'
    BY <1>5, <2>1 DEF RunDiff
  <2> QED BY <1>5, <2>2 DEF RunDiff
<1>6. CASE Done
  BY <1>6 DEF Done
<1>7. CASE UNCHANGED rulesVars
  BY <1>7 DEF rulesVars
<1> QED BY <1>1, <1>2, <1>3, <1>4, <1>5, <1>6, <1>7 DEF RulesNext

LEMMA RulesStart == RulesInit => RulesInv
  BY DEF RulesInit, RulesInv, FileServed, AnswerServed, ToldTrue

(***************************************************************************)
(* RightRoute: the claims of validate_routes and of the README about which *)
(* route a request gets.  Whatever file was accepted and whichever way the *)
(* table is looked up, the answer is the one candidate that outranks every *)
(* other, and no route only if there is no candidate.                      *)
(***************************************************************************)
THEOREM RequestsGetTheRightRoute == RulesSpec => []RightRoute
  BY RulesStart, RulesStep, RulesInvRight, PTL DEF RulesSpec

(***************************************************************************)
(* OfflineToolsAgree: "they cannot disagree".  Mounts are stripped alike,  *)
(* both look a path up in the same table, and if the report of diff is     *)
(* empty each row has a twin: the first rows that match a request are      *)
(* twins too, because which of two rows comes first is decided by what     *)
(* the report shows of them.                                               *)
(***************************************************************************)
THEOREM ToolsSayWhatHappens == RulesSpec => []OfflineToolsAgree
  BY RulesStart, RulesStep, RulesInvTools, PTL DEF RulesSpec

\* What is forwarded of a matched path is its segments after the cut.
LEMMA Forwards ==
    ASSUME NEW path \in Text, Trimmed(path), path # <<>>, Clean(path),
           NEW r, r.prefix \in Text, UnderPrefix(path, r.prefix),
           NEW p, p = UpstreamPath(r, path),
           NEW cut, cut = IF r.strip_prefix THEN Len(Split(r.prefix)) ELSE 0
    PROVE  /\ p \in Text /\ Trimmed(p)
           /\ SubSeq(Split(path), cut + 1, Len(Split(path)))
                 = IF p = <<>> THEN <<>> ELSE Split(p)
           /\ p # <<>> => \A k \in 1..Len(Split(p)) : Split(p)[k] \notin Dots
<1>1. PICK S, prefix : S = Text /\ prefix = r.prefix /\ prefix \in Text
  OBVIOUS
<1>2. PICK whole, a : whole = Split(path) /\ a = Split(prefix)
  OBVIOUS
<1>3. whole \in Seq(S) /\ a \in Seq(S)
  BY <1>1, <1>2, Splits
<1>4. PICK n \in Nat, m \in Nat : n = Len(path) /\ m = Len(prefix)
  BY <1>1 DEF Text
<1>5. m <= n /\ \A i \in 1..m : path[i] = prefix[i]
  BY <1>1, <1>4, UnderIs
<1>6. CASE ~r.strip_prefix
  <2>1. p = path /\ cut = 0
    BY <1>6 DEF UpstreamPath
  <2>2. SubSeq(whole, 1, Len(whole)) = whole
    BY <1>3, SubSeqFull
  <2>3. cut + 1 = 1
    BY <2>1
  <2> QED BY <1>2, <2>1, <2>2, <2>3 DEF Clean
<1>7. CASE r.strip_prefix /\ m < n
  <2>1. p = Rest(path, prefix) /\ cut = Len(a)
    BY <1>1, <1>2, <1>7 DEF UpstreamPath, Rest
  <2>2. /\ p \in Text /\ p # <<>> /\ Trimmed(p)
        /\ Split(path) = Split(prefix) \o Split(p)
    <3>1. UnderPrefix(path, prefix) /\ Len(path) > Len(prefix)
      BY <1>1, <1>4, <1>7
    <3>2. prefix \in Text
      BY <1>1
    <3>3. /\ Rest(path, prefix) \in Text /\ Rest(path, prefix) # <<>>
          /\ Trimmed(Rest(path, prefix))
          /\ Split(path) = Split(prefix) \o Split(Rest(path, prefix))
      BY <3>1, <3>2, RestOf
    <3> QED BY <2>1, <3>3
  <2>3. PICK b : b = Split(p)
    OBVIOUS
  <2>4. b \in Seq(S) /\ Len(b) >= 1
    <3>1. PICK c : c = Cardinality(Cuts(p))
      OBVIOUS
    <3>2. c \in Nat /\ c >= 2
      BY <2>2, <3>1, CutsListed
    <3>3. Split(p) \in Seq(Text) /\ Len(Split(p)) = c - 1
      BY <2>2, <3>1, Splits
    <3> QED BY <1>1, <2>3, <3>2, <3>3
  <2>5. PICK x \in Nat, y \in Nat : x = Len(a) /\ y = Len(b) /\ y >= 1
    BY <1>3, <2>4
  <2>6. whole = a \o b
    BY <1>2, <2>2, <2>3
  <2>7. Len(whole) = x + y /\ \A k \in 1..y : whole[x + k] = b[k]
    BY <1>3, <2>4, <2>5, <2>6
  <2>8. SubSeq(whole, x + 1, x + y) = b
    <3>1. x + 1 \in (Len(a) + 1)..(Len(a) + Len(b)) /\ x + y \in (Len(a) + 1)..(Len(a) + Len(b))
      BY <2>5
    <3>2. SubSeq(a \o b, x + 1, x + y) = SubSeq(b, x + 1 - Len(a), x + y - Len(a))
      BY <1>3, <2>4, <3>1, SubSeqOfConcat2
    <3>3. x + 1 - Len(a) = 1 /\ x + y - Len(a) = Len(b)
      BY <2>5
    <3>4. SubSeq(b, 1, Len(b)) = b
      BY <2>4, SubSeqFull
    <3> QED BY <2>6, <3>2, <3>3, <3>4
  <2>9. ASSUME NEW k \in 1..y PROVE b[k] \notin Dots
    <3>1. x + k \in 1..Len(whole)
      BY <2>7
    <3> QED BY <1>2, <2>7, <3>1 DEF Clean
  <2> QED BY <1>2, <2>1, <2>2, <2>3, <2>5, <2>7, <2>8, <2>9
<1>8. CASE r.strip_prefix /\ ~(m < n)
  <2>1. m = n
    BY <1>4, <1>5, <1>8
  <2>2. path = prefix
    BY <1>1, <1>4, <1>5, <2>1, SameText
  <2>3. p = SubSeq(path, n + 2, n) /\ cut = Len(whole)
    BY <1>1, <1>2, <1>4, <1>8, <2>1, <2>2 DEF UpstreamPath
  <2>4. SubSeq(path, n + 2, n) = <<>>
    BY <1>4, SubSeqEmpty
  <2>5. PICK x \in Nat : x = Len(whole)
    BY <1>3
  <2>6. SubSeq(whole, x + 1, x) = <<>>
    BY <2>5, SubSeqEmpty
  <2>7. <<>> \in Text /\ Trimmed(<<>>)
    BY EmptySeq, Zenon DEF Text, Trimmed
  <2> QED BY <1>2, <2>3, <2>4, <2>5, <2>6, <2>7
<1> QED BY <1>4, <1>6, <1>7, <1>8

\* A request that is forwarded.
Routed(f, q, path, g) ==
    /\ path \in Text /\ Trimmed(path) /\ path # <<>> /\ Clean(path)
    /\ g.route.prefix \in Text /\ UnderPrefix(path, g.route.prefix)
    /\ g.route.upstream \in Upstreams
    /\ g.path = UpstreamUri(BasePath[g.route.upstream], UpstreamPath(g.route, path))
    /\ q.listener = "public" =>
          ~ \E d \in f.internal : UnderPrefixIgnoreCase(path, Trim(d))

LEMMA GatewayRoutes ==
    ASSUME NEW f \in Files, ValidTable(BuildWith(f)), NEW q \in Queries, NEW g,
           g = Gateway(Loaded(f), q), g.result = "route"
    PROVE  Routed(f, q, Canonicalize(StripBase(q.path)), g)
<1>1. PICK l \in Listeners : l = q.listener
  BY RulesConfig
<1>2. PICK table : table = OnListener(BuildWith(f), l)
  OBVIOUS
<1>3. Loaded(f)[l] = table
  BY <1>2 DEF Loaded
<1>4. PICK raw, path : raw = StripBase(q.path) /\ path = Canonicalize(raw)
  OBVIOUS
<1>5. q.path # Plain(HealthPath) /\ raw # None
  <2>1. ASSUME q.path = Plain(HealthPath) PROVE FALSE
    BY <2>1 DEF Gateway, Refused
  <2>2. ASSUME raw = None, q.path # Plain(HealthPath) PROVE FALSE
    BY <1>4, <2>2 DEF Gateway, Refused
  <2> QED BY <2>1, <2>2
<1>6. g = Allow(table, q, path)
  BY <1>1, <1>3, <1>4, <1>5 DEF Gateway
<1>7. path # None /\ ~IsDenied(table, path)
  BY <1>6 DEF Allow, Refused
<1>8. g = Forward(q, path, MatchRequest(table, q.host, path, q.method))
  BY <1>6, <1>7 DEF Allow
<1>9. path \in Text /\ Trimmed(path)
  BY <1>4, <1>5, <1>7, PathTyped
<1>10. PICK T, n, at, hits, x : Chosen(f, q, path, T, n, at, hits, x)
  BY <1>9, ChosenIs
<1>11. g = Forward(q, path, RowAt(T, x))
  BY <1>1, <1>2, <1>8, <1>10 DEF Chosen
<1>12. x # 0
  <2>1. ASSUME x = 0 PROVE FALSE
    <3>1. g = Refused("no_route")
      BY <1>11, <2>1 DEF Forward, RowAt
    <3> QED BY <3>1 DEF Refused
  <2> QED BY <2>1
<1>13. x \in 1..n /\ x \in Hits(T, path, HostOf(q), q.method)
  BY <1>10, <1>12 DEF Chosen
<1>14. PICK m : m = T[x]
  OBVIOUS
<1>15. /\ m # None /\ m.upstream \in Upstreams /\ (m.auth = "machine" => MachineSecret)
       /\ m.prefix \in Text /\ m.prefix # <<>>
  <2>1. Rows(f, q.listener, T, n, at) /\ Sound(T, n)
        /\ \A k \in 1..n : /\ T[k] # None /\ T[k].upstream \in Upstreams
                           /\ T[k].auth = "machine" => MachineSecret
    BY <1>10 DEF Chosen
  <2>2. m.prefix \in Text
    BY <1>13, <1>14, <2>1 DEF Rows, From
  <2>3. m.prefix # <<>>
    BY <1>13, <1>14, <2>1 DEF Sound, ValidRoute
  <2> QED BY <1>13, <1>14, <2>1, <2>2, <2>3
<1>16. UnderPrefix(path, m.prefix)
  BY <1>13, <1>14 DEF Hits
<1>17. /\ g.route = m
       /\ g.path = UpstreamUri(BasePath[m.upstream], UpstreamPath(m, path))
  <2>1. g = Forward(q, path, m)
    BY <1>11, <1>12, <1>14 DEF RowAt
  <2>2. g = [result |-> "route", route |-> m,
             path |-> UpstreamUri(BasePath[m.upstream], UpstreamPath(m, path)),
             key |-> KeyOn(q.listener, m, path)]
    BY <1>15, <2>1, RowForwarded
  <2> QED BY <2>2
<1>18. path # <<>>
  <2>1. Len(m.prefix) <= Len(path)
    BY <1>9, <1>15, <1>16, UnderIs
  <2>2. Len(m.prefix) \in Nat /\ Len(m.prefix) > 0
    BY <1>15 DEF Text
  <2>3. ASSUME path = <<>> PROVE FALSE
    <3>1. Len(path) = 0
      BY <2>3
    <3> QED BY <2>1, <2>2, <3>1
  <2> QED BY <2>3
<1>19. Clean(path)
  <2>1. q.path \in Seq(Raw)
    BY RulesConfig
  <2>2. raw \in Seq(Raw)
    BY <1>4, <1>5, <2>1, StripTyped
  <2> QED BY <1>4, <1>7, <1>18, <2>2, CanonicalClean
<1>20. ASSUME q.listener = "public", NEW d \in f.internal, UnderPrefixIgnoreCase(path, Trim(d))
       PROVE  FALSE
  <2>1. f.routes \in Seq(RouteInput)
    BY RulesConfig
  <2>2. table.deny = BuildWith(f).deny
    <3>1. OnListener(BuildWith(f), l).deny = DenyOn(BuildWith(f).deny, l)
      BY <2>1, Portions
    <3> QED BY <1>1, <1>2, <1>20, <3>1 DEF DenyOn
  <2>3. Trim(d) \in BuildWith(f).deny
    BY DEF BuildWith
  <2>4. Trim(path) = path
    BY <1>9, Trims
  <2> QED BY <1>7, <1>20, <2>2, <2>3, <2>4 DEF IsDenied
<1> QED BY <1>4, <1>9, <1>15, <1>16, <1>17, <1>18, <1>19, <1>20 DEF Routed

LEMMA RulesInvSeen == RulesInv => UpstreamSeesMatched
<1> SUFFICES ASSUME RulesInv, served # None, served.result = "route"
             PROVE  UpstreamSeesMatched
  BY DEF UpstreamSeesMatched
<1>1. /\ file \in Files /\ ValidTable(BuildWith(file)) /\ asked \in Queries
      /\ served = Gateway(Loaded(file), asked)
  BY DEF RulesInv, FileServed, AnswerServed
<1>2. PICK path, r : path = Matched /\ r = served.route
  OBVIOUS
<1>3. Routed(file, asked, path, served)
  BY <1>1, <1>2, GatewayRoutes DEF Matched
<1>4. PICK base, p : base = BasePath[r.upstream] /\ p = UpstreamPath(r, path)
  OBVIOUS
<1>5. base \in Text /\ Trimmed(base) /\ \A i \in DOMAIN base : base[i] # "?"
  <2>1. r.upstream \in Upstreams
    BY <1>2, <1>3 DEF Routed
  <2>2. base \in Text
    BY <1>4, <2>1, BaseTyped
  <2>3. Trim(base) = base /\ \A i \in DOMAIN base : base[i] # "?"
    BY <1>4, <2>1, RulesConfig
  <2>4. Trimmed(Trim(base))
    BY <2>2, Trims
  <2> QED BY <2>2, <2>3, <2>4
<1>6. PICK cut, rest :
         /\ cut = IF r.strip_prefix THEN Len(Split(r.prefix)) ELSE 0
         /\ rest = SubSeq(Split(path), cut + 1, Len(Split(path)))
  OBVIOUS
<1>7. /\ p \in Text /\ Trimmed(p)
      /\ rest = IF p = <<>> THEN <<>> ELSE Split(p)
      /\ p # <<>> => \A k \in 1..Len(Split(p)) : Split(p)[k] \notin Dots
  <2>1. /\ path \in Text /\ Trimmed(path) /\ path # <<>> /\ Clean(path)
        /\ r.prefix \in Text /\ UnderPrefix(path, r.prefix)
    BY <1>2, <1>3 DEF Routed
  <2> QED BY <1>4, <1>6, <2>1, Forwards
<1>8. PICK seen : seen = Split(Trim(Seen(BeforeQuery(served.path))))
  OBVIOUS
<1>9. seen = Split(Landing(base, p))
  <2>1. served.path = UpstreamUri(base, p)
    BY <1>2, <1>3, <1>4 DEF Routed
  <2>2. BeforeQuery(UpstreamUri(base, p)) = UpstreamUri(base, p)
    BY <1>5, <1>7, UriUnqueried
  <2>3. Trim(Seen(UpstreamUri(base, p))) = Landing(base, p)
    BY <1>5, <1>7, LandingSeen
  <2> QED BY <1>8, <2>1, <2>2, <2>3
<1>10. seen = Split(Trim(Join(Split(base) \o rest)))
  BY <1>5, <1>7, <1>9, LandingJoined
<1>11. ToSet(seen) \cap Dots \subseteq ToSet(Split(base))
  BY <1>5, <1>7, <1>9, LandingClean
<1>12. asked.listener = "public" =>
          ~ \E d \in file.internal : UnderPrefixIgnoreCase(path, Trim(d))
  BY <1>3 DEF Routed
<1> QED BY <1>2, <1>4, <1>6, <1>8, <1>10, <1>11, <1>12 DEF UpstreamSeesMatched

(***************************************************************************)
(* UpstreamSeesMatched: path.rs says that what was matched is what the     *)
(* upstream resolves.  Splitting and joining undo each other on canonical  *)
(* paths, so a path below a base has the segments of the base and then its *)
(* own, and what follows a prefix is a canonical path again.               *)
(***************************************************************************)
THEOREM UpstreamsSeeWhatWasMatched == RulesSpec => []UpstreamSeesMatched
  BY RulesStart, RulesStep, RulesInvSeen, PTL DEF RulesSpec

=============================================================================
