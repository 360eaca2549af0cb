---------------------------- MODULE CountingProofs ----------------------------
(***************************************************************************)
(* Proofs about what the gateway counts, for any number of tasks and keys: *)
(* the bytes of the fills (CacheStorage) and the requests of a rate limit  *)
(* (Limiter).  They share the lemmas on sums over finite sets.             *)
(***************************************************************************)
EXTENDS CacheStorage, Limiter, Sequences, FiniteSetTheorems, WellFoundedInduction, TLAPS

-----------------------------------------------------------------------------
(***************************************************************************)
(* Sums over finite sets, by induction on the size of the set.             *)
(***************************************************************************)

\* Of the numbers that are not good, if there are any, one comes first.
LEMMA FirstBad ==
    ASSUME NEW Good \in SUBSET Nat,
           \A n \in Nat : (\A m \in Nat : m < n => m \in Good) => n \in Good
    PROVE  Good = Nat
<1> SUFFICES ASSUME Nat \ Good # {} PROVE FALSE
  OBVIOUS
<1>1. PICK n \in Nat \ Good : \A m \in Nat \ Good : ~(<<m, n>> \in OpToRel(<, Nat))
  BY NatLessThanWellFounded, WFMin
<1>2. \A m \in Nat : m < n => m \in Good
  BY <1>1 DEF OpToRel
<1> QED BY <1>2

\* The library's sum over a set takes the chosen element first.
Pick(s) == CHOOSE x \in s : TRUE
Step(b, S, g) ==
    [s \in SUBSET S |-> IF s = {} THEN 0 ELSE b[Pick(s)] + g[s \ {Pick(s)}]]
Sums(b, S) == CHOOSE g : g = Step(b, S, g)

\* The element taken is one of the set, and leaves a smaller one.
LEMMA PickLeaves ==
    ASSUME NEW S, IsFiniteSet(S), NEW s \in SUBSET S, s # {}
    PROVE  /\ Pick(s) \in s
           /\ s \ {Pick(s)} \in SUBSET S
           /\ Cardinality(s) \in Nat
           /\ Cardinality(s \ {Pick(s)}) \in Nat
           /\ Cardinality(s \ {Pick(s)}) < Cardinality(s)
<1>1. Pick(s) \in s
  BY DEF Pick
<1>2. IsFiniteSet(s) /\ IsFiniteSet(s \ {Pick(s)})
  BY FS_Subset
<1>3. Cardinality(s) \in Nat /\ Cardinality(s \ {Pick(s)}) \in Nat
  BY <1>2, FS_CardinalityType
<1>4. Cardinality(s \ {Pick(s)}) = Cardinality(s) - 1
  BY <1>1, <1>2, FS_RemoveElement
<1> QED BY <1>1, <1>3, <1>4

\* There are such sums: up to any size, by the sums of smaller sets.
LEMMA SumsExist ==
    ASSUME NEW S, IsFiniteSet(S), NEW b
    PROVE  \E g : g = Step(b, S, g)
<1> DEFINE Upto(n, g) == \A s \in SUBSET S : Cardinality(s) <= n => g[s] = Step(b, S, g)[s]
           Good == {n \in Nat : \E g : Upto(n, g)}
<1>1. \A s \in SUBSET S : Cardinality(s) \in Nat
  BY FS_Subset, FS_CardinalityType
<1>2. ASSUME NEW n \in Nat, \A m \in Nat : m < n => m \in Good PROVE n \in Good
  <2>1. CASE n = 0
    <3> DEFINE zero == [s \in SUBSET S |-> 0]
    <3>1. ASSUME NEW s \in SUBSET S, Cardinality(s) <= n PROVE zero[s] = Step(b, S, zero)[s]
      <4>1. s = {}
        BY <1>1, <2>1, <3>1, FS_EmptySet, FS_Subset
      <4> QED BY <4>1 DEF Step
    <3> QED BY <3>1
  <2>2. CASE n # 0
    <3>1. n - 1 \in Nat /\ n - 1 < n
      BY <2>2
    <3>2. PICK g : Upto(n - 1, g)
      BY <1>2, <3>1
    <3> DEFINE h == Step(b, S, g)
    <3>3. ASSUME NEW s \in SUBSET S, Cardinality(s) <= n PROVE h[s] = Step(b, S, h)[s]
      <4>1. CASE s = {}
        BY <4>1 DEF Step
      <4>2. CASE s # {}
        <5>1. /\ s \ {Pick(s)} \in SUBSET S /\ Cardinality(s \ {Pick(s)}) <= n - 1
          BY <1>1, <3>3, <4>2, PickLeaves
        <5>2. h[s \ {Pick(s)}] = g[s \ {Pick(s)}]
          BY <3>2, <5>1
        <5>3. h[s] = b[Pick(s)] + g[s \ {Pick(s)}]
          BY <4>2 DEF Step
        <5>4. Step(b, S, h)[s] = b[Pick(s)] + h[s \ {Pick(s)}]
          BY <4>2, Zenon DEF Step
        <5> QED BY <5>2, <5>3, <5>4, Zenon
      <4> QED BY <4>1, <4>2
    <3> HIDE DEF h
    <3>4. Upto(n, h)
      BY <3>3
    <3> QED BY <3>4
  <2> QED BY <2>1, <2>2
<1>3. Good = Nat
  <2> HIDE DEF Good
  <2>1. Good \in SUBSET Nat
    BY DEF Good
  <2> QED BY <1>2, <2>1, FirstBad
<1>4. Cardinality(S) \in Nat
  BY <1>1
<1>5. PICK g : Upto(Cardinality(S), g)
  BY <1>3, <1>4
<1>6. \A s \in SUBSET S : g[s] = Step(b, S, g)[s]
  BY <1>1, <1>5, FS_Subset
<1> DEFINE h == Step(b, S, g)
<1>7. ASSUME NEW s \in SUBSET S PROVE h[s] = Step(b, S, h)[s]
  <2>1. CASE s = {}
    BY <2>1 DEF Step
  <2>2. CASE s # {}
    <3>1. h[s \ {Pick(s)}] = g[s \ {Pick(s)}]
      BY <1>6, Zenon
    <3>2. h[s] = b[Pick(s)] + g[s \ {Pick(s)}]
      BY <2>2, Zenon DEF Step
    <3>3. Step(b, S, h)[s] = b[Pick(s)] + h[s \ {Pick(s)}]
      BY <2>2, Zenon DEF Step
    <3> QED BY <3>1, <3>2, <3>3, Zenon
  <2> QED BY <2>1, <2>2
<1>8. h = Step(b, S, h)
  <2>1. h = [s \in SUBSET S |-> h[s]]
    BY DEF Step
  <2>2. Step(b, S, h) = [s \in SUBSET S |-> Step(b, S, h)[s]]
    BY DEF Step
  <2> HIDE DEF h
  <2> QED BY <1>7, <2>1, <2>2, Zenon
<1> HIDE DEF h
<1> QED BY <1>8

\* So the sum of a set is its chosen element's number and the sum of the rest.
LEMMA SumsStep ==
    ASSUME NEW S, IsFiniteSet(S), NEW b
    PROVE  /\ Sums(b, S)[{}] = 0
           /\ \A s \in SUBSET S : s # {} =>
                 Sums(b, S)[s] = b[Pick(s)] + Sums(b, S)[s \ {Pick(s)}]
<1>1. Sums(b, S) = Step(b, S, Sums(b, S))
  BY SumsExist DEF Sums
<1>2. \A s \in SUBSET S : Sums(b, S)[s] = Step(b, S, Sums(b, S))[s]
  BY <1>1
<1> QED BY <1>2, Zenon DEF Step

\* Sums of numbers are numbers.
LEMMA SumsTyped ==
    ASSUME NEW S, IsFiniteSet(S), NEW b \in [S -> Nat]
    PROVE  \A s \in SUBSET S : Sums(b, S)[s] \in Nat
<1> DEFINE Good == {n \in Nat : \A s \in SUBSET S : Cardinality(s) = n => Sums(b, S)[s] \in Nat}
<1>1. ASSUME NEW n \in Nat, \A m \in Nat : m < n => m \in Good PROVE n \in Good
  <2>1. ASSUME NEW s \in SUBSET S, Cardinality(s) = n PROVE Sums(b, S)[s] \in Nat
    <3>1. CASE s = {}
      BY <3>1, SumsStep
    <3>2. CASE s # {}
      <4>1. Sums(b, S)[s \ {Pick(s)}] \in Nat
        BY <1>1, <2>1, <3>2, PickLeaves
      <4>2. b[Pick(s)] \in Nat
        BY <3>2, PickLeaves
      <4> QED BY <3>2, <4>1, <4>2, SumsStep
    <3> QED BY <3>1, <3>2
  <2> QED BY <2>1
<1>2. Good = Nat
  <2> HIDE DEF Good
  <2>1. Good \in SUBSET Nat
    BY DEF Good
  <2> QED BY <1>1, <2>1, FirstBad
<1>3. \A s \in SUBSET S : Cardinality(s) \in Nat
  BY FS_Subset, FS_CardinalityType
<1> QED BY <1>2, <1>3

\* When one number changes, so does the sum.
LEMMA SumsUpdate ==
    ASSUME NEW S, IsFiniteSet(S), NEW b \in [S -> Nat], NEW x \in S, NEW v \in Nat,
           NEW c \in [S -> Nat], \A y \in S : c[y] = IF y = x THEN v ELSE b[y]
    PROVE  \A s \in SUBSET S :
              Sums(c, S)[s] = Sums(b, S)[s] + (IF x \in s THEN v - b[x] ELSE 0)
<1>b. \A u \in SUBSET S : u # {} =>
         Sums(b, S)[u] = b[Pick(u)] + Sums(b, S)[u \ {Pick(u)}]
  BY SumsStep
<1>c. \A u \in SUBSET S : u # {} =>
         Sums(c, S)[u] = c[Pick(u)] + Sums(c, S)[u \ {Pick(u)}]
  BY SumsStep
<1> DEFINE Change(s) == Sums(c, S)[s] = Sums(b, S)[s] + (IF x \in s THEN v - b[x] ELSE 0)
           Good == {n \in Nat : \A s \in SUBSET S : Cardinality(s) = n => Change(s)}
<1>1. ASSUME NEW n \in Nat, \A m \in Nat : m < n => m \in Good PROVE n \in Good
  <2>1. ASSUME NEW s \in SUBSET S, Cardinality(s) = n PROVE Change(s)
    <3>1. CASE s = {}
      BY <3>1, SumsStep
    <3>2. CASE s # {}
      <4> DEFINE p == Pick(s)
                 t == s \ {p}
      <4>0. /\ p \in s /\ t \in SUBSET S /\ Cardinality(t) \in Nat
            /\ Cardinality(t) < Cardinality(s)
        BY <3>2, PickLeaves
      <4>1. p \in s /\ t \in SUBSET S /\ Change(t)
        BY <1>1, <2>1, <4>0
      <4>2. Sums(b, S)[s] = b[p] + Sums(b, S)[t] /\ Sums(c, S)[s] = c[p] + Sums(c, S)[t]
        BY <1>b, <1>c, <3>2, Zenon
      <4>3. Sums(b, S)[t] \in Nat /\ Sums(c, S)[t] \in Nat /\ b[p] \in Nat /\ b[x] \in Nat
        BY <4>1, SumsTyped
      <4>4. (x \in s <=> x \in t \/ x = p) /\ (x = p => x \notin t)
        BY <4>1
      <4>5. c[p] = IF x = p THEN v ELSE b[p]
        BY <4>1
      <4>6. CASE x = p
        <5>1. Sums(c, S)[t] = Sums(b, S)[t] + 0 /\ c[p] = v /\ b[p] = b[x] /\ x \in s
          BY <4>1, <4>4, <4>5, <4>6, Zenon
        <5> HIDE DEF p, t
        <5> QED BY <4>2, <4>3, <5>1
      <4>7. CASE x # p
        <5>1. Sums(c, S)[t] = Sums(b, S)[t] + (IF x \in s THEN v - b[x] ELSE 0) /\ c[p] = b[p]
          BY <4>1, <4>4, <4>5, <4>7, Zenon
        <5> HIDE DEF p, t
        <5> QED BY <4>2, <4>3, <5>1
      <4> QED BY <4>6, <4>7
    <3> QED BY <3>1, <3>2
  <2> QED BY <2>1
<1>2. Good = Nat
  <2> HIDE DEF Good
  <2>1. Good \in SUBSET Nat
    BY DEF Good
  <2> QED BY <1>1, <2>1, FirstBad
<1>3. \A s \in SUBSET S : Cardinality(s) \in Nat
  BY FS_Subset, FS_CardinalityType
<1> QED BY <1>2, <1>3

\* Nothing but zeros sums up to zero.
LEMMA SumsOfNothing ==
    ASSUME NEW S, IsFiniteSet(S), NEW b, \A x \in S : b[x] = 0
    PROVE  Sums(b, S)[S] = 0
<1> DEFINE Good == {n \in Nat : \A s \in SUBSET S : Cardinality(s) = n => Sums(b, S)[s] = 0}
<1>1. ASSUME NEW n \in Nat, \A m \in Nat : m < n => m \in Good PROVE n \in Good
  <2>1. ASSUME NEW s \in SUBSET S, Cardinality(s) = n PROVE Sums(b, S)[s] = 0
    <3>1. CASE s = {}
      BY <3>1, SumsStep
    <3>2. CASE s # {}
      <4>1. /\ Pick(s) \in S /\ s \ {Pick(s)} \in SUBSET S
            /\ Cardinality(s \ {Pick(s)}) \in Nat /\ Cardinality(s \ {Pick(s)}) < n
        BY <2>1, <3>2, PickLeaves
      <4>2. Sums(b, S)[s \ {Pick(s)}] = 0
        BY <1>1, <4>1
      <4>3. b[Pick(s)] = 0
        BY <4>1
      <4>4. Sums(b, S)[s] = b[Pick(s)] + Sums(b, S)[s \ {Pick(s)}]
        BY <3>2, SumsStep
      <4> QED BY <4>2, <4>3, <4>4
    <3> QED BY <3>1, <3>2
  <2> QED BY <2>1
<1>2. Good = Nat
  <2> HIDE DEF Good
  <2>1. Good \in SUBSET Nat
    BY DEF Good
  <2> QED BY <1>1, <2>1, FirstBad
<1> QED BY <1>2, FS_CardinalityType

\* So it is for the sum of them all.
LEMMA SumsMove ==
    ASSUME NEW S, IsFiniteSet(S), NEW b \in [S -> Nat], NEW x \in S, NEW v \in Nat,
           NEW c \in [S -> Nat], \A y \in S : c[y] = IF y = x THEN v ELSE b[y]
    PROVE  /\ Sums(c, S)[S] = Sums(b, S)[S] + v - b[x]
           /\ Sums(b, S)[S] \in Nat
<1>1. \A s \in SUBSET S : Sums(c, S)[s] = Sums(b, S)[s] + (IF x \in s THEN v - b[x] ELSE 0)
  BY SumsUpdate
<1>2. Sums(b, S)[S] \in Nat /\ b[x] \in Nat
  BY SumsTyped
<1> QED BY <1>1, <1>2

\* Larger numbers have larger sums.
LEMMA SumsPointwise ==
    ASSUME NEW S, IsFiniteSet(S), NEW b \in [S -> Nat], NEW c \in [S -> Nat],
           \A x \in S : b[x] <= c[x]
    PROVE  \A s \in SUBSET S : Sums(b, S)[s] <= Sums(c, S)[s]
<1> DEFINE Less(s) == Sums(b, S)[s] <= Sums(c, S)[s]
           Good == {n \in Nat : \A s \in SUBSET S : Cardinality(s) = n => Less(s)}
<1>1. ASSUME NEW n \in Nat, \A m \in Nat : m < n => m \in Good PROVE n \in Good
  <2>1. ASSUME NEW s \in SUBSET S, Cardinality(s) = n PROVE Less(s)
    <3>1. CASE s = {}
      BY <3>1, SumsStep
    <3>2. CASE s # {}
      <4> DEFINE p == Pick(s)
                 t == s \ {p}
      <4>1. /\ p \in S /\ t \in SUBSET S
            /\ Cardinality(t) \in Nat /\ Cardinality(t) < n
        BY <2>1, <3>2, PickLeaves
      <4>2. Less(t)
        BY <1>1, <4>1
      <4>3. Sums(b, S)[s] = b[p] + Sums(b, S)[t] /\ Sums(c, S)[s] = c[p] + Sums(c, S)[t]
        BY <3>2, SumsStep
      <4>4. Sums(b, S)[t] \in Nat /\ Sums(c, S)[t] \in Nat
        BY <4>1, SumsTyped
      <4>5. b[p] \in Nat /\ c[p] \in Nat /\ b[p] <= c[p]
        BY <4>1
      <4> HIDE DEF p, t
      <4> QED BY <4>2, <4>3, <4>4, <4>5
    <3> QED BY <3>1, <3>2
  <2> QED BY <2>1
<1>2. Good = Nat
  <2> HIDE DEF Good
  <2>1. Good \in SUBSET Nat
    BY DEF Good
  <2> QED BY <1>1, <2>1, FirstBad
<1>3. \A s \in SUBSET S : Cardinality(s) \in Nat
  BY FS_Subset, FS_CardinalityType
<1> QED BY <1>2, <1>3

\* Any element may be taken first.
LEMMA SumsRemove ==
    ASSUME NEW S, IsFiniteSet(S), NEW b \in [S -> Nat]
    PROVE  \A s \in SUBSET S : \A x \in s :
              Sums(b, S)[s] = b[x] + Sums(b, S)[s \ {x}]
<1> DEFINE Takes(s) == \A x \in s : Sums(b, S)[s] = b[x] + Sums(b, S)[s \ {x}]
           Good == {n \in Nat : \A s \in SUBSET S : Cardinality(s) = n => Takes(s)}
<1>1. ASSUME NEW n \in Nat, \A m \in Nat : m < n => m \in Good PROVE n \in Good
  <2>1. ASSUME NEW s \in SUBSET S, Cardinality(s) = n, NEW x \in s
        PROVE  Sums(b, S)[s] = b[x] + Sums(b, S)[s \ {x}]
    <3> DEFINE p == Pick(s)
               t == s \ {p}
               u == s \ {x}
               v == t \ {x}
    <3>1. /\ p \in s /\ t \in SUBSET S /\ Cardinality(t) \in Nat /\ Cardinality(t) < n
          /\ Sums(b, S)[s] = b[p] + Sums(b, S)[t]
      <4>1. s # {} /\ Cardinality(s) = n
        BY <2>1
      <4> QED BY <4>1, PickLeaves, SumsStep
    <3>2. CASE x = p
      BY <3>1, <3>2
    <3>3. CASE x # p
      <4>1. x \in t /\ p \in u /\ u \in SUBSET S /\ v = u \ {p} /\ v \in SUBSET S
        BY <3>1, <3>3
      <4>2. IsFiniteSet(s) /\ IsFiniteSet(u)
        BY FS_Subset
      <4>3. Cardinality(u) \in Nat /\ Cardinality(u) < n
        <5>1. Cardinality(u) = Cardinality(s) - 1
          BY <4>2, FS_RemoveElement
        <5> QED BY <2>1, <4>2, <5>1, FS_CardinalityType
      <4>4. Takes(t) /\ Takes(u)
        BY <1>1, <3>1, <4>1, <4>3
      <4>5. Sums(b, S)[t] = b[x] + Sums(b, S)[v] /\ Sums(b, S)[u] = b[p] + Sums(b, S)[v]
        BY <4>1, <4>4
      <4>6. b[x] \in Nat /\ b[p] \in Nat /\ Sums(b, S)[v] \in Nat
        BY <3>1, <4>1, SumsTyped
      <4> HIDE DEF p, t, u, v
      <4>7. Sums(b, S)[s] = b[x] + Sums(b, S)[u]
        BY <3>1, <4>5, <4>6
      <4> QED BY <4>7 DEF u
    <3> QED BY <3>2, <3>3
  <2> QED BY <2>1
<1>2. Good = Nat
  <2> HIDE DEF Good
  <2>1. Good \in SUBSET Nat
    BY DEF Good
  <2> QED BY <1>1, <2>1, FirstBad
<1>3. \A s \in SUBSET S : Cardinality(s) \in Nat
  BY FS_Subset, FS_CardinalityType
<1> QED BY <1>2, <1>3

\* A part sums up to no more than the whole.
LEMMA SumsWithin ==
    ASSUME NEW S, IsFiniteSet(S), NEW b \in [S -> Nat], NEW s \in SUBSET S
    PROVE  \A t \in SUBSET S : s \subseteq t => Sums(b, S)[s] <= Sums(b, S)[t]
<1> DEFINE Less(t) == s \subseteq t => Sums(b, S)[s] <= Sums(b, S)[t]
           Good == {n \in Nat : \A t \in SUBSET S : Cardinality(t) = n => Less(t)}
<1>1. ASSUME NEW n \in Nat, \A m \in Nat : m < n => m \in Good PROVE n \in Good
  <2>1. ASSUME NEW t \in SUBSET S, Cardinality(t) = n, s \subseteq t
        PROVE  Sums(b, S)[s] <= Sums(b, S)[t]
    <3>1. CASE s = t
      BY <3>1, SumsTyped
    <3>2. CASE s # t
      <4>1. PICK x \in t : x \notin s
        BY <2>1, <3>2
      <4> DEFINE u == t \ {x}
      <4>2. IsFiniteSet(t) /\ IsFiniteSet(u) /\ u \in SUBSET S /\ s \subseteq u
        BY <2>1, <4>1, FS_Subset
      <4>3. Cardinality(u) \in Nat /\ Cardinality(u) < n
        <5>1. Cardinality(u) = Cardinality(t) - 1
          BY <4>2, FS_RemoveElement
        <5> QED BY <2>1, <4>2, <5>1, FS_CardinalityType
      <4>4. Sums(b, S)[s] <= Sums(b, S)[u]
        BY <1>1, <4>2, <4>3
      <4>5. Sums(b, S)[t] = b[x] + Sums(b, S)[u]
        BY <4>1, SumsRemove
      <4>6. b[x] \in Nat /\ Sums(b, S)[u] \in Nat /\ Sums(b, S)[s] \in Nat
        BY <4>2, SumsTyped
      <4> HIDE DEF u
      <4> QED BY <4>4, <4>5, <4>6
    <3> QED BY <3>1, <3>2
  <2> QED BY <2>1
<1>2. Good = Nat
  <2> HIDE DEF Good
  <2>1. Good \in SUBSET Nat
    BY DEF Good
  <2> QED BY <1>1, <2>1, FirstBad
<1>3. \A t \in SUBSET S : Cardinality(t) \in Nat
  BY FS_Subset, FS_CardinalityType
<1> QED BY <1>2, <1>3

\* The sums of two disjoint parts add up.
LEMMA SumsSplit ==
    ASSUME NEW S, IsFiniteSet(S), NEW b \in [S -> Nat], NEW s \in SUBSET S
    PROVE  \A t \in SUBSET S : s \cap t = {} =>
              Sums(b, S)[s \cup t] = Sums(b, S)[s] + Sums(b, S)[t]
<1> DEFINE Adds(t) == s \cap t = {} =>
                         Sums(b, S)[s \cup t] = Sums(b, S)[s] + Sums(b, S)[t]
           Good == {n \in Nat : \A t \in SUBSET S : Cardinality(t) = n => Adds(t)}
<1>1. ASSUME NEW n \in Nat, \A m \in Nat : m < n => m \in Good PROVE n \in Good
  <2>1. ASSUME NEW t \in SUBSET S, Cardinality(t) = n, s \cap t = {}
        PROVE  Sums(b, S)[s \cup t] = Sums(b, S)[s] + Sums(b, S)[t]
    <3>1. CASE t = {}
      <4>1. s \cup t = s /\ Sums(b, S)[t] = 0 /\ Sums(b, S)[s] \in Nat
        BY <3>1, SumsStep, SumsTyped
      <4> QED BY <4>1
    <3>2. CASE t # {}
      <4>1. PICK x \in t : TRUE
        BY <3>2
      <4> DEFINE u == t \ {x}
                 v == s \cup u
      <4>2. /\ u \in SUBSET S /\ s \cap u = {} /\ v \in SUBSET S
            /\ s \cup t \in SUBSET S /\ x \in s \cup t /\ v = (s \cup t) \ {x}
        BY <2>1, <4>1
      <4>3. IsFiniteSet(t) /\ IsFiniteSet(u)
        BY FS_Subset
      <4>4. Cardinality(u) \in Nat /\ Cardinality(u) < n
        <5>1. Cardinality(u) = Cardinality(t) - 1
          BY <4>1, <4>3, FS_RemoveElement
        <5> QED BY <2>1, <4>3, <5>1, FS_CardinalityType
      <4>5. Sums(b, S)[v] = Sums(b, S)[s] + Sums(b, S)[u]
        BY <1>1, <4>2, <4>4
      <4>6. Sums(b, S)[t] = b[x] + Sums(b, S)[u]
        BY <4>1, SumsRemove
      <4>7. Sums(b, S)[s \cup t] = b[x] + Sums(b, S)[(s \cup t) \ {x}]
        BY <4>2, SumsRemove
      <4>8. b[x] \in Nat /\ Sums(b, S)[u] \in Nat /\ Sums(b, S)[s] \in Nat
        BY <4>1, <4>2, SumsTyped
      <4>9. Sums(b, S)[s \cup t] = b[x] + Sums(b, S)[v]
        BY <4>2, <4>7, Zenon
      <4> HIDE DEF u, v
      <4> QED BY <4>5, <4>6, <4>8, <4>9
    <3> QED BY <3>1, <3>2
  <2> QED BY <2>1
<1>2. Good = Nat
  <2> HIDE DEF Good
  <2>1. Good \in SUBSET Nat
    BY DEF Good
  <2> QED BY <1>1, <2>1, FirstBad
<1>3. \A t \in SUBSET S : Cardinality(t) \in Nat
  BY FS_Subset, FS_CardinalityType
<1> QED BY <1>2, <1>3

\* A sum does not depend on the set it is seen in.
LEMMA SumsLocal ==
    ASSUME NEW S, IsFiniteSet(S), NEW b, NEW T \in SUBSET S
    PROVE  \A s \in SUBSET T : Sums(b, T)[s] = Sums(b, S)[s]
<1>t. IsFiniteSet(T)
  BY FS_Subset
<1> DEFINE Same(s) == Sums(b, T)[s] = Sums(b, S)[s]
           Good == {n \in Nat : \A s \in SUBSET T : Cardinality(s) = n => Same(s)}
<1>1. ASSUME NEW n \in Nat, \A m \in Nat : m < n => m \in Good PROVE n \in Good
  <2>1. ASSUME NEW s \in SUBSET T, Cardinality(s) = n PROVE Same(s)
    <3>1. CASE s = {}
      BY <1>t, <3>1, SumsStep
    <3>2. CASE s # {}
      <4>1. /\ s \ {Pick(s)} \in SUBSET T /\ Cardinality(s \ {Pick(s)}) \in Nat
            /\ Cardinality(s \ {Pick(s)}) < n
        BY <1>t, <2>1, <3>2, PickLeaves
      <4>2. Same(s \ {Pick(s)})
        BY <1>1, <4>1
      <4>3. Sums(b, S)[s] = b[Pick(s)] + Sums(b, S)[s \ {Pick(s)}]
        BY <3>2, SumsStep
      <4>4. Sums(b, T)[s] = b[Pick(s)] + Sums(b, T)[s \ {Pick(s)}]
        BY <1>t, <3>2, SumsStep
      <4> QED BY <4>2, <4>3, <4>4
    <3> QED BY <3>1, <3>2
  <2> QED BY <2>1
<1>2. Good = Nat
  <2> HIDE DEF Good
  <2>1. Good \in SUBSET Nat
    BY DEF Good
  <2> QED BY <1>1, <2>1, FirstBad
<1>3. \A s \in SUBSET T : Cardinality(s) \in Nat
  BY <1>t, FS_Subset, FS_CardinalityType
<1> QED BY <1>2, <1>3

-----------------------------------------------------------------------------
(***************************************************************************)
(* The storage: the byte counter is the sum of the buffers, and a fill     *)
(* that was not abandoned holds everything that arrived.                   *)
(***************************************************************************)

(* TypeOK, but for the sign of the counter. *)
Types ==
    /\ filling \in Int
    /\ entries \in [Keys -> {None} \cup Entry]
    /\ updating \in [Revalidations -> {None} \cup Revalidation]
    /\ pc \in [Fills -> {"none", "open", "reserve", "abandon",
                         "publish", "drop"}]
    /\ key \in [Fills -> Keys]
    /\ body \in [Fills -> Nat]
    /\ tooLarge \in [Fills -> BOOLEAN]
    /\ chunk \in [Fills -> Nat]
    /\ expected \in [Fills -> Nat]
    /\ arrived \in [Fills -> Nat]

(* What a fill that was not abandoned holds. *)
NothingMissing ==
    \A f \in Fills :
        /\ pc[f] = "open" /\ ~tooLarge[f] => body[f] = arrived[f]
        /\ pc[f] = "reserve" => body[f] + chunk[f] = arrived[f] /\ ~tooLarge[f]
        /\ pc[f] = "publish" => chunk[f] = expected[f]

\* What a revalidation that has called update_meta is about to store again is the
\* whole body of a response, under the header it looked up unless overtaken.
UpdatesWhole ==
    \A r \in Revalidations :
        updating[r] # None /\ updating[r].existing # None =>
            LET found == updating[r].existing IN
            /\ found.body = found.expected
            /\ ~found.overtaken => found.header = found.expected
            /\ ~updating[r].overtaken => found.header = updating[r].header

\* Until it calls, the entry is the one it looked up, or gone, unless overtaken.
LookupsCurrent ==
    \A r \in Revalidations :
        updating[r] # None /\ updating[r].existing = None /\ ~updating[r].overtaken =>
            LET entry == entries[updating[r].key] IN
            entry # None => entry.header = updating[r].header

\* What every step of a fill preserves.
IInv == Types /\ FillBudgetHolds /\ NothingMissing /\ UpdatesWhole /\ LookupsCurrent
              /\ CompleteObjectsOnly /\ PairsAreOfOneResponse

\* The store starts empty.
LEMMA InitInv == Init => IInv
  BY CacheConfig
  DEF Init, IInv, Types, FillBudgetHolds, NothingMissing, UpdatesWhole, LookupsCurrent,
      CompleteObjectsOnly, PairsAreOfOneResponse, Entry

\* A fill's own steps.
LEMMA FillStep ==
    ASSUME NEW f \in Fills, IInv,
           \/ Open(f) \/ WriteBody(f) \/ Reserve(f) \/ Abandon(f)
           \/ Finish(f) \/ Cancel(f) \/ Drop(f)
    PROVE  IInv'
<1> USE CacheConfig DEF IInv, Types
<1>1. entries' = entries /\ updating' = updating
  BY DEF Open, WriteBody, Reserve, Abandon, Finish, Cancel, Drop
<1>2. /\ CompleteObjectsOnly' /\ PairsAreOfOneResponse'
      /\ UpdatesWhole' /\ LookupsCurrent'
  BY <1>1 DEF CompleteObjectsOnly, PairsAreOfOneResponse, UpdatesWhole, LookupsCurrent
<1>3. CASE Open(f)
  <2>1. Types'
    BY <1>3, <1>1 DEF Open
  <2>2. FillBudgetHolds' /\ NothingMissing'
    BY <1>3 DEF Open, FillBudgetHolds, NothingMissing
  <2> QED
    BY <2>1, <2>2, <1>2
<1>4. CASE WriteBody(f)
  <2>1. PICK n \in Chunks :
           /\ arrived' = [arrived EXCEPT ![f] = @ + n]
           /\ chunk' = [chunk EXCEPT ![f] = IF tooLarge[f] THEN 0 ELSE n]
           /\ pc' = [pc EXCEPT ![f] =
                  IF tooLarge[f] THEN "open"
                  ELSE IF body[f] + n > MaxObject THEN "abandon"
                  ELSE "reserve"]
    BY <1>4 DEF WriteBody
  <2>2. n \in Nat /\ pc[f] = "open"
    BY <1>4 DEF WriteBody
  <2>3. Types'
    BY <1>4, <1>1, <2>1, <2>2 DEF WriteBody
  <2>4. NothingMissing'
    BY <1>4, <2>1, <2>2 DEF WriteBody, NothingMissing
  <2> QED
    BY <1>4, <2>3, <2>4, <1>2 DEF WriteBody, FillBudgetHolds
<1>5. CASE Reserve(f)
  <2>1. Types'
    BY <1>5, <1>1 DEF Reserve
  <2>2. FillBudgetHolds'
    BY <1>5 DEF Reserve, FillBudgetHolds
  <2>3. NothingMissing'
    BY <1>5 DEF Reserve, NothingMissing
  <2> QED
    BY <2>1, <2>2, <2>3, <1>2
<1>6. CASE Abandon(f)
  <2>1. Types'
    BY <1>6, <1>1 DEF Abandon
  <2>2. FillBudgetHolds' /\ NothingMissing'
    BY <1>6 DEF Abandon, FillBudgetHolds, NothingMissing
  <2> QED
    BY <2>1, <2>2, <1>2
<1>7. CASE Finish(f)
  <2>1. Types'
    BY <1>7, <1>1 DEF Finish
  <2>2. FillBudgetHolds' /\ NothingMissing'
    BY <1>7 DEF Finish, FillBudgetHolds, NothingMissing
  <2> QED
    BY <2>1, <2>2, <1>2
<1>8. CASE Cancel(f)
  BY <1>8, <1>2 DEF Cancel, FillBudgetHolds, NothingMissing
<1>9. CASE Drop(f)
  <2>1. Types'
    BY <1>9, <1>1 DEF Drop
  <2>2. FillBudgetHolds' /\ NothingMissing'
    BY <1>9 DEF Drop, FillBudgetHolds, NothingMissing
  <2> QED
    BY <2>1, <2>2, <1>2
<1> QED
  BY <1>3, <1>4, <1>5, <1>6, <1>7, <1>8, <1>9

\* What becomes of the revalidations when an entry is replaced.
LEMMA OvertakenIs ==
    ASSUME NEW k \in Keys, Types
    PROVE  /\ Overtaken(k) \in [Revalidations -> {None} \cup Revalidation]
           /\ \A r \in Revalidations :
                 LET u == Overtaken(k)[r] IN
                 \/ u = updating[r] /\ (u = None \/ u.key # k \/ u.existing # None)
                 \/ u # None /\ u.existing = None /\ u.overtaken
<1> SUFFICES ASSUME NEW r \in Revalidations
             PROVE  LET u == Overtaken(k)[r] IN
                    /\ u \in {None} \cup Revalidation
                    /\ \/ u = updating[r] /\ (u = None \/ u.key # k \/ u.existing # None)
                       \/ u # None /\ u.existing = None /\ u.overtaken
  BY DEF Overtaken
<1>1. updating[r] \in {None} \cup Revalidation
  BY DEF Types
<1>2. CASE updating[r] # None /\ updating[r].key = k /\ updating[r].existing = None
  <2>1. [updating[r] EXCEPT !.overtaken = TRUE] \in Revalidation
    BY <1>1, <1>2 DEF Revalidation
  <2>2. [updating[r] EXCEPT !.overtaken = TRUE].existing = None
        /\ [updating[r] EXCEPT !.overtaken = TRUE].overtaken
    BY <1>1, <1>2 DEF Revalidation
  <2>3. Overtaken(k)[r] = [updating[r] EXCEPT !.overtaken = TRUE]
    BY <1>2 DEF Overtaken
  <2> QED BY <2>1, <2>2, <2>3, CacheConfig
<1>3. CASE ~(updating[r] # None /\ updating[r].key = k /\ updating[r].existing = None)
  <2>1. Overtaken(k)[r] = updating[r]
    BY <1>3 DEF Overtaken
  <2> QED BY <1>1, <1>3, <2>1
<1> QED BY <1>2, <1>3

\* An entry that is whole, and paired unless marked, replaces another.
LEMMA ReplaceStep ==
    ASSUME NEW k \in Keys, NEW entry \in Entry, IInv,
           entry.body = entry.expected, ~entry.overtaken => entry.header = entry.expected,
           entries' = [entries EXCEPT ![k] = entry],
           \A r \in Revalidations : updating'[r] = None \/ updating'[r] = Overtaken(k)[r]
    PROVE  UpdatesWhole' /\ LookupsCurrent' /\ CompleteObjectsOnly' /\ PairsAreOfOneResponse'
<1> USE DEF IInv
<1>1. \A l \in Keys : entries'[l] = IF l = k THEN entry ELSE entries[l]
  BY DEF Types
<1>2. CompleteObjectsOnly' /\ PairsAreOfOneResponse'
  BY <1>1 DEF CompleteObjectsOnly, PairsAreOfOneResponse
<1>3. ASSUME NEW r \in Revalidations, updating'[r] # None
      PROVE  \/ /\ updating'[r] = updating[r]
                /\ updating[r].key # k \/ updating[r].existing # None
             \/ updating'[r].existing = None /\ updating'[r].overtaken
  BY <1>3, OvertakenIs
<1>4. UpdatesWhole'
  BY <1>3 DEF UpdatesWhole
<1>5. LookupsCurrent'
  <2> SUFFICES ASSUME NEW r \in Revalidations, updating'[r] # None,
                      updating'[r].existing = None, ~updating'[r].overtaken,
                      entries'[updating'[r].key] # None
               PROVE  entries'[updating'[r].key].header = updating'[r].header
    BY DEF LookupsCurrent
  <2>1. updating'[r] = updating[r] /\ updating[r].key # k
    BY <1>3
  <2>2. updating[r].key \in Keys
    BY <2>1 DEF Types, Revalidation
  <2>3. entries'[updating[r].key] = entries[updating[r].key]
    BY <1>1, <2>1, <2>2
  <2> QED BY <2>1, <2>3 DEF LookupsCurrent
<1> QED BY <1>2, <1>4, <1>5

(* The entry a fill publishes is the body it took, which was all of it. *)
LEMMA PublishStep ==
    ASSUME NEW f \in Fills, IInv, Publish(f) PROVE IInv'
<1> DEFINE entry == [header |-> expected[f], body |-> chunk[f], expected |-> expected[f],
                     overtaken |-> FALSE]
<1>1. /\ key[f] \in Keys /\ chunk[f] = expected[f] /\ chunk[f] \in Nat
      /\ pc[f] = "publish"
  BY DEF Publish, NothingMissing, IInv, Types
<1>2. entry \in Entry /\ entry.body = entry.expected /\ entry.header = entry.expected
  BY <1>1 DEF Entry
<1>3. entries' = [entries EXCEPT ![key[f]] = entry] /\ updating' = Overtaken(key[f])
  BY DEF Publish
<1>4. UpdatesWhole' /\ LookupsCurrent' /\ CompleteObjectsOnly' /\ PairsAreOfOneResponse'
  <2> HIDE DEF entry
  <2> QED BY <1>1, <1>2, <1>3, ReplaceStep
<1>5. updating' \in [Revalidations -> {None} \cup Revalidation]
  BY <1>1, <1>3, OvertakenIs DEF IInv
<1>6. entries' \in [Keys -> {None} \cup Entry]
  <2> HIDE DEF entry
  <2> QED BY <1>2, <1>3 DEF IInv, Types
<1>7. Types'
  BY <1>5, <1>6 DEF Publish, IInv, Types
<1> QED BY <1>1, <1>4, <1>7 DEF IInv, Types, Publish, FillBudgetHolds, NothingMissing

\* What holds of each revalidation in progress.
Tells(u) ==
    /\ u \in {None} \cup Revalidation
    /\ u # None /\ u.existing = None /\ ~u.overtaken /\ entries[u.key] # None =>
          entries[u.key].header = u.header
    /\ u # None /\ u.existing # None =>
          /\ u.existing.body = u.existing.expected
          /\ ~u.existing.overtaken => u.existing.header = u.existing.expected
          /\ ~u.overtaken => u.existing.header = u.header

\* A revalidation looks an entry up, gives up or finds what it will store again.
LEMMA RevalidationStep ==
    ASSUME NEW r \in Revalidations, IInv,
           (\E k \in Keys : LookupStale(r, k)) \/ GiveUp(r) \/ UpdateRead(r)
    PROVE  IInv'
<1> USE DEF IInv
<1>1. /\ UNCHANGED <<filling, entries, pc, key, body, tooLarge, chunk, expected, arrived>>
  BY DEF LookupStale, GiveUp, UpdateRead
<1>2. PICK u : updating' = [updating EXCEPT ![r] = u]
  BY DEF LookupStale, GiveUp, UpdateRead
<1>3. \A q \in Revalidations : updating'[q] = IF q = r THEN u ELSE updating[q]
  BY <1>2 DEF Types
<1>4. Tells(u)
  <2> USE DEF Tells
  <2>1. ASSUME NEW k \in Keys, LookupStale(r, k) PROVE Tells(u)
    <3>1. u = [key |-> k, header |-> entries[k].header, overtaken |-> FALSE,
               existing |-> None]
      BY <1>3, <2>1 DEF LookupStale, Types
    <3>2. entries[k] \in Entry
      BY <2>1 DEF LookupStale, Types
    <3>3. u \in Revalidation
      BY <3>1, <3>2 DEF Entry, Revalidation
    <3> QED BY <3>1, <3>3
  <2>2. CASE GiveUp(r)
    <3>1. u = None
      BY <1>3, <2>2 DEF GiveUp, Types
    <3> QED BY <3>1
  <2>3. CASE UpdateRead(r)
    <3>1. updating[r] \in Revalidation /\ updating[r].key \in Keys
          /\ updating[r].existing = None
      BY <2>3 DEF UpdateRead, Types, Revalidation
    <3>2. CASE entries[updating[r].key] = None
      <4>1. u = None
        BY <1>3, <2>3, <3>2 DEF UpdateRead, Types
      <4> QED BY <4>1
    <3>3. CASE entries[updating[r].key] # None
      <4>1. u = [updating[r] EXCEPT !.existing = entries[updating[r].key]]
        BY <1>3, <2>3, <3>3 DEF UpdateRead, Types
      <4>2. entries[updating[r].key] \in Entry
        BY <3>1, <3>3 DEF Types
      <4>3. u \in Revalidation /\ u.existing = entries[updating[r].key]
            /\ u.overtaken = updating[r].overtaken /\ u.header = updating[r].header
        BY <3>1, <4>1, <4>2 DEF Revalidation
      <4>4. ~updating[r].overtaken =>
               entries[updating[r].key].header = updating[r].header
        BY <2>3, <3>1, <3>3 DEF LookupsCurrent, UpdateRead
      <4> QED BY <3>1, <3>3, <4>3, <4>4 DEF CompleteObjectsOnly, PairsAreOfOneResponse
    <3> QED BY <3>2, <3>3
  <2> QED BY <2>1, <2>2, <2>3
<1>5. Types'
  BY <1>1, <1>2, <1>4 DEF Types, Tells
<1>6. UpdatesWhole' /\ LookupsCurrent'
  BY <1>1, <1>3, <1>4 DEF UpdatesWhole, LookupsCurrent, Tells
<1> QED BY <1>1, <1>5, <1>6 DEF FillBudgetHolds, NothingMissing, CompleteObjectsOnly,
                                PairsAreOfOneResponse

\* The body a revalidation found goes back whole, under its header.
LEMMA UpdateStep ==
    ASSUME NEW r \in Revalidations, IInv, UpdateInsert(r) PROVE IInv'
<1> DEFINE u == updating[r]
           entry == [header |-> u.header, body |-> u.existing.body,
                     expected |-> u.existing.expected,
                     overtaken |-> u.overtaken \/ u.existing.overtaken]
<1>1. /\ u \in Revalidation /\ u.key \in Keys /\ u.existing \in Entry
      /\ u.header \in Nat /\ u.overtaken \in BOOLEAN
  BY DEF UpdateInsert, IInv, Types, Revalidation
<1>2. /\ u.existing.body = u.existing.expected
      /\ ~u.existing.overtaken => u.existing.header = u.existing.expected
      /\ ~u.overtaken => u.existing.header = u.header
  BY DEF UpdateInsert, IInv, UpdatesWhole
<1>3. /\ entry \in Entry /\ entry.body = entry.expected
      /\ ~entry.overtaken => entry.header = entry.expected
  BY <1>1, <1>2 DEF Entry
<1>4. /\ entries' = [entries EXCEPT ![u.key] = entry]
      /\ updating' = [Overtaken(u.key) EXCEPT ![r] = None]
      /\ UNCHANGED <<filling, pc, key, body, tooLarge, chunk, expected, arrived>>
  BY DEF UpdateInsert
<1> HIDE DEF u, entry
<1>5. Overtaken(u.key) \in [Revalidations -> {None} \cup Revalidation]
  BY <1>1, OvertakenIs DEF IInv
<1>6. \A q \in Revalidations : updating'[q] = None \/ updating'[q] = Overtaken(u.key)[q]
  BY <1>4, <1>5
<1>7. UpdatesWhole' /\ LookupsCurrent' /\ CompleteObjectsOnly' /\ PairsAreOfOneResponse'
  BY <1>1, <1>3, <1>4, <1>6, ReplaceStep
<1>8. Types'
  BY <1>1, <1>3, <1>4, <1>5 DEF IInv, Types
<1> QED BY <1>4, <1>7, <1>8 DEF IInv, FillBudgetHolds, NothingMissing

\* Every step of the store keeps the invariant.
LEMMA NextInv == IInv /\ [Next]_vars => IInv'
<1> SUFFICES ASSUME IInv, [Next]_vars PROVE IInv'
  OBVIOUS
<1>1. ASSUME NEW k \in Keys, Purge(k) PROVE IInv'
  BY <1>1 DEF Purge, IInv, Types, FillBudgetHolds, NothingMissing, UpdatesWhole,
              LookupsCurrent, CompleteObjectsOnly, PairsAreOfOneResponse, Revalidation
<1>2. CASE UNCHANGED vars
  BY <1>2 DEF vars, IInv, Types, FillBudgetHolds, NothingMissing, UpdatesWhole,
              LookupsCurrent, CompleteObjectsOnly, PairsAreOfOneResponse
<1> QED
  BY <1>1, <1>2, FillStep, PublishStep, RevalidationStep, UpdateStep DEF Next

\* The invariant holds throughout.
LEMMA Invariance == Spec => []IInv
  BY InitInv, NextInv, PTL DEF Spec

(* MemoryStorage never publishes a part of a response, whatever fills are  *)
(* abandoned, cancelled or race for a key.                                 *)
THEOREM StoredWhole == Spec => []CompleteObjectsOnly
<1>1. IInv => CompleteObjectsOnly
  BY DEF IInv
<1> QED
  BY <1>1, Invariance, PTL

(* A stored header is of the response the stored body is of, unless        *)
(* another write of the key came between the lookup and the update_meta of *)
(* a revalidation that wrote it.                                           *)
THEOREM StoredPairs == Spec => []PairsAreOfOneResponse
<1>1. IInv => PairsAreOfOneResponse
  BY DEF IInv
<1> QED
  BY <1>1, Invariance, PTL

(* `reserve` keeps the buffers of unfinished fills within                  *)
(* max_inflight_fill.                                                      *)
THEOREM WithinFillBudget == Spec => []FillBudgetHolds
<1>1. IInv => FillBudgetHolds
  BY DEF IInv
<1> QED
  BY <1>1, Invariance, PTL

-----------------------------------------------------------------------------
(***************************************************************************)
(* The byte budget                                                         *)
(***************************************************************************)

\* A handler that is not in use has no buffer.
IdleEmpty == \A f \in Fills : pc[f] = "none" => body[f] = 0

\* The counter against the sum, now and after a step.
LEMMA Buffered ==
    /\ FillBytesConserved <=> filling = Sums(body, Fills)[Fills]
    /\ FillBytesConserved' <=> filling' = Sums(body', Fills)[Fills]
BY DEF FillBytesConserved, MapThenSumSet, MapThenFoldSet, Sums, Step, Pick

\* A step that changes one buffer, and the counter by as much.
LEMMA BufferMoves ==
    ASSUME NEW f \in Fills, NEW v \in Nat
    PROVE  Types /\ FillBytesConserved /\ body' = [body EXCEPT ![f] = v]
             /\ filling' = filling + v - body[f] => FillBytesConserved'
<1>1. Types /\ body' = [body EXCEPT ![f] = v] =>
        /\ body \in [Fills -> Nat] /\ body' \in [Fills -> Nat]
        /\ \A g \in Fills : body'[g] = IF g = f THEN v ELSE body[g]
  BY DEF Types
<1>2. body \in [Fills -> Nat] /\ body' \in [Fills -> Nat]
        /\ (\A g \in Fills : body'[g] = IF g = f THEN v ELSE body[g]) =>
          /\ Sums(body', Fills)[Fills] = Sums(body, Fills)[Fills] + v - body[f]
          /\ Sums(body, Fills)[Fills] \in Nat
  BY CacheConfig, SumsMove
<1>3. Types => body[f] \in Nat
  BY DEF Types
<1> QED BY <1>1, <1>2, <1>3, Buffered

\* A step that changes neither.
LEMMA BufferStays ==
    ASSUME FillBytesConserved, body' = body, filling' = filling PROVE FillBytesConserved'
BY Buffered

\* Empty buffers hold nothing.
LEMMA NothingBuffered == Init => FillBytesConserved
<1>1. Init => body \in [Fills -> Nat] /\ \A f \in Fills : body[f] = 0
  BY DEF Init
<1>2. Init => Sums(body, Fills)[Fills] = 0
  BY <1>1, CacheConfig, SumsOfNothing
<1> QED BY <1>2, Buffered DEF Init

\* Every step accounts for what it buffers or gives back.
LEMMA BudgetStep ==
    IInv /\ IdleEmpty /\ FillBytesConserved /\ [Next]_vars => (IdleEmpty /\ FillBytesConserved)'
<1> SUFFICES ASSUME IInv, IdleEmpty, FillBytesConserved, [Next]_vars
             PROVE  (IdleEmpty /\ FillBytesConserved)'
  OBVIOUS
<1>t. Types
  BY DEF IInv
<1>1. IdleEmpty'
  BY <1>t DEF Next, vars, IdleEmpty, Types, Open, WriteBody, Reserve, Abandon, Finish,
     Publish, Cancel, Drop, Purge, LookupStale, GiveUp, UpdateRead, UpdateInsert
<1>2. ASSUME NEW f \in Fills, Open(f) PROVE FillBytesConserved'
  <2>1. body[f] = 0 /\ filling' = filling + 0 - body[f] /\ body' = [body EXCEPT ![f] = 0]
    BY <1>2, <1>t DEF Open, IdleEmpty, Types
  <2>2. 0 \in Nat
    OBVIOUS
  <2> QED BY <1>t, <2>1, <2>2, BufferMoves, Zenon
<1>3. ASSUME NEW f \in Fills, Reserve(f) PROVE FillBytesConserved'
  <2>1. CASE filling + chunk[f] <= MaxFill
    <3>1. body[f] + chunk[f] \in Nat
      BY <1>t DEF Types
    <3>2. filling' = filling + (body[f] + chunk[f]) - body[f]
      BY <1>3, <1>t, <2>1 DEF Reserve, Types
    <3>3. body' = [body EXCEPT ![f] = body[f] + chunk[f]]
      BY <1>3, <2>1 DEF Reserve
    <3> QED BY <1>t, <3>1, <3>2, <3>3, BufferMoves
  <2>2. CASE ~(filling + chunk[f] <= MaxFill)
    BY <1>3, <2>2, BufferStays DEF Reserve
  <2> QED BY <2>1, <2>2
<1>4. ASSUME NEW f \in Fills, Abandon(f) \/ Drop(f) \/ (Finish(f) /\ ~tooLarge[f])
      PROVE  FillBytesConserved'
  <2>1. filling' = filling + 0 - body[f] /\ body' = [body EXCEPT ![f] = 0]
    BY <1>4, <1>t DEF Abandon, Drop, Finish, Types
  <2>2. 0 \in Nat
    OBVIOUS
  <2> QED BY <1>t, <2>1, <2>2, BufferMoves, Zenon
<1>5. ASSUME NEW f \in Fills,
             WriteBody(f) \/ Publish(f) \/ Cancel(f) \/ (Finish(f) /\ tooLarge[f])
      PROVE  FillBytesConserved'
  BY <1>5, BufferStays DEF WriteBody, Publish, Cancel, Finish
<1>6. ASSUME \/ \E k \in Keys : Purge(k)
             \/ \E r \in Revalidations :
                   \/ \E k \in Keys : LookupStale(r, k)
                   \/ GiveUp(r) \/ UpdateRead(r) \/ UpdateInsert(r)
      PROVE  FillBytesConserved'
  BY <1>6, BufferStays DEF Purge, LookupStale, GiveUp, UpdateRead, UpdateInsert
<1>7. CASE UNCHANGED vars
  <2>1. body' = body /\ filling' = filling
    BY <1>7 DEF vars
  <2> QED BY <1>1, <2>1, BufferStays
<1> QED BY <1>1, <1>2, <1>3, <1>4, <1>5, <1>6, <1>7 DEF Next

(* The counter of MemoryStorage is exactly what unfinished fills buffer,   *)
(* and within max_inflight_fill: for any number of fills, written,         *)
(* abandoned, finished and dropped in any order, no byte leaks and none is *)
(* given back twice.                                                       *)
THEOREM FillsAreAccounted == Spec => []FillsAccounted
<1>1. Init => IdleEmpty /\ FillBytesConserved
  BY NothingBuffered DEF Init, IdleEmpty
<1>2. Spec => [](IdleEmpty /\ FillBytesConserved)
  BY <1>1, BudgetStep, Invariance, PTL DEF Spec
<1>3. (IdleEmpty /\ FillBytesConserved) /\ FillBudgetHolds => FillsAccounted
  BY DEF FillsAccounted
<1> QED BY <1>2, <1>3, WithinFillBudget, PTL

(* So the counter never goes below zero, and the store stays well typed.   *)
THEOREM CacheTypeCorrect == Spec => []TypeOK
<1>1. IInv /\ FillsAccounted => TypeOK
  <2> SUFFICES ASSUME IInv, FillsAccounted PROVE TypeOK
    OBVIOUS
  <2>1. filling = Sums(body, Fills)[Fills]
    BY Buffered DEF FillsAccounted
  <2>2. filling \in Nat
    BY <2>1, CacheConfig, SumsTyped DEF IInv, Types
  <2> QED BY <2>2 DEF IInv, Types, TypeOK
<1> QED BY <1>1, Invariance, FillsAreAccounted, PTL

-----------------------------------------------------------------------------
(***************************************************************************)
(* The limiter: sums over spans of time.                                   *)
(***************************************************************************)

Times == 0..MaxTime
In(b, from, to) == Sums(b, Times)[from..to]
From(b, from) == In(b, from, MaxTime)

\* There are finitely many times.
LEMMA TimesFinite == IsFiniteSet(Times)
<1>1. 0 \in Int /\ MaxTime \in Int
  BY RateWindowConfig
<1>2. IsFiniteSet(0..MaxTime)
  BY <1>1, FS_Interval, Zenon
<1> QED BY <1>2 DEF Times

\* A span's sum grows with the span and with its terms.
LEMMA InSums ==
    ASSUME NEW b \in [Times -> Nat]
    PROVE  \A x, y \in Times :
              /\ In(b, x, y) \in Nat
              /\ In(b, x, y) <= From(b, x)
              /\ y <= x => From(b, x) <= From(b, y)
<1> SUFFICES ASSUME NEW x \in Times, NEW y \in Times
             PROVE  /\ In(b, x, y) \in Nat
                    /\ In(b, x, y) <= From(b, x)
                    /\ y <= x => From(b, x) <= From(b, y)
  OBVIOUS
<1>1. IsFiniteSet(Times)
  BY TimesFinite
<1>2. /\ x..y \in SUBSET Times /\ x..MaxTime \in SUBSET Times
      /\ y..MaxTime \in SUBSET Times /\ x..y \subseteq x..MaxTime
      /\ y <= x => x..MaxTime \subseteq y..MaxTime
  BY RateWindowConfig DEF Times
<1> QED BY <1>1, <1>2, SumsTyped, SumsWithin DEF In, From

\* The sum from a time on is the sum up to a later time and from it on.
LEMMA InSplit ==
    ASSUME NEW b \in [Times -> Nat], NEW x \in Times, NEW y \in Times, x < y
    PROVE  /\ In(b, x, y - 1) \in Nat
           /\ From(b, x) = In(b, x, y - 1) + From(b, y)
<1>1. IsFiniteSet(Times)
  BY TimesFinite
<1>2. /\ x..(y - 1) \in SUBSET Times /\ y..MaxTime \in SUBSET Times
      /\ (x..(y - 1)) \cap (y..MaxTime) = {}
      /\ (x..(y - 1)) \cup (y..MaxTime) = x..MaxTime
  BY RateWindowConfig DEF Times
<1>3. /\ Sums(b, Times)[x..(y - 1)] \in Nat
      /\ Sums(b, Times)[(x..(y - 1)) \cup (y..MaxTime)]
            = Sums(b, Times)[x..(y - 1)] + Sums(b, Times)[y..MaxTime]
  <2>1. \A t \in SUBSET Times : (x..(y - 1)) \cap t = {} =>
           Sums(b, Times)[(x..(y - 1)) \cup t]
             = Sums(b, Times)[x..(y - 1)] + Sums(b, Times)[t]
    BY <1>1, <1>2, SumsSplit
  <2>2. Sums(b, Times)[x..(y - 1)] \in Nat
    BY <1>1, <1>2, SumsTyped
  <2> QED BY <1>2, <2>1, <2>2
<1> QED BY <1>2, <1>3 DEF In, From

\* One more at t is one more for every span that contains t.
LEMMA InAdds ==
    ASSUME NEW b \in [Times -> Nat], NEW t \in Times,
           NEW c \in [Times -> Nat], \A x \in Times : c[x] = IF x = t THEN b[t] + 1 ELSE b[x]
    PROVE  \A x, y \in Times :
              In(c, x, y) = In(b, x, y) + (IF x <= t /\ t <= y THEN 1 ELSE 0)
<1> SUFFICES ASSUME NEW x \in Times, NEW y \in Times
             PROVE  In(c, x, y) = In(b, x, y) + (IF x <= t /\ t <= y THEN 1 ELSE 0)
  OBVIOUS
<1>1. IsFiniteSet(Times)
  BY TimesFinite
<1>2. x..y \in SUBSET Times /\ (t \in x..y <=> x <= t /\ t <= y)
  BY RateWindowConfig DEF Times
<1>3. b[t] \in Nat /\ b[t] + 1 \in Nat /\ b[t] + 1 - b[t] = 1
  OBVIOUS
<1>4. Sums(c, Times)[x..y] = Sums(b, Times)[x..y] + (IF t \in x..y THEN b[t] + 1 - b[t] ELSE 0)
  <2>1. PICK v \in Nat : v = b[t] + 1
    BY <1>3
  <2>2. \A z \in Times : c[z] = IF z = t THEN v ELSE b[z]
    BY <2>1
  <2>3. \A s \in SUBSET Times :
           Sums(c, Times)[s] = Sums(b, Times)[s] + (IF t \in s THEN v - b[t] ELSE 0)
    BY <1>1, <2>2, SumsUpdate
  <2>4. Sums(c, Times)[x..y] = Sums(b, Times)[x..y] + (IF t \in x..y THEN v - b[t] ELSE 0)
    BY <1>2, <2>3, Zenon
  <2> QED BY <2>1, <2>4
<1> QED BY <1>2, <1>3, <1>4 DEF In

\* Smaller terms have smaller sums.
LEMMA InLess ==
    ASSUME NEW b \in [Times -> Nat], NEW c \in [Times -> Nat], \A x \in Times : b[x] <= c[x]
    PROVE  \A x, y \in Times : In(b, x, y) <= In(c, x, y)
<1> SUFFICES ASSUME NEW x \in Times, NEW y \in Times PROVE In(b, x, y) <= In(c, x, y)
  OBVIOUS
<1>1. IsFiniteSet(Times)
  BY TimesFinite
<1>2. x..y \in SUBSET Times
  BY RateWindowConfig DEF Times
<1> QED BY <1>1, <1>2, SumsPointwise DEF In

\* No terms, no sum.
LEMMA InNothing ==
    ASSUME NEW b \in [Times -> Nat], \A x \in Times : b[x] = 0
    PROVE  \A x, y \in Times : In(b, x, y) = 0
<1> SUFFICES ASSUME NEW x \in Times, NEW y \in Times PROVE In(b, x, y) = 0
  OBVIOUS
<1>1. IsFiniteSet(Times)
  BY TimesFinite
<1>2. x..y \in SUBSET Times /\ Times \in SUBSET Times
  BY RateWindowConfig DEF Times
<1>3. Sums(b, Times)[Times] = 0
  BY <1>1, SumsOfNothing
<1>4. Sums(b, Times)[x..y] <= Sums(b, Times)[Times] /\ Sums(b, Times)[x..y] \in Nat
  BY <1>1, <1>2, SumsWithin, SumsTyped
<1> QED BY <1>3, <1>4 DEF In

\* What the limiter's properties sum.
LEMMA AdmittedSums ==
    ASSUME NEW x \in Times, NEW y \in Times
    PROVE  AdmittedIn(x, y) = In(admitted, x, y)
<1>1. IsFiniteSet(Times)
  BY TimesFinite
<1>2. x..y \in SUBSET Times
  BY RateWindowConfig DEF Times
<1>3. AdmittedIn(x, y) = Sums(admitted, x..y)[x..y]
  BY DEF AdmittedIn, SumFunctionOnSet, FoldFunctionOnSet, MapThenFoldSet, Sums, Step, Pick
<1> QED BY <1>1, <1>2, <1>3, SumsLocal DEF In

-----------------------------------------------------------------------------
(***************************************************************************)
(* The decision: what it says of whole numbers.                            *)
(***************************************************************************)

\* A quotient that is rounded up.
LEMMA RoundsUp ==
    ASSUME NEW a \in Nat, NEW n \in Nat \ {0}
    PROVE  /\ CeilDiv(a, n) \in Nat
           /\ n * CeilDiv(a, n) >= a
           /\ n * CeilDiv(a, n) < a + n
<1> DEFINE x == a + n - 1
<1>1. x \in Nat /\ n \in Int /\ n > 0
  OBVIOUS
<1>2. \A y \in Nat : /\ y \div n \in Nat
                      /\ n * (y \div n) <= y /\ y < n * (y \div n) + n
  BY <1>1
<1>3. /\ x \div n \in Nat
      /\ n * (x \div n) <= x /\ x < n * (x \div n) + n
  BY <1>1, <1>2
<1>4. CeilDiv(a, n) = x \div n
  BY DEF CeilDiv
<1>5. PICK q \in Nat : q = x \div n /\ n * q <= x /\ x < n * q + n
  BY <1>3
<1>6. n * q \in Nat
  BY <1>5
<1>7. n * q >= a /\ n * q < a + n
  BY <1>5, <1>6
<1> QED BY <1>4, <1>5, <1>7

\* Products of whole numbers compare as their factors.
LEMMA Factors ==
    ASSUME NEW n \in Nat \ {0}, NEW x \in Int, NEW y \in Int, x * n < y * n
    PROVE  x < y
<1>1. ASSUME x >= y PROVE FALSE
  <2>1. PICK z \in Nat : x = y + z
    <3>1. x - y \in Nat /\ x = y + (x - y)
      BY <1>1
    <3> QED BY <3>1
  <2>2. x * n = y * n + z * n
    BY <2>1
  <2>3. z * n \in Nat /\ y * n \in Int
    BY <2>1
  <2> QED BY <2>2, <2>3
<1> QED BY <1>1

\* A longer span earns no less.
LEMMA EarnsMore ==
    ASSUME NEW n \in Nat \ {0}, NEW m \in Nat, NEW d \in Nat, NEW e \in Nat, e <= d
    PROVE  /\ CeilDiv(m * e, n) \in Nat /\ CeilDiv(m * d, n) \in Nat
           /\ CeilDiv(m * e, n) <= CeilDiv(m * d, n)
<1>1. m * e \in Nat /\ m * d \in Nat /\ m * e <= m * d
  <2>1. PICK z \in Nat : d = e + z
    <3>1. d - e \in Nat /\ d = e + (d - e)
      OBVIOUS
    <3> QED BY <3>1
  <2>2. m * d = m * e + m * z /\ m * z \in Nat /\ m * e \in Nat
    BY <2>1
  <2> QED BY <2>2
<1>2. PICK p \in Nat : p = CeilDiv(m * e, n) /\ n * p >= m * e /\ n * p < m * e + n
  BY <1>1, RoundsUp
<1>3. PICK q \in Nat : q = CeilDiv(m * d, n) /\ n * q >= m * d /\ n * q < m * d + n
  BY <1>1, RoundsUp
<1>4. p * n < (q + 1) * n
  <2>1. (q + 1) * n = n * q + n /\ p * n = n * p /\ n * q \in Nat /\ n * p \in Nat
    BY <1>2, <1>3
  <2> QED BY <1>1, <1>2, <1>3, <2>1
<1>5. p < q + 1
  BY <1>4, Factors
<1> QED BY <1>2, <1>3, <1>5

\* Whoever the estimate does not refuse leaves the count within the limit, and
\* both counts within the limit and what the elapsed time has earned.
LEMMA Earned ==
    ASSUME NEW n \in Nat \ {0}, NEW l \in Nat, NEW m \in Nat, NEW p \in Nat, NEW c \in Nat,
           NEW e \in Nat, NEW d \in Nat, p <= m, e <= d, e <= n,
           p * (n - e) + c * n < l * n
    PROVE  /\ c < l
           /\ p + c + 1 <= l + CeilDiv(m * d, n)
           /\ e = 0 => p + c < l
<1>1. n - e \in Nat /\ p * (n - e) \in Nat /\ c * n \in Nat /\ l * n \in Nat
  <2>1. n - e \in Nat
    OBVIOUS
  <2>2. \A x \in Nat, y \in Nat : x * y \in Nat
    OBVIOUS
  <2> QED BY <2>1, <2>2
<1>2. c * n < l * n
  BY <1>1
<1>3. p * e <= m * d
  <2>1. PICK y \in Nat, z \in Nat : m = p + y /\ d = e + z
    <3>1. m - p \in Nat /\ m = p + (m - p) /\ d - e \in Nat /\ d = e + (d - e)
      OBVIOUS
    <3> QED BY <3>1
  <2>2. m * d = p * e + p * z + y * e + y * z
    BY <2>1
  <2>3. p * e \in Nat /\ p * z \in Nat /\ y * e \in Nat /\ y * z \in Nat
    BY <2>1
  <2> QED BY <2>2, <2>3
<1>4. m * d \in Nat /\ p * e \in Nat /\ p * n \in Nat
  OBVIOUS
<1>5. PICK q \in Nat : q = CeilDiv(m * d, n) /\ n * q >= m * d
  BY <1>4, RoundsUp
<1>6. p * (n - e) = p * n - p * e
  OBVIOUS
<1>7. (p + c) * n < (l + q) * n
  <2>1. (p + c) * n = p * n + c * n /\ (l + q) * n = l * n + n * q /\ n * q \in Nat
    BY <1>5
  <2> QED BY <1>1, <1>3, <1>4, <1>5, <1>6, <2>1
<1>8. p + c < l + q
  BY <1>5, <1>7, Factors
<1>9. ASSUME e = 0 PROVE p + c < l
  <2>1. (p + c) * n < l * n
    <3>1. (p + c) * n = p * n + c * n /\ p * (n - e) = p * n
      BY <1>9
    <3> QED BY <3>1
  <2> QED BY <2>1, Factors
<1>10. c < l
  BY <1>2, Factors
<1> QED BY <1>5, <1>8, <1>9, <1>10

\* A window that counts nothing itself refuses nobody after its first moment.
LEMMA Admits ==
    ASSUME NEW n \in Nat \ {0}, NEW l \in Nat \ {0}, NEW p \in Nat, NEW e \in Nat,
           p <= l, e <= n, e > 0 \/ p = 0
    PROVE  p * (n - e) + 0 * n < l * n
<1>1. p * (n - e) = p * n - p * e /\ p * n \in Nat /\ p * e \in Nat /\ 0 * n = 0 /\ l * n \in Nat
  OBVIOUS
<1>2. PICK z \in Nat : l = p + z
  <2>1. l - p \in Nat /\ l = p + (l - p)
    OBVIOUS
  <2> QED BY <2>1
<1>3. l * n = p * n + z * n /\ z * n \in Nat
  BY <1>2
<1>4. CASE p = 0
  <2>1. p * n = 0 /\ p * e = 0 /\ l * n > 0
    BY <1>4
  <2> QED BY <1>1, <2>1
<1>5. CASE p # 0 /\ e > 0
  <2>1. p * e > 0
    BY <1>5
  <2> QED BY <1>1, <1>3, <2>1
<1> QED BY <1>4, <1>5

-----------------------------------------------------------------------------
(***************************************************************************)
(* The exact window.  Its two counters cover what was admitted from the    *)
(* interval before it on: a request admitted at a reading is counted in    *)
(* the window in use, which began at most MaxLag after that reading.       *)
(***************************************************************************)

Covers(b, start, current, previous, now) ==
    /\ current <= Limit /\ previous <= Limit
    /\ \A x \in Times :
          /\ x >= start + Interval => From(b, x) = 0
          /\ x >= start => From(b, x) <= current
          /\ x >= start - Interval => From(b, x) <= previous + current
          /\ x > now - MaxLag - Interval => From(b, x) <= Limit + previous + current

BurstsFit(b) ==
    \A x \in Times, d \in 0..(Interval - 1) :
        x + d <= MaxTime =>
            In(b, x, x + d) <= IF d + MaxLag <= Interval
                               THEN Limit + CeilDiv(Limit * d, Interval)
                               ELSE 2 * Limit

\* The window is rolled once, and its count becomes the one before ...
LEMMA RolledOnce ==
    ASSUME NEW b \in [Times -> Nat], NEW s \in Times, NEW k \in Nat, NEW p \in Nat,
           NEW now \in Times, NEW c \in Times, Covers(b, s, k, p, c),
           now <= c, now >= s + Interval
    PROVE  Covers(b, s + Interval, 0, k, c)
<1>1. \A x \in Times : From(b, x) \in Nat
  <2>1. MaxTime \in Times
    BY RateWindowConfig DEF Times
  <2> QED BY <2>1, InSums DEF From
<1> QED BY <1>1, RateWindowConfig DEF Covers, Times

\* ... or begins anew, when nothing it counted is recent ...
LEMMA RolledTwice ==
    ASSUME NEW b \in [Times -> Nat], NEW s \in Times, NEW k \in Nat, NEW p \in Nat,
           NEW now \in Times, NEW c \in Times, Covers(b, s, k, p, c),
           now <= c, now >= s + 2 * Interval
    PROVE  Covers(b, now, 0, 0, c)
<1>1. \A x \in Times : From(b, x) \in Nat
  <2>1. MaxTime \in Times
    BY RateWindowConfig DEF Times
  <2> QED BY <2>1, InSums DEF From
<1> QED BY <1>1, RateWindowConfig DEF Covers, Times

\* ... or the store has dropped it.
LEMMA Dropped ==
    ASSUME NEW b \in [Times -> Nat], NEW now \in Times, NEW c \in Times, NEW last \in Int,
           c >= last + 2 * Interval, now + MaxLag >= c,
           \A x \in Times : x > last => From(b, x) = 0
    PROVE  Covers(b, now, 0, 0, c)
BY RateWindowConfig DEF Covers, Times

\* A request the window admits is counted, and no span holds too many.
LEMMA Counted ==
    ASSUME NEW b \in [Times -> Nat], NEW s \in Times, NEW k \in Nat, NEW p \in Nat,
           NEW t \in Times, NEW c \in Times, Covers(b, s, k, p, c), BurstsFit(b),
           s <= c, t + MaxLag >= c, t < s + Interval,
           ~Refuses(p, k, Elapsed(t, s), Interval, Limit),
           NEW a \in [Times -> Nat], \A x \in Times : a[x] = IF x = t THEN b[t] + 1 ELSE b[x]
    PROVE  Covers(a, s, k + 1, p, c) /\ BurstsFit(a)
<1> DEFINE e == Elapsed(t, s)
<1>1. /\ Interval \in Nat \ {0} /\ Limit \in Nat \ {0} /\ MaxLag \in Nat
      /\ MaxLag < Interval /\ MaxTime \in Nat
  BY RateWindowConfig
<1>2. /\ e \in Nat /\ e < Interval /\ (t >= s => e = t - s) /\ (t <= s => e = 0)
  BY <1>1 DEF Elapsed, Times
<1>3. p <= Limit
  BY DEF Covers
<1>4. p * (Interval - e) + k * Interval < Limit * Interval
  <2>1. \A x \in Int, y \in Int : x * y \in Int
    OBVIOUS
  <2>2. /\ p * (Interval - e) \in Int /\ k * Interval \in Int /\ Limit * Interval \in Int
    BY <1>1, <1>2, <2>1
  <2> HIDE DEF e
  <2>3. ~(p * (Interval - e) + k * Interval >= Limit * Interval)
    BY DEF Refuses, e
  <2> QED BY <2>2, <2>3
<1> HIDE DEF e
<1>5. ASSUME NEW d \in Nat, e <= d
      PROVE  /\ k < Limit
             /\ p + k + 1 <= Limit + CeilDiv(Limit * d, Interval)
             /\ e = 0 => p + k < Limit
  <2>1. Limit \in Nat /\ e <= Interval
    BY <1>1, <1>2
  <2> QED BY <1>1, <1>2, <1>3, <1>4, <1>5, <2>1, Earned
<1>6. k < Limit /\ (e = 0 => p + k < Limit)
  BY <1>2, <1>5
<1>7. \A x, y \in Times :
         In(a, x, y) = In(b, x, y) + (IF x <= t /\ t <= y THEN 1 ELSE 0)
  BY InAdds
<1>8. \A x, y \in Times : In(b, x, y) \in Nat /\ In(b, x, y) <= From(b, x)
  BY InSums
<1>9. \A x \in Times : /\ From(b, x) \in Nat
                        /\ From(a, x) = From(b, x) + (IF x <= t THEN 1 ELSE 0)
  <2>1. MaxTime \in Times /\ \A x \in Times : x \in Nat /\ x <= MaxTime
    BY <1>1 DEF Times
  <2> QED BY <1>7, <1>8, <2>1 DEF From
<1>10. Covers(a, s, k + 1, p, c)
  <2>1. k + 1 <= Limit /\ p <= Limit
    BY <1>1, <1>3, <1>6
  <2>2. ASSUME NEW x \in Times
        PROVE  /\ x >= s + Interval => From(a, x) = 0
               /\ x >= s => From(a, x) <= k + 1
               /\ x >= s - Interval => From(a, x) <= p + (k + 1)
               /\ x > c - MaxLag - Interval => From(a, x) <= Limit + p + (k + 1)
    <3>1. /\ x >= s + Interval => From(b, x) = 0
          /\ x >= s => From(b, x) <= k
          /\ x >= s - Interval => From(b, x) <= p + k
          /\ x > c - MaxLag - Interval => From(b, x) <= Limit + p + k
      BY DEF Covers
    <3>2. x >= s + Interval => ~(x <= t)
      BY <1>1 DEF Times
    <3>3. From(b, x) \in Nat /\ From(a, x) = From(b, x) + (IF x <= t THEN 1 ELSE 0)
      BY <1>9
    <3>4. From(a, x) \in Nat /\ From(a, x) <= From(b, x) + 1
      BY <3>3
    <3> QED BY <1>1, <3>1, <3>2, <3>3, <3>4
  <2> QED BY <2>1, <2>2 DEF Covers
<1>11. ASSUME NEW x \in Times, NEW d \in 0..(Interval - 1), x + d <= MaxTime
       PROVE  In(a, x, x + d) <= IF d + MaxLag <= Interval
                                 THEN Limit + CeilDiv(Limit * d, Interval)
                                 ELSE 2 * Limit
  <2>0. x + d \in Times /\ d \in Nat
    BY <1>1, <1>11 DEF Times
  <2>1. CASE ~(x <= t /\ t <= x + d)
    <3>1. In(a, x, x + d) = In(b, x, x + d)
      BY <1>7, <1>8, <2>0, <2>1
    <3> QED BY <1>11, <3>1 DEF BurstsFit
  <2>2. CASE x <= t /\ t <= x + d
    <3>1. In(a, x, x + d) <= From(b, x) + 1
      BY <1>7, <1>8, <1>9, <2>0, <2>2
    <3>2. CeilDiv(Limit * d, Interval) \in Nat
      <4>1. d <= d /\ Limit \in Nat
        BY <1>1, <2>0
      <4> QED BY <1>1, <2>0, <4>1, EarnsMore
    <3>0. In(a, x, x + d) \in Int /\ From(b, x) \in Nat
      BY <1>7, <1>8, <1>9, <2>0
    <3>3. CASE x >= s
      <4>1. From(b, x) <= k
        BY <3>3 DEF Covers
      <4> QED BY <1>1, <1>6, <3>0, <3>1, <3>2, <4>1
    <3>4. CASE x < s /\ x >= s - Interval
      <4>1. From(b, x) <= p + k
        BY <3>4 DEF Covers
      <4>2. e <= d
        BY <1>2, <2>2, <3>4, <2>0 DEF Times
      <4>3. p + k + 1 <= Limit + CeilDiv(Limit * d, Interval) /\ d < Interval
        BY <1>1, <1>5, <2>0, <4>2
      <4>4. e = 0 \/ p + k + 1 <= 2 * Limit
        BY <1>1, <1>3, <1>6
      <4>5. p + k + 1 <= 2 * Limit
        BY <1>1, <1>6, <4>4
      <4> QED BY <1>1, <3>0, <3>1, <3>2, <4>1, <4>3, <4>5
    <3>5. CASE x < s - Interval
      <4>1. d + MaxLag > Interval /\ t < s /\ x > c - MaxLag - Interval
        BY <1>1, <2>0, <2>2, <3>5 DEF Times
      <4>2. From(b, x) <= Limit + p + k
        BY <4>1 DEF Covers
      <4>3. p + k < Limit
        BY <1>2, <1>6, <4>1 DEF Times
      <4> QED BY <1>1, <2>0, <3>0, <3>1, <4>1, <4>2, <4>3
    <3> QED BY <1>1, <3>3, <3>4, <3>5 DEF Times
  <2> QED BY <2>1, <2>2
<1>12. BurstsFit(a)
  BY <1>11 DEF BurstsFit
<1> QED BY <1>10, <1>12

-----------------------------------------------------------------------------
(***************************************************************************)
(* The sketch.  What it holds for the key is at least what was admitted in *)
(* the slot and in the one before; requests between their two steps were   *)
(* all let through by such an estimate, so they are counted in advance.    *)
(***************************************************************************)

SketchCovers(b, start, current, previous, now) ==
    \A x \in Times :
        /\ x >= start + Interval => From(b, x) = 0
        /\ x > now => From(b, x) = 0
        /\ x >= start => From(b, x) <= current
        /\ x >= start - Interval /\ x < start =>
              In(b, x, start - 1) <= previous /\ In(b, x, start - 1) <= RacedLimit

(* n requests have read the estimate and are still to be counted. *)
Raced(b, start, now, n) ==
    /\ From(b, start) + n <= RacedLimit
    /\ \A x \in Times :
          n > 0 /\ x <= now /\ now - x < Interval =>
              From(b, x) + n <= RacedLimit + CeilDiv(RacedLimit * (now - x), Interval)

RacesFit(b) ==
    \A x \in Times, d \in 0..(Interval - 1) :
        x + d <= MaxTime =>
            In(b, x, x + d) <= RacedLimit + CeilDiv(RacedLimit * d, Interval)

\* The raced limit is a limit, and no lower than the requests are many.
LEMMA Racing ==
    /\ Cardinality(Requests) \in Nat
    /\ RacedLimit \in Nat /\ RacedLimit >= Cardinality(Requests)
    /\ RacedLimit = Limit + Cardinality(Requests) - 1
<1>1. Cardinality(Requests) \in Nat
  BY RateWindowConfig, FS_CardinalityType
<1> QED BY <1>1, RateWindowConfig DEF RacedLimit

\* A slot ends: its count becomes the previous one, unless it ended long ago.
LEMMA SlotEnds ==
    ASSUME NEW b \in [Times -> Nat], NEW s \in Times, NEW k \in Nat, NEW p \in Nat,
           NEW c \in Times, NEW n \in Nat, n <= Cardinality(Requests),
           SketchCovers(b, s, k, p, c), Raced(b, s, c, n),
           NEW u \in Times, u >= s + Interval, u <= c,
           NEW q \in Nat, q = k \/ u >= s + 2 * Interval
    PROVE  SketchCovers(b, u, 0, q, c) /\ Raced(b, u, c, n)
<1>1. /\ Interval \in Nat \ {0} /\ MaxTime \in Nat
      /\ RacedLimit \in Nat /\ n <= RacedLimit
  BY RateWindowConfig, Racing
<1>a. MaxTime \in Times
  BY <1>1 DEF Times
<1>b. \A x \in Times : From(b, x) \in Nat
  BY <1>a, InSums DEF From
<1>c. \A x, y \in Times : In(b, x, y) \in Nat /\ In(b, x, y) <= From(b, x)
  BY InSums
<1>d. \A x, y \in Times : y <= x => From(b, x) <= From(b, y)
  BY InSums
<1>3. From(b, u) = 0 /\ From(b, s) <= RacedLimit
  <2>1. From(b, u) = 0 /\ From(b, s) + n <= RacedLimit
    BY DEF SketchCovers, Raced
  <2>2. From(b, s) \in Nat
    BY <1>b
  <2> QED BY <1>1, <2>1, <2>2
<1>4. ASSUME NEW x \in Times
      PROVE  /\ x >= u + Interval => From(b, x) = 0
             /\ x > c => From(b, x) = 0
             /\ x >= u => From(b, x) <= 0
             /\ x >= u - Interval /\ x < u =>
                   In(b, x, u - 1) <= q /\ In(b, x, u - 1) <= RacedLimit
  <2>1. /\ x >= s + Interval => From(b, x) = 0
        /\ x > c => From(b, x) = 0
        /\ x >= s => From(b, x) <= k
    BY DEF SketchCovers
  <2>2. CASE x >= u
    BY <1>1, <2>1, <2>2 DEF Times
  <2>3. CASE x < u /\ x >= u - Interval
    <3>1. u - 1 \in Times /\ s <= x
      BY <1>1, <2>3 DEF Times
    <3>2. /\ In(b, x, u - 1) \in Nat /\ In(b, x, u - 1) <= From(b, x)
          /\ From(b, x) <= From(b, s) /\ From(b, x) \in Nat /\ From(b, s) \in Nat
      <4>1. /\ In(b, x, u - 1) \in Nat /\ In(b, x, u - 1) <= From(b, x)
            /\ From(b, x) \in Nat
        BY <1>b, <1>c, <3>1
      <4>2. From(b, x) <= From(b, s) /\ From(b, s) \in Nat
        BY <1>b, <1>d, <3>1
      <4> QED BY <4>1, <4>2
    <3>3. In(b, x, u - 1) <= RacedLimit
      BY <1>1, <1>3, <3>2
    <3>4. In(b, x, u - 1) <= q
      <4>1. CASE q = k
        BY <2>1, <3>1, <3>2, <4>1
      <4>2. CASE u >= s + 2 * Interval
        <5>1. x >= s + Interval
          BY <1>1, <2>3, <4>2 DEF Times
        <5> QED BY <2>1, <3>2, <5>1
      <4> QED BY <4>1, <4>2
    <3> QED BY <1>1, <2>1, <2>3, <3>3, <3>4 DEF Times
  <2>4. CASE x < u - Interval
    BY <1>1, <2>1, <2>4 DEF Times
  <2> QED BY <1>1, <2>2, <2>3, <2>4 DEF Times
<1>5. SketchCovers(b, u, 0, q, c)
  BY <1>4 DEF SketchCovers
<1>6. Raced(b, u, c, n)
  BY <1>1, <1>3 DEF Raced
<1> QED BY <1>5, <1>6

\* One more request is let through.
LEMMA LetThrough ==
    ASSUME NEW b \in [Times -> Nat], NEW s \in Times, NEW k \in Nat, NEW p \in Nat,
           NEW c \in Times, NEW n \in Nat, n + 1 <= Cardinality(Requests),
           SketchCovers(b, s, k, p, c), Raced(b, s, c, n), s <= c, c < s + Interval,
           ~Refuses(p, k, c - s, Interval, Limit)
    PROVE  Raced(b, s, c, n + 1)
<1> DEFINE e == c - s
<1>1. /\ Interval \in Nat \ {0} /\ MaxTime \in Nat /\ Limit \in Nat
      /\ RacedLimit \in Nat /\ n + Limit <= RacedLimit
      /\ e \in Nat /\ e < Interval /\ s + e = c
  <2>1. /\ Interval \in Nat \ {0} /\ MaxTime \in Nat /\ Limit \in Nat
    BY RateWindowConfig
  <2>2. /\ e \in Nat /\ e < Interval /\ s + e = c
    BY <2>1 DEF Times
  <2> HIDE DEF e
  <2>3. RacedLimit \in Nat /\ n + Limit <= RacedLimit
    BY <2>1, Racing
  <2> QED BY <2>1, <2>2, <2>3
<1>2. p * (Interval - e) + k * Interval < Limit * Interval
  <2>1. \A x \in Int, y \in Int : x * y \in Int
    OBVIOUS
  <2>2. p * (Interval - e) \in Int /\ k * Interval \in Int /\ Limit * Interval \in Int
    BY <1>1, <2>1
  <2> HIDE DEF e
  <2>3. ~(p * (Interval - e) + k * Interval >= Limit * Interval)
    BY DEF Refuses, e
  <2> QED BY <2>2, <2>3
<1> HIDE DEF e
<1>3. \A x, y \in Times : From(b, x) \in Nat /\ (y <= x => From(b, x) <= From(b, y))
  <2>1. MaxTime \in Times
    BY <1>1 DEF Times
  <2> QED BY <2>1, InSums DEF From
<1>4. From(b, s) \in Nat /\ From(b, s) <= k
  BY <1>3 DEF SketchCovers, Times
<1>5. ASSUME NEW x \in Nat, NEW y \in Nat, x <= p, y <= k
      PROVE  x * (Interval - e) + y * Interval < Limit * Interval
  <2>1. PICK v \in Nat, w \in Nat, i \in Nat : p = x + v /\ k = y + w /\ i = Interval - e
    <3>1. /\ p - x \in Nat /\ p = x + (p - x) /\ k - y \in Nat /\ k = y + (k - y)
          /\ Interval - e \in Nat
      BY <1>1, <1>5
    <3> QED BY <3>1
  <2>2. /\ p * i = x * i + v * i /\ k * Interval = y * Interval + w * Interval
    BY <1>1, <2>1
  <2>3. /\ x * i \in Nat /\ v * i \in Nat /\ y * Interval \in Nat /\ w * Interval \in Nat
        /\ Limit * Interval \in Nat
    BY <1>1, <2>1
  <2>4. p * i + k * Interval < Limit * Interval
    BY <1>2, <2>1
  <2>5. x * i + y * Interval < Limit * Interval
    BY <2>2, <2>3, <2>4
  <2> QED BY <2>1, <2>5
<1>6. From(b, s) < Limit
  <2>1. 0 * (Interval - e) + From(b, s) * Interval < Limit * Interval
    BY <1>4, <1>5
  <2>2. e <= e /\ 0 <= RacedLimit /\ e <= Interval /\ 0 \in Nat
    BY <1>1
  <2> QED BY <1>1, <1>4, <2>1, <2>2, Earned
<1>7. From(b, s) + (n + 1) <= RacedLimit
  BY <1>1, <1>4, <1>6
<1>8. ASSUME NEW x \in Times, x <= c, c - x < Interval
      PROVE  From(b, x) + (n + 1) <= RacedLimit + CeilDiv(RacedLimit * (c - x), Interval)
  <2>0. PICK d \in Nat : d = c - x /\ CeilDiv(RacedLimit * d, Interval) \in Nat
    <3>1. c - x \in Nat /\ c - x <= c - x
      BY <1>8 DEF Times
    <3> QED BY <1>1, <3>1, EarnsMore
  <2>1. CASE x >= s
    <3>1. From(b, x) \in Nat /\ From(b, x) <= From(b, s)
      BY <1>3, <2>1
    <3> QED BY <1>1, <1>4, <1>7, <2>0, <3>1
  <2>2. CASE x < s
    <3>1. /\ In(b, x, s - 1) \in Nat
          /\ From(b, x) = In(b, x, s - 1) + From(b, s)
      BY <2>2, InSplit
    <3>2. x >= s - Interval
      BY <1>1, <1>8 DEF Times
    <3>3. In(b, x, s - 1) <= p /\ In(b, x, s - 1) <= RacedLimit
      BY <2>2, <3>2 DEF SketchCovers
    <3>4. In(b, x, s - 1) * (Interval - e) + From(b, s) * Interval < Limit * Interval
      BY <1>4, <1>5, <3>1, <3>3
    <3>5. e <= d /\ e <= Interval
      BY <1>1, <2>0, <2>2 DEF Times
    <3>6. In(b, x, s - 1) + From(b, s) + 1 <= Limit + CeilDiv(RacedLimit * d, Interval)
      BY <1>1, <1>4, <2>0, <3>1, <3>3, <3>4, <3>5, Earned
    <3> QED BY <1>1, <1>4, <2>0, <3>1, <3>6
  <2> QED BY <2>1, <2>2 DEF Times
<1> QED BY <1>7, <1>8 DEF Raced

\* A request that was let through is counted.
LEMMA Observed ==
    ASSUME NEW b \in [Times -> Nat], NEW s \in Times, NEW k \in Nat, NEW p \in Nat,
           NEW c \in Times, NEW n \in Nat \ {0}, s <= c, c < s + Interval,
           SketchCovers(b, s, k, p, c), Raced(b, s, c, n), RacesFit(b),
           NEW a \in [Times -> Nat], \A x \in Times : a[x] = IF x = c THEN b[c] + 1 ELSE b[x]
    PROVE  SketchCovers(a, s, k + 1, p, c) /\ Raced(a, s, c, n - 1) /\ RacesFit(a)
<1>1. /\ Interval \in Nat \ {0} /\ MaxTime \in Nat /\ RacedLimit \in Nat
      /\ MaxTime \in Times
  BY RateWindowConfig, Racing DEF Times
<1>2. \A x, y \in Times :
         In(a, x, y) = In(b, x, y) + (IF x <= c /\ c <= y THEN 1 ELSE 0)
  BY InAdds
<1>3. \A x \in Times : From(b, x) \in Nat
  BY <1>1, InSums DEF From
<1>4. \A x, y \in Times : In(b, x, y) \in Nat /\ In(b, x, y) <= From(b, x)
  BY InSums
<1>5. \A x \in Times : From(a, x) = From(b, x) + (IF x <= c THEN 1 ELSE 0)
  BY <1>1, <1>2 DEF From, Times
<1>6. ASSUME NEW x \in Times
      PROVE  /\ x >= s + Interval => From(a, x) = 0
             /\ x > c => From(a, x) = 0
             /\ x >= s => From(a, x) <= k + 1
             /\ x >= s - Interval /\ x < s =>
                   In(a, x, s - 1) <= p /\ In(a, x, s - 1) <= RacedLimit
  <2>1. /\ x >= s + Interval => From(b, x) = 0
        /\ x > c => From(b, x) = 0
        /\ x >= s => From(b, x) <= k
        /\ x >= s - Interval /\ x < s =>
              In(b, x, s - 1) <= p /\ In(b, x, s - 1) <= RacedLimit
    BY DEF SketchCovers
  <2>2. From(b, x) \in Nat /\ From(a, x) = From(b, x) + (IF x <= c THEN 1 ELSE 0)
    BY <1>3, <1>5
  <2>3. x < s => In(a, x, s - 1) = In(b, x, s - 1)
    <3>1. ASSUME x < s PROVE s - 1 \in Times /\ ~(c <= s - 1)
      BY <1>1, <3>1 DEF Times
    <3> QED BY <1>2, <1>4, <3>1
  <2>4. x >= s + Interval => x > c
    BY <1>1 DEF Times
  <2> QED BY <2>1, <2>2, <2>3, <2>4 DEF Times
<1>7. From(a, s) + (n - 1) <= RacedLimit
  <2>1. From(b, s) + n <= RacedLimit
    BY DEF Raced
  <2> QED BY <1>1, <1>3, <1>5, <2>1 DEF Times
<1>8. ASSUME NEW x \in Times, x <= c, c - x < Interval
      PROVE  /\ From(b, x) + n <= RacedLimit + CeilDiv(RacedLimit * (c - x), Interval)
             /\ From(a, x) + (n - 1) <= RacedLimit + CeilDiv(RacedLimit * (c - x), Interval)
  <2>1. From(b, x) + n <= RacedLimit + CeilDiv(RacedLimit * (c - x), Interval)
    BY <1>8 DEF Raced
  <2>2. From(a, x) = From(b, x) + 1 /\ From(b, x) \in Nat
    BY <1>3, <1>5, <1>8
  <2> QED BY <2>1, <2>2
<1>9. ASSUME NEW x \in Times, NEW d \in 0..(Interval - 1), x + d <= MaxTime
      PROVE  In(a, x, x + d) <= RacedLimit + CeilDiv(RacedLimit * d, Interval)
  <2>0. x + d \in Times /\ d \in Nat
    BY <1>1, <1>9 DEF Times
  <2>1. CASE ~(x <= c /\ c <= x + d)
    <3>1. In(a, x, x + d) = In(b, x, x + d)
      BY <1>2, <1>4, <2>0, <2>1
    <3> QED BY <1>9, <3>1 DEF RacesFit
  <2>2. CASE x <= c /\ c <= x + d
    <3>1. In(a, x, x + d) = In(b, x, x + d) + 1 /\ In(b, x, x + d) <= From(b, x)
          /\ In(b, x, x + d) \in Nat /\ From(b, x) \in Nat
      <4>1. In(a, x, x + d) = In(b, x, x + d) + 1
        BY <1>2, <2>0, <2>2
      <4>2. In(b, x, x + d) <= From(b, x) /\ In(b, x, x + d) \in Nat
        BY <1>4, <2>0
      <4> QED BY <1>3, <4>1, <4>2
    <3>2. PICK e \in Nat : e = c - x /\ e <= d
      <4>1. c - x \in Nat /\ c - x <= d
        BY <2>0, <2>2 DEF Times
      <4> QED BY <4>1
    <3>3. From(b, x) + n <= RacedLimit + CeilDiv(RacedLimit * e, Interval)
      <4>1. c - x < Interval
        BY <1>1, <2>0, <3>2, <1>9
      <4>2. From(b, x) + n <= RacedLimit + CeilDiv(RacedLimit * (c - x), Interval)
        BY <1>8, <2>2, <4>1
      <4> QED BY <3>2, <4>2
    <3>4. /\ CeilDiv(RacedLimit * e, Interval) \in Nat
          /\ CeilDiv(RacedLimit * d, Interval) \in Nat
          /\ CeilDiv(RacedLimit * e, Interval) <= CeilDiv(RacedLimit * d, Interval)
      BY <1>1, <2>0, <3>2, EarnsMore
    <3> QED BY <1>1, <3>1, <3>3, <3>4
  <2> QED BY <2>1, <2>2
<1>10. SketchCovers(a, s, k + 1, p, c)
  BY <1>6 DEF SketchCovers
<1>11. Raced(a, s, c, n - 1)
  BY <1>7, <1>8 DEF Raced
<1> QED BY <1>9, <1>10, <1>11 DEF RacesFit

-----------------------------------------------------------------------------
(***************************************************************************)
(* The clock ticks, and what no request can be counted at any more is      *)
(* forgotten.                                                              *)
(***************************************************************************)

\* What is left sums to no more.
LEMMA Forgotten ==
    ASSUME NEW b \in [Times -> Nat], NEW a \in [Times -> Nat], \A x \in Times : a[x] <= b[x]
    PROVE  /\ \A x, y \in Times : In(a, x, y) \in Nat /\ In(b, x, y) \in Nat
           /\ \A x, y \in Times : In(a, x, y) <= In(b, x, y)
           /\ \A x \in Times : From(a, x) \in Nat /\ From(b, x) \in Nat
           /\ \A x \in Times : From(a, x) <= From(b, x)
<1>1. MaxTime \in Times
  BY RateWindowConfig DEF Times
<1>2. \A x, y \in Times : In(a, x, y) \in Nat /\ In(b, x, y) \in Nat
  BY InSums
<1>3. \A x, y \in Times : In(a, x, y) <= In(b, x, y)
  BY InLess
<1> QED BY <1>1, <1>2, <1>3 DEF From

\* An exact window.
LEMMA TickExact ==
    ASSUME NEW b \in [Times -> Nat], NEW a \in [Times -> Nat], \A x \in Times : a[x] <= b[x]
    PROVE  /\ \A x \in Times : From(b, x) = 0 => From(a, x) = 0
           /\ BurstsFit(b) => BurstsFit(a)
           /\ \A s \in Times, k \in Nat, p \in Nat, c \in Times :
                 Covers(b, s, k, p, c) => Covers(a, s, k, p, c + 1)
<1>1. \A x \in Times : From(a, x) \in Nat /\ From(b, x) \in Nat
  BY Forgotten
<1>2. \A x \in Times : From(a, x) <= From(b, x)
  BY Forgotten
<1>3. BurstsFit(b) => BurstsFit(a)
  <2> SUFFICES ASSUME BurstsFit(b), NEW x \in Times, NEW d \in 0..(Interval - 1),
                      x + d <= MaxTime
               PROVE  In(a, x, x + d) <= IF d + MaxLag <= Interval
                                         THEN Limit + CeilDiv(Limit * d, Interval)
                                         ELSE 2 * Limit
    BY DEF BurstsFit
  <2>1. x + d \in Times /\ d \in Nat /\ Interval \in Nat \ {0} /\ Limit \in Nat
        /\ d <= d
    BY RateWindowConfig DEF Times
  <2>2. In(a, x, x + d) <= In(b, x, x + d) /\ In(a, x, x + d) \in Nat
        /\ In(b, x, x + d) \in Nat
    BY <2>1, Forgotten
  <2>3. In(b, x, x + d) <= IF d + MaxLag <= Interval
                           THEN Limit + CeilDiv(Limit * d, Interval)
                           ELSE 2 * Limit
    BY DEF BurstsFit
  <2>4. CeilDiv(Limit * d, Interval) \in Nat
    BY <2>1, EarnsMore
  <2> QED BY <2>1, <2>2, <2>3, <2>4
<1>4. ASSUME NEW s \in Times, NEW k \in Nat, NEW p \in Nat, NEW c \in Times,
             Covers(b, s, k, p, c)
      PROVE  Covers(a, s, k, p, c + 1)
  <2>1. /\ Interval \in Nat \ {0} /\ Limit \in Nat /\ MaxLag \in Nat
    BY RateWindowConfig
  <2>2. ASSUME NEW x \in Times
        PROVE  /\ x >= s + Interval => From(a, x) = 0
               /\ x >= s => From(a, x) <= k
               /\ x >= s - Interval => From(a, x) <= p + k
               /\ x > c + 1 - MaxLag - Interval => From(a, x) <= Limit + p + k
    <3>1. /\ x >= s + Interval => From(b, x) = 0
          /\ x >= s => From(b, x) <= k
          /\ x >= s - Interval => From(b, x) <= p + k
          /\ x > c - MaxLag - Interval => From(b, x) <= Limit + p + k
      BY <1>4 DEF Covers
    <3>2. x > c + 1 - MaxLag - Interval => x > c - MaxLag - Interval
      BY <2>1 DEF Times
    <3>3. From(a, x) \in Nat /\ From(b, x) \in Nat /\ From(a, x) <= From(b, x)
      BY <1>1, <1>2
    <3> QED BY <2>1, <3>1, <3>2, <3>3
  <2> QED BY <1>4, <2>1, <2>2 DEF Covers, Times
<1> QED BY <1>1, <1>2, <1>3, <1>4

\* A sketch.
LEMMA TickSketch ==
    ASSUME NEW b \in [Times -> Nat], NEW a \in [Times -> Nat], \A x \in Times : a[x] <= b[x],
           NEW s \in Times, NEW k \in Nat, NEW p \in Nat, NEW c \in Times, s <= c,
           NEW n \in Nat, n <= Cardinality(Requests),
           SketchCovers(b, s, k, p, c), Raced(b, s, c, n), RacesFit(b)
    PROVE  SketchCovers(a, s, k, p, c + 1) /\ RacesFit(a) /\ Raced(a, s, c + 1, n)
<1>1. /\ Interval \in Nat \ {0} /\ Limit \in Nat \ {0} /\ MaxTime \in Nat
      /\ RacedLimit \in Nat /\ n <= RacedLimit
  BY RateWindowConfig, Racing
<1>2. \A x \in Times : From(a, x) \in Nat /\ From(b, x) \in Nat
  BY Forgotten
<1>3. \A x \in Times : From(a, x) <= From(b, x)
  BY Forgotten
<1>4. \A x, y \in Times : In(a, x, y) \in Nat /\ In(b, x, y) \in Nat
  BY Forgotten
<1>5. \A x, y \in Times : In(a, x, y) <= In(b, x, y)
  BY Forgotten
<1>6. ASSUME NEW x \in Times
      PROVE  /\ x >= s + Interval => From(a, x) = 0
             /\ x > c + 1 => From(a, x) = 0
             /\ x >= s => From(a, x) <= k
             /\ x >= s - Interval /\ x < s =>
                   In(a, x, s - 1) <= p /\ In(a, x, s - 1) <= RacedLimit
  <2>1. /\ x >= s + Interval => From(b, x) = 0
        /\ x > c => From(b, x) = 0
        /\ x >= s => From(b, x) <= k
        /\ x >= s - Interval /\ x < s =>
              In(b, x, s - 1) <= p /\ In(b, x, s - 1) <= RacedLimit
    BY DEF SketchCovers
  <2>2. From(a, x) \in Nat /\ From(b, x) \in Nat /\ From(a, x) <= From(b, x)
    BY <1>2, <1>3
  <2>3. x < s => /\ In(a, x, s - 1) <= In(b, x, s - 1)
                 /\ In(a, x, s - 1) \in Nat /\ In(b, x, s - 1) \in Nat
    <3>1. x < s => s - 1 \in Times
      BY <1>1 DEF Times
    <3> QED BY <1>4, <1>5, <3>1
  <2>4. x > c + 1 => x > c
    BY DEF Times
  <2> QED BY <1>1, <2>1, <2>2, <2>3, <2>4
<1>7. From(a, s) + n <= RacedLimit
  <2>1. From(b, s) + n <= RacedLimit
    BY DEF Raced
  <2> QED BY <1>1, <1>2, <1>3, <2>1
<1>8. ASSUME NEW x \in Times, n > 0, x <= c + 1, c + 1 - x < Interval
      PROVE  From(a, x) + n <= RacedLimit + CeilDiv(RacedLimit * (c + 1 - x), Interval)
  <2>1. PICK d \in Nat : d = c + 1 - x
    <3>1. c + 1 - x \in Nat
      BY <1>8 DEF Times
    <3> QED BY <3>1
  <2>2. CeilDiv(RacedLimit * d, Interval) \in Nat
    <3>1. d <= d
      BY <2>1
    <3> QED BY <1>1, <3>1, EarnsMore
  <2>3. CASE x > c
    <3>1. From(b, x) = 0
      BY <2>3 DEF SketchCovers
    <3> QED BY <1>1, <1>2, <1>3, <2>1, <2>2, <3>1
  <2>4. CASE x <= c
    <3>1. PICK e \in Nat : e = c - x /\ e <= d
      <4>1. c - x \in Nat /\ c - x <= d
        BY <2>1, <2>4 DEF Times
      <4> QED BY <4>1
    <3>2. From(b, x) + n <= RacedLimit + CeilDiv(RacedLimit * e, Interval)
      <4>1. c - x < Interval
        BY <1>1, <1>8 DEF Times
      <4>2. From(b, x) + n <= RacedLimit + CeilDiv(RacedLimit * (c - x), Interval)
        BY <1>8, <2>4, <4>1 DEF Raced
      <4> QED BY <3>1, <4>2
    <3>3. /\ CeilDiv(RacedLimit * e, Interval) \in Nat
          /\ CeilDiv(RacedLimit * e, Interval) <= CeilDiv(RacedLimit * d, Interval)
      BY <1>1, <2>1, <3>1, EarnsMore
    <3>4. From(a, x) \in Nat /\ From(b, x) \in Nat /\ From(a, x) <= From(b, x)
      BY <1>2, <1>3
    <3> QED BY <1>1, <2>1, <2>2, <3>2, <3>3, <3>4
  <2> QED BY <2>3, <2>4 DEF Times
<1>9. ASSUME NEW x \in Times, NEW d \in 0..(Interval - 1), x + d <= MaxTime
      PROVE  In(a, x, x + d) <= RacedLimit + CeilDiv(RacedLimit * d, Interval)
  <2>1. x + d \in Times /\ d \in Nat /\ d <= d
    BY <1>1, <1>9 DEF Times
  <2>2. In(b, x, x + d) <= RacedLimit + CeilDiv(RacedLimit * d, Interval)
    BY <1>9 DEF RacesFit
  <2>3. CeilDiv(RacedLimit * d, Interval) \in Nat
    BY <1>1, <2>1, EarnsMore
  <2>4. /\ In(a, x, x + d) <= In(b, x, x + d) /\ In(a, x, x + d) \in Nat
        /\ In(b, x, x + d) \in Nat
    BY <1>4, <1>5, <2>1
  <2> QED BY <1>1, <2>2, <2>3, <2>4
<1>10. SketchCovers(a, s, k, p, c + 1)
  BY <1>6 DEF SketchCovers
<1>11. Raced(a, s, c + 1, n)
  BY <1>1, <1>7, <1>8 DEF Raced, Times
<1> QED BY <1>9, <1>10, <1>11 DEF RacesFit

-----------------------------------------------------------------------------
(***************************************************************************)
(* What every step of a local limiter preserves.                           *)
(***************************************************************************)

\* An exact counter's window, or none yet, against what was admitted.
Exactly(w, last, b, c) ==
    /\ last <= c
    /\ \A x \in Times : x > last => From(b, x) = 0
    /\ w = Absent => \A x \in Times : From(b, x) = 0
    /\ w # Absent => Covers(b, w.start, w.current, w.previous, c)
    /\ BurstsFit(b)

\* A sketch's slots, against what was admitted and n requests in progress.
Roughly(w, b, c, n) ==
    /\ w # Absent
    /\ SketchCovers(b, w.start, w.current, w.previous, c)
    /\ Raced(b, w.start, c, n)
    /\ RacesFit(b)

Waiting(readings) == {r \in Requests : readings[r] # Absent}

\* A task that comes back, or is to come back, after t.
Awaits(q, t, readings, after) ==
    IF readings[q] = Absent THEN after[q] >= t ELSE readings[q] > t

\* A task refused once waits until the window it was refused by counts nothing.
Obeys(w, readings, after, refused) ==
    \A q \in Obedient :
        /\ refused[q] \in {0, 1}
        /\ refused[q] = 1 =>
              /\ w # Absent
              /\ \/ Awaits(q, w.start + Interval, readings, after)
                 \/ w.current = 0 /\ Awaits(q, w.start, readings, after)

ReadingsFresh ==
    \A r \in Requests :
        reading[r] # Absent => reading[r] <= clock /\ clock <= reading[r] + MaxLag

ExactInv == counter = "exact" => Exactly(window, lastAccess, admitted, clock)
SketchInv == counter = "sketch" => Roughly(window, admitted, clock, Cardinality(Waiting(reading)))
RetryInv ==
    IF counter = "exact" THEN Obeys(window, reading, retryAt, refusals)
    ELSE \A q \in Obedient : refusals[q] = 0

RateInv == LocalTypeOK /\ ReadingsFresh /\ ExactInv /\ SketchInv /\ RetryInv

\* The parts after a step.
LEMMA NextParts ==
    /\ ExactInv' <=> (counter' = "exact" => Exactly(window', lastAccess', admitted', clock'))
    /\ SketchInv' <=> (counter' = "sketch" =>
                          Roughly(window', admitted', clock', Cardinality(Waiting(reading'))))
    /\ RetryInv' <=> (IF counter' = "exact" THEN Obeys(window', reading', retryAt', refusals')
                      ELSE \A q \in Obedient : refusals'[q] = 0)
BY DEF ExactInv, SketchInv, RetryInv

\* The window brought forward to a reading still covers what was admitted.
LEMMA BroughtForward ==
    ASSUME NEW b \in [Times -> Nat], NEW c \in Times, NEW now \in Times, now <= c,
           NEW w \in Window, w.start <= c, Covers(b, w.start, w.current, w.previous, c)
    PROVE  /\ Rolled(w, now) \in Window
           /\ Rolled(w, now).start <= c
           /\ now < Rolled(w, now).start + Interval
           /\ Covers(b, Rolled(w, now).start, Rolled(w, now).current,
                     Rolled(w, now).previous, c)
<1> DEFINE v == Rolled(w, now)
<1>1. /\ Interval \in Nat \ {0} /\ MaxTime \in Nat
      /\ w.start \in Times /\ w.current \in Nat /\ w.previous \in Nat
      /\ w.start \in Nat /\ now \in Nat /\ now <= MaxTime
  BY RateWindowConfig DEF Window, Times
<1>2. CASE now >= w.start + 2 * Interval
  <2>1. v = NewWindow(now)
    BY <1>1, <1>2 DEF Rolled, Elapsed
  <2>2. Covers(b, now, 0, 0, c)
    BY <1>1, <1>2, RolledTwice
  <2> QED BY <1>1, <2>1, <2>2 DEF NewWindow, Window, Times
<1>3. CASE now >= w.start + Interval /\ now < w.start + 2 * Interval
  <2>1. v = [start |-> w.start + Interval, current |-> 0, previous |-> w.current]
    BY <1>1, <1>3 DEF Rolled, Elapsed
  <2>2. Covers(b, w.start + Interval, 0, w.current, c)
    BY <1>1, <1>3, RolledOnce
  <2>3. w.start + Interval \in 0..MaxTime /\ w.start + Interval <= c
        /\ now < w.start + Interval + Interval
    <3>1. c \in Nat /\ c <= MaxTime /\ 2 * Interval = Interval + Interval
      BY <1>1 DEF Times
    <3>2. w.start + Interval <= now /\ now < w.start + Interval + Interval
      BY <1>1, <1>3, <3>1
    <3> QED BY <1>1, <3>1, <3>2
  <2> QED BY <1>1, <2>1, <2>2, <2>3 DEF Window
<1>4. CASE now < w.start + Interval
  <2>1. v = w
    BY <1>1, <1>4 DEF Rolled, Elapsed
  <2> QED BY <1>4, <2>1
<1> QED BY <1>1, <1>2, <1>3, <1>4

\* Nobody is refused by a window that is empty but for earlier counts, once a
\* moment of it has passed.
LEMMA NotRefused ==
    ASSUME NEW p \in Nat, NEW e \in Nat, p <= Limit, e <= Interval, e > 0 \/ p = 0
    PROVE  ~Refuses(p, 0, e, Interval, Limit)
<1>1. Interval \in Nat \ {0} /\ Limit \in Nat \ {0}
  BY RateWindowConfig
<1>2. p * (Interval - e) + 0 * Interval < Limit * Interval
  BY <1>1, Admits
<1>3. \A x \in Int, y \in Int : x * y \in Int
  OBVIOUS
<1>4. p * (Interval - e) \in Int /\ 0 * Interval \in Int /\ Limit * Interval \in Int
  BY <1>1, <1>3
<1>5. ~(p * (Interval - e) + 0 * Interval >= Limit * Interval)
  BY <1>2, <1>4
<1> QED BY <1>5 DEF Refuses

\* A new window refuses nobody.
LEMMA NewAdmits ==
    ASSUME NEW now \in Times
    PROVE  ~Refuses(NewWindow(now).previous, NewWindow(now).current,
                    Elapsed(now, NewWindow(now).start), Interval, Limit)
<1>1. /\ NewWindow(now).previous = 0 /\ NewWindow(now).current = 0
      /\ Elapsed(now, NewWindow(now).start) = 0
  BY DEF NewWindow, Elapsed, Times
<1>2. 0 \in Nat /\ 0 <= Limit /\ 0 <= Interval
  BY RateWindowConfig
<1>3. ~Refuses(0, 0, 0, Interval, Limit)
  BY <1>2, NotRefused
<1> QED BY <1>1, <1>3

\* Whom a window refuses that was brought forward: it had counts of its own, and
\* was brought forward once at most.
LEMMA StillRefused ==
    ASSUME NEW now \in Times, NEW w \in Window, w.current <= Limit, w.previous <= Limit,
           Refuses(Rolled(w, now).previous, Rolled(w, now).current,
                   Elapsed(now, Rolled(w, now).start), Interval, Limit)
    PROVE  /\ now <= w.start + Interval
           /\ w.current = 0 => now <= w.start
           /\ \/ Rolled(w, now) = w
              \/ /\ Rolled(w, now).start = w.start + Interval
                 /\ Rolled(w, now).current = 0 /\ w.current > 0
<1> DEFINE v == Rolled(w, now)
<1>1. /\ Interval \in Nat \ {0} /\ MaxTime \in Nat
      /\ w.start \in Nat /\ w.current \in Nat /\ w.previous \in Nat /\ now \in Nat
  BY RateWindowConfig DEF Window, Times
<1>2. CASE now >= w.start + 2 * Interval
  <2>1. v = NewWindow(now)
    BY <1>1, <1>2 DEF Rolled, Elapsed
  <2> QED BY <2>1, NewAdmits
<1>3. CASE now >= w.start + Interval /\ now < w.start + 2 * Interval
  <2>1. v = [start |-> w.start + Interval, current |-> 0, previous |-> w.current]
    BY <1>1, <1>3 DEF Rolled, Elapsed
  <2>2. PICK e \in Nat : e = now - (w.start + Interval) /\ e <= Interval
                         /\ e = Elapsed(now, w.start + Interval)
    <3>1. /\ now - (w.start + Interval) \in Nat /\ now - (w.start + Interval) <= Interval
          /\ now - (w.start + Interval) = Elapsed(now, w.start + Interval)
      BY <1>1, <1>3 DEF Elapsed
    <3> QED BY <3>1
  <2>3. Refuses(w.current, 0, e, Interval, Limit)
    BY <2>1, <2>2
  <2>4. e = 0 /\ w.current # 0
    BY <1>1, <2>2, <2>3, NotRefused
  <2> QED BY <1>1, <2>1, <2>2, <2>4
<1>4. CASE now < w.start + Interval
  <2>1. v = w
    BY <1>1, <1>4 DEF Rolled, Elapsed
  <2>2. ASSUME w.current = 0, now > w.start PROVE FALSE
    <3>1. PICK e \in Nat : e = Elapsed(now, w.start) /\ e <= Interval /\ e > 0
      <4>1. /\ Elapsed(now, w.start) \in Nat /\ Elapsed(now, w.start) <= Interval
            /\ Elapsed(now, w.start) > 0
        BY <1>1, <1>4, <2>2 DEF Elapsed
      <4> QED BY <4>1
    <3>2. Refuses(w.previous, 0, e, Interval, Limit)
      BY <2>1, <2>2, <3>1
    <3> QED BY <1>1, <3>1, <3>2, NotRefused
  <2> QED BY <1>1, <1>4, <2>1, <2>2
<1> QED BY <1>1, <1>2, <1>3, <1>4

\* A new limiter has admitted nobody.
LEMMA RateInit == LimiterInit => RateInv
<1> SUFFICES ASSUME LimiterInit PROVE RateInv
  OBVIOUS
<1>1. /\ Interval \in Nat \ {0} /\ Limit \in Nat \ {0} /\ MaxTime \in Nat /\ MaxLag \in Nat
      /\ 0 \in Times /\ RacedLimit \in Nat
  BY RateWindowConfig, Racing DEF Times
<1>2. LocalInit
  BY DEF LimiterInit
<1>3. LocalTypeOK
  BY <1>1, <1>2, RateWindowConfig DEF LocalInit, LocalTypeOK, Window, NewWindow, Times
<1>4. admitted \in [Times -> Nat] /\ \A x \in Times : admitted[x] = 0
  BY <1>2 DEF LocalInit, Times
<1>5. \A x, y \in Times : In(admitted, x, y) = 0
  BY <1>4, InNothing
<1>6. \A x \in Times : From(admitted, x) = 0
  BY <1>1, <1>5 DEF From, Times
<1>7. Waiting(reading) = {} /\ Cardinality({}) = 0
  BY <1>2, FS_EmptySet DEF Waiting, LocalInit
<1>8. ASSUME NEW m \in Nat, NEW x \in Times, NEW d \in Nat
      PROVE  /\ CeilDiv(m * d, Interval) \in Nat
             /\ x + d <= MaxTime => In(admitted, x, x + d) = 0
  <2>1. d <= d
    OBVIOUS
  <2>2. x + d <= MaxTime => x + d \in Times
    BY DEF Times
  <2> QED BY <1>1, <1>5, <2>1, <2>2, EarnsMore
<1>9. BurstsFit(admitted)
  <2> SUFFICES ASSUME NEW x \in Times, NEW d \in 0..(Interval - 1), x + d <= MaxTime
               PROVE  In(admitted, x, x + d) <= IF d + MaxLag <= Interval
                                                THEN Limit + CeilDiv(Limit * d, Interval)
                                                ELSE 2 * Limit
    BY DEF BurstsFit
  <2>1. d \in Nat /\ Limit \in Nat
    BY <1>1
  <2>2. CeilDiv(Limit * d, Interval) \in Nat /\ In(admitted, x, x + d) = 0
    BY <1>8, <2>1
  <2> QED BY <1>1, <2>2
<1>10. RacesFit(admitted)
  <2> SUFFICES ASSUME NEW x \in Times, NEW d \in 0..(Interval - 1), x + d <= MaxTime
               PROVE  In(admitted, x, x + d)
                         <= RacedLimit + CeilDiv(RacedLimit * d, Interval)
    BY DEF RacesFit
  <2>1. d \in Nat
    BY <1>1
  <2>2. CeilDiv(RacedLimit * d, Interval) \in Nat /\ In(admitted, x, x + d) = 0
    BY <1>1, <1>8, <2>1
  <2> QED BY <1>1, <2>2
<1>11. ExactInv
  BY <1>1, <1>2, <1>6, <1>9 DEF ExactInv, Exactly, LocalInit
<1>12. SketchInv
  <2> SUFFICES ASSUME counter = "sketch"
               PROVE  Roughly(window, admitted, clock, Cardinality(Waiting(reading)))
    BY DEF SketchInv
  <2>1. window = NewWindow(0) /\ clock = 0
    BY <1>2 DEF LocalInit
  <2>2. window # Absent
    BY <1>1, <2>1, RateWindowConfig DEF NewWindow
  <2>3. \A x \in Times : x >= 0
    BY DEF Times
  <2>4. SketchCovers(admitted, 0, 0, 0, 0)
    BY <1>1, <1>6, <2>3 DEF SketchCovers, Times
  <2>5. Raced(admitted, 0, 0, 0)
    BY <1>1, <1>6 DEF Raced
  <2> QED BY <1>7, <1>10, <2>1, <2>2, <2>4, <2>5 DEF Roughly, NewWindow
<1>13. ReadingsFresh /\ RetryInv
  BY <1>2 DEF ReadingsFresh, RetryInv, Obeys, LocalInit
<1> QED BY <1>3, <1>11, <1>12, <1>13 DEF RateInv

\* A request reads the clock.
LEMMA ReadStep == ASSUME NEW r \in Requests, RateInv, Read(r) PROVE RateInv'
<1>1. /\ counter = "exact" /\ clock \in 0..MaxTime /\ clock \in Nat
      /\ reading \in [Requests -> {Absent} \cup 0..MaxTime] /\ Absent \notin Nat
      /\ MaxLag \in Nat /\ retryAt \in [Obedient -> Int] /\ Obedient \subseteq Requests
      /\ reading' = [reading EXCEPT ![r] = clock] /\ reading[r] = Absent
      /\ retryAt' = [q \in Obedient |-> IF q = r THEN -1 ELSE retryAt[q]]
      /\ r \in Obedient => clock > retryAt[r]
      /\ counter' = counter /\ clock' = clock /\ window' = window
      /\ lastAccess' = lastAccess /\ refusals' = refusals /\ bumps' = bumps
      /\ admitted' = admitted
  BY RateWindowConfig DEF Read, RateInv, LocalTypeOK
<1>2. LocalTypeOK'
  BY <1>1 DEF RateInv, LocalTypeOK
<1>3. ReadingsFresh'
  BY <1>1 DEF RateInv, ReadingsFresh
<1>4. ExactInv' /\ SketchInv'
  BY <1>1, NextParts DEF RateInv, ExactInv
<1>5. RetryInv'
  <2>1. Obeys(window, reading, retryAt, refusals)
    BY <1>1 DEF RateInv, RetryInv
  <2>2. ASSUME NEW q \in Obedient, NEW t \in Int, Awaits(q, t, reading, retryAt)
        PROVE  Awaits(q, t, reading', retryAt')
    BY <1>1, <2>2 DEF Awaits
  <2>3. refusals' = refusals /\ window' = window /\ Interval \in Nat
    BY <1>1, RateWindowConfig
  <2>4. window # Absent => window.start \in Int /\ window.start + Interval \in Int
    BY <2>3 DEF RateInv, LocalTypeOK, Window
  <2>5. Obeys(window', reading', retryAt', refusals')
    BY <2>1, <2>2, <2>3, <2>4 DEF Obeys
  <2> QED BY <1>1, <2>5, NextParts
<1> QED BY <1>2, <1>3, <1>4, <1>5 DEF RateInv

\* The window a request decides by covers what was admitted.
LEMMA Decided ==
    ASSUME NEW r \in Requests, RateInv, counter = "exact", reading[r] # Absent
    PROVE  LET now == reading[r]
               w == Rolled(Lookup(now), now)
           IN  /\ now \in Times /\ now <= clock /\ clock <= now + MaxLag
               /\ w \in Window /\ w.start <= clock /\ now < w.start + Interval
               /\ Covers(admitted, w.start, w.current, w.previous, clock)
<1> DEFINE now == reading[r]
<1>1. /\ now \in Times /\ now <= clock /\ clock <= now + MaxLag /\ clock \in Times
      /\ admitted \in [Times -> Nat] /\ lastAccess \in Times /\ MaxTime \in Nat
      /\ window \in {Absent} \cup Window /\ (window # Absent => window.start <= clock)
      /\ Exactly(window, lastAccess, admitted, clock)
      /\ Interval \in Nat \ {0} /\ Limit \in Nat /\ MaxLag \in Nat
  BY RateWindowConfig DEF RateInv, LocalTypeOK, ReadingsFresh, ExactInv, Times
<1> HIDE DEF now
<1>2. PICK w \in Window : /\ w = Lookup(now) /\ w.start <= clock
                           /\ Covers(admitted, w.start, w.current, w.previous, clock)
  <2>1. CASE window = Absent \/ clock - lastAccess >= 2 * Interval
    <3>1. Lookup(now) = NewWindow(now)
      BY <2>1 DEF Lookup
    <3>2. /\ NewWindow(now) \in Window /\ NewWindow(now).start = now
          /\ NewWindow(now).current = 0 /\ NewWindow(now).previous = 0
      BY <1>1 DEF NewWindow, Window, Times
    <3>3. Covers(admitted, now, 0, 0, clock)
      <4>1. CASE window = Absent
        BY <1>1, <4>1 DEF Exactly, Covers
      <4>2. CASE clock - lastAccess >= 2 * Interval
        <5>1. clock >= lastAccess + 2 * Interval /\ lastAccess \in Int
          BY <1>1, <4>2 DEF Times
        <5>2. \A x \in Times : x > lastAccess => From(admitted, x) = 0
          BY <1>1 DEF Exactly
        <5> QED BY <1>1, <5>1, <5>2, Dropped
      <4> QED BY <2>1, <4>1, <4>2
    <3> QED BY <1>1, <3>1, <3>2, <3>3
  <2>2. CASE ~(window = Absent \/ clock - lastAccess >= 2 * Interval)
    <3>1. Lookup(now) = window /\ window \in Window
      BY <1>1, <2>2 DEF Lookup
    <3> QED BY <1>1, <2>2, <3>1 DEF Exactly
  <2> QED BY <2>1, <2>2
<1>3. /\ Rolled(w, now) \in Window
      /\ Rolled(w, now).start <= clock
      /\ now < Rolled(w, now).start + Interval
      /\ Covers(admitted, Rolled(w, now).start, Rolled(w, now).current,
                Rolled(w, now).previous, clock)
  BY <1>1, <1>2, BroughtForward
<1> QED BY <1>1, <1>2, <1>3 DEF now

\* A request is decided and counted under the window's lock.
LEMMA CheckStep == ASSUME NEW r \in Requests, RateInv, Check(r) PROVE RateInv'
<1>1. counter = "exact" /\ reading[r] # Absent
  BY DEF Check
<1>2. PICK now \in Times : now = reading[r]
  BY <1>1, Decided
<1>3. PICK w \in Window : w = Rolled(Lookup(now), now)
  BY <1>1, <1>2, Decided
<1>4. /\ now <= clock /\ clock <= now + MaxLag /\ w.start <= clock
      /\ now < w.start + Interval
      /\ Covers(admitted, w.start, w.current, w.previous, clock)
  BY <1>1, <1>2, <1>3, Decided
<1>5. PICK allowed \in BOOLEAN :
        allowed = ~Refuses(w.previous, w.current, Elapsed(now, w.start), Interval, Limit)
  OBVIOUS
<1>6. /\ window' = IF allowed THEN [w EXCEPT !.current = @ + 1] ELSE w
      /\ admitted' = IF allowed THEN [admitted EXCEPT ![now] = @ + 1] ELSE admitted
      /\ refusals' = [q \in Obedient |->
             IF allowed THEN 0
             ELSE IF q = r THEN refusals[q] + 1 ELSE refusals[q]]
      /\ retryAt' = [q \in Obedient |->
             IF q = r /\ ~allowed
             THEN clock + RetryAfter(Elapsed(now, w.start), Interval, Second)
             ELSE retryAt[q]]
      /\ lastAccess' = clock
      /\ reading' = [reading EXCEPT ![r] = Absent]
      /\ counter' = counter /\ clock' = clock /\ bumps' = bumps
  BY <1>2, <1>3, <1>5 DEF Check
<1>7. /\ Interval \in Nat \ {0} /\ Limit \in Nat \ {0} /\ MaxTime \in Nat /\ MaxLag \in Nat
      /\ Second \in Nat \ {0} /\ Absent \notin Nat
      /\ clock \in Times /\ admitted \in [Times -> Nat] /\ lastAccess \in Times
      /\ w.start \in Nat /\ w.start \in Times /\ w.current \in Nat /\ w.previous \in Nat
      /\ w # Absent /\ Exactly(window, lastAccess, admitted, clock)
      /\ reading \in [Requests -> {Absent} \cup 0..MaxTime]
      /\ retryAt \in [Obedient -> Int] /\ refusals \in [Obedient -> Nat]
      /\ Obedient \subseteq Requests
  BY <1>1, RateWindowConfig DEF RateInv, LocalTypeOK, ExactInv, Window, Times
<1>8. PICK e \in Nat : e = Elapsed(now, w.start) /\ clock + (Interval - e) >= w.start + Interval
                       /\ e < Interval
  <2>1. /\ Elapsed(now, w.start) \in Nat /\ Elapsed(now, w.start) < Interval
        /\ clock + (Interval - Elapsed(now, w.start)) >= w.start + Interval
    <3>1. now \in Nat /\ clock \in Nat
      BY <1>7 DEF Times
    <3>2. CASE now > w.start
      BY <1>4, <1>7, <3>1, <3>2 DEF Elapsed
    <3>3. CASE ~(now > w.start)
      BY <1>4, <1>7, <3>1, <3>3 DEF Elapsed
    <3> QED BY <3>2, <3>3
  <2> QED BY <2>1
<1>9. PICK after \in Int : /\ after = clock + RetryAfter(e, Interval, Second)
                            /\ after >= w.start + Interval
  <2>1. PICK i \in Nat : i = Interval - e /\ clock + i >= w.start + Interval
    <3>1. Interval - e \in Nat
      BY <1>7, <1>8
    <3> QED BY <1>8, <3>1
  <2>2. CeilDiv(i, Second) \in Nat /\ Second * CeilDiv(i, Second) >= i
    BY <1>7, <2>1, RoundsUp
  <2>3. PICK m \in Nat : m = CeilDiv(i, Second) /\ Second * m \in Nat /\ Second * m >= i
    <3>1. \A x \in Nat, y \in Nat : x * y \in Nat
      OBVIOUS
    <3>2. Second * CeilDiv(i, Second) \in Nat
      BY <1>7, <2>2, <3>1
    <3> QED BY <2>2, <3>2
  <2>4. RetryAfter(e, Interval, Second) = IF i > Second THEN Second * m ELSE Second
    BY <2>1, <2>3 DEF RetryAfter
  <2>5. RetryAfter(e, Interval, Second) \in Nat /\ RetryAfter(e, Interval, Second) >= i
    BY <1>7, <2>1, <2>3, <2>4
  <2>6. clock + RetryAfter(e, Interval, Second) \in Int
        /\ clock + RetryAfter(e, Interval, Second) >= w.start + Interval
    BY <1>7, <2>1, <2>5 DEF Times
  <2> QED BY <2>6
<1>10. LocalTypeOK'
  <2>1. window' \in Window /\ window'.start <= clock
    BY <1>4, <1>6, <1>7 DEF Window
  <2>2. admitted' \in [0..MaxTime -> Nat]
    <3>1. admitted \in [0..MaxTime -> Nat] /\ now \in 0..MaxTime
      BY <1>7 DEF Times
    <3>2. admitted[now] + 1 \in Nat
      BY <3>1
    <3> QED BY <1>6, <3>1, <3>2
  <2>3. retryAt' \in [Obedient -> Int] /\ refusals' \in [Obedient -> Nat]
    BY <1>6, <1>7, <1>8, <1>9
  <2>4. reading' \in [Requests -> {Absent} \cup 0..MaxTime] /\ lastAccess' \in 0..MaxTime
    <3>1. lastAccess' \in 0..MaxTime
      BY <1>6, <1>7 DEF Times
    <3>2. reading' \in [Requests -> {Absent} \cup 0..MaxTime]
      BY <1>6, <1>7
    <3> QED BY <3>1, <3>2
  <2> QED BY <1>6, <2>1, <2>2, <2>3, <2>4 DEF LocalTypeOK, RateInv
<1>11. ReadingsFresh'
  BY <1>6, <1>7 DEF RateInv, ReadingsFresh
<1>12. Exactly(window', clock, admitted', clock)
  <2>1. /\ \A x \in Times : x > clock => From(admitted, x) = 0
        /\ BurstsFit(admitted)
    BY <1>7 DEF Exactly, Times
  <2>2. CASE ~allowed
    BY <1>4, <1>6, <1>7, <2>1, <2>2 DEF Exactly, Times
  <2>3. CASE allowed
    <3>1. PICK a \in [Times -> Nat] :
             a = admitted' /\ \A x \in Times : a[x] = IF x = now THEN admitted[now] + 1
                                                     ELSE admitted[x]
      <4>1. admitted' = [admitted EXCEPT ![now] = @ + 1]
        BY <1>6, <2>3
      <4> QED BY <1>7, <4>1
    <3>2. Covers(a, w.start, w.current + 1, w.previous, clock) /\ BurstsFit(a)
      <4>1. ~Refuses(w.previous, w.current, Elapsed(now, w.start), Interval, Limit)
        BY <1>5, <2>3
      <4>2. now + MaxLag >= clock /\ w.start <= clock
        BY <1>4
      <4>3. \A x \in Times : a[x] = IF x = now THEN admitted[now] + 1 ELSE admitted[x]
        BY <3>1
      <4>4. /\ admitted \in [Times -> Nat] /\ clock \in Times
            /\ w.start \in Times /\ w.current \in Nat /\ w.previous \in Nat
        BY <1>7
      <4>5. PICK s \in Times, k \in Nat, p \in Nat, c \in Times, b \in [Times -> Nat] :
                 s = w.start /\ k = w.current /\ p = w.previous /\ c = clock /\ b = admitted
        BY <4>4
      <4>6. /\ Covers(b, s, k, p, c) /\ BurstsFit(b)
            /\ ~Refuses(p, k, Elapsed(now, s), Interval, Limit)
            /\ now + MaxLag >= c /\ s <= c /\ now < s + Interval
        BY <1>4, <2>1, <4>1, <4>2, <4>5
      <4>7. \A x \in Times : a[x] = IF x = now THEN b[now] + 1 ELSE b[x]
        BY <4>3, <4>5
      <4>8. Covers(a, s, k + 1, p, c) /\ BurstsFit(a)
        BY <4>6, <4>7, Counted
      <4> QED BY <4>5, <4>8
    <3>3. ASSUME NEW x \in Times, x > clock PROVE From(a, x) = 0
      <4>1. MaxTime \in Times /\ ~(x <= now)
        <5>1. MaxTime \in Times
          BY RateWindowConfig DEF Times
        <5>2. x \in Int /\ clock \in Int /\ now \in Int /\ now <= clock
          BY <1>4, <1>7 DEF Times
        <5>3. x > clock
          BY <3>3
        <5> QED BY <5>1, <5>2, <5>3
      <4>2. \A y, z \in Times :
              In(a, y, z) = In(admitted, y, z) + (IF y <= now /\ now <= z THEN 1 ELSE 0)
        BY <1>7, <3>1, InAdds
      <4>3. From(a, x) = From(admitted, x) + 0
        BY <4>1, <4>2 DEF From
      <4> QED BY <2>1, <3>3, <4>3
    <3>4. window' = [start |-> w.start, current |-> w.current + 1, previous |-> w.previous]
      BY <1>6, <2>3 DEF Window
    <3>5. window' # Absent
      <4>1. window' \in Window
        BY <1>7, <3>4 DEF Window, Times
      <4> QED BY <4>1, RateWindowConfig DEF Window
    <3> QED BY <1>7, <3>1, <3>2, <3>3, <3>4, <3>5 DEF Exactly, Times
  <2> QED BY <2>2, <2>3
<1>13. ExactInv' /\ SketchInv'
  BY <1>1, <1>6, <1>12, NextParts
<1>14. Obeys(window, reading, retryAt, refusals)
  BY <1>1 DEF RateInv, RetryInv
<1>15. CASE allowed
  <2>1. window' # Absent /\ \A q \in Obedient : refusals'[q] = 0
    BY <1>6, <1>15, <1>10, RateWindowConfig DEF Window
  <2>2. Obeys(window', reading', retryAt', refusals')
    BY <2>1 DEF Obeys
  <2>3. RetryInv'
    BY <1>1, <1>6, <2>2, NextParts
  <2> QED BY <1>10, <1>11, <1>13, <2>3 DEF RateInv
<1>16. CASE ~allowed
  <2>1. window' = w /\ Refuses(w.previous, w.current, e, Interval, Limit)
    BY <1>5, <1>6, <1>8, <1>16
  <2>2. ASSUME NEW q \in Obedient, refusals[q] = 1
        PROVE  /\ q # r
               /\ \/ Awaits(q, w.start + Interval, reading, retryAt)
                  \/ w.current = 0 /\ Awaits(q, w.start, reading, retryAt)
    <3>1. /\ window # Absent
          /\ \/ Awaits(q, window.start + Interval, reading, retryAt)
             \/ window.current = 0 /\ Awaits(q, window.start, reading, retryAt)
      BY <1>14, <2>2 DEF Obeys
    <3>2. Lookup(now) = window
      <4>1. Lookup(now) # NewWindow(now)
        <5>1. SUFFICES ASSUME Lookup(now) = NewWindow(now) PROVE FALSE
          OBVIOUS
        <5>2. Elapsed(now, now) = 0 /\ Rolled(NewWindow(now), now) = NewWindow(now)
          BY <1>7 DEF Elapsed, Rolled, NewWindow, Times
        <5>3. w = NewWindow(now)
          BY <1>3, <5>1, <5>2
        <5> QED BY <1>8, <2>1, <5>3, NewAdmits
      <4> QED BY <4>1 DEF Lookup
    <3>3. /\ window \in Window /\ window.current <= Limit /\ window.previous <= Limit
          /\ window.start \in Nat /\ window.current \in Nat
      BY <1>7, <3>1 DEF RateInv, LocalTypeOK, Exactly, Covers, Window
    <3>4. /\ now <= window.start + Interval
          /\ window.current = 0 => now <= window.start
          /\ \/ w = window
             \/ w.start = window.start + Interval /\ w.current = 0 /\ window.current > 0
      <4>1. w = Rolled(window, now)
        BY <1>3, <3>2
      <4>2. Refuses(Rolled(window, now).previous, Rolled(window, now).current,
                    Elapsed(now, Rolled(window, now).start), Interval, Limit)
        BY <1>8, <2>1, <4>1
      <4> QED BY <3>3, <4>1, <4>2, StillRefused
    <3>5. q # r
      <4> SUFFICES ASSUME q = r PROVE FALSE
        OBVIOUS
      <4>1. reading[q] = now /\ reading[q] # Absent
        BY <1>1, <1>2
      <4> QED BY <1>7, <3>1, <3>3, <3>4, <4>1 DEF Awaits, Times
    <3>6. \/ Awaits(q, w.start + Interval, reading, retryAt)
          \/ w.current = 0 /\ Awaits(q, w.start, reading, retryAt)
      BY <3>1, <3>3, <3>4
    <3> QED BY <3>5, <3>6
  <2>3. ASSUME NEW q \in Obedient, q # r, NEW t \in Int
        PROVE  Awaits(q, t, reading, retryAt) => Awaits(q, t, reading', retryAt')
    BY <1>6, <1>7, <2>3 DEF Awaits
  <2>4. ASSUME NEW q \in Obedient
        PROVE  /\ refusals'[q] \in {0, 1}
               /\ refusals'[q] = 1 =>
                     /\ w # Absent
                     /\ \/ Awaits(q, w.start + Interval, reading', retryAt')
                        \/ w.current = 0 /\ Awaits(q, w.start, reading', retryAt')
    <3>1. refusals[q] \in {0, 1}
      BY <1>14 DEF Obeys
    <3>2. CASE q = r
      <4>1. refusals[q] = 0
        BY <2>2, <3>1, <3>2
      <4>2. refusals'[q] = 1
        BY <1>6, <1>16, <3>2, <4>1
      <4>3. reading'[q] = Absent /\ retryAt'[q] = after
        BY <1>6, <1>7, <1>8, <1>9, <1>16, <3>2
      <4> QED BY <1>7, <1>9, <4>2, <4>3 DEF Awaits
    <3>3. CASE q # r
      <4>1. refusals'[q] = refusals[q]
        BY <1>6, <1>16, <3>3
      <4>2. w.start \in Int /\ w.start + Interval \in Int
        BY <1>7
      <4> QED BY <1>7, <2>2, <2>3, <3>1, <3>3, <4>1, <4>2
    <3> QED BY <3>2, <3>3
  <2>5. Obeys(window', reading', retryAt', refusals')
    BY <2>1, <2>4 DEF Obeys
  <2>6. RetryInv'
    BY <1>1, <1>6, <2>5, NextParts
  <2> QED BY <1>10, <1>11, <1>13, <2>6 DEF RateInv
<1> QED BY <1>15, <1>16

\* The slots a sketch goes by now cover what was admitted.
LEMMA SlotsCover ==
    ASSUME RateInv, counter = "sketch", NEW w \in SlotsNow(window)
    PROVE  /\ w \in Window /\ w.start <= clock /\ clock < w.start + Interval
           /\ SketchCovers(admitted, w.start, w.current, w.previous, clock)
           /\ Raced(admitted, w.start, clock, Cardinality(Waiting(reading)))
<1>1. /\ Interval \in Nat \ {0} /\ MaxTime \in Nat /\ clock \in Times
      /\ admitted \in [Times -> Nat] /\ window \in Window /\ window.start <= clock
      /\ Roughly(window, admitted, clock, Cardinality(Waiting(reading)))
  BY RateWindowConfig DEF RateInv, LocalTypeOK, SketchInv, Roughly, Times
<1>2. /\ Cardinality(Waiting(reading)) \in Nat
      /\ Cardinality(Waiting(reading)) <= Cardinality(Requests)
  <2>1. Waiting(reading) \subseteq Requests
    BY DEF Waiting
  <2> QED BY <2>1, RateWindowConfig, FS_Subset, FS_CardinalityType
<1>3. PICK n \in Nat : n = Cardinality(Waiting(reading)) /\ n <= Cardinality(Requests)
  BY <1>2
<1>4. PICK s \in Times, k \in Nat, p \in Nat, c \in Times, b \in [Times -> Nat] :
           /\ s = window.start /\ k = window.current /\ p = window.previous
           /\ c = clock /\ b = admitted
  BY <1>1 DEF Window, Times
<1>5. SketchCovers(b, s, k, p, c) /\ Raced(b, s, c, n) /\ s <= c
  BY <1>1, <1>3, <1>4 DEF Roughly
<1>6. s \in Nat /\ c \in Nat /\ s <= MaxTime /\ c <= MaxTime
  BY <1>1 DEF Times
<1>7. CASE c - s >= 2 * Interval
  <2>1. w = NewWindow(clock)
    BY <1>4, <1>7 DEF SlotsNow
  <2>2. c >= s + Interval /\ c >= s + 2 * Interval /\ 0 \in Nat /\ c <= c
    BY <1>1, <1>6, <1>7
  <2>3. SketchCovers(b, c, 0, 0, c) /\ Raced(b, c, c, n)
    BY <1>3, <1>5, <2>2, SlotEnds
  <2> QED BY <1>1, <1>3, <1>4, <1>6, <2>1, <2>3 DEF NewWindow, Window, Times
<1>8. CASE c - s >= Interval /\ ~(c - s >= 2 * Interval)
  <2>1. PICK u \in {s + Interval, c} : w = [start |-> u, current |-> 0, previous |-> k]
    BY <1>4, <1>8 DEF SlotsNow
  <2>2. /\ u \in Times /\ u >= s + Interval /\ u <= c /\ c < u + Interval
    BY <1>1, <1>6, <1>8, <2>1 DEF Times
  <2>3. SketchCovers(b, u, 0, k, c) /\ Raced(b, u, c, n)
    BY <1>3, <1>5, <2>2, SlotEnds
  <2> QED BY <1>3, <1>4, <2>1, <2>2, <2>3 DEF Window, Times
<1>9. CASE ~(c - s >= Interval)
  <2>1. w = window
    BY <1>1, <1>4, <1>6, <1>9 DEF SlotsNow
  <2>2. clock < window.start + Interval
    BY <1>1, <1>4, <1>6, <1>9
  <2> QED BY <1>1, <2>1, <2>2 DEF Roughly
<1> QED BY <1>7, <1>8, <1>9

\* A request reads the estimate.
LEMMA ReadSketchStep == ASSUME NEW r \in Requests, RateInv, ReadSketch(r) PROVE RateInv'
<1>1. /\ counter = "sketch" /\ reading[r] = Absent
      /\ counter' = counter /\ clock' = clock /\ lastAccess' = lastAccess
      /\ retryAt' = retryAt /\ refusals' = refusals /\ bumps' = bumps
      /\ admitted' = admitted
  BY DEF ReadSketch
<1>2. PICK w \in SlotsNow(window) :
         /\ window' = w
         /\ reading' = IF SketchRefuses(w) THEN reading ELSE [reading EXCEPT ![r] = clock]
  BY DEF ReadSketch
<1>3. /\ w \in Window /\ w.start <= clock /\ clock < w.start + Interval
      /\ SketchCovers(admitted, w.start, w.current, w.previous, clock)
      /\ Raced(admitted, w.start, clock, Cardinality(Waiting(reading)))
      /\ RacesFit(admitted)
  BY <1>1, SlotsCover DEF RateInv, SketchInv, Roughly
<1>4. /\ clock \in 0..MaxTime /\ clock \in Nat /\ MaxLag \in Nat /\ Absent \notin Nat
      /\ reading \in [Requests -> {Absent} \cup 0..MaxTime]
  BY RateWindowConfig DEF RateInv, LocalTypeOK
<1>5. w # Absent
  BY <1>3, RateWindowConfig DEF Window
<1>6. LocalTypeOK' /\ ReadingsFresh'
  <2>1. reading' \in [Requests -> {Absent} \cup 0..MaxTime]
    BY <1>2, <1>4
  <2>2. LocalTypeOK'
    BY <1>1, <1>2, <1>3, <2>1 DEF RateInv, LocalTypeOK
  <2>3. ReadingsFresh'
    BY <1>1, <1>2, <1>4 DEF RateInv, ReadingsFresh
  <2> QED BY <2>2, <2>3
<1>7. Raced(admitted, w.start, clock, Cardinality(Waiting(reading')))
  <2>1. CASE SketchRefuses(w)
    BY <1>2, <1>3, <2>1
  <2>2. CASE ~SketchRefuses(w)
    <3>1. /\ Waiting(reading') = Waiting(reading) \cup {r} /\ r \notin Waiting(reading)
          /\ Waiting(reading') \subseteq Requests /\ Waiting(reading) \subseteq Requests
      BY <1>1, <1>2, <1>4, <2>2 DEF Waiting
    <3>2. IsFiniteSet(Waiting(reading)) /\ IsFiniteSet(Waiting(reading'))
      BY <3>1, RateWindowConfig, FS_Subset
    <3>3. PICK n \in Nat : n = Cardinality(Waiting(reading))
      BY <3>2, FS_CardinalityType
    <3>4. Cardinality(Waiting(reading')) = n + 1
      BY <3>1, <3>2, <3>3, FS_AddElement
    <3>5. n + 1 <= Cardinality(Requests)
      BY <3>1, <3>4, RateWindowConfig, FS_Subset
    <3>6. PICK s \in Times, k \in Nat, p \in Nat, c \in Times, b \in [Times -> Nat] :
             s = w.start /\ k = w.current /\ p = w.previous /\ c = clock /\ b = admitted
      BY <1>3, <1>4 DEF RateInv, LocalTypeOK, Window, Times
    <3>7. /\ SketchCovers(b, s, k, p, c) /\ Raced(b, s, c, n) /\ s <= c /\ c < s + Interval
          /\ ~Refuses(p, k, c - s, Interval, Limit)
      BY <1>3, <2>2, <3>3, <3>6 DEF SketchRefuses
    <3>8. Raced(b, s, c, n + 1)
      BY <3>5, <3>7, LetThrough
    <3> QED BY <3>4, <3>6, <3>8
  <2> QED BY <2>1, <2>2
<1>8. SketchInv'
  BY <1>1, <1>2, <1>3, <1>5, <1>7, NextParts DEF Roughly
<1>9. ExactInv' /\ RetryInv'
  BY <1>1, NextParts DEF RateInv, RetryInv
<1> QED BY <1>6, <1>8, <1>9 DEF RateInv

\* A request is counted in the sketch.
LEMMA ObserveStep == ASSUME NEW r \in Requests, RateInv, Observe(r) PROVE RateInv'
<1>1. /\ counter = "sketch" /\ reading[r] # Absent
      /\ counter' = counter /\ clock' = clock /\ lastAccess' = lastAccess
      /\ retryAt' = retryAt /\ refusals' = refusals /\ bumps' = bumps
      /\ admitted' = [admitted EXCEPT ![clock] = @ + 1]
      /\ reading' = [reading EXCEPT ![r] = Absent]
  BY DEF Observe
<1>2. PICK w \in SlotsNow(window) : window' = [w EXCEPT !.current = @ + 1]
  BY DEF Observe
<1>3. /\ w \in Window /\ w.start <= clock /\ clock < w.start + Interval
      /\ SketchCovers(admitted, w.start, w.current, w.previous, clock)
      /\ Raced(admitted, w.start, clock, Cardinality(Waiting(reading)))
      /\ RacesFit(admitted)
  BY <1>1, SlotsCover DEF RateInv, SketchInv, Roughly
<1>4. /\ clock \in Times /\ MaxLag \in Nat /\ Absent \notin Nat
      /\ reading \in [Requests -> {Absent} \cup 0..MaxTime]
      /\ admitted \in [Times -> Nat]
      /\ w.start \in Times /\ w.current \in Nat /\ w.previous \in Nat
  BY <1>3, RateWindowConfig DEF RateInv, LocalTypeOK, Window, Times
<1>5. window' = [start |-> w.start, current |-> w.current + 1, previous |-> w.previous]
  BY <1>2, <1>3 DEF Window
<1>6. window' \in Window /\ window' # Absent
  <2>1. window' \in Window
    BY <1>4, <1>5 DEF Window, Times
  <2> QED BY <2>1, RateWindowConfig DEF Window
<1>7. PICK a \in [Times -> Nat] :
        a = admitted' /\ \A x \in Times : a[x] = IF x = clock THEN admitted[clock] + 1
                                                ELSE admitted[x]
  <2>1. /\ admitted \in [Times -> Nat] /\ clock \in Times /\ admitted[clock] + 1 \in Nat
        /\ admitted' = [admitted EXCEPT ![clock] = admitted[clock] + 1]
    BY <1>1, <1>4
  <2>2. /\ admitted' \in [Times -> Nat]
        /\ \A x \in Times : admitted'[x] = IF x = clock THEN admitted[clock] + 1
                                           ELSE admitted[x]
    BY <2>1
  <2> QED BY <2>2
<1>8. LocalTypeOK' /\ ReadingsFresh'
  <2>1. reading' \in [Requests -> {Absent} \cup 0..MaxTime]
    BY <1>1, <1>4
  <2>2. admitted' \in [0..MaxTime -> Nat]
    BY <1>7 DEF Times
  <2>3. window'.start <= clock
    BY <1>3, <1>5
  <2>4. LocalTypeOK'
    BY <1>1, <1>6, <2>1, <2>2, <2>3 DEF RateInv, LocalTypeOK
  <2>5. ReadingsFresh'
    BY <1>1, <1>4 DEF RateInv, ReadingsFresh
  <2> QED BY <2>4, <2>5
<1>9. SketchInv'
  <2>1. /\ Waiting(reading') = Waiting(reading) \ {r} /\ r \in Waiting(reading)
        /\ Waiting(reading) \subseteq Requests
    BY <1>1, <1>4 DEF Waiting
  <2>2. IsFiniteSet(Waiting(reading))
    BY <2>1, RateWindowConfig, FS_Subset
  <2>3. PICK n \in Nat \ {0} : /\ n = Cardinality(Waiting(reading))
                                /\ Cardinality(Waiting(reading')) = n - 1
    <3>1. Cardinality(Waiting(reading)) \in Nat
      BY <2>2, FS_CardinalityType
    <3>2. Cardinality(Waiting(reading')) = Cardinality(Waiting(reading)) - 1
      BY <2>1, <2>2, FS_RemoveElement
    <3>3. Cardinality(Waiting(reading)) # 0
      BY <2>1, <2>2, FS_EmptySet
    <3> QED BY <3>1, <3>2, <3>3
  <2>4. PICK s \in Times, k \in Nat, p \in Nat, c \in Times, b \in [Times -> Nat] :
           s = w.start /\ k = w.current /\ p = w.previous /\ c = clock /\ b = admitted
    BY <1>4
  <2>5. /\ SketchCovers(b, s, k, p, c) /\ Raced(b, s, c, n) /\ RacesFit(b)
        /\ s <= c /\ c < s + Interval
    BY <1>3, <2>3, <2>4
  <2>6. \A x \in Times : a[x] = IF x = c THEN b[c] + 1 ELSE b[x]
    BY <1>7, <2>4
  <2>7. SketchCovers(a, s, k + 1, p, c) /\ Raced(a, s, c, n - 1) /\ RacesFit(a)
    BY <2>5, <2>6, Observed
  <2>8. Roughly(window', a, c, n - 1)
    BY <1>5, <1>6, <2>4, <2>7 DEF Roughly
  <2> QED BY <1>1, <1>7, <2>3, <2>4, <2>8, NextParts
<1>10. ExactInv' /\ RetryInv'
  BY <1>1, NextParts DEF RateInv, RetryInv
<1> QED BY <1>8, <1>9, <1>10 DEF RateInv

\* A request of another key is counted in this one's cells.
LEMMA CollisionStep == ASSUME RateInv, CollisionIn PROVE RateInv'
<1>1. /\ counter = "sketch" /\ bumps < MaxBumps /\ bumps' = bumps + 1
      /\ counter' = counter /\ clock' = clock /\ lastAccess' = lastAccess
      /\ reading' = reading /\ retryAt' = retryAt /\ refusals' = refusals
      /\ admitted' = admitted
  BY DEF CollisionIn
<1>2. PICK w \in SlotsNow(window) : window' = [w EXCEPT !.current = @ + 1]
  BY DEF CollisionIn
<1>3. /\ w \in Window /\ w.start <= clock
      /\ SketchCovers(admitted, w.start, w.current, w.previous, clock)
      /\ Raced(admitted, w.start, clock, Cardinality(Waiting(reading)))
      /\ RacesFit(admitted)
  BY <1>1, SlotsCover DEF RateInv, SketchInv, Roughly
<1>4. /\ admitted \in [Times -> Nat] /\ MaxTime \in Times /\ MaxTime \in Nat
      /\ w.start \in Times /\ w.current \in Nat /\ w.previous \in Nat /\ MaxBumps \in Nat
  BY <1>3, RateWindowConfig DEF RateInv, LocalTypeOK, Window, Times
<1>5. window' = [start |-> w.start, current |-> w.current + 1, previous |-> w.previous]
  BY <1>2, <1>3 DEF Window
<1>6. window' \in Window /\ window' # Absent
  <2>1. window' \in Window
    BY <1>4, <1>5 DEF Window, Times
  <2> QED BY <2>1, RateWindowConfig DEF Window
<1>7. LocalTypeOK' /\ ReadingsFresh'
  BY <1>1, <1>3, <1>4, <1>5, <1>6 DEF RateInv, LocalTypeOK, ReadingsFresh
<1>8. SketchCovers(admitted, w.start, w.current + 1, w.previous, clock)
  <2>1. \A x \in Times : From(admitted, x) \in Nat
    BY <1>4, InSums DEF From
  <2>2. \A x \in Times : From(admitted, x) <= w.current => From(admitted, x) <= w.current + 1
    BY <1>4, <2>1
  <2> QED BY <1>3, <2>2 DEF SketchCovers
<1>9. SketchInv'
  BY <1>1, <1>3, <1>5, <1>6, <1>8, NextParts DEF Roughly
<1>10. ExactInv' /\ RetryInv'
  BY <1>1, NextParts DEF RateInv, RetryInv
<1> QED BY <1>7, <1>9, <1>10 DEF RateInv

\* Time passes.
LEMMA TickStep == ASSUME RateInv, Tick PROVE RateInv'
<1>1. /\ counter # "shared" /\ clock < MaxTime /\ clock' = clock + 1
      /\ \A r \in Requests : reading[r] # Absent => clock - reading[r] < MaxLag
      /\ counter' = counter /\ window' = window /\ lastAccess' = lastAccess
      /\ reading' = reading /\ retryAt' = retryAt /\ refusals' = refusals /\ bumps' = bumps
      /\ admitted' = [t \in 0..MaxTime |->
             IF t + Interval + MaxLag <= clock' THEN 0 ELSE admitted[t]]
  BY DEF Tick
<1>2. /\ admitted \in [Times -> Nat] /\ clock \in Times /\ clock + 1 \in Times
      /\ clock \in Nat /\ MaxTime \in Nat /\ MaxLag \in Nat /\ Interval \in Nat
      /\ window \in {Absent} \cup Window /\ (window # Absent => window.start <= clock)
      /\ lastAccess \in Nat /\ reading \in [Requests -> {Absent} \cup 0..MaxTime]
  BY <1>1, RateWindowConfig DEF RateInv, LocalTypeOK, Times
<1>3. PICK a \in [Times -> Nat] : a = admitted' /\ \A x \in Times : a[x] <= admitted[x]
  <2>1. \A x \in Times : /\ admitted'[x] \in Nat /\ admitted'[x] <= admitted[x]
    <3> SUFFICES ASSUME NEW x \in Times
                 PROVE  admitted'[x] \in Nat /\ admitted'[x] <= admitted[x]
      OBVIOUS
    <3>1. admitted'[x] = 0 \/ admitted'[x] = admitted[x]
      BY <1>1 DEF Times
    <3> QED BY <1>2, <3>1
  <2>2. admitted' \in [Times -> Nat]
    BY <1>1, <2>1 DEF Times
  <2> QED BY <2>1, <2>2
<1>4. LocalTypeOK'
  <2>1. admitted' \in [0..MaxTime -> Nat] /\ clock + 1 \in 0..MaxTime
    BY <1>2, <1>3 DEF Times
  <2>2. window # Absent => window.start <= clock + 1
    BY <1>2 DEF Window
  <2> QED BY <1>1, <2>1, <2>2 DEF RateInv, LocalTypeOK
<1>5. ReadingsFresh'
  <2> SUFFICES ASSUME NEW r \in Requests, reading[r] # Absent
               PROVE  reading[r] <= clock + 1 /\ clock + 1 <= reading[r] + MaxLag
    BY <1>1 DEF ReadingsFresh
  <2>1. reading[r] \in Nat /\ reading[r] <= clock /\ clock - reading[r] < MaxLag
    BY <1>1, <1>2 DEF RateInv, ReadingsFresh
  <2> QED BY <1>2, <2>1
<1>6. ExactInv'
  <2> SUFFICES ASSUME counter = "exact" PROVE Exactly(window, lastAccess, a, clock + 1)
    BY <1>1, <1>3, NextParts
  <2>1. Exactly(window, lastAccess, admitted, clock)
    BY DEF RateInv, ExactInv
  <2>2. /\ \A x \in Times : From(admitted, x) = 0 => From(a, x) = 0
        /\ BurstsFit(admitted) => BurstsFit(a)
    BY <1>2, <1>3, TickExact
  <2>3. ASSUME window # Absent
        PROVE  Covers(a, window.start, window.current, window.previous, clock + 1)
    <3>1. PICK s \in Times, k \in Nat, p \in Nat, c \in Times :
             s = window.start /\ k = window.current /\ p = window.previous /\ c = clock
      BY <1>2, <2>3 DEF Window, Times
    <3>2. Covers(admitted, s, k, p, c)
      BY <2>1, <2>3, <3>1 DEF Exactly
    <3>3. Covers(a, s, k, p, c + 1)
      BY <1>2, <1>3, <3>2, TickExact
    <3> QED BY <3>1, <3>3
  <2>4. lastAccess <= clock + 1
    BY <1>2, <2>1 DEF Exactly
  <2> QED BY <2>1, <2>2, <2>3, <2>4 DEF Exactly
<1>7. SketchInv'
  <2> SUFFICES ASSUME counter = "sketch"
               PROVE  Roughly(window, a, clock + 1, Cardinality(Waiting(reading)))
    BY <1>1, <1>3, NextParts
  <2>1. Roughly(window, admitted, clock, Cardinality(Waiting(reading)))
    BY DEF RateInv, SketchInv
  <2>2. PICK n \in Nat : n = Cardinality(Waiting(reading)) /\ n <= Cardinality(Requests)
    <3>1. Waiting(reading) \subseteq Requests
      BY DEF Waiting
    <3> QED BY <3>1, RateWindowConfig, FS_Subset, FS_CardinalityType
  <2>3. PICK s \in Times, k \in Nat, p \in Nat, c \in Times, b \in [Times -> Nat] :
           /\ s = window.start /\ k = window.current /\ p = window.previous
           /\ c = clock /\ b = admitted
    BY <1>2, <2>1 DEF Roughly, Window, Times
  <2>4. /\ SketchCovers(b, s, k, p, c) /\ Raced(b, s, c, n) /\ RacesFit(b) /\ s <= c
    BY <1>2, <2>1, <2>2, <2>3 DEF Roughly
  <2>5. \A x \in Times : a[x] <= b[x]
    BY <1>3, <2>3
  <2>6. SketchCovers(a, s, k, p, c + 1) /\ RacesFit(a) /\ Raced(a, s, c + 1, n)
    BY <2>2, <2>4, <2>5, TickSketch
  <2> QED BY <2>1, <2>2, <2>3, <2>6 DEF Roughly
<1>8. RetryInv'
  BY <1>1, NextParts DEF RateInv, RetryInv
<1> QED BY <1>4, <1>5, <1>6, <1>7, <1>8 DEF RateInv

\* Every step of a limiter, whatever it counts in.
LEMMA RateStep ==
    RateInv /\ [LimiterNext]_<<localVars, sharedVars>> => RateInv'
<1> SUFFICES ASSUME RateInv, [LimiterNext]_<<localVars, sharedVars>> PROVE RateInv'
  OBVIOUS
<1>1. CASE LocalNext
  BY <1>1, ReadStep, CheckStep, ReadSketchStep, ObserveStep, CollisionStep, TickStep
  DEF LocalNext
<1>2. CASE UNCHANGED localVars
  <2>1. /\ counter' = counter /\ clock' = clock /\ window' = window
        /\ lastAccess' = lastAccess /\ reading' = reading /\ retryAt' = retryAt
        /\ refusals' = refusals /\ bumps' = bumps /\ admitted' = admitted
    BY <1>2 DEF localVars
  <2>2. LocalTypeOK' /\ ReadingsFresh'
    BY <2>1 DEF RateInv, LocalTypeOK, ReadingsFresh
  <2>3. ExactInv' /\ SketchInv' /\ RetryInv'
    BY <2>1, NextParts DEF RateInv, ExactInv, SketchInv, RetryInv
  <2> QED BY <2>2, <2>3 DEF RateInv
<1> QED BY <1>1, <1>2 DEF LimiterNext

LEMMA RateInvariance == LimiterSpec => []RateInv
  BY RateInit, RateStep, PTL DEF LimiterSpec

(* A burst either side of a window boundary cannot double the quota: for   *)
(* any limit, interval and lag, and any number of requests that read the   *)
(* clock before they queue for the key's lock, a span shorter than a       *)
(* window holds at most the limit and what the span's length earns.        *)
THEOREM BurstsAreBounded == LimiterSpec => []BurstBound
<1>1. RateInv => BurstBound
  <2> SUFFICES ASSUME RateInv, counter = "exact", NEW from \in 0..clock,
                      NEW span \in 0..(Interval - 1), from + span <= clock
               PROVE  AdmittedIn(from, from + span)
                         <= IF span + MaxLag <= Interval
                            THEN Limit + CeilDiv(Limit * span, Interval)
                            ELSE 2 * Limit
    BY DEF BurstBound
  <2>1. from \in Times /\ from + span \in Times /\ from + span <= MaxTime
    BY RateWindowConfig DEF RateInv, LocalTypeOK, Times
  <2>2. BurstsFit(admitted)
    BY DEF RateInv, ExactInv, Exactly
  <2> QED BY <2>1, <2>2, AdmittedSums DEF BurstsFit
<1> QED BY <1>1, RateInvariance, PTL

(* Whoever waited out Retry-After is admitted, unless someone else was in  *)
(* the meantime: the rest of the window, rounded up to whole seconds, is   *)
(* long enough, however many refused requests rolled the window since.     *)
THEOREM RetryAfterIsEnough == LimiterSpec => []RetryAfterSuffices
<1>1. RateInv => RetryAfterSuffices
  BY DEF RateInv, RetryInv, Obeys, RetryAfterSuffices
<1> QED BY <1>1, RateInvariance, PTL

(* check_sketch's two steps cost no more than a limit higher by one for    *)
(* every other request in progress, however the slots end.                 *)
THEOREM RacesAreBounded == LimiterSpec => []SketchOvershoot
<1>1. RateInv => SketchOvershoot
  <2> SUFFICES ASSUME RateInv, counter = "sketch", NEW from \in 0..clock,
                      NEW span \in 0..(Interval - 1), from + span <= clock
               PROVE  AdmittedIn(from, from + span)
                         <= RacedLimit + CeilDiv(RacedLimit * span, Interval)
    BY DEF SketchOvershoot
  <2>1. from \in Times /\ from + span \in Times /\ from + span <= MaxTime
    BY RateWindowConfig DEF RateInv, LocalTypeOK, Times
  <2>2. RacesFit(admitted)
    BY DEF RateInv, SketchInv, Roughly
  <2> QED BY <2>1, <2>2, AdmittedSums DEF RacesFit
<1> QED BY <1>1, RateInvariance, PTL

-----------------------------------------------------------------------------
(***************************************************************************)
(* The shared counters: what the other sources of a key admitted.          *)
(***************************************************************************)

Histories == [Shared!Buckets -> [Shared!Sources -> Nat]]

OthersOf(s, b, c) == Sums(c[b], Shared!Sources)[Shared!Others(s)]

\* A bound on time is one on the sources, as the replicas and keys are finitely many.
LEMMA SourcesFinite == IsFiniteSet(Shared!Sources)
<1> DEFINE Pairs == (Replicas \X SharedKeys) \X (1..MaxIncarnations)
           f == [x \in Pairs |-> <<x[1][1], x[1][2], x[2]>>]
<1>1. IsFiniteSet(Replicas \X SharedKeys) /\ IsFiniteSet(1..MaxIncarnations)
  <2>1. 1 \in Int /\ MaxIncarnations \in Int
    BY SharedConfig
  <2> QED BY <2>1, SharedConfig, FS_Product, FS_Interval
<1>2. IsFiniteSet(Pairs)
  BY <1>1, FS_Product
<1>3. f \in Surjection(Pairs, Shared!Sources)
  <2>1. f \in [Pairs -> Shared!Sources]
    BY DEF Shared!Sources
  <2>2. ASSUME NEW t \in Shared!Sources PROVE \E x \in Pairs : f[x] = t
    <3>1. <<<<t[1], t[2]>>, t[3]>> \in Pairs /\ f[<<<<t[1], t[2]>>, t[3]>>] = t
      BY DEF Shared!Sources
    <3> QED BY <3>1
  <2> QED BY <2>1, <2>2 DEF Surjection
<1> QED BY <1>2, <1>3, FS_Surjection

\* They are numbers, and grow with what each admitted.
LEMMA OthersGrow ==
    ASSUME NEW c \in Histories, NEW d \in Histories,
           \A b \in Shared!Buckets, t \in Shared!Sources : c[b][t] <= d[b][t]
    PROVE  \A s \in Shared!Sources, b \in Shared!Buckets :
              /\ OthersOf(s, b, c) \in Nat /\ OthersOf(s, b, d) \in Nat
              /\ OthersOf(s, b, c) <= OthersOf(s, b, d)
<1> SUFFICES ASSUME NEW s \in Shared!Sources, NEW b \in Shared!Buckets
             PROVE  /\ OthersOf(s, b, c) \in Nat /\ OthersOf(s, b, d) \in Nat
                    /\ OthersOf(s, b, c) <= OthersOf(s, b, d)
  OBVIOUS
<1>1. c[b] \in [Shared!Sources -> Nat] /\ d[b] \in [Shared!Sources -> Nat]
  BY DEF Histories
<1>2. Shared!Others(s) \in SUBSET Shared!Sources
  BY DEF Shared!Others
<1> QED BY <1>1, <1>2, SourcesFinite, SumsTyped, SumsPointwise DEF OthersOf

LEMMA OthersTyped ==
    ASSUME NEW c \in Histories
    PROVE  \A s \in Shared!Sources, b \in Shared!Buckets : OthersOf(s, b, c) \in Nat
<1>1. \A b \in Shared!Buckets, t \in Shared!Sources : c[b][t] <= c[b][t]
  BY DEF Histories
<1> QED BY <1>1, OthersGrow

\* What the properties sum.
LEMMA OthersSums ==
    ASSUME NEW s, NEW b
    PROVE  Shared!OthersAdmitted(s, b) = OthersOf(s, b, counted)
<1>1. Shared!Others(s) \in SUBSET Shared!Sources
  BY DEF Shared!Others
<1>2. Shared!OthersAdmitted(s, b) = Sums(counted[b], Shared!Others(s))[Shared!Others(s)]
  BY DEF Shared!OthersAdmitted, Shared!MapThenSumSet, Shared!MapThenFoldSet, Sums, Step, Pick
<1> QED BY <1>1, <1>2, SourcesFinite, SumsLocal DEF OthersOf

\* A shard's own counters are what its source admitted, and those of the others
\* are no more than they did.
Backed(sh, s, c) ==
    /\ sh \in Shared!Shard
    /\ sh.own_current = c[sh.bucket][s]
    /\ sh.own_previous = (IF sh.bucket = 0 THEN 0 ELSE c[sh.bucket - 1][s])
    /\ \A b \in Shared!Buckets : b > sh.bucket => c[b][s] = 0
    /\ sh.remote_current <= OthersOf(s, sh.bucket, c)
    /\ sh.remote_previous <= (IF sh.bucket = 0 THEN 0 ELSE OthersOf(s, sh.bucket - 1, c))

\* What a publish says of a bucket.
Says(pub, b) ==
    IF b = pub.bucket THEN pub.own_current
    ELSE IF b = pub.bucket - 1 THEN pub.own_previous ELSE 0

\* A source that admitted nothing yet has a new shard.
LEMMA NewBacked ==
    ASSUME NEW c \in Histories, NEW s \in Shared!Sources,
           \A b \in Shared!Buckets : c[b][s] = 0
    PROVE  Backed(Shared!NewShard, s, c)
<1>1. 0 \in Shared!Buckets
  BY SharedConfig DEF Shared!Buckets
<1>2. OthersOf(s, 0, c) \in Nat
  BY <1>1, OthersTyped
<1> QED BY <1>1, <1>2 DEF Backed, Shared!NewShard, Shared!Shard

\* A shard stays backed when it is rolled.
LEMMA RolledBacked ==
    ASSUME NEW c \in Histories, NEW s \in Shared!Sources, NEW sh, Backed(sh, s, c),
           NEW b \in Shared!Buckets
    PROVE  /\ Backed(Shared!RollTo(sh, b), s, c)
           /\ b > sh.bucket => Shared!RollTo(sh, b).bucket = b
           /\ b <= sh.bucket => Shared!RollTo(sh, b) = sh
<1>1. /\ sh \in Shared!Shard /\ sh.bucket \in Shared!Buckets /\ sh.bucket \in Nat
      /\ b \in Nat /\ sh.own_current \in Nat /\ sh.remote_current \in Nat
      /\ sh.own_current = c[sh.bucket][s] /\ sh.remote_current <= OthersOf(s, sh.bucket, c)
  BY DEF Backed, Shared!Shard, Shared!Buckets
<1>2. \A x \in Shared!Buckets : x > sh.bucket => c[x][s] = 0
  BY DEF Backed
<1>3. CASE b <= sh.bucket
  BY <1>1, <1>3 DEF Shared!RollTo
<1>4. CASE b = sh.bucket + 1
  <2>1. Shared!RollTo(sh, b) =
          [bucket |-> b, own_current |-> 0, own_previous |-> sh.own_current,
           remote_current |-> 0, remote_previous |-> sh.remote_current]
    BY <1>1, <1>4 DEF Shared!RollTo
  <2>2. c[b][s] = 0 /\ b # 0 /\ b - 1 = sh.bucket /\ OthersOf(s, b, c) \in Nat
    BY <1>1, <1>2, <1>4, OthersTyped
  <2>3. \A x \in Shared!Buckets : x > b => c[x][s] = 0
    BY <1>1, <1>2, <1>4 DEF Shared!Buckets
  <2> QED BY <1>1, <1>4, <2>1, <2>2, <2>3 DEF Backed, Shared!Shard
<1>5. CASE b > sh.bucket + 1
  <2>1. Shared!RollTo(sh, b) =
          [bucket |-> b, own_current |-> 0, own_previous |-> 0,
           remote_current |-> 0, remote_previous |-> 0]
    BY <1>1, <1>5 DEF Shared!RollTo, Shared!NewShard
  <2>2. /\ b - 1 \in Shared!Buckets /\ b - 1 > sh.bucket /\ b # 0 /\ b > sh.bucket
    BY <1>1, <1>5, SharedConfig DEF Shared!Buckets
  <2>3. /\ c[b][s] = 0 /\ c[b - 1][s] = 0
        /\ OthersOf(s, b, c) \in Nat /\ OthersOf(s, b - 1, c) \in Nat
    BY <1>2, <2>2, OthersTyped
  <2>4. \A x \in Shared!Buckets : x > b => c[x][s] = 0
    BY <1>1, <1>2, <1>5 DEF Shared!Buckets
  <2>5. PICK v : v = Shared!RollTo(sh, b)
    OBVIOUS
  <2>6. /\ v \in Shared!Shard /\ v.bucket = b /\ v.own_current = 0 /\ v.own_previous = 0
        /\ v.remote_current = 0 /\ v.remote_previous = 0
    BY <2>1, <2>5 DEF Shared!Shard
  <2>7. Backed(v, s, c)
    BY <2>2, <2>3, <2>4, <2>6 DEF Backed
  <2> QED BY <1>1, <2>2, <2>5, <2>6, <2>7
<1> QED BY <1>1, <1>3, <1>4, <1>5

\* It does when other sources admit more.
LEMMA OthersBacked ==
    ASSUME NEW c \in Histories, NEW d \in Histories, NEW s \in Shared!Sources, NEW sh,
           Backed(sh, s, c),
           \A b \in Shared!Buckets, t \in Shared!Sources : c[b][t] <= d[b][t],
           \A b \in Shared!Buckets : d[b][s] = c[b][s]
    PROVE  Backed(sh, s, d)
<1>1. /\ sh \in Shared!Shard /\ sh.bucket \in Shared!Buckets /\ sh.bucket \in Nat
      /\ sh.remote_current \in Nat /\ sh.remote_previous \in Nat
  BY DEF Backed, Shared!Shard, Shared!Buckets
<1>2. sh.bucket # 0 => sh.bucket - 1 \in Shared!Buckets
  BY <1>1, SharedConfig DEF Shared!Buckets
<1>3. \A b \in Shared!Buckets : /\ OthersOf(s, b, c) \in Nat /\ OthersOf(s, b, d) \in Nat
                                 /\ OthersOf(s, b, c) <= OthersOf(s, b, d)
  BY OthersGrow
<1>4. sh.remote_current <= OthersOf(s, sh.bucket, d)
  BY <1>1, <1>3 DEF Backed
<1>5. sh.remote_previous <= (IF sh.bucket = 0 THEN 0 ELSE OthersOf(s, sh.bucket - 1, d))
  BY <1>1, <1>2, <1>3 DEF Backed
<1> QED BY <1>1, <1>2, <1>4, <1>5 DEF Backed

\* And when its own source admits one more, in its bucket, and counts it.
LEMMA AdmittedBacked ==
    ASSUME NEW c \in Histories, NEW d \in Histories, NEW s \in Shared!Sources, NEW sh,
           Backed(sh, s, c),
           \A b \in Shared!Buckets, t \in Shared!Sources :
               d[b][t] = IF b = sh.bucket /\ t = s THEN c[b][t] + 1 ELSE c[b][t]
    PROVE  Backed([sh EXCEPT !.own_current = @ + 1], s, d)
<1>1. /\ sh \in Shared!Shard /\ sh.bucket \in Shared!Buckets /\ sh.bucket \in Nat
      /\ sh.remote_current \in Nat /\ sh.remote_previous \in Nat
      /\ sh.own_current \in Nat /\ sh.own_previous \in Nat
  BY DEF Backed, Shared!Shard, Shared!Buckets
<1>2. sh.bucket # 0 => sh.bucket - 1 \in Shared!Buckets /\ sh.bucket - 1 # sh.bucket
  BY <1>1, SharedConfig DEF Shared!Buckets
<1>3. \A b \in Shared!Buckets, t \in Shared!Sources : c[b][t] \in Nat /\ c[b][t] <= d[b][t]
  BY DEF Histories
<1>4. \A b \in Shared!Buckets : /\ OthersOf(s, b, c) \in Nat /\ OthersOf(s, b, d) \in Nat
                                 /\ OthersOf(s, b, c) <= OthersOf(s, b, d)
  BY <1>3, OthersGrow
<1>5. sh.remote_current <= OthersOf(s, sh.bucket, d)
  BY <1>1, <1>4 DEF Backed
<1>6. sh.remote_previous <= (IF sh.bucket = 0 THEN 0 ELSE OthersOf(s, sh.bucket - 1, d))
  BY <1>1, <1>2, <1>4 DEF Backed
<1>7. /\ sh.own_current + 1 = d[sh.bucket][s]
      /\ sh.own_previous = (IF sh.bucket = 0 THEN 0 ELSE d[sh.bucket - 1][s])
      /\ \A b \in Shared!Buckets : b > sh.bucket => d[b][s] = 0
  BY <1>1, <1>2 DEF Backed
<1>8. [sh EXCEPT !.own_current = @ + 1] =
        [bucket |-> sh.bucket, own_current |-> sh.own_current + 1,
         own_previous |-> sh.own_previous, remote_current |-> sh.remote_current,
         remote_previous |-> sh.remote_previous]
  BY <1>1 DEF Shared!Shard
<1> QED BY <1>1, <1>5, <1>6, <1>7, <1>8 DEF Backed, Shared!Shard

-----------------------------------------------------------------------------
(***************************************************************************)
(* What is published and answered.                                         *)
(***************************************************************************)

Recent(pub, b) == b = pub.bucket \/ b = pub.bucket - 1

SaidBy(ps, c) ==
    \A i \in DOMAIN ps, b \in Shared!Buckets : Says(ps[i], b) <= c[b][ps[i].source]

\* An answer is what the source published and what the others admitted.
Fits(pub, total, c) ==
    /\ total.current <= pub.own_current + OthersOf(pub.source, pub.bucket, c)
    /\ total.previous <= pub.own_previous + (IF pub.bucket = 0 THEN 0
                                             ELSE OthersOf(pub.source, pub.bucket - 1, c))

\* A snapshot of a backed shard says what its source admitted.
LEMMA SnapshotSays ==
    ASSUME NEW c \in Histories, NEW s \in Shared!Sources, NEW sh, Backed(sh, s, c)
    PROVE  /\ Shared!PublishOf(s, sh) \in Shared!Publish
           /\ Shared!PublishOf(s, sh).source = s
           /\ \A b \in Shared!Buckets :
                 /\ Says(Shared!PublishOf(s, sh), b) <= c[b][s]
                 /\ Recent(Shared!PublishOf(s, sh), b) =>
                       Says(Shared!PublishOf(s, sh), b) = c[b][s]
<1>1. /\ sh \in Shared!Shard /\ sh.bucket \in Nat
      /\ sh.own_current = c[sh.bucket][s]
      /\ sh.own_previous = (IF sh.bucket = 0 THEN 0 ELSE c[sh.bucket - 1][s])
  BY DEF Backed, Shared!Shard, Shared!Buckets
<1>2. PICK pub : pub = Shared!PublishOf(s, sh)
  OBVIOUS
<1>3. /\ pub \in Shared!Publish /\ pub.source = s /\ pub.bucket = sh.bucket
      /\ pub.own_current = sh.own_current /\ pub.own_previous = sh.own_previous
  BY <1>1, <1>2 DEF Shared!PublishOf, Shared!Publish, Shared!Shard
<1>4. ASSUME NEW b \in Shared!Buckets
      PROVE  /\ Says(pub, b) <= c[b][s]
             /\ Recent(pub, b) => Says(pub, b) = c[b][s]
  <2>1. b \in Nat /\ c[b][s] \in Nat
    BY <1>4 DEF Histories, Shared!Buckets
  <2>2. b = sh.bucket - 1 => sh.bucket # 0
    BY <1>1, <2>1
  <2> QED BY <1>1, <1>3, <2>1, <2>2 DEF Says, Recent
<1> QED BY <1>2, <1>3, <1>4

\* An applied answer leaves a shard backed.
LEMMA AppliedBacked ==
    ASSUME NEW c \in Histories, NEW s \in Shared!Sources, NEW sh, Backed(sh, s, c),
           NEW pub \in Shared!Publish, pub.source = s, NEW total \in Shared!Totals,
           Fits(pub, total, c)
    PROVE  Backed(Shared!Applied(sh, pub, total), s, c)
<1>1. /\ sh \in Shared!Shard /\ sh.bucket \in Shared!Buckets /\ sh.bucket \in Nat
      /\ pub.bucket \in Shared!Buckets /\ pub.bucket \in Nat
      /\ pub.own_current \in Nat /\ pub.own_previous \in Nat
      /\ total.current \in Nat /\ total.previous \in Nat
  BY DEF Backed, Shared!Shard, Shared!Buckets, Shared!Publish, Shared!Totals
<1>2. PICK x \in Nat : x = OthersOf(s, pub.bucket, c)
  BY <1>1, OthersTyped
<1>3. PICK y \in Nat : y = IF pub.bucket = 0 THEN 0 ELSE OthersOf(s, pub.bucket - 1, c)
  <2>1. pub.bucket # 0 => pub.bucket - 1 \in Shared!Buckets
    BY <1>1, SharedConfig DEF Shared!Buckets
  <2> QED BY <2>1, OthersTyped
<1>4. total.current <= pub.own_current + x /\ total.previous <= pub.own_previous + y
  BY <1>2, <1>3 DEF Fits
<1>5. PICK u \in Nat : u = Shared!SaturatingSub(total.current, pub.own_current) /\ u <= x
  BY <1>1, <1>4 DEF Shared!SaturatingSub
<1>6. PICK v \in Nat : v = Shared!SaturatingSub(total.previous, pub.own_previous) /\ v <= y
  BY <1>1, <1>4 DEF Shared!SaturatingSub
<1>7. CASE sh.bucket = pub.bucket + 1
  <2>1. Shared!Applied(sh, pub, total) = [sh EXCEPT !.remote_previous = u]
    BY <1>5, <1>7 DEF Shared!Applied
  <2>2. PICK w : w = [sh EXCEPT !.remote_previous = u]
    OBVIOUS
  <2>3. /\ w \in Shared!Shard /\ w.bucket = sh.bucket /\ w.own_current = sh.own_current
        /\ w.own_previous = sh.own_previous /\ w.remote_current = sh.remote_current
        /\ w.remote_previous = u
    BY <1>1, <2>2 DEF Shared!Shard
  <2>4. sh.bucket # 0 /\ sh.bucket - 1 = pub.bucket
    BY <1>1, <1>7
  <2>5. Backed(w, s, c)
    BY <1>2, <1>5, <2>3, <2>4 DEF Backed
  <2> QED BY <2>1, <2>2, <2>5
<1>8. CASE sh.bucket # pub.bucket + 1 /\ sh.bucket = pub.bucket
  <2>1. Shared!Applied(sh, pub, total) =
          [sh EXCEPT !.remote_current = u, !.remote_previous = v]
    BY <1>5, <1>6, <1>8 DEF Shared!Applied
  <2>2. PICK w : w = [sh EXCEPT !.remote_current = u, !.remote_previous = v]
    OBVIOUS
  <2>3. /\ w \in Shared!Shard /\ w.bucket = sh.bucket /\ w.own_current = sh.own_current
        /\ w.own_previous = sh.own_previous /\ w.remote_current = u
        /\ w.remote_previous = v
    BY <1>1, <2>2 DEF Shared!Shard
  <2>4. Backed(w, s, c)
    BY <1>2, <1>3, <1>5, <1>6, <1>8, <2>3 DEF Backed
  <2> QED BY <2>1, <2>2, <2>4
<1>9. CASE sh.bucket # pub.bucket + 1 /\ sh.bucket # pub.bucket
  BY <1>9 DEF Shared!Applied
<1> QED BY <1>7, <1>8, <1>9

\* What a field holds after a pipeline was executed.
LEMMA WrittenSays ==
    ASSUME fields \in Histories, NEW ps \in Seq(Shared!Publish)
    PROVE  /\ Shared!Written(ps) \in Histories
           /\ \A b \in Shared!Buckets, s \in Shared!Sources :
                 \/ Shared!Written(ps)[b][s] = fields[b][s]
                 \/ \E i \in DOMAIN ps : /\ ps[i].source = s
                                         /\ Shared!Written(ps)[b][s] = Says(ps[i], b)
<1> DEFINE same(s) == {i \in DOMAIN ps : ps[i].source = s}
           last(s) == ps[CHOOSE i \in same(s) : TRUE]
           value(b, s) ==
              IF same(s) = {} THEN fields[b][s]
              ELSE IF b = last(s).bucket /\ last(s).own_current # 0 THEN last(s).own_current
              ELSE IF b = last(s).bucket - 1 /\ last(s).own_previous # 0
              THEN last(s).own_previous ELSE fields[b][s]
<1>1. Shared!Written(ps) =
         [b \in Shared!Buckets |-> [s \in Shared!Sources |-> value(b, s)]]
  BY DEF Shared!Written
<1>2. ASSUME NEW b \in Shared!Buckets, NEW s \in Shared!Sources
      PROVE  /\ value(b, s) \in Nat
             /\ \/ value(b, s) = fields[b][s]
                \/ \E i \in DOMAIN ps : ps[i].source = s /\ value(b, s) = Says(ps[i], b)
  <2>1. fields[b][s] \in Nat
    BY DEF Histories
  <2>2. CASE same(s) = {}
    BY <2>1, <2>2
  <2>3. CASE same(s) # {}
    <3>1. PICK j \in DOMAIN ps : ps[j] = last(s) /\ ps[j].source = s
      BY <2>3
    <3>2. ps[j] \in Shared!Publish
      OBVIOUS
    <3>3. /\ ps[j].bucket \in Nat /\ ps[j].own_current \in Nat /\ ps[j].own_previous \in Nat
          /\ b \in Nat
      BY <3>2 DEF Shared!Publish, Shared!Buckets
    <3>4. /\ b = ps[j].bucket => Says(ps[j], b) = ps[j].own_current
          /\ b = ps[j].bucket - 1 => Says(ps[j], b) = ps[j].own_previous
      BY <3>3 DEF Says
    <3>5. value(b, s) =
             IF b = ps[j].bucket /\ ps[j].own_current # 0 THEN ps[j].own_current
             ELSE IF b = ps[j].bucket - 1 /\ ps[j].own_previous # 0
             THEN ps[j].own_previous ELSE fields[b][s]
      BY <2>3, <3>1, Zenon
    <3> HIDE DEF value
    <3> QED BY <2>1, <3>1, <3>3, <3>4, <3>5
  <2> QED BY <2>2, <2>3
<1> HIDE DEF value
<1>3. \A b \in Shared!Buckets, s \in Shared!Sources : Shared!Written(ps)[b][s] = value(b, s)
  BY <1>1
<1>4. Shared!Written(ps) \in Histories
  BY <1>1, <1>2 DEF Histories
<1> QED BY <1>2, <1>3, <1>4

\* The sum over a key is a source's share and the others'.
LEMMA SumOfSplits ==
    ASSUME NEW c \in Histories, NEW s \in Shared!Sources, NEW b \in Shared!Buckets
    PROVE  /\ Shared!SumOf(c, b, Shared!Key(s)) = c[b][s] + OthersOf(s, b, c)
           /\ Shared!SumOf(c, b, Shared!Key(s)) \in Nat
<1> DEFINE K == {t \in Shared!Sources : Shared!Key(t) = Shared!Key(s)}
<1>1. K \in SUBSET Shared!Sources /\ s \in K /\ K \ {s} = Shared!Others(s)
  BY DEF Shared!Others
<1>2. Shared!SumOf(c, b, Shared!Key(s)) = Sums(c[b], K)[K]
  BY DEF Shared!SumOf, Shared!MapThenSumSet, Shared!MapThenFoldSet, Sums, Step, Pick
<1> HIDE DEF K
<1>3. Sums(c[b], K)[K] = Sums(c[b], Shared!Sources)[K]
  BY <1>1, SourcesFinite, SumsLocal
<1>4. c[b] \in [Shared!Sources -> Nat]
  BY DEF Histories
<1>5. /\ Sums(c[b], Shared!Sources)[K]
           = c[b][s] + Sums(c[b], Shared!Sources)[K \ {s}]
      /\ Sums(c[b], Shared!Sources)[K] \in Nat
  <2>1. \A k \in SUBSET Shared!Sources : \A t \in k :
           Sums(c[b], Shared!Sources)[k] = c[b][t] + Sums(c[b], Shared!Sources)[k \ {t}]
    BY <1>4, SourcesFinite, SumsRemove
  <2>2. \A k \in SUBSET Shared!Sources : Sums(c[b], Shared!Sources)[k] \in Nat
    BY <1>4, SourcesFinite, SumsTyped
  <2> QED BY <1>1, <2>1, <2>2, Zenon
<1> QED BY <1>1, <1>2, <1>3, <1>5 DEF OthersOf

-----------------------------------------------------------------------------
(***************************************************************************)
(* What every step of the shared counters preserves.                       *)
(***************************************************************************)

ShardsBacked == \A s \in Shared!Sources : Backed(shard[s], s, counted)

\* A source that is not in use yet admitted nothing.
NothingUnmade ==
    \A s \in Shared!Sources, b \in Shared!Buckets :
        s[3] > made[<<s[1], s[2]>>] => counted[b][s] = 0

\* The store holds no more than was admitted, and what is under way says no more.
StoreBacked ==
    /\ \A s \in Shared!Sources, b \in Shared!Buckets : fields[b][s] <= counted[b][s]
    /\ \A r \in Replicas : SaidBy(batch[r], counted)
    /\ \A ps \in late : SaidBy(ps, counted)

\* A replica visits and publishes sources of its own.
OwnSources ==
    \A r \in Replicas : /\ \A i \in DOMAIN pass[r] : pass[r][i][1] = r
                        /\ \A i \in DOMAIN batch[r] : batch[r][i].source[1] = r

\* What is published of a source at one time is the same.
Snapshots ==
    \A r \in Replicas : \A i, j \in DOMAIN batch[r] :
        batch[r][i].source = batch[r][j].source => batch[r][i] = batch[r][j]

\* Neither the store nor a batch given up on says more than a replica's
\* youngest batch of the two buckets it is about.
Freshest ==
    \A r \in Replicas : \A i \in DOMAIN batch[r], b \in Shared!Buckets :
        Recent(batch[r][i], b) =>
            /\ fields[b][batch[r][i].source] <= Says(batch[r][i], b)
            /\ \A ps \in late : \A j \in DOMAIN ps :
                  ps[j].source = batch[r][i].source => Says(ps[j], b) <= Says(batch[r][i], b)

AnswersFit ==
    \A r \in Replicas : answer[r] # <<>> =>
        /\ Len(answer[r]) = Len(batch[r])
        /\ \A i \in DOMAIN batch[r] : Fits(batch[r][i], answer[r][i], counted)

SharedInv ==
    /\ Shared!TypeOK /\ ShardsBacked /\ NothingUnmade /\ StoreBacked
    /\ OwnSources /\ Snapshots /\ Freshest /\ AnswersFit

\* The parts after a step.
LEMMA SharedParts ==
    /\ ShardsBacked' <=> \A s \in Shared!Sources : Backed(shard'[s], s, counted')
    /\ StoreBacked' <=>
          /\ \A s \in Shared!Sources, b \in Shared!Buckets : fields'[b][s] <= counted'[b][s]
          /\ \A r \in Replicas : SaidBy(batch'[r], counted')
          /\ \A ps \in late' : SaidBy(ps, counted')
    /\ Freshest' <=>
          \A r \in Replicas : \A i \in DOMAIN batch'[r], b \in Shared!Buckets :
              Recent(batch'[r][i], b) =>
                  /\ fields'[b][batch'[r][i].source] <= Says(batch'[r][i], b)
                  /\ \A ps \in late' : \A j \in DOMAIN ps :
                        ps[j].source = batch'[r][i].source =>
                            Says(ps[j], b) <= Says(batch'[r][i], b)
    /\ AnswersFit' <=>
          \A r \in Replicas : answer'[r] # <<>> =>
              /\ Len(answer'[r]) = Len(batch'[r])
              /\ \A i \in DOMAIN batch'[r] : Fits(batch'[r][i], answer'[r][i], counted')
BY DEF ShardsBacked, StoreBacked, Freshest, AnswersFit

\* The types, by the names the lemmas use.
LEMMA SharedTyped ==
    ASSUME SharedInv
    PROVE  /\ counted \in Histories /\ fields \in Histories
           /\ shard \in [Shared!Sources -> Shared!Shard]
           /\ made \in [Replicas \X SharedKeys -> 0..MaxIncarnations]
           /\ live \in [Replicas \X SharedKeys -> 0..MaxIncarnations]
           /\ pass \in [Replicas -> Seq(Shared!Sources)]
           /\ batch \in [Replicas -> Seq(Shared!Publish)]
           /\ answer \in [Replicas -> Seq(Shared!Totals)]
           /\ late \subseteq Seq(Shared!Publish)
           /\ bucketNow \in Shared!Buckets
           /\ budget \in [skew: Nat, evictions: Nat, failures: Nat]
BY DEF SharedInv, Shared!TypeOK, Histories

\* Nothing has happened yet.
LEMMA SharedStart == LimiterInit => SharedInv
<1> SUFFICES ASSUME LimiterInit PROVE SharedInv
  OBVIOUS
<1>1. /\ bucketNow = 1
      /\ shard = [s \in Shared!Sources |-> Shared!NewShard]
      /\ made = [rk \in Replicas \X SharedKeys |-> 0]
      /\ live = [rk \in Replicas \X SharedKeys |-> 0]
      /\ pass = [r \in Replicas |-> <<>>] /\ batch = [r \in Replicas |-> <<>>]
      /\ answer = [r \in Replicas |-> <<>>] /\ late = {}
      /\ fields = [b \in Shared!Buckets |-> [s \in Shared!Sources |-> 0]]
      /\ budget \in Budgets
      /\ counted = [b \in Shared!Buckets |-> [s \in Shared!Sources |-> 0]]
  BY DEF LimiterInit, Shared!Init
<1>2. /\ counted \in Histories /\ 0 \in Shared!Buckets /\ 1 \in Shared!Buckets
      /\ \A b \in Shared!Buckets, s \in Shared!Sources : counted[b][s] = 0 /\ fields[b][s] = 0
  BY <1>1, SharedConfig DEF Histories, Shared!Buckets
<1>3. Shared!NewShard \in Shared!Shard
  BY <1>2 DEF Shared!NewShard, Shared!Shard
<1>4. Shared!TypeOK
  <2>1. 0 \in 0..MaxIncarnations
    BY SharedConfig
  <2>2. budget \in [skew: Nat, evictions: Nat, failures: Nat]
    BY <1>1, SharedConfig
  <2> QED BY <1>1, <1>2, <1>3, <2>1, <2>2 DEF Shared!TypeOK
<1>5. ShardsBacked
  <2> SUFFICES ASSUME NEW s \in Shared!Sources PROVE Backed(shard[s], s, counted)
    BY DEF ShardsBacked
  <2>1. shard[s] = Shared!NewShard /\ \A b \in Shared!Buckets : counted[b][s] = 0
    BY <1>1, <1>2
  <2> QED BY <1>2, <2>1, NewBacked
<1>6. \A r \in Replicas : batch[r] = <<>> /\ pass[r] = <<>> /\ answer[r] = <<>>
  BY <1>1
<1>7. NothingUnmade /\ StoreBacked /\ OwnSources /\ Snapshots /\ Freshest /\ AnswersFit
  BY <1>1, <1>2, <1>6
  DEF NothingUnmade, StoreBacked, OwnSources, Snapshots, Freshest, AnswersFit, SaidBy
<1> QED BY <1>4, <1>5, <1>7 DEF SharedInv

\* What was said and answered holds the more when more was admitted.
LEMMA MoreAdmitted ==
    ASSUME SharedInv, counted' \in Histories,
           \A b \in Shared!Buckets, s \in Shared!Sources : counted[b][s] <= counted'[b][s],
           pass' = pass, batch' = batch, answer' = answer, late' = late, fields' = fields
    PROVE  StoreBacked' /\ OwnSources' /\ Snapshots' /\ Freshest' /\ AnswersFit'
<1>1. PICK d \in Histories :
         d = counted' /\ \A b \in Shared!Buckets, s \in Shared!Sources : counted[b][s] <= d[b][s]
  OBVIOUS
<1>2. /\ counted \in Histories /\ fields \in Histories
      /\ \A r \in Replicas : batch[r] \in Seq(Shared!Publish) /\ answer[r] \in Seq(Shared!Totals)
      /\ late \subseteq Seq(Shared!Publish)
  BY SharedTyped
<1>3. OwnSources' /\ Snapshots' /\ Freshest'
  BY DEF SharedInv, OwnSources, Snapshots, Freshest
<1>4. ASSUME NEW ps \in Seq(Shared!Publish), SaidBy(ps, counted) PROVE SaidBy(ps, d)
  <2> SUFFICES ASSUME NEW i \in DOMAIN ps, NEW b \in Shared!Buckets
               PROVE  Says(ps[i], b) <= d[b][ps[i].source]
    BY DEF SaidBy
  <2>1. ps[i] \in Shared!Publish
    OBVIOUS
  <2>2. /\ ps[i].source \in Shared!Sources /\ Says(ps[i], b) \in Nat
    BY <2>1 DEF Shared!Publish, Says
  <2>3. counted[b][ps[i].source] \in Nat /\ d[b][ps[i].source] \in Nat
    BY <1>2, <2>2 DEF Histories
  <2> QED BY <1>1, <1>4, <2>2, <2>3 DEF SaidBy
<1>5. StoreBacked'
  <2>1. \A s \in Shared!Sources, b \in Shared!Buckets : fields[b][s] <= d[b][s]
    <3> SUFFICES ASSUME NEW s \in Shared!Sources, NEW b \in Shared!Buckets
                 PROVE  fields[b][s] <= d[b][s]
      OBVIOUS
    <3>1. /\ fields[b][s] \in Nat /\ counted[b][s] \in Nat /\ d[b][s] \in Nat
          /\ fields[b][s] <= counted[b][s]
      BY <1>2 DEF Histories, SharedInv, StoreBacked
    <3> QED BY <1>1, <3>1
  <2>2. /\ \A r \in Replicas : SaidBy(batch[r], d)
        /\ \A ps \in late : SaidBy(ps, d)
    BY <1>2, <1>4 DEF SharedInv, StoreBacked
  <2> QED BY <1>1, <2>1, <2>2, SharedParts
<1>6. AnswersFit'
  <2> SUFFICES ASSUME NEW r \in Replicas, answer[r] # <<>>, NEW i \in DOMAIN batch[r]
               PROVE  Fits(batch[r][i], answer[r][i], d)
    BY <1>1, SharedParts DEF SharedInv, AnswersFit
  <2>1. Fits(batch[r][i], answer[r][i], counted) /\ Len(answer[r]) = Len(batch[r])
    BY DEF SharedInv, AnswersFit
  <2>2. batch[r][i] \in Shared!Publish /\ answer[r][i] \in Shared!Totals
    BY <1>2, <2>1
  <2>3. PICK p, t : p = batch[r][i] /\ t = answer[r][i]
    OBVIOUS
  <2>4. /\ p.source \in Shared!Sources /\ p.bucket \in Shared!Buckets /\ p.bucket \in Nat
        /\ p.own_current \in Nat /\ p.own_previous \in Nat
        /\ t.current \in Nat /\ t.previous \in Nat
    BY <2>2, <2>3 DEF Shared!Publish, Shared!Totals, Shared!Buckets
  <2>5. p.bucket # 0 => p.bucket - 1 \in Shared!Buckets
    BY <2>4, SharedConfig DEF Shared!Buckets
  <2>6. \A b \in Shared!Buckets : /\ OthersOf(p.source, b, counted) \in Nat
                                   /\ OthersOf(p.source, b, d) \in Nat
                                   /\ OthersOf(p.source, b, counted) <= OthersOf(p.source, b, d)
    BY <1>1, <1>2, <2>4, OthersGrow
  <2>7. t.current <= p.own_current + OthersOf(p.source, p.bucket, d)
    BY <2>1, <2>3, <2>4, <2>6 DEF Fits
  <2>8. t.previous <= p.own_previous + (IF p.bucket = 0 THEN 0
                                        ELSE OthersOf(p.source, p.bucket - 1, d))
    BY <2>1, <2>3, <2>4, <2>5, <2>6 DEF Fits
  <2> QED BY <2>3, <2>7, <2>8 DEF Fits
<1> QED BY <1>3, <1>5, <1>6

\* A request is decided on a backed shard, and admitted or not.
LEMMA SharedDecided ==
    ASSUME SharedInv, NEW s \in Shared!Sources, NEW sh, Backed(sh, s, counted),
           NEW b \in Shared!Buckets, NEW p, Shared!Decide(s, sh, b, p)
    PROVE  /\ ShardsBacked' /\ shard' \in [Shared!Sources -> Shared!Shard]
           /\ counted' \in Histories
           /\ \A x \in Shared!Buckets, t \in Shared!Sources :
                 /\ counted[x][t] <= counted'[x][t]
                 /\ t # s => counted'[x][t] = counted[x][t]
<1>1. counted \in Histories /\ shard \in [Shared!Sources -> Shared!Shard]
  BY SharedTyped
<1>2. PICK now : now = Shared!RollTo(sh, b)
  OBVIOUS
<1>3. Backed(now, s, counted) /\ now \in Shared!Shard /\ now.bucket \in Shared!Buckets
  <2>1. Backed(now, s, counted)
    BY <1>1, <1>2, RolledBacked
  <2> QED BY <2>1 DEF Backed, Shared!Shard
<1>4. \A t \in Shared!Sources : Backed(shard[t], t, counted)
  BY DEF SharedInv, ShardsBacked
<1>5. \A x \in Shared!Buckets, t \in Shared!Sources : counted[x][t] \in Nat
  BY <1>1 DEF Histories
<1>6. CASE shard' = [shard EXCEPT ![s] = now] /\ counted' = counted
  <2>1. \A t \in Shared!Sources : shard'[t] = IF t = s THEN now ELSE shard[t]
    BY <1>1, <1>6
  <2>2. \A t \in Shared!Sources : Backed(shard'[t], t, counted')
    BY <1>3, <1>4, <1>6, <2>1
  <2>3. ShardsBacked'
    BY <2>2, SharedParts
  <2> QED BY <1>1, <1>3, <1>5, <1>6, <2>3
<1>7. CASE /\ shard' = [shard EXCEPT ![s] = [now EXCEPT !.own_current = @ + 1]]
           /\ counted' = [counted EXCEPT ![now.bucket][s] = @ + 1]
  <2>1. PICK d : d = counted'
    OBVIOUS
  <2>2. /\ d \in Histories
        /\ \A x \in Shared!Buckets, t \in Shared!Sources :
              d[x][t] = IF x = now.bucket /\ t = s THEN counted[x][t] + 1 ELSE counted[x][t]
    <3>1. /\ counted[now.bucket] \in [Shared!Sources -> Nat]
          /\ counted[now.bucket][s] + 1 \in Nat
      BY <1>1, <1>3, <1>5 DEF Histories
    <3>2. PICK row : row = [counted[now.bucket] EXCEPT ![s] = counted[now.bucket][s] + 1]
      OBVIOUS
    <3>3. /\ row \in [Shared!Sources -> Nat]
          /\ \A t \in Shared!Sources : row[t] = IF t = s THEN counted[now.bucket][t] + 1
                                                ELSE counted[now.bucket][t]
      BY <3>1, <3>2
    <3>4. d = [counted EXCEPT ![now.bucket] = row]
      BY <1>7, <2>1, <3>2
    <3>5. d \in Histories
      BY <1>1, <1>3, <3>3, <3>4 DEF Histories
    <3>6. \A x \in Shared!Buckets : d[x] = IF x = now.bucket THEN row ELSE counted[x]
      BY <1>1, <3>4 DEF Histories
    <3> QED BY <3>3, <3>5, <3>6
  <2>3. \A x \in Shared!Buckets, t \in Shared!Sources :
           counted[x][t] <= d[x][t] /\ (t # s => d[x][t] = counted[x][t])
    BY <1>5, <2>2
  <2>4. Backed([now EXCEPT !.own_current = @ + 1], s, d)
    BY <1>1, <1>3, <2>2, AdmittedBacked
  <2>5. ASSUME NEW t \in Shared!Sources, t # s PROVE Backed(shard[t], t, d)
    <3>1. \A x \in Shared!Buckets, y \in Shared!Sources : counted[x][y] <= d[x][y]
      BY <2>3
    <3>2. \A x \in Shared!Buckets : d[x][t] = counted[x][t]
      BY <2>3, <2>5
    <3> QED BY <1>1, <1>4, <2>2, <3>1, <3>2, OthersBacked
  <2>6. PICK w : w = [now EXCEPT !.own_current = @ + 1]
    OBVIOUS
  <2>7. w \in Shared!Shard
    BY <2>4, <2>6 DEF Backed
  <2>8. /\ shard' = [shard EXCEPT ![s] = w]
        /\ \A t \in Shared!Sources : shard'[t] = IF t = s THEN w ELSE shard[t]
    BY <1>1, <1>7, <2>6
  <2>9. \A t \in Shared!Sources : Backed(shard'[t], t, d)
    BY <2>4, <2>5, <2>6, <2>8
  <2>10. ShardsBacked'
    BY <2>1, <2>9, SharedParts
  <2>11. shard' \in [Shared!Sources -> Shared!Shard]
    BY <1>1, <2>7, <2>8
  <2> QED BY <2>1, <2>2, <2>3, <2>10, <2>11
<1> QED BY <1>2, <1>6, <1>7 DEF Shared!Decide

\* A request for a key with a shard.
LEMMA SharedCheck ==
    ASSUME SharedInv, NEW r \in Replicas, NEW k \in SharedKeys, Shared!Check(r, k)
    PROVE  SharedInv'
<1>1. PICK n \in 1..made[<<r, k>>], b \in Shared!Readings, p \in 0..(Progress - 1) :
         Shared!Decide(<<r, k, n>>, shard[<<r, k, n>>], b, p)
  BY DEF Shared!Check
<1>2. /\ bucketNow' = bucketNow /\ made' = made /\ live' = live /\ pass' = pass
      /\ batch' = batch /\ answer' = answer /\ late' = late /\ fields' = fields
      /\ budget' = budget
  BY DEF Shared!Check
<1>3. made[<<r, k>>] \in 0..MaxIncarnations /\ MaxIncarnations \in Nat
  BY SharedTyped, SharedConfig
<1>4. PICK s : s = <<r, k, n>>
  OBVIOUS
<1>5. s \in Shared!Sources /\ s[1] = r /\ s[2] = k /\ s[3] = n /\ n <= made[<<r, k>>]
  BY <1>3, <1>4 DEF Shared!Sources
<1>6. b \in Shared!Buckets
  BY DEF Shared!Readings
<1>7. Backed(shard[s], s, counted)
  BY <1>5 DEF SharedInv, ShardsBacked
<1>8. /\ ShardsBacked' /\ shard' \in [Shared!Sources -> Shared!Shard]
      /\ counted' \in Histories
      /\ \A x \in Shared!Buckets, t \in Shared!Sources :
            /\ counted[x][t] <= counted'[x][t]
            /\ t # s => counted'[x][t] = counted[x][t]
  BY <1>1, <1>4, <1>5, <1>6, <1>7, SharedDecided
<1>9. StoreBacked' /\ OwnSources' /\ Snapshots' /\ Freshest' /\ AnswersFit'
  BY <1>2, <1>8, MoreAdmitted
<1>10. Shared!TypeOK'
  BY <1>2, <1>8 DEF SharedInv, Shared!TypeOK, Histories
<1>11. NothingUnmade'
  <2> SUFFICES ASSUME NEW t \in Shared!Sources, NEW x \in Shared!Buckets,
                      t[3] > made[<<t[1], t[2]>>]
               PROVE  counted'[x][t] = 0
    BY <1>2 DEF NothingUnmade
  <2>1. t # s
    BY <1>3, <1>5
  <2> QED BY <1>8, <2>1 DEF SharedInv, NothingUnmade
<1> QED BY <1>8, <1>9, <1>10, <1>11 DEF SharedInv

\* A request for a key without one.
LEMMA SharedCheckNew ==
    ASSUME SharedInv, NEW r \in Replicas, NEW k \in SharedKeys, Shared!CheckNew(r, k)
    PROVE  SharedInv'
<1>1. PICK n : n = made[<<r, k>>] + 1
  OBVIOUS
<1>2. PICK b \in Shared!Readings, p \in 0..(Progress - 1) :
         Shared!Decide(<<r, k, n>>, Shared!NewShard, b, p)
  BY <1>1 DEF Shared!CheckNew
<1>3. /\ bucketNow' = bucketNow /\ pass' = pass
      /\ batch' = batch /\ answer' = answer /\ late' = late /\ fields' = fields
      /\ budget' = budget
      /\ made' = [made EXCEPT ![<<r, k>>] = n] /\ live' = [live EXCEPT ![<<r, k>>] = n]
      /\ made[<<r, k>>] < MaxIncarnations
  BY <1>1 DEF Shared!CheckNew
<1>4. /\ made \in [Replicas \X SharedKeys -> 0..MaxIncarnations]
      /\ live \in [Replicas \X SharedKeys -> 0..MaxIncarnations]
      /\ <<r, k>> \in Replicas \X SharedKeys /\ MaxIncarnations \in Nat
      /\ counted \in Histories
  BY SharedTyped, SharedConfig
<1>5. n \in 1..MaxIncarnations /\ n > made[<<r, k>>]
  BY <1>1, <1>3, <1>4
<1>6. PICK s : s = <<r, k, n>>
  OBVIOUS
<1>7. s \in Shared!Sources /\ s[1] = r /\ s[2] = k /\ s[3] = n
  BY <1>5, <1>6 DEF Shared!Sources
<1>8. b \in Shared!Buckets
  BY DEF Shared!Readings
<1>9. Backed(Shared!NewShard, s, counted)
  <2>1. \A x \in Shared!Buckets : counted[x][s] = 0
    BY <1>5, <1>7 DEF SharedInv, NothingUnmade
  <2> QED BY <1>4, <1>7, <2>1, NewBacked
<1>10. /\ ShardsBacked' /\ shard' \in [Shared!Sources -> Shared!Shard]
       /\ counted' \in Histories
       /\ \A x \in Shared!Buckets, t \in Shared!Sources :
             /\ counted[x][t] <= counted'[x][t]
             /\ t # s => counted'[x][t] = counted[x][t]
  BY <1>2, <1>6, <1>7, <1>8, <1>9, SharedDecided
<1>11. StoreBacked' /\ OwnSources' /\ Snapshots' /\ Freshest' /\ AnswersFit'
  BY <1>3, <1>10, MoreAdmitted
<1>12. Shared!TypeOK'
  <2>1. /\ made' \in [Replicas \X SharedKeys -> 0..MaxIncarnations]
        /\ live' \in [Replicas \X SharedKeys -> 0..MaxIncarnations]
    BY <1>3, <1>4, <1>5
  <2> QED BY <1>3, <1>10, <2>1 DEF SharedInv, Shared!TypeOK, Histories
<1>13. NothingUnmade'
  <2> SUFFICES ASSUME NEW t \in Shared!Sources, NEW x \in Shared!Buckets,
                      t[3] > made'[<<t[1], t[2]>>]
               PROVE  counted'[x][t] = 0
    BY DEF NothingUnmade
  <2>1. /\ t = <<t[1], t[2], t[3]>> /\ <<t[1], t[2]>> \in Replicas \X SharedKeys
        /\ t[3] \in Nat
    BY DEF Shared!Sources
  <2>2. made'[<<t[1], t[2]>>] = IF <<t[1], t[2]>> = <<r, k>> THEN n
                                ELSE made[<<t[1], t[2]>>]
    BY <1>3, <1>4, <2>1
  <2>3. made[<<t[1], t[2]>>] \in Nat /\ n \in Nat /\ made[<<r, k>>] \in Nat
    BY <1>4, <1>5, <2>1
  <2>4. t[3] > made[<<t[1], t[2]>>]
    BY <1>5, <2>1, <2>2, <2>3
  <2>5. t # s
    BY <1>7, <2>1, <2>2, <2>3
  <2> QED BY <1>10, <2>4, <2>5 DEF SharedInv, NothingUnmade
<1> QED BY <1>10, <1>11, <1>12, <1>13 DEF SharedInv

\* A function on a first stretch of the numbers is a sequence.
LEMMA Sequenced ==
    ASSUME NEW S, NEW n \in Nat, NEW f \in [1..n -> S]
    PROVE  f \in Seq(S) /\ Len(f) = n /\ DOMAIN f = 1..n
OBVIOUS

\* A pass is over sources of the replica.
LEMMA Refilled ==
    ASSUME SharedInv, NEW r \in Replicas, NEW full \in Shared!Refill(r)
    PROVE  full \in Seq(Shared!Sources) /\ \A i \in DOMAIN full : full[i][1] = r
<1>1. CASE pass[r] # <<>>
  BY <1>1, SharedTyped DEF Shared!Refill, SharedInv, OwnSources
<1>2. CASE pass[r] = <<>>
  <2>1. full \in Shared!SetToSeqs(Shared!LiveSources(r))
    BY <1>2 DEF Shared!Refill
  <2>2. \A t \in Shared!LiveSources(r) : t \in Shared!Sources /\ t[1] = r
    <3> SUFFICES ASSUME NEW t \in Shared!LiveSources(r)
                 PROVE  t \in Shared!Sources /\ t[1] = r
      OBVIOUS
    <3>1. PICK k \in SharedKeys : live[<<r, k>>] # 0 /\ t = <<r, k, live[<<r, k>>]>>
      BY DEF Shared!LiveSources
    <3>2. live[<<r, k>>] \in 0..MaxIncarnations /\ MaxIncarnations \in Nat
      BY SharedTyped, SharedConfig
    <3> QED BY <3>1, <3>2 DEF Shared!Sources
  <2>3. PICK S : S = Shared!LiveSources(r)
    OBVIOUS
  <2>4. full \in [1..Cardinality(S) -> S]
    BY <2>1, <2>3 DEF Shared!SetToSeqs, Shared!Cardinality, Cardinality
  <2>5. IsFiniteSet(S) /\ \A t \in S : t \in Shared!Sources /\ t[1] = r
    <3>1. S \subseteq Shared!Sources
      BY <2>2, <2>3
    <3> QED BY <2>2, <2>3, <3>1, SourcesFinite, FS_Subset
  <2>6. PICK n \in Nat : n = Cardinality(S)
    BY <2>5, FS_CardinalityType
  <2>7. full \in [1..n -> Shared!Sources] /\ DOMAIN full = 1..n
    BY <2>4, <2>5, <2>6
  <2>8. full \in Seq(Shared!Sources)
    BY <2>7, Sequenced
  <2>9. \A i \in DOMAIN full : full[i] \in S
    BY <2>4, <2>6, <2>7
  <2> QED BY <2>5, <2>8, <2>9
<1> QED BY <1>1, <1>2

\* A batch is taken, rolled and snapshotted.
LEMMA SyncStartStep ==
    ASSUME SharedInv, NEW r \in Replicas, Shared!SyncStart(r) PROVE SharedInv'
<1>1. PICK full \in Shared!Refill(r), b \in Shared!Readings :
         LET keep == Shared!SaturatingSub(Len(full), Batch)
             taken == SubSeq(full, keep + 1, Len(full))
             rolled == [s \in Shared!Sources |-> IF s \in Shared!ToSet(taken)
                                                 THEN Shared!RollTo(shard[s], b)
                                                 ELSE shard[s]]
         IN  /\ pass' = [pass EXCEPT ![r] = SubSeq(full, 1, keep)]
             /\ shard' = rolled
             /\ batch' = [batch EXCEPT ![r] =
                   [i \in DOMAIN taken |->
                        Shared!PublishOf(taken[i], rolled[taken[i]])]]
  BY DEF Shared!SyncStart
<1>2. /\ batch[r] = <<>> /\ bucketNow' = bucketNow /\ made' = made /\ live' = live
      /\ answer' = answer /\ late' = late /\ fields' = fields /\ budget' = budget
      /\ counted' = counted
  BY DEF Shared!SyncStart
<1>3. full \in Seq(Shared!Sources) /\ \A i \in DOMAIN full : full[i][1] = r
  BY Refilled
<1>4. PICK keep : keep = Shared!SaturatingSub(Len(full), Batch)
  OBVIOUS
<1>5. keep \in 0..Len(full)
  <2>1. Len(full) \in Nat /\ Batch \in Nat \ {0}
    BY <1>3, SharedConfig
  <2> QED BY <1>4, <2>1 DEF Shared!SaturatingSub
<1>6. PICK taken : taken = SubSeq(full, keep + 1, Len(full))
  OBVIOUS
<1>7. /\ taken \in Seq(Shared!Sources)
      /\ \A i \in DOMAIN taken : taken[i][1] = r
  <2>1. /\ taken \in Seq(Shared!Sources)
        /\ \A i \in DOMAIN taken : \E j \in DOMAIN full : taken[i] = full[j]
    BY <1>3, <1>5, <1>6
  <2> QED BY <1>3, <2>1
<1>8. PICK rest : rest = SubSeq(full, 1, keep)
  OBVIOUS
<1>9. /\ rest \in Seq(Shared!Sources)
      /\ \A i \in DOMAIN rest : rest[i][1] = r
  <2>1. /\ rest \in Seq(Shared!Sources)
        /\ \A i \in DOMAIN rest : \E j \in DOMAIN full : rest[i] = full[j]
    BY <1>3, <1>5, <1>8
  <2> QED BY <1>3, <2>1
<1>10. PICK rolled : rolled = [s \in Shared!Sources |-> IF s \in Shared!ToSet(taken)
                                                        THEN Shared!RollTo(shard[s], b)
                                                        ELSE shard[s]]
  OBVIOUS
<1>11. PICK pubs : pubs = [i \in DOMAIN taken |->
                              Shared!PublishOf(taken[i], rolled[taken[i]])]
  OBVIOUS
<1>12. /\ pass' = [pass EXCEPT ![r] = rest] /\ shard' = rolled
       /\ batch' = [batch EXCEPT ![r] = pubs]
  BY <1>1, <1>4, <1>6, <1>8, <1>10, <1>11
<1>13. b \in Shared!Buckets /\ counted \in Histories
  BY SharedTyped DEF Shared!Readings
<1>14. \A s \in Shared!Sources : Backed(rolled[s], s, counted)
  <2> SUFFICES ASSUME NEW s \in Shared!Sources PROVE Backed(rolled[s], s, counted)
    OBVIOUS
  <2>1. Backed(shard[s], s, counted)
    BY DEF SharedInv, ShardsBacked
  <2>2. Backed(Shared!RollTo(shard[s], b), s, counted)
    BY <1>13, <2>1, RolledBacked
  <2> QED BY <1>10, <2>1, <2>2
<1>15. rolled \in [Shared!Sources -> Shared!Shard]
  <2>1. \A s \in Shared!Sources : rolled[s] \in Shared!Shard
    BY <1>14 DEF Backed
  <2>2. rolled = [s \in Shared!Sources |-> rolled[s]]
    BY <1>10
  <2> QED BY <2>1, <2>2
<1>16. ASSUME NEW i \in DOMAIN pubs
       PROVE  /\ i \in DOMAIN taken /\ taken[i] \in Shared!Sources
              /\ pubs[i] = Shared!PublishOf(taken[i], rolled[taken[i]])
              /\ pubs[i] \in Shared!Publish /\ pubs[i].source = taken[i]
              /\ \A x \in Shared!Buckets :
                    /\ Says(pubs[i], x) <= counted[x][taken[i]]
                    /\ Recent(pubs[i], x) => Says(pubs[i], x) = counted[x][taken[i]]
  <2>1. i \in DOMAIN taken /\ taken[i] \in Shared!Sources
    BY <1>7, <1>11
  <2>2. pubs[i] = Shared!PublishOf(taken[i], rolled[taken[i]])
    BY <1>11, <2>1
  <2>3. Backed(rolled[taken[i]], taken[i], counted)
    BY <1>14, <2>1
  <2> QED BY <1>13, <2>1, <2>2, <2>3, SnapshotSays
<1>17. pubs \in Seq(Shared!Publish)
  <2>1. PICK n \in Nat : n = Len(taken) /\ DOMAIN taken = 1..n
    BY <1>7
  <2>2. pubs \in [1..n -> Shared!Publish]
    BY <1>11, <1>16, <2>1
  <2> QED BY <2>1, <2>2, Sequenced
<1>18. /\ \A q \in Replicas : batch'[q] = IF q = r THEN pubs ELSE batch[q]
       /\ \A q \in Replicas : pass'[q] = IF q = r THEN rest ELSE pass[q]
       /\ batch' \in [Replicas -> Seq(Shared!Publish)]
       /\ pass' \in [Replicas -> Seq(Shared!Sources)]
  BY <1>9, <1>12, <1>17, SharedTyped
<1>19. Shared!TypeOK'
  BY <1>2, <1>12, <1>15, <1>18 DEF SharedInv, Shared!TypeOK
<1>20. ShardsBacked' /\ NothingUnmade'
  <2>1. ShardsBacked'
    BY <1>2, <1>12, <1>14, SharedParts
  <2>2. NothingUnmade'
    BY <1>2 DEF SharedInv, NothingUnmade
  <2> QED BY <2>1, <2>2
<1>21. StoreBacked'
  <2>1. SaidBy(pubs, counted)
    BY <1>16 DEF SaidBy
  <2> QED BY <1>2, <1>18, <2>1, SharedParts DEF SharedInv, StoreBacked
<1>22. OwnSources'
  <2>1. \A i \in DOMAIN pubs : pubs[i].source[1] = r
    BY <1>7, <1>16
  <2> SUFFICES ASSUME NEW q \in Replicas
               PROVE  /\ \A i \in DOMAIN pass'[q] : pass'[q][i][1] = q
                      /\ \A i \in DOMAIN batch'[q] : batch'[q][i].source[1] = q
    BY DEF OwnSources
  <2>2. CASE q = r
    BY <1>9, <1>18, <2>1, <2>2
  <2>3. CASE q # r
    BY <1>18, <2>3 DEF SharedInv, OwnSources
  <2> QED BY <2>2, <2>3
<1>23. Snapshots'
  <2>1. \A i, j \in DOMAIN pubs : pubs[i].source = pubs[j].source => pubs[i] = pubs[j]
    BY <1>16
  <2> SUFFICES ASSUME NEW q \in Replicas, NEW i \in DOMAIN batch'[q],
                      NEW j \in DOMAIN batch'[q], batch'[q][i].source = batch'[q][j].source
               PROVE  batch'[q][i] = batch'[q][j]
    BY DEF Snapshots
  <2>2. CASE q = r
    BY <1>18, <2>1, <2>2
  <2>3. CASE q # r
    <3>1. batch'[q] = batch[q]
      BY <1>18, <2>3
    <3>2. \A x, y \in DOMAIN batch[q] :
             batch[q][x].source = batch[q][y].source => batch[q][x] = batch[q][y]
      BY DEF SharedInv, Snapshots
    <3> QED BY <3>1, <3>2, Zenon
  <2> QED BY <2>2, <2>3
<1>24. Freshest'
  <2>1. ASSUME NEW i \in DOMAIN pubs, NEW x \in Shared!Buckets, Recent(pubs[i], x)
        PROVE  /\ fields[x][pubs[i].source] <= Says(pubs[i], x)
               /\ \A ps \in late : \A j \in DOMAIN ps :
                     ps[j].source = pubs[i].source => Says(ps[j], x) <= Says(pubs[i], x)
    <3>1. pubs[i].source \in Shared!Sources /\ Says(pubs[i], x) = counted[x][pubs[i].source]
      BY <1>16, <2>1
    <3>2. fields[x][pubs[i].source] <= counted[x][pubs[i].source]
      BY <3>1 DEF SharedInv, StoreBacked
    <3>3. \A ps \in late : \A j \in DOMAIN ps : Says(ps[j], x) <= counted[x][ps[j].source]
      BY DEF SharedInv, StoreBacked, SaidBy
    <3> QED BY <3>1, <3>2, <3>3
  <2>2. \A q \in Replicas : \A i \in DOMAIN batch'[q], x \in Shared!Buckets :
           Recent(batch'[q][i], x) =>
               /\ fields[x][batch'[q][i].source] <= Says(batch'[q][i], x)
               /\ \A ps \in late : \A j \in DOMAIN ps :
                     ps[j].source = batch'[q][i].source =>
                         Says(ps[j], x) <= Says(batch'[q][i], x)
    <3> SUFFICES ASSUME NEW q \in Replicas, NEW i \in DOMAIN batch'[q],
                        NEW x \in Shared!Buckets, Recent(batch'[q][i], x)
                 PROVE  /\ fields[x][batch'[q][i].source] <= Says(batch'[q][i], x)
                        /\ \A ps \in late : \A j \in DOMAIN ps :
                              ps[j].source = batch'[q][i].source =>
                                  Says(ps[j], x) <= Says(batch'[q][i], x)
      OBVIOUS
    <3>1. CASE q = r
      BY <1>18, <2>1, <3>1
    <3>2. CASE q # r
      BY <1>18, <3>2 DEF SharedInv, Freshest
    <3> QED BY <3>1, <3>2
  <2> QED BY <1>2, <2>2, SharedParts
<1>25. AnswersFit'
  <2>1. answer[r] = <<>>
    <3>1. answer[r] # <<>> => Len(answer[r]) = Len(batch[r])
      BY DEF SharedInv, AnswersFit
    <3>2. answer[r] \in Seq(Shared!Totals) /\ Len(batch[r]) = 0
      BY <1>2, SharedTyped
    <3> QED BY <3>1, <3>2
  <2> QED BY <1>2, <1>18, <2>1, SharedParts DEF SharedInv, AnswersFit
<1> QED BY <1>19, <1>20, <1>21, <1>22, <1>23, <1>24, <1>25 DEF SharedInv

\* Fields that are written from what is under way.
LEMMA WrittenStep ==
    ASSUME SharedInv, NEW ps \in Seq(Shared!Publish), SaidBy(ps, counted),
           fields' = Shared!Written(ps), counted' = counted, batch' = batch,
           late' \subseteq late,
           \A r \in Replicas : \A i \in DOMAIN batch[r], j \in DOMAIN ps, b \in Shared!Buckets :
               ps[j].source = batch[r][i].source /\ Recent(batch[r][i], b) =>
                   Says(ps[j], b) <= Says(batch[r][i], b)
    PROVE  fields' \in Histories /\ StoreBacked' /\ Freshest'
<1>1. /\ counted \in Histories /\ fields \in Histories
      /\ \A r \in Replicas : batch[r] \in Seq(Shared!Publish)
  BY SharedTyped
<1>2. PICK g \in Histories :
         /\ g = fields'
         /\ \A b \in Shared!Buckets, s \in Shared!Sources :
               \/ g[b][s] = fields[b][s]
               \/ \E i \in DOMAIN ps : ps[i].source = s /\ g[b][s] = Says(ps[i], b)
  BY <1>1, WrittenSays
<1>3. StoreBacked'
  <2>1. ASSUME NEW s \in Shared!Sources, NEW b \in Shared!Buckets
        PROVE  g[b][s] <= counted[b][s]
    <3>1. fields[b][s] <= counted[b][s]
      BY DEF SharedInv, StoreBacked
    <3>2. \A i \in DOMAIN ps : ps[i].source = s => Says(ps[i], b) <= counted[b][s]
      BY DEF SaidBy
    <3> QED BY <1>2, <3>1, <3>2
  <2> QED BY <1>2, <2>1, SharedParts DEF SharedInv, StoreBacked
<1>4. Freshest'
  <2>1. ASSUME NEW r \in Replicas, NEW i \in DOMAIN batch[r], NEW b \in Shared!Buckets,
               Recent(batch[r][i], b)
        PROVE  /\ g[b][batch[r][i].source] <= Says(batch[r][i], b)
               /\ \A old \in late' : \A j \in DOMAIN old :
                     old[j].source = batch[r][i].source =>
                         Says(old[j], b) <= Says(batch[r][i], b)
    <3>1. /\ fields[b][batch[r][i].source] <= Says(batch[r][i], b)
          /\ \A old \in late : \A j \in DOMAIN old :
                old[j].source = batch[r][i].source =>
                    Says(old[j], b) <= Says(batch[r][i], b)
      BY <2>1 DEF SharedInv, Freshest
    <3>2. batch[r][i].source \in Shared!Sources
      <4>1. batch[r][i] \in Shared!Publish
        BY <1>1
      <4> QED BY <4>1 DEF Shared!Publish
    <3>3. \A j \in DOMAIN ps : ps[j].source = batch[r][i].source =>
             Says(ps[j], b) <= Says(batch[r][i], b)
      BY <2>1
    <3>4. g[b][batch[r][i].source] <= Says(batch[r][i], b)
      BY <1>2, <3>1, <3>2, <3>3
    <3> QED BY <3>1, <3>4
  <2> QED BY <1>2, <2>1, SharedParts
<1> QED BY <1>2, <1>3, <1>4

\* The store executes a batch that is waited for.
LEMMA ExecuteStep ==
    ASSUME SharedInv, NEW r \in Replicas, Shared!Execute(r) PROVE SharedInv'
<1>1. /\ fields' = Shared!Written(batch[r])
      /\ answer' = [answer EXCEPT ![r] = Shared!TotalsOf(fields', batch[r])]
      /\ bucketNow' = bucketNow /\ shard' = shard /\ made' = made /\ live' = live
      /\ pass' = pass /\ batch' = batch /\ late' = late /\ budget' = budget
      /\ counted' = counted
  BY DEF Shared!Execute
<1>2. PICK ps \in Seq(Shared!Publish) : ps = batch[r]
  BY SharedTyped
<1>3. /\ SaidBy(ps, counted)
      /\ \A i \in DOMAIN ps : ps[i].source[1] = r
      /\ \A i, j \in DOMAIN ps : ps[i].source = ps[j].source => ps[i] = ps[j]
  <2>1. SaidBy(ps, counted)
    BY <1>2 DEF SharedInv, StoreBacked
  <2>2. \A i \in DOMAIN ps : ps[i].source[1] = r
    BY <1>2 DEF SharedInv, OwnSources
  <2>3. \A i, j \in DOMAIN ps : ps[i].source = ps[j].source => ps[i] = ps[j]
    BY <1>2, Zenon DEF SharedInv, Snapshots
  <2> QED BY <2>1, <2>2, <2>3
<1>4. \A i \in DOMAIN ps, b \in Shared!Buckets : Says(ps[i], b) \in Nat
  <2> SUFFICES ASSUME NEW i \in DOMAIN ps, NEW b \in Shared!Buckets PROVE Says(ps[i], b) \in Nat
    OBVIOUS
  <2>1. ps[i] \in Shared!Publish
    OBVIOUS
  <2> QED BY <2>1 DEF Says, Shared!Publish
<1>5. fields' \in Histories /\ StoreBacked' /\ Freshest'
  <2>1. ASSUME NEW q \in Replicas, NEW i \in DOMAIN batch[q], NEW j \in DOMAIN ps,
               NEW b \in Shared!Buckets, ps[j].source = batch[q][i].source
        PROVE  Says(ps[j], b) <= Says(batch[q][i], b)
    <3>1. batch[q][i].source[1] = q
      BY DEF SharedInv, OwnSources
    <3>2. q = r
      BY <1>3, <2>1, <3>1
    <3>3. batch[q][i] = ps[j]
      BY <1>2, <1>3, <2>1, <3>2
    <3> QED BY <1>4, <3>3
  <2> QED BY <1>1, <1>2, <1>3, <2>1, WrittenStep
<1>6. PICK g \in Histories : g = fields'
  BY <1>5
<1>7. PICK totals : totals = Shared!TotalsOf(g, ps)
  OBVIOUS
<1>8. ASSUME NEW i \in DOMAIN ps
      PROVE  totals[i] \in Shared!Totals /\ Fits(ps[i], totals[i], counted)
  <2>1. PICK pub \in Shared!Publish : pub = ps[i]
    OBVIOUS
  <2>2. /\ pub.source \in Shared!Sources /\ pub.bucket \in Shared!Buckets /\ pub.bucket \in Nat
        /\ pub.own_current \in Nat /\ pub.own_previous \in Nat
    BY DEF Shared!Publish, Shared!Buckets
  <2>3. pub.bucket # 0 => pub.bucket - 1 \in Shared!Buckets
    BY <2>2, SharedConfig DEF Shared!Buckets
  <2>4. totals[i] = [current |-> Shared!SumOf(g, pub.bucket, Shared!Key(pub.source)),
                     previous |-> IF pub.bucket = 0 THEN 0
                                  ELSE Shared!SumOf(g, pub.bucket - 1, Shared!Key(pub.source))]
    BY <1>7, <2>1 DEF Shared!TotalsOf
  <2>5. \A b \in Shared!Buckets :
           /\ Shared!SumOf(g, b, Shared!Key(pub.source))
                = g[b][pub.source] + OthersOf(pub.source, b, g)
           /\ Shared!SumOf(g, b, Shared!Key(pub.source)) \in Nat
    BY <2>2, SumOfSplits
  <2>6. \A b \in Shared!Buckets, s \in Shared!Sources : g[b][s] <= counted[b][s]
    BY <1>1, <1>5, <1>6, SharedParts
  <2>7. \A b \in Shared!Buckets :
           /\ OthersOf(pub.source, b, g) \in Nat /\ OthersOf(pub.source, b, counted) \in Nat
           /\ OthersOf(pub.source, b, g) <= OthersOf(pub.source, b, counted)
    BY <2>2, <2>6, SharedTyped, OthersGrow
  <2>8. \A b \in Shared!Buckets : Recent(pub, b) => g[b][pub.source] <= Says(pub, b)
    BY <1>1, <1>2, <1>5, <1>6, <2>1, SharedParts
  <2>9. \A b \in Shared!Buckets : g[b][pub.source] \in Nat
    BY <2>2 DEF Histories
  <2>10. g[pub.bucket][pub.source] <= pub.own_current
    BY <2>2, <2>8 DEF Recent, Says
  <2>11. pub.bucket # 0 => g[pub.bucket - 1][pub.source] <= pub.own_previous
    BY <2>2, <2>3, <2>8 DEF Recent, Says
  <2>12. /\ totals[i].current \in Nat
         /\ totals[i].current <= pub.own_current + OthersOf(pub.source, pub.bucket, counted)
    BY <2>2, <2>4, <2>5, <2>7, <2>9, <2>10
  <2>13. /\ totals[i].previous \in Nat
         /\ totals[i].previous <= pub.own_previous + (IF pub.bucket = 0 THEN 0
                                      ELSE OthersOf(pub.source, pub.bucket - 1, counted))
    BY <2>2, <2>3, <2>4, <2>5, <2>7, <2>9, <2>11
  <2> QED BY <2>1, <2>4, <2>12, <2>13 DEF Fits, Shared!Totals
<1>9. totals \in Seq(Shared!Totals) /\ Len(totals) = Len(ps)
  <2>1. PICK n \in Nat : n = Len(ps) /\ DOMAIN ps = 1..n
    OBVIOUS
  <2>2. totals \in [1..n -> Shared!Totals]
    <3>1. \E e : totals = [i \in DOMAIN ps |-> e[i]]
      <4>1. totals = [i \in DOMAIN ps |-> totals[i]]
        BY <1>7 DEF Shared!TotalsOf
      <4> QED BY <4>1
    <3> QED BY <1>8, <2>1, <3>1
  <2> QED BY <2>1, <2>2, Sequenced
<1>10. /\ answer' \in [Replicas -> Seq(Shared!Totals)]
       /\ \A q \in Replicas : answer'[q] = IF q = r THEN totals ELSE answer[q]
  BY <1>1, <1>2, <1>6, <1>7, <1>9, SharedTyped
<1>11. Shared!TypeOK'
  BY <1>1, <1>5, <1>10 DEF SharedInv, Shared!TypeOK, Histories
<1>12. AnswersFit'
  <2> SUFFICES ASSUME NEW q \in Replicas, answer'[q] # <<>>
               PROVE  /\ Len(answer'[q]) = Len(batch[q])
                      /\ \A i \in DOMAIN batch[q] : Fits(batch[q][i], answer'[q][i], counted)
    BY <1>1, SharedParts
  <2>1. CASE q = r
    BY <1>2, <1>8, <1>9, <1>10, <2>1
  <2>2. CASE q # r
    BY <1>10, <2>2 DEF SharedInv, AnswersFit
  <2> QED BY <2>1, <2>2
<1>13. ShardsBacked' /\ NothingUnmade' /\ OwnSources' /\ Snapshots'
  BY <1>1 DEF SharedInv, ShardsBacked, NothingUnmade, OwnSources, Snapshots
<1> QED BY <1>5, <1>11, <1>12, <1>13 DEF SharedInv

\* Or one that was given up on.
LEMMA ExecuteLateStep ==
    ASSUME SharedInv, NEW ps \in late, Shared!ExecuteLate(ps) PROVE SharedInv'
<1>1. /\ fields' = Shared!Written(ps) /\ late' = late \ {ps}
      /\ bucketNow' = bucketNow /\ shard' = shard /\ made' = made /\ live' = live
      /\ pass' = pass /\ batch' = batch /\ answer' = answer /\ budget' = budget
      /\ counted' = counted
  BY DEF Shared!ExecuteLate
<1>2. ps \in Seq(Shared!Publish) /\ SaidBy(ps, counted)
  BY SharedTyped DEF SharedInv, StoreBacked
<1>3. \A r \in Replicas : \A i \in DOMAIN batch[r], j \in DOMAIN ps, b \in Shared!Buckets :
         ps[j].source = batch[r][i].source /\ Recent(batch[r][i], b) =>
             Says(ps[j], b) <= Says(batch[r][i], b)
  BY DEF SharedInv, Freshest
<1>4. fields' \in Histories /\ StoreBacked' /\ Freshest'
  BY <1>1, <1>2, <1>3, WrittenStep
<1>5. Shared!TypeOK'
  BY <1>1, <1>4 DEF SharedInv, Shared!TypeOK, Histories
<1>6. ShardsBacked' /\ NothingUnmade' /\ OwnSources' /\ Snapshots' /\ AnswersFit'
  BY <1>1 DEF SharedInv, ShardsBacked, NothingUnmade, OwnSources, Snapshots, AnswersFit
<1> QED BY <1>4, <1>5, <1>6 DEF SharedInv

\* A replica lets go of its batch.
LEMMA Released ==
    ASSUME SharedInv, NEW r \in Replicas,
           \A q \in Replicas : batch'[q] = IF q = r THEN <<>> ELSE batch[q],
           \A q \in Replicas : answer'[q] = IF q = r THEN <<>> ELSE answer[q],
           fields' = fields, counted' = counted,
           late' = late \/ late' = late \cup {batch[r]},
           \A q \in Replicas : \A i \in DOMAIN pass'[q] : pass'[q][i][1] = q
    PROVE  StoreBacked' /\ OwnSources' /\ Snapshots' /\ Freshest' /\ AnswersFit'
<1>1. SaidBy(<<>>, counted)
  BY DEF SaidBy
<1>2. SaidBy(batch[r], counted)
  BY DEF SharedInv, StoreBacked
<1>3. StoreBacked'
  <2>1. \A q \in Replicas : SaidBy(batch'[q], counted)
    <3> SUFFICES ASSUME NEW q \in Replicas PROVE SaidBy(batch'[q], counted)
      OBVIOUS
    <3>1. CASE q = r
      BY <1>1, <3>1
    <3>2. CASE q # r
      BY <3>2 DEF SharedInv, StoreBacked
    <3> QED BY <3>1, <3>2
  <2>2. \A ps \in late' : SaidBy(ps, counted)
    BY <1>2 DEF SharedInv, StoreBacked
  <2> QED BY <2>1, <2>2, SharedParts DEF SharedInv, StoreBacked
<1>4. OwnSources'
  BY DEF SharedInv, OwnSources
<1>5. Snapshots'
  <2> SUFFICES ASSUME NEW q \in Replicas, NEW i \in DOMAIN batch'[q],
                      NEW j \in DOMAIN batch'[q], batch'[q][i].source = batch'[q][j].source
               PROVE  batch'[q][i] = batch'[q][j]
    BY DEF Snapshots
  <2>1. q # r /\ batch'[q] = batch[q]
    OBVIOUS
  <2>2. \A x, y \in DOMAIN batch[q] :
           batch[q][x].source = batch[q][y].source => batch[q][x] = batch[q][y]
    BY DEF SharedInv, Snapshots
  <2>3. i \in DOMAIN batch[q] /\ j \in DOMAIN batch[q]
        /\ batch[q][i].source = batch[q][j].source
    BY <2>1
  <2>4. batch[q][i] = batch[q][j]
    BY <2>2, <2>3, Zenon
  <2> QED BY <2>1, <2>4
<1>6. Freshest'
  <2> SUFFICES ASSUME NEW q \in Replicas, NEW i \in DOMAIN batch'[q],
                      NEW x \in Shared!Buckets, Recent(batch'[q][i], x)
               PROVE  /\ fields[x][batch'[q][i].source] <= Says(batch'[q][i], x)
                      /\ \A ps \in late' : \A j \in DOMAIN ps :
                            ps[j].source = batch'[q][i].source =>
                                Says(ps[j], x) <= Says(batch'[q][i], x)
    BY SharedParts
  <2>1. q # r /\ batch'[q] = batch[q] /\ i \in DOMAIN batch[q]
    OBVIOUS
  <2>2. /\ fields[x][batch[q][i].source] <= Says(batch[q][i], x)
        /\ \A ps \in late : \A j \in DOMAIN ps :
              ps[j].source = batch[q][i].source => Says(ps[j], x) <= Says(batch[q][i], x)
    BY <2>1 DEF SharedInv, Freshest
  <2>3. \A j \in DOMAIN batch[r] : batch[r][j].source # batch[q][i].source
    BY <2>1 DEF SharedInv, OwnSources
  <2> QED BY <2>1, <2>2, <2>3
<1>7. AnswersFit'
  <2> SUFFICES ASSUME NEW q \in Replicas, answer'[q] # <<>>
               PROVE  /\ Len(answer'[q]) = Len(batch'[q])
                      /\ \A i \in DOMAIN batch'[q] : Fits(batch'[q][i], answer'[q][i], counted)
    BY SharedParts
  <2>1. answer'[q] = answer[q] /\ batch'[q] = batch[q]
    OBVIOUS
  <2> QED BY <2>1 DEF SharedInv, AnswersFit
<1> QED BY <1>3, <1>4, <1>5, <1>6, <1>7

\* An answer is applied, and the lock released.
LEMMA SyncApplyStep ==
    ASSUME SharedInv, NEW r \in Replicas, Shared!SyncApply(r) PROVE SharedInv'
<1>1. /\ answer[r] # <<>>
      /\ shard' = [s \in Shared!Sources |->
             LET same == {i \in DOMAIN batch[r] : batch[r][i].source = s}
                 i == CHOOSE i \in same : TRUE
             IN  IF same = {} THEN shard[s]
                 ELSE Shared!Applied(shard[s], batch[r][i], answer[r][i])]
      /\ batch' = [batch EXCEPT ![r] = <<>>] /\ answer' = [answer EXCEPT ![r] = <<>>]
      /\ bucketNow' = bucketNow /\ made' = made /\ live' = live /\ pass' = pass
      /\ late' = late /\ fields' = fields /\ budget' = budget /\ counted' = counted
  BY DEF Shared!SyncApply
<1>2. /\ batch[r] \in Seq(Shared!Publish) /\ answer[r] \in Seq(Shared!Totals)
      /\ Len(answer[r]) = Len(batch[r])
      /\ \A i \in DOMAIN batch[r] : Fits(batch[r][i], answer[r][i], counted)
  BY <1>1, SharedTyped DEF SharedInv, AnswersFit
<1>3. ASSUME NEW s \in Shared!Sources PROVE Backed(shard'[s], s, counted)
  <2>1. Backed(shard[s], s, counted)
    BY DEF SharedInv, ShardsBacked
  <2>2. \/ shard'[s] = shard[s]
        \/ \E i \in DOMAIN batch[r] :
              /\ batch[r][i].source = s
              /\ shard'[s] = Shared!Applied(shard[s], batch[r][i], answer[r][i])
    BY <1>1
  <2>3. ASSUME NEW i \in DOMAIN batch[r], batch[r][i].source = s
        PROVE  Backed(Shared!Applied(shard[s], batch[r][i], answer[r][i]), s, counted)
    <3>1. batch[r][i] \in Shared!Publish /\ answer[r][i] \in Shared!Totals
      BY <1>2
    <3>2. Fits(batch[r][i], answer[r][i], counted)
      BY <1>2
    <3> QED BY <2>1, <2>3, <3>1, <3>2, SharedTyped, AppliedBacked
  <2> QED BY <2>1, <2>2, <2>3
<1>4. ShardsBacked'
  BY <1>1, <1>3, SharedParts
<1>5. shard' \in [Shared!Sources -> Shared!Shard]
  <2>1. \A s \in Shared!Sources : shard'[s] \in Shared!Shard
    BY <1>3 DEF Backed
  <2>2. shard' = [s \in Shared!Sources |-> shard'[s]]
    BY <1>1
  <2> QED BY <2>1, <2>2
<1>6. /\ \A q \in Replicas : batch'[q] = IF q = r THEN <<>> ELSE batch[q]
      /\ \A q \in Replicas : answer'[q] = IF q = r THEN <<>> ELSE answer[q]
      /\ batch' \in [Replicas -> Seq(Shared!Publish)]
      /\ answer' \in [Replicas -> Seq(Shared!Totals)]
  BY <1>1, SharedTyped
<1>7. Shared!TypeOK'
  BY <1>1, <1>5, <1>6 DEF SharedInv, Shared!TypeOK
<1>8. StoreBacked' /\ OwnSources' /\ Snapshots' /\ Freshest' /\ AnswersFit'
  <2>1. \A q \in Replicas : \A i \in DOMAIN pass'[q] : pass'[q][i][1] = q
    BY <1>1 DEF SharedInv, OwnSources
  <2> QED BY <1>1, <1>6, <2>1, Released
<1>9. NothingUnmade'
  BY <1>1 DEF SharedInv, NothingUnmade
<1> QED BY <1>4, <1>7, <1>8, <1>9 DEF SharedInv

\* A round trip ends without an answer.
LEMMA SyncFailStep ==
    ASSUME SharedInv, NEW r \in Replicas, Shared!SyncFail(r) PROVE SharedInv'
<1>1. PICK back : back = [i \in DOMAIN batch[r] |-> batch[r][i].source]
  OBVIOUS
<1>2. /\ budget.failures > 0
      /\ budget' = [budget EXCEPT !.failures = @ - 1]
      /\ pass' = [pass EXCEPT ![r] = pass[r] \o back]
      /\ late' = IF answer[r] = <<>> THEN late \cup {batch[r]} ELSE late
      /\ batch' = [batch EXCEPT ![r] = <<>>] /\ answer' = [answer EXCEPT ![r] = <<>>]
      /\ bucketNow' = bucketNow /\ shard' = shard /\ made' = made /\ live' = live
      /\ fields' = fields /\ counted' = counted
  BY <1>1 DEF Shared!SyncFail
<1>3. /\ batch[r] \in Seq(Shared!Publish) /\ pass[r] \in Seq(Shared!Sources)
      /\ \A i \in DOMAIN batch[r] : batch[r][i].source[1] = r
      /\ \A i \in DOMAIN pass[r] : pass[r][i][1] = r
  BY SharedTyped DEF SharedInv, OwnSources
<1>4. /\ back \in Seq(Shared!Sources)
      /\ \A i \in DOMAIN back : back[i][1] = r
  <2>1. PICK n \in Nat : n = Len(batch[r]) /\ DOMAIN batch[r] = 1..n
    BY <1>3
  <2>2. \A i \in DOMAIN batch[r] : batch[r][i].source \in Shared!Sources
    <3> SUFFICES ASSUME NEW i \in DOMAIN batch[r] PROVE batch[r][i].source \in Shared!Sources
      OBVIOUS
    <3>1. batch[r][i] \in Shared!Publish
      BY <1>3
    <3> QED BY <3>1 DEF Shared!Publish
  <2>3. back \in [1..n -> Shared!Sources]
    BY <1>1, <2>1, <2>2
  <2>4. back \in Seq(Shared!Sources)
    BY <2>3, Sequenced
  <2> QED BY <1>1, <1>3, <2>4
<1>5. PICK both : both = pass[r] \o back
  OBVIOUS
<1>6. /\ both \in Seq(Shared!Sources)
      /\ \A i \in DOMAIN both : both[i][1] = r
  <2>1. both \in Seq(Shared!Sources)
    BY <1>3, <1>4, <1>5
  <2>2. ASSUME NEW i \in DOMAIN both PROVE both[i][1] = r
    <3>1. /\ Len(pass[r]) \in Nat /\ Len(back) \in Nat
          /\ i \in 1..(Len(pass[r]) + Len(back))
      BY <1>3, <1>4, <1>5
    <3>2. CASE i <= Len(pass[r])
      <4>1. both[i] = pass[r][i] /\ i \in DOMAIN pass[r]
        BY <1>3, <1>4, <1>5, <3>1, <3>2
      <4> QED BY <1>3, <4>1
    <3>3. CASE i > Len(pass[r])
      <4>1. both[i] = back[i - Len(pass[r])] /\ i - Len(pass[r]) \in DOMAIN back
        BY <1>3, <1>4, <1>5, <3>1, <3>3
      <4> QED BY <1>4, <4>1
    <3> QED BY <3>1, <3>2, <3>3
  <2> QED BY <2>1, <2>2
<1>7. /\ \A q \in Replicas : batch'[q] = IF q = r THEN <<>> ELSE batch[q]
      /\ \A q \in Replicas : answer'[q] = IF q = r THEN <<>> ELSE answer[q]
      /\ \A q \in Replicas : pass'[q] = IF q = r THEN both ELSE pass[q]
      /\ batch' \in [Replicas -> Seq(Shared!Publish)]
      /\ answer' \in [Replicas -> Seq(Shared!Totals)]
      /\ pass' \in [Replicas -> Seq(Shared!Sources)]
      /\ late' \subseteq Seq(Shared!Publish)
  BY <1>2, <1>3, <1>5, <1>6, SharedTyped
<1>8. Shared!TypeOK'
  <2>1. budget' \in [skew: Nat, evictions: Nat, failures: Nat]
    <3>1. budget.failures \in Nat /\ budget.failures - 1 \in Nat
      BY <1>2, SharedTyped
    <3>2. PICK n \in Nat : n = budget.failures - 1
      BY <3>1
    <3> QED BY <1>2, <3>2, SharedTyped
  <2> QED BY <1>2, <1>7, <2>1 DEF SharedInv, Shared!TypeOK
<1>9. StoreBacked' /\ OwnSources' /\ Snapshots' /\ Freshest' /\ AnswersFit'
  <2>1. \A q \in Replicas : \A i \in DOMAIN pass'[q] : pass'[q][i][1] = q
    BY <1>6, <1>7 DEF SharedInv, OwnSources
  <2>2. late' = late \/ late' = late \cup {batch[r]}
    BY <1>2
  <2> QED BY <1>2, <1>7, <2>1, <2>2, Released
<1>10. ShardsBacked' /\ NothingUnmade'
  BY <1>2 DEF SharedInv, ShardsBacked, NothingUnmade
<1> QED BY <1>8, <1>9, <1>10 DEF SharedInv

\* A batch given up on is lost.
LEMMA LoseStep ==
    ASSUME SharedInv, NEW ps \in late, Shared!Lose(ps) PROVE SharedInv'
<1>1. /\ late' = late \ {ps}
      /\ bucketNow' = bucketNow /\ shard' = shard /\ made' = made /\ live' = live
      /\ pass' = pass /\ batch' = batch /\ answer' = answer /\ fields' = fields
      /\ budget' = budget /\ counted' = counted
  BY DEF Shared!Lose
<1>2. Shared!TypeOK'
  BY <1>1 DEF SharedInv, Shared!TypeOK
<1>3. StoreBacked' /\ Freshest'
  BY <1>1 DEF SharedInv, StoreBacked, Freshest
<1>4. ShardsBacked' /\ NothingUnmade' /\ OwnSources' /\ Snapshots' /\ AnswersFit'
  BY <1>1 DEF SharedInv, ShardsBacked, NothingUnmade, OwnSources, Snapshots, AnswersFit
<1> QED BY <1>2, <1>3, <1>4 DEF SharedInv

\* A hash expires: what is left says less.
LEMMA ExpireStep ==
    ASSUME SharedInv, NEW x \in Shared!Buckets, Shared!Expire(x) PROVE SharedInv'
<1>1. /\ fields' = [fields EXCEPT ![x] = [s \in Shared!Sources |-> 0]]
      /\ bucketNow' = bucketNow /\ shard' = shard /\ made' = made /\ live' = live
      /\ pass' = pass /\ batch' = batch /\ answer' = answer /\ late' = late
      /\ budget' = budget /\ counted' = counted
  BY DEF Shared!Expire
<1>2. PICK g : g = fields'
  OBVIOUS
<1>3. /\ g \in Histories
      /\ \A b \in Shared!Buckets, s \in Shared!Sources : g[b][s] \in Nat /\ g[b][s] <= fields[b][s]
  <2>1. fields \in Histories
    BY SharedTyped
  <2>2. \A b \in Shared!Buckets : g[b] = IF b = x THEN [s \in Shared!Sources |-> 0] ELSE fields[b]
    BY <1>1, <1>2, <2>1 DEF Histories
  <2>3. g \in Histories
    BY <1>1, <1>2, <2>1 DEF Histories
  <2>4. \A b \in Shared!Buckets, s \in Shared!Sources : fields[b][s] \in Nat
    BY <2>1 DEF Histories
  <2> QED BY <2>2, <2>3, <2>4
<1>4. Shared!TypeOK'
  BY <1>1, <1>2, <1>3 DEF SharedInv, Shared!TypeOK, Histories
<1>5. StoreBacked'
  <2>1. ASSUME NEW b \in Shared!Buckets, NEW s \in Shared!Sources PROVE g[b][s] <= counted[b][s]
    <3>1. fields[b][s] <= counted[b][s]
      BY DEF SharedInv, StoreBacked
    <3>2. fields[b][s] \in Nat /\ counted[b][s] \in Nat
      BY SharedTyped DEF Histories
    <3> QED BY <1>3, <3>1, <3>2
  <2> QED BY <1>1, <1>2, <2>1, SharedParts DEF SharedInv, StoreBacked
<1>6. Freshest'
  <2> SUFFICES ASSUME NEW r \in Replicas, NEW i \in DOMAIN batch[r], NEW b \in Shared!Buckets,
                      Recent(batch[r][i], b)
               PROVE  /\ g[b][batch[r][i].source] <= Says(batch[r][i], b)
                      /\ \A ps \in late : \A j \in DOMAIN ps :
                            ps[j].source = batch[r][i].source =>
                                Says(ps[j], b) <= Says(batch[r][i], b)
    BY <1>1, <1>2, SharedParts
  <2>1. /\ fields[b][batch[r][i].source] <= Says(batch[r][i], b)
        /\ \A ps \in late : \A j \in DOMAIN ps :
              ps[j].source = batch[r][i].source => Says(ps[j], b) <= Says(batch[r][i], b)
    BY DEF SharedInv, Freshest
  <2>2. batch[r][i] \in Shared!Publish
    BY SharedTyped
  <2>3. batch[r][i].source \in Shared!Sources /\ Says(batch[r][i], b) \in Nat
    BY <2>2 DEF Shared!Publish, Says
  <2>4. fields[b][batch[r][i].source] \in Nat
    BY <2>3, SharedTyped DEF Histories
  <2>5. g[b][batch[r][i].source] <= Says(batch[r][i], b)
    BY <1>3, <2>1, <2>3, <2>4
  <2> QED BY <2>1, <2>5
<1>7. ShardsBacked' /\ NothingUnmade' /\ OwnSources' /\ Snapshots' /\ AnswersFit'
  BY <1>1 DEF SharedInv, ShardsBacked, NothingUnmade, OwnSources, Snapshots, AnswersFit
<1> QED BY <1>4, <1>5, <1>6, <1>7 DEF SharedInv

\* Time passes, or the local store drops a key: the counts are as they were.
LEMMA CountsStay ==
    ASSUME SharedInv, Shared!TypeOK', shard' = shard, made' = made, pass' = pass,
           batch' = batch, answer' = answer, late' = late, fields' = fields,
           counted' = counted
    PROVE  SharedInv'
<1>1. StoreBacked' /\ Freshest' /\ ShardsBacked' /\ NothingUnmade'
  BY DEF SharedInv, StoreBacked, Freshest, ShardsBacked, NothingUnmade
<1>2. OwnSources' /\ Snapshots' /\ AnswersFit'
  BY DEF SharedInv, OwnSources, Snapshots, AnswersFit
<1> QED BY <1>1, <1>2 DEF SharedInv

LEMMA SharedTick == SharedInv /\ Shared!Tick => SharedInv'
<1> SUFFICES ASSUME SharedInv, Shared!Tick PROVE SharedInv'
  OBVIOUS
<1>1. bucketNow' \in Shared!Buckets
  BY SharedTyped, SharedConfig DEF Shared!Tick, Shared!Buckets
<1>2. /\ shard' = shard /\ made' = made /\ live' = live /\ pass' = pass
      /\ batch' = batch /\ answer' = answer /\ late' = late /\ fields' = fields
      /\ budget' = budget /\ counted' = counted
  BY DEF Shared!Tick
<1>3. Shared!TypeOK'
  BY <1>1, <1>2 DEF SharedInv, Shared!TypeOK
<1> QED BY <1>2, <1>3, CountsStay

LEMMA EvictStep ==
    ASSUME SharedInv, NEW r \in Replicas, NEW k \in SharedKeys, Shared!Evict(r, k)
    PROVE  SharedInv'
<1>1. /\ bucketNow' = bucketNow /\ shard' = shard /\ made' = made /\ pass' = pass
      /\ batch' = batch /\ answer' = answer /\ late' = late /\ fields' = fields
      /\ counted' = counted
      /\ live' = [live EXCEPT ![<<r, k>>] = 0]
      /\ budget.evictions > 0 /\ budget' = [budget EXCEPT !.evictions = @ - 1]
  BY DEF Shared!Evict
<1>2. /\ live' \in [Replicas \X SharedKeys -> 0..MaxIncarnations]
      /\ budget' \in [skew: Nat, evictions: Nat, failures: Nat]
  <2>1. 0 \in 0..MaxIncarnations
    BY SharedConfig
  <2>2. live' \in [Replicas \X SharedKeys -> 0..MaxIncarnations]
    BY <1>1, <2>1, SharedTyped
  <2>3. PICK n \in Nat : n = budget.evictions - 1
    BY <1>1, SharedTyped
  <2>4. budget' = [budget EXCEPT !.evictions = n]
    BY <1>1, <2>3
  <2> QED BY <2>2, <2>3, <2>4, SharedTyped
<1>3. Shared!TypeOK'
  BY <1>1, <1>2 DEF SharedInv, Shared!TypeOK
<1> QED BY <1>1, <1>3, CountsStay

\* Every step of a limiter, wherever its counts live.
LEMMA SharedStep ==
    SharedInv /\ [LimiterNext]_<<localVars, sharedVars>> => SharedInv'
<1> SUFFICES ASSUME SharedInv, [LimiterNext]_<<localVars, sharedVars>> PROVE SharedInv'
  OBVIOUS
<1>1. CASE Shared!Next
  <2>1. CASE Shared!Tick
    BY <2>1, SharedTick
  <2>2. CASE \E r \in Replicas, k \in SharedKeys :
                Shared!Check(r, k) \/ Shared!CheckNew(r, k) \/ Shared!Evict(r, k)
    BY <2>2, SharedCheck, SharedCheckNew, EvictStep
  <2>3. CASE \E r \in Replicas : \/ Shared!SyncStart(r) \/ Shared!Execute(r)
                                 \/ Shared!SyncApply(r) \/ Shared!SyncFail(r)
    BY <2>3, SyncStartStep, ExecuteStep, SyncApplyStep, SyncFailStep
  <2>4. CASE \E ps \in late : Shared!ExecuteLate(ps) \/ Shared!Lose(ps)
    BY <2>4, ExecuteLateStep, LoseStep
  <2>5. CASE \E b \in Shared!Buckets : Shared!Expire(b)
    BY <2>5, ExpireStep
  <2> QED BY <1>1, <2>1, <2>2, <2>3, <2>4, <2>5 DEF Shared!Next
<1>2. CASE UNCHANGED sharedVars
  <2>1. /\ bucketNow' = bucketNow /\ shard' = shard /\ made' = made /\ live' = live
        /\ pass' = pass /\ batch' = batch /\ answer' = answer /\ late' = late
        /\ fields' = fields /\ budget' = budget /\ counted' = counted
    BY <1>2 DEF sharedVars
  <2>2. Shared!TypeOK'
    BY <2>1 DEF SharedInv, Shared!TypeOK
  <2> QED BY <2>1, <2>2, CountsStay
<1> QED BY <1>1, <1>2 DEF LimiterNext

LEMMA SharedInvariance == LimiterSpec => []SharedInv
  BY SharedStart, SharedStep, PTL DEF LimiterSpec

(* "Nothing can be lost or counted twice", for any number of replicas and  *)
(* keys: a shard of shared.rs counts its own admissions exactly, across    *)
(* clock steps and evictions, and what it holds on behalf of the others is *)
(* never more than they admitted in that window, whatever reconcile        *)
(* retried, the store executed late, and was applied after a roll.         *)
THEOREM CountsAreBacked == LimiterSpec => []CountsBacked
<1>1. SharedInv => CountsBacked
  <2> SUFFICES ASSUME SharedInv, NEW s \in Shared!Sources
               PROVE  /\ shard[s].own_current = counted[shard[s].bucket][s]
                      /\ shard[s].own_previous =
                            (IF shard[s].bucket = 0 THEN 0 ELSE counted[shard[s].bucket - 1][s])
                      /\ shard[s].remote_current <= Shared!OthersAdmitted(s, shard[s].bucket)
                      /\ shard[s].remote_previous <=
                            (IF shard[s].bucket = 0 THEN 0
                             ELSE Shared!OthersAdmitted(s, shard[s].bucket - 1))
    BY DEF CountsBacked, Shared!OwnExact, Shared!NoPhantomUsage, Shared!Previous
  <2>1. Backed(shard[s], s, counted)
    BY DEF SharedInv, ShardsBacked
  <2> QED BY <2>1, OthersSums DEF Backed
<1> QED BY <1>1, SharedInvariance, PTL

(* The counts stay numbers, windows and readings stay within the clock,    *)
(* and batches hold publishes of sources that exist.                       *)
THEOREM LimiterTypeCorrect == LimiterSpec => []LimiterTypeOK
<1>1. RateInv /\ SharedInv => LimiterTypeOK
  BY DEF RateInv, SharedInv, LimiterTypeOK
<1> QED BY <1>1, RateInvariance, SharedInvariance, PTL

=============================================================================
