----------------------------- MODULE SumProofs ------------------------------
(***************************************************************************)
(* Facts about SumFunction and SumFunctionOnSet of the module Functions,   *)
(* which the accounts of the resource manager and of the piece cache are   *)
(* stated with.  A sum of natural numbers is the number of its units, so   *)
(* that the facts about cardinalities carry over to sums: that is shown    *)
(* once, in SumIsUnits, for the recursive function that defines the sum.   *)
(***************************************************************************)
EXTENDS Integers, FiniteSets, Functions, FiniteSetTheorems, TLAPS

(* The units that f gives the elements of s.                               *)
Units(f, s) == {x \in s \X Nat : x[2] \in 1 .. f[x[1]]}

(* A finite set has finitely many units.                                   *)
LEMMA UnitsFinite ==
  ASSUME NEW s, IsFiniteSet(s), NEW f, \A x \in s : f[x] \in Nat
  PROVE  IsFiniteSet(Units(f, s))
PROOF
  <1> DEFINE g == [x \in s |-> {x} \X (1 .. f[x])]
             parts == {g[x] : x \in s}
  <1>1. ASSUME NEW x \in s  PROVE IsFiniteSet(g[x])
    <2>1. IsFiniteSet({x}) /\ IsFiniteSet(1 .. f[x])
      <3>1. f[x] \in Nat
        OBVIOUS
      <3>2. IsFiniteSet(1 .. f[x])
        BY <3>1, FS_Interval
      <3>3. IsFiniteSet({x})
        BY FS_Singleton
      <3>4. QED
        BY <3>2, <3>3
    <2>2. QED
      BY <2>1, FS_Product
  <1>2. g \in Surjection(s, parts)
    BY DEF Surjection
  <1>3. IsFiniteSet(parts)
    BY <1>2, FS_Surjection
  <1>4. IsFiniteSet(UNION parts)
    BY <1>1, <1>3, FS_UNION
  <1>5. Units(f, s) = UNION parts
    BY DEF Units
  <1>6. QED
    BY <1>2, <1>3, <1>4, <1>5

(* The units of two disjoint sets add up.                                  *)
LEMMA UnitsSplit ==
  ASSUME NEW s, IsFiniteSet(s), NEW r \in SUBSET s, NEW f, \A x \in s : f[x] \in Nat
  PROVE  Cardinality(Units(f, s)) = Cardinality(Units(f, r)) + Cardinality(Units(f, s \ r))
PROOF
  <1>1. IsFiniteSet(r) /\ IsFiniteSet(s \ r)
    BY FS_Subset, FS_Difference
  <1>2. IsFiniteSet(Units(f, r)) /\ IsFiniteSet(Units(f, s \ r))
    BY <1>1, UnitsFinite
  <1>3. /\ Units(f, s) = Units(f, r) \cup Units(f, s \ r)
        /\ Units(f, r) \cap Units(f, s \ r) = {}
    BY DEF Units
  <1>4. Cardinality(Units(f, r) \cap Units(f, s \ r)) = 0
    BY <1>3, FS_EmptySet, Zenon
  <1>5. Cardinality(Units(f, r)) \in Nat /\ Cardinality(Units(f, s \ r)) \in Nat
    BY <1>2, FS_CardinalityType
  <1>6. Cardinality(Units(f, r) \cup Units(f, s \ r))
          = Cardinality(Units(f, r)) + Cardinality(Units(f, s \ r))
              - Cardinality(Units(f, r) \cap Units(f, s \ r))
    BY <1>2, FS_Union
  <1>7. Cardinality(Units(f, s)) = Cardinality(Units(f, r) \cup Units(f, s \ r))
    BY <1>3, Zenon
  <1>8. QED
    BY <1>4, <1>5, <1>6, <1>7

(* An element has as many units as f says.                                 *)
LEMMA UnitsOfOne ==
  ASSUME NEW t, NEW f, f[t] \in Nat
  PROVE  Cardinality(Units(f, {t})) = f[t]
PROOF
  <1>1. Units(f, {t}) = {t} \X (1 .. f[t])
    BY DEF Units
  <1>2. IsFiniteSet({t}) /\ Cardinality({t}) = 1
    BY FS_Singleton
  <1>3. IsFiniteSet(1 .. f[t]) /\ Cardinality(1 .. f[t]) = f[t]
    <2> DEFINE n == f[t]
    <2>1. n \in Nat
      OBVIOUS
    <2> HIDE DEF n
    <2>2. IsFiniteSet(1 .. n) /\ Cardinality(1 .. n) = IF 1 > n THEN 0 ELSE n - 1 + 1
      BY <2>1, FS_Interval
    <2>3. IsFiniteSet(1 .. n) /\ Cardinality(1 .. n) = n
      BY <2>1, <2>2
    <2> QED
      BY <2>3 DEF n
  <1>4. Cardinality({t} \X (1 .. f[t])) = Cardinality({t}) * Cardinality(1 .. f[t])
    BY <1>2, <1>3, FS_Product
  <1>5. Cardinality(Units(f, {t})) = Cardinality({t} \X (1 .. f[t]))
    BY <1>1, Zenon
  <1>6. QED
    BY <1>2, <1>3, <1>4, <1>5

(* The sum that SumFunctionOnSet computes, by choosing one element after   *)
(* the other, is the number of units.                                      *)
LEMMA SumIsUnits ==
  ASSUME NEW S, IsFiniteSet(S), NEW f, \A x \in S : f[x] \in Nat
  PROVE  SumFunctionOnSet(f, S) = Cardinality(Units(f, S))
PROOF
  <1> DEFINE pick(s) == CHOOSE x \in s : TRUE
             step(g, s) == IF s = {} THEN 0 ELSE f[pick(s)] + g[s \ {pick(s)}]
             units == [s \in SUBSET S |-> Cardinality(Units(f, s))]
             iter == CHOOSE g : g = [s \in SUBSET S |-> step(g, s)]
             wrong == {s \in SUBSET S : iter[s] # units[s]}
  <1>1. ASSUME NEW s \in SUBSET S, s # {}
        PROVE  pick(s) \in s /\ units[s] = f[pick(s)] + units[s \ {pick(s)}]
    <2>1. pick(s) \in s
      BY <1>1
    <2> HIDE DEF pick
    <2>2. IsFiniteSet(s) /\ {pick(s)} \in SUBSET s /\ f[pick(s)] \in Nat
      BY <2>1, FS_Subset
    <2>3. Cardinality(Units(f, s))
            = Cardinality(Units(f, {pick(s)})) + Cardinality(Units(f, s \ {pick(s)}))
      BY <2>2, UnitsSplit
    <2>4. Cardinality(Units(f, {pick(s)})) = f[pick(s)]
      BY <2>2, UnitsOfOne
    <2>5. QED
      BY <2>1, <2>3, <2>4
  <1>2. units[{}] = 0
    BY FS_EmptySet DEF Units
  <1>3. units = [s \in SUBSET S |-> step(units, s)]
    <2> HIDE DEF pick
    <2>1. ASSUME NEW s \in SUBSET S  PROVE units[s] = step(units, s)
      <3> HIDE DEF units
      <3> QED
        BY <1>1, <1>2
    <2>2. QED
      BY <2>1
  <1>4. iter = [s \in SUBSET S |-> step(iter, s)]
    <2> HIDE DEF units
    <2> QED
      BY <1>3, Zenon
  <1>5. SumFunctionOnSet(f, S) = iter[S]
    BY DEF SumFunctionOnSet, FoldFunctionOnSet, MapThenFoldSet
  <1>6. ASSUME wrong # {}  PROVE FALSE
    <2>1. FiniteSubsetsOf(S) = SUBSET S
      BY FS_FiniteSubsetsOfFinite
    <2>2. IsWellFoundedOn(StrictSubsetOrdering(S), SUBSET S)
      BY <2>1, FS_StrictSubsetOrderingWellFounded
    <2>3. PICK s \in wrong : \A r \in wrong : ~ (<<r, s>> \in StrictSubsetOrdering(S))
      <3> HIDE DEF iter, units
      <3> QED
        BY <1>6, <2>2, WFMin
    <2> HIDE DEF pick, iter, units
    <2>4. CASE s = {}
      BY <1>2, <1>4, <2>4
    <2>5. CASE s # {}
      <3>1. pick(s) \in s /\ units[s] = f[pick(s)] + units[s \ {pick(s)}]
        BY <1>1, <2>5
      <3>2. s \ {pick(s)} \in SUBSET S /\ <<s \ {pick(s)}, s>> \in StrictSubsetOrdering(S)
        BY <3>1 DEF StrictSubsetOrdering
      <3>3. iter[s \ {pick(s)}] = units[s \ {pick(s)}]
        BY <2>3, <3>2
      <3>4. iter[s] = f[pick(s)] + iter[s \ {pick(s)}]
        BY <1>4, <2>5
      <3>5. QED
        BY <3>1, <3>3, <3>4
    <2>6. QED
      BY <2>4, <2>5
  <1>7. iter[S] = units[S]
    BY <1>6
  <1>8. QED
    BY <1>5, <1>7

-----------------------------------------------------------------------------
(* What the accounts use.                                                  *)

(* A sum of natural numbers is one.                                        *)
LEMMA SumType ==
  ASSUME NEW S, IsFiniteSet(S), NEW f, \A x \in S : f[x] \in Nat
  PROVE  SumFunctionOnSet(f, S) \in Nat
PROOF
  BY SumIsUnits, UnitsFinite, FS_CardinalityType

(* Nothing sums up to zero.                                                *)
LEMMA SumEmpty ==
  ASSUME NEW f
  PROVE  SumFunctionOnSet(f, {}) = 0
PROOF
  <1>1. Units(f, {}) = {}
    BY DEF Units
  <1>2. IsFiniteSet({}) /\ Cardinality({}) = 0
    BY FS_EmptySet
  <1>3. SumFunctionOnSet(f, {}) = Cardinality(Units(f, {}))
    BY <1>2, SumIsUnits
  <1>4. Cardinality(Units(f, {})) = Cardinality({})
    BY <1>1, Zenon
  <1>5. QED
    BY <1>2, <1>3, <1>4

(* A part and the rest add up to the whole.                                *)
LEMMA SumSplit ==
  ASSUME NEW S, IsFiniteSet(S), NEW f, \A x \in S : f[x] \in Nat, NEW r \in SUBSET S
  PROVE  SumFunctionOnSet(f, S) = SumFunctionOnSet(f, r) + SumFunctionOnSet(f, S \ r)
PROOF
  <1>1. IsFiniteSet(r) /\ IsFiniteSet(S \ r)
    BY FS_Subset, FS_Difference
  <1>2. /\ SumFunctionOnSet(f, S) = Cardinality(Units(f, S))
        /\ SumFunctionOnSet(f, r) = Cardinality(Units(f, r))
        /\ SumFunctionOnSet(f, S \ r) = Cardinality(Units(f, S \ r))
    BY <1>1, SumIsUnits
  <1>3. QED
    BY <1>2, UnitsSplit

(* The share of one element.                                               *)
LEMMA SumRemove ==
  ASSUME NEW S, IsFiniteSet(S), NEW f, \A x \in S : f[x] \in Nat, NEW t \in S
  PROVE  SumFunctionOnSet(f, S) = f[t] + SumFunctionOnSet(f, S \ {t})
PROOF
  <1>1. {t} \in SUBSET S /\ f[t] \in Nat
    OBVIOUS
  <1>2. IsFiniteSet({t})
    BY FS_Singleton
  <1>3. SumFunctionOnSet(f, {t}) = Cardinality(Units(f, {t}))
    BY <1>1, <1>2, SumIsUnits
  <1>4. Cardinality(Units(f, {t})) = f[t]
    BY <1>1, UnitsOfOne
  <1>5. QED
    BY <1>1, <1>3, <1>4, SumSplit

(* Two functions that agree on a set have the same sum.                    *)
LEMMA SumCong ==
  ASSUME NEW S, IsFiniteSet(S), NEW f, NEW g, \A x \in S : f[x] \in Nat /\ g[x] = f[x]
  PROVE  SumFunctionOnSet(f, S) = SumFunctionOnSet(g, S)
PROOF
  <1>1. Units(f, S) = Units(g, S)
    BY DEF Units
  <1>2. /\ SumFunctionOnSet(f, S) = Cardinality(Units(f, S))
        /\ SumFunctionOnSet(g, S) = Cardinality(Units(g, S))
    BY SumIsUnits
  <1>3. QED
    BY <1>1, <1>2, Zenon

(* A step that changes the value of one element changes the sum by the     *)
(* difference.                                                             *)
LEMMA SumStep ==
  ASSUME NEW S, IsFiniteSet(S), NEW f, NEW g, NEW t \in S,
         \A x \in S : f[x] \in Nat /\ g[x] \in Nat,
         \A x \in S : x # t => g[x] = f[x]
  PROVE  SumFunctionOnSet(g, S) = SumFunctionOnSet(f, S) - f[t] + g[t]
PROOF
  <1>1. IsFiniteSet(S \ {t})
    BY FS_RemoveElement
  <1>2. SumFunctionOnSet(f, S \ {t}) = SumFunctionOnSet(g, S \ {t})
    BY <1>1, SumCong
  <1>3. SumFunctionOnSet(f, S \ {t}) \in Nat
    BY <1>1, SumType
  <1>4. SumFunctionOnSet(f, S) = f[t] + SumFunctionOnSet(f, S \ {t})
    BY SumRemove
  <1>5. SumFunctionOnSet(g, S) = g[t] + SumFunctionOnSet(g, S \ {t})
    BY SumRemove
  <1>6. f[t] \in Nat /\ g[t] \in Nat
    OBVIOUS
  <1>7. QED
    BY <1>2, <1>3, <1>4, <1>5, <1>6

(* No sum without a share.                                                 *)
LEMMA SumZero ==
  ASSUME NEW S, IsFiniteSet(S), NEW f, \A x \in S : f[x] = 0
  PROVE  SumFunctionOnSet(f, S) = 0
PROOF
  <1>1. Units(f, S) = {}
    BY DEF Units
  <1>2. SumFunctionOnSet(f, S) = Cardinality(Units(f, S))
    BY SumIsUnits
  <1>3. Cardinality(Units(f, S)) = Cardinality({})
    BY <1>1, Zenon
  <1>4. QED
    BY <1>2, <1>3, FS_EmptySet
=============================================================================
