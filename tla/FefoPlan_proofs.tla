--------------------------- MODULE FefoPlan_proofs ---------------------------
(***************************************************************************)
(* Facts about totals and finite sets of numbers that the proofs about     *)
(* reservations cite.  The library's induction theorems take an operator;  *)
(* where induction is needed, a smallest counterexample is picked with     *)
(* WFMin instead.                                                          *)
(***************************************************************************)
EXTENDS FefoPlan, FiniteSetTheorems, TLAPS

\* Finitely many quantities are finitely many units, and their total counts.
LEMMA TotalType ==
  ASSUME NEW S, IsFiniteSet(S), NEW f, \A x \in S : f[x] \in Nat
  PROVE  IsFiniteSet(UnitsOf(f, S)) /\ Total(f, S) \in Nat
<1> DEFINE parts == {{x} \X (1 .. f[x]) : x \in S}
<1>1. \A x \in S : IsFiniteSet({x} \X (1 .. f[x]))
  <2> SUFFICES ASSUME NEW x \in S PROVE IsFiniteSet({x} \X (1 .. f[x]))
    OBVIOUS
  <2>1. IsFiniteSet(1 .. f[x])
    BY FS_Interval
  <2>2. IsFiniteSet({x})
    BY FS_Singleton, Zenon
  <2> QED
    BY <2>1, <2>2, FS_Product, Zenon
<1>2. IsFiniteSet(parts)
  <2> DEFINE part == [x \in S |-> {x} \X (1 .. f[x])]
  <2>1. part \in Surjection(S, parts)
    BY Zenon DEF Surjection
  <2> QED
    BY <2>1, FS_Surjection
<1>3. IsFiniteSet(UNION parts)
  BY <1>1, <1>2, FS_UNION
<1> QED
  BY <1>3, FS_CardinalityType DEF UnitsOf, Total

\* A unit is one of the numbered units of a member.
LEMMA UnitsMember ==
  ASSUME NEW S, NEW f
  PROVE  \A u : u \in UnitsOf(f, S) <=> \E x \in S : \E i \in 1 .. f[x] : u = <<x, i>>
<1> QED
  BY DEF UnitsOf

\* A total grows with the set and with the quantities.
LEMMA TotalMonotone ==
  ASSUME NEW S, NEW T, IsFiniteSet(T), S \subseteq T,
         NEW f, NEW g, \A x \in T : g[x] \in Nat,
         \A x \in S : f[x] \in Nat /\ f[x] <= g[x]
  PROVE  Total(f, S) <= Total(g, T)
<1>1. IsFiniteSet(UnitsOf(g, T))
  BY TotalType
<1>2. UnitsOf(f, S) \subseteq UnitsOf(g, T)
  <2> SUFFICES ASSUME NEW u \in UnitsOf(f, S) PROVE u \in UnitsOf(g, T)
    OBVIOUS
  <2>1. PICK x \in S : \E i \in 1 .. f[x] : u = <<x, i>>
    BY UnitsMember
  <2>2. x \in T /\ \E i \in 1 .. g[x] : u = <<x, i>>
    BY <2>1
  <2> QED
    BY <2>2, UnitsMember
<1> QED
  BY <1>1, <1>2, FS_Subset DEF Total

\* Equal quantities have equal totals.
LEMMA TotalEqual ==
  ASSUME NEW S, NEW f, NEW g, \A x \in S : f[x] = g[x]
  PROVE  Total(f, S) = Total(g, S)
<1>1. UnitsOf(f, S) = UnitsOf(g, S)
  BY DEF UnitsOf
<1> QED
  BY <1>1 DEF Total

\* The total over two sets without common members is the sum of the totals.
LEMMA TotalUnion ==
  ASSUME NEW S, NEW T, IsFiniteSet(S), IsFiniteSet(T), S \cap T = {},
         NEW f, \A x \in S \cup T : f[x] \in Nat
  PROVE  Total(f, S \cup T) = Total(f, S) + Total(f, T)
<1>1. IsFiniteSet(UnitsOf(f, S)) /\ Total(f, S) \in Nat
  BY TotalType
<1>2. IsFiniteSet(UnitsOf(f, T)) /\ Total(f, T) \in Nat
  BY TotalType
<1>3. UnitsOf(f, S \cup T) = UnitsOf(f, S) \cup UnitsOf(f, T)
  BY DEF UnitsOf
<1>4. UnitsOf(f, S) \cap UnitsOf(f, T) = {}
  BY UnitsMember
<1>5. Cardinality({}) = 0
  BY FS_EmptySet
<1>6. Cardinality(UnitsOf(f, S) \cup UnitsOf(f, T))
        = Cardinality(UnitsOf(f, S)) + Cardinality(UnitsOf(f, T))
            - Cardinality(UnitsOf(f, S) \cap UnitsOf(f, T))
  BY <1>1, <1>2, FS_Union, Zenon
<1>7. Total(f, S \cup T) = Total(f, S) + Total(f, T) - 0
  BY <1>3, <1>4, <1>5, <1>6, Zenon DEF Total
<1> QED
  BY <1>1, <1>2, <1>7

\* Quantities that are all zero total zero.
LEMMA TotalZero ==
  ASSUME NEW S, NEW f, \A x \in S : f[x] = 0
  PROVE  Total(f, S) = 0
<1>1. UnitsOf(f, S) = {}
  BY UnitsMember
<1> QED
  BY <1>1, FS_EmptySet DEF Total

\* Members with nothing do not count.
LEMMA TotalWhereTaken ==
  ASSUME NEW S, NEW T, IsFiniteSet(T), S \subseteq T,
         NEW f, \A x \in T : f[x] \in Nat, \A x \in T \ S : f[x] = 0
  PROVE  Total(f, T) = Total(f, S)
<1>1. IsFiniteSet(S) /\ IsFiniteSet(T \ S)
  BY FS_Subset
<1>2. T = S \cup (T \ S)
  OBVIOUS
<1>3. Total(f, S \cup (T \ S)) = Total(f, S) + Total(f, T \ S)
  BY <1>1, TotalUnion
<1>4. Total(f, T \ S) = 0
  BY TotalZero
<1>5. Total(f, S) \in Nat
  BY <1>1, TotalType
<1>6. Total(f, T) = Total(f, S \cup (T \ S))
  BY <1>2, Zenon
<1> QED
  BY <1>3, <1>4, <1>5, <1>6

\* The total of a single member is its quantity.
LEMMA TotalSingle ==
  ASSUME NEW x, NEW f, f[x] \in Nat
  PROVE  Total(f, {x}) = f[x]
<1>1. UnitsOf(f, {x}) = {x} \X (1 .. f[x])
  BY DEF UnitsOf
<1>2. IsFiniteSet({x}) /\ Cardinality({x}) = 1
  BY FS_Singleton
<1>3. IsFiniteSet(1 .. f[x]) /\ Cardinality(1 .. f[x]) = f[x]
  BY FS_Interval
<1>4. Cardinality({x} \X (1 .. f[x])) = Cardinality({x}) * Cardinality(1 .. f[x])
  BY <1>2, <1>3, FS_Product, Zenon
<1>5. Total(f, {x}) = Cardinality({x}) * Cardinality(1 .. f[x])
  BY <1>1, <1>4, Zenon DEF Total
<1>6. 1 * f[x] = f[x]
  OBVIOUS
<1> QED
  BY <1>2, <1>3, <1>5, <1>6, Zenon

\* Where one member gets n more units, so does the total.
LEMMA TotalOneMore ==
  ASSUME NEW S, IsFiniteSet(S), NEW x \in S, NEW n \in Nat,
         NEW f, \A y \in S : f[y] \in Nat,
         NEW g, g[x] = f[x] + n, \A y \in S \ {x} : g[y] = f[y]
  PROVE  Total(g, S) = Total(f, S) + n
<1> DEFINE rest == S \ {x}
<1>1. IsFiniteSet(rest) /\ IsFiniteSet({x}) /\ S = {x} \cup rest /\ {x} \cap rest = {}
  BY FS_Difference, FS_Singleton
<1>2. Total(f, S) = Total(f, {x}) + Total(f, rest)
  BY <1>1, TotalUnion
<1>3. Total(g, S) = Total(g, {x}) + Total(g, rest)
  BY <1>1, TotalUnion
<1>4. Total(g, rest) = Total(f, rest)
  BY TotalEqual
<1>5. Total(f, {x}) = f[x]
  BY TotalSingle
<1>6. Total(g, {x}) = f[x] + n
  <2>1. g[x] \in Nat
    OBVIOUS
  <2>2. Total(g, {x}) = g[x]
    BY <2>1, TotalSingle
  <2> QED
    BY <2>2
<1>7. Total(f, rest) \in Nat
  BY <1>1, TotalType
<1> QED
  BY <1>2, <1>3, <1>4, <1>5, <1>6, <1>7

\* A finite set of numbers that is not empty has a greatest member.
LEMMA GreatestMember ==
  ASSUME NEW S, IsFiniteSet(S), S # {}, S \subseteq Nat
  PROVE  \E m \in S : \A x \in S : x <= m
<1> DEFINE HasGreatest(U) == \E m \in U : \A x \in U : x <= m
           bad == {U \in FiniteSubsetsOf(S) : U # {} /\ ~HasGreatest(U)}
<1> SUFFICES ASSUME S \in bad PROVE FALSE
  BY DEF FiniteSubsetsOf
<1>1. PICK U \in bad : \A V \in bad : <<V, U>> \notin StrictSubsetOrdering(S)
  <2>1. bad \subseteq FiniteSubsetsOf(S) /\ bad # {}
    OBVIOUS
  <2> QED
    BY <2>1, FS_StrictSubsetOrderingWellFounded, WFMin
<1>2. U \subseteq S /\ IsFiniteSet(U) /\ ~HasGreatest(U)
  BY DEF FiniteSubsetsOf
<1>3. PICK y \in U : TRUE
  OBVIOUS
<1> DEFINE V == U \ {y}
<1>4. IsFiniteSet(V) /\ V \subseteq S /\ <<V, U>> \in StrictSubsetOrdering(S)
  BY <1>2, FS_Difference DEF StrictSubsetOrdering
<1>5. V \notin bad /\ V \in FiniteSubsetsOf(S)
  BY <1>1, <1>4 DEF FiniteSubsetsOf
<1>6. V = {} \/ HasGreatest(V)
  BY <1>5
<1>7. U = V \cup {y} /\ y \in Nat /\ V \subseteq Nat
  BY <1>2, <1>3
<1> QED
  BY <1>2, <1>6, <1>7
=============================================================================
