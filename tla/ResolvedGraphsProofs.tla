---- MODULE ResolvedGraphsProofs ----
(* Proofs about ResolutionExperiments and ResolvedGraphs, for every corpus, *)
(* labelling and graph, and every number of writers, records, decisions and *)
(* merges of merged results.                                                *)
EXTENDS MCReview, Sequences, FiniteSets, FiniteSetTheorems, WellFoundedInduction, TLAPS

(* The least of some numbers.                                               *)
Less == {p \in Nat \X Nat : p[1] < p[2]}

LEMMA LessWF == IsWellFoundedOn(Less, Nat)
BY NatLessThanWellFounded DEF OpToRel, Less

LEMMA LeastNat ==
    ASSUME NEW numbers, numbers \subseteq Nat, numbers # {}
    PROVE  \E x \in numbers : \A y \in numbers : x <= y
<1>1. PICK x \in numbers : \A y \in numbers : ~(<<y, x>> \in Less)
  BY LessWF, WFMin
<1>2. ASSUME NEW a \in Nat, NEW b \in Nat, a < b PROVE <<a, b>> \in Less
  <2>1. <<a, b>>[1] = a /\ <<a, b>>[2] = b /\ <<a, b>> \in Nat \X Nat
    OBVIOUS
  <2> QED
    BY <1>2, <2>1 DEF Less
<1>3. ASSUME NEW y \in numbers PROVE x <= y
  <2>1. ~(y < x)
    BY <1>1, <1>2, <1>3
  <2> QED
    BY <2>1
<1> QED
  BY <1>3

(* The comparison of methods: its scores and what is shown of it.           *)

(* A sum over a finite set is the size of a set whose members are sorted    *)
(* into classes, one for each summand and as large as it.                   *)

Picked(s) == CHOOSE x \in s : TRUE
Smaller(S, k) == {s \in SUBSET S : Cardinality(s) <= k}
SumStep(F, f, s) == IF s = {} THEN 0 ELSE F[Picked(s)] + f[s \ {Picked(s)}]
Summing(F, D, f) == f = [s \in D |-> SumStep(F, f, s)]

LEMMA SmallerFacts ==
    ASSUME NEW S, IsFiniteSet(S), NEW s \in SUBSET S
    PROVE  /\ Cardinality(s) \in Nat /\ (Cardinality(s) = 0 <=> s = {})
           /\ s # {} => /\ Picked(s) \in s /\ s \ {Picked(s)} \in SUBSET S
                        /\ Cardinality(s \ {Picked(s)}) = Cardinality(s) - 1
<1>1. IsFiniteSet(s) /\ Cardinality(s) \in Nat
  BY FS_Subset, FS_CardinalityType
<1>2. Cardinality(s) = 0 <=> s = {}
  BY <1>1, FS_EmptySet
<1>3. ASSUME s # {} PROVE Picked(s) \in s
  BY <1>3 DEF Picked
<1>4. ASSUME s # {} PROVE Cardinality(s \ {Picked(s)}) = Cardinality(s) - 1
  BY <1>1, <1>3, <1>4, FS_RemoveElement
<1> QED
  BY <1>1, <1>2, <1>3, <1>4

LEMMA SummingExists ==
    ASSUME NEW F, NEW S, IsFiniteSet(S)
    PROVE  \E f : Summing(F, SUBSET S, f)
<1> DEFINE wrong == {k \in Nat : ~\E f : Summing(F, Smaller(S, k), f)}
<1>1. wrong = {}
  <2> SUFFICES ASSUME wrong # {} PROVE FALSE
    OBVIOUS
  <2>1. wrong \subseteq Nat
    OBVIOUS
  <2> HIDE DEF wrong
  <2>2. PICK k \in wrong : \A x \in wrong : k <= x
    BY <2>1, LeastNat
  <2>3. k \in Nat /\ ~\E f : Summing(F, Smaller(S, k), f)
    BY <2>2 DEF wrong
  <2>4. k # 0
    <3> SUFFICES ASSUME k = 0 PROVE FALSE
      OBVIOUS
    <3> DEFINE f == [s \in Smaller(S, 0) |-> 0]
    <3>1. ASSUME NEW s \in Smaller(S, 0) PROVE s = {}
      <4>1. s \in SUBSET S /\ Cardinality(s) <= 0
        BY DEF Smaller
      <4>2. Cardinality(s) \in Nat /\ (Cardinality(s) = 0 <=> s = {})
        BY <4>1, SmallerFacts
      <4> QED
        BY <4>1, <4>2
    <3>2. f = [s \in Smaller(S, 0) |-> SumStep(F, f, s)]
      BY <3>1 DEF SumStep
    <3> QED
      BY <2>3, <3>2 DEF Summing
  <2>5. k - 1 \in Nat /\ ~(k <= k - 1)
    BY <2>3, <2>4
  <2>6. PICK f : Summing(F, Smaller(S, k - 1), f)
    BY <2>2, <2>5 DEF wrong
  <2> DEFINE h == [s \in Smaller(S, k) |-> SumStep(F, f, s)]
  <2>7. ASSUME NEW s \in Smaller(S, k) PROVE h[s] = SumStep(F, h, s)
    <3>1. CASE s = {}
      BY <3>1 DEF SumStep
    <3>2. CASE s # {}
      <4> DEFINE r == s \ {Picked(s)}
      <4>1. s \in SUBSET S /\ Cardinality(s) <= k
        BY DEF Smaller
      <4>2. r \in SUBSET S /\ Cardinality(r) = Cardinality(s) - 1 /\ Cardinality(s) \in Nat
        BY <3>2, <4>1, SmallerFacts
      <4>3. Cardinality(r) <= k - 1 /\ Cardinality(r) <= k
        BY <2>3, <4>1, <4>2
      <4>4. r \in Smaller(S, k - 1) /\ r \in Smaller(S, k)
        BY <4>2, <4>3 DEF Smaller
      <4>5. f[r] = SumStep(F, f, r)
        BY <2>6, <4>4 DEF Summing
      <4>6. h[r] = SumStep(F, f, r)
        BY <4>4
      <4>7. h[s] = F[Picked(s)] + f[r]
        BY <3>2 DEF SumStep
      <4> QED
        BY <3>2, <4>5, <4>6, <4>7 DEF SumStep
    <3> QED
      BY <3>1, <3>2
  <2>8. h = [s \in Smaller(S, k) |-> SumStep(F, h, s)]
    BY <2>7
  <2> HIDE DEF h
  <2> QED
    BY <2>3, <2>8 DEF Summing
<1> HIDE DEF wrong
<1>2. Cardinality(S) \in Nat /\ SUBSET S = Smaller(S, Cardinality(S))
  BY FS_CardinalityType, FS_Subset DEF Smaller
<1>3. Cardinality(S) \notin wrong
  BY <1>1
<1> QED
  BY <1>2, <1>3 DEF wrong

LEMMA TotalIs ==
    ASSUME NEW F, IsFiniteSet(DOMAIN F)
    PROVE  \E f : Summing(F, SUBSET (DOMAIN F), f) /\ X!Total(F) = f[DOMAIN F]
<1> DEFINE f == CHOOSE g : Summing(F, SUBSET (DOMAIN F), g)
<1>1. Summing(F, SUBSET (DOMAIN F), f)
  BY SummingExists
<1>2. f = CHOOSE g : g = [s \in SUBSET (DOMAIN F) |->
                             IF s = {} THEN 0 ELSE F[CHOOSE x \in s : TRUE] + g[s \ {CHOOSE x \in s : TRUE}]]
  BY DEF Summing, SumStep, Picked
<1>3. X!Total(F) = f[DOMAIN F]
  BY <1>2 DEF X!Total, X!MapThenSumSet, X!MapThenFoldSet
<1> HIDE DEF f
<1> QED
  BY <1>1, <1>3

InClasses(U, c, s) == {u \in U : c[u] \in s}

LEMMA TotalCounts ==
    ASSUME NEW U, IsFiniteSet(U), NEW F, IsFiniteSet(DOMAIN F), NEW c, \A u \in U : c[u] \in DOMAIN F,
           \A i \in DOMAIN F : F[i] = Cardinality({u \in U : c[u] = i})
    PROVE  X!Total(F) = Cardinality(U)
<1> DEFINE D == DOMAIN F
<1>1. PICK f : Summing(F, SUBSET D, f) /\ X!Total(F) = f[D]
  BY TotalIs
<1>2. \A s \in SUBSET D : f[s] = SumStep(F, f, s)
  BY <1>1 DEF Summing
<1> DEFINE bad == {s \in SUBSET D : f[s] # Cardinality(InClasses(U, c, s))}
           wrong == {Cardinality(s) : s \in bad}
<1>3. bad = {}
  <2> SUFFICES ASSUME bad # {} PROVE FALSE
    OBVIOUS
  <2>1. wrong \subseteq Nat /\ wrong # {}
    <3>1. ASSUME NEW s \in SUBSET D PROVE Cardinality(s) \in Nat
      BY FS_Subset, FS_CardinalityType
    <3> QED
      BY <3>1
  <2> HIDE DEF wrong
  <2>2. PICK k \in wrong : \A x \in wrong : k <= x
    BY <2>1, LeastNat
  <2>3. PICK s \in bad : k = Cardinality(s)
    BY <2>2 DEF wrong
  <2>4. s \in SUBSET D /\ f[s] # Cardinality(InClasses(U, c, s))
    BY <2>3
  <2> HIDE DEF bad
  <2>5. s # {}
    <3> SUFFICES ASSUME s = {} PROVE FALSE
      OBVIOUS
    <3>1. InClasses(U, c, s) = {} /\ f[s] = 0
      BY <1>2, <2>4 DEF InClasses, SumStep
    <3> QED
      BY <2>4, <3>1, FS_EmptySet
  <2> DEFINE p == Picked(s)
             r == s \ {p}
  <2>6. p \in s /\ r \in SUBSET D /\ Cardinality(r) = Cardinality(s) - 1 /\ Cardinality(s) \in Nat
    BY <2>4, <2>5, SmallerFacts
  <2>7. r \notin bad
    <3> SUFFICES ASSUME r \in bad PROVE FALSE
      OBVIOUS
    <3>1. k <= Cardinality(r)
      BY <2>2 DEF wrong
    <3> QED
      BY <2>3, <2>6, <3>1
  <2>8. f[r] = Cardinality(InClasses(U, c, r))
    BY <2>6, <2>7 DEF bad
  <2>9. f[s] = F[p] + f[r]
    BY <1>2, <2>4, <2>5 DEF SumStep
  <2> DEFINE one == {u \in U : c[u] = p}
  <2>10. F[p] = Cardinality(one)
    BY <2>4, <2>6
  <2>11. InClasses(U, c, s) = one \cup InClasses(U, c, r) /\ one \cap InClasses(U, c, r) = {}
    BY <2>6 DEF InClasses
  <2>12. IsFiniteSet(one) /\ IsFiniteSet(InClasses(U, c, r))
    BY FS_Subset DEF InClasses
  <2> HIDE DEF one, r, p
  <2>13. Cardinality(InClasses(U, c, s)) = Cardinality(one) + Cardinality(InClasses(U, c, r))
    <3>1. /\ Cardinality(one \cup InClasses(U, c, r))
               = Cardinality(one) + Cardinality(InClasses(U, c, r))
                 - Cardinality(one \cap InClasses(U, c, r))
      BY <2>12, FS_Union
    <3>2. Cardinality(one \cap InClasses(U, c, r)) = 0
      BY <2>11, FS_EmptySet
    <3>3. Cardinality(one) \in Nat /\ Cardinality(InClasses(U, c, r)) \in Nat
      BY <2>12, FS_CardinalityType
    <3> QED
      BY <2>11, <3>1, <3>2, <3>3
  <2> QED
    BY <2>4, <2>8, <2>9, <2>10, <2>13
<1>4. f[D] = Cardinality(InClasses(U, c, D))
  BY <1>3
<1>5. InClasses(U, c, D) = U
  BY DEF InClasses
<1> QED
  BY <1>1, <1>4, <1>5

LEMMA XCardinality == \A S : X!Cardinality(S) = Cardinality(S)
BY DEF X!Cardinality, Cardinality

(* A set of n numbers has n * (n - 1) / 2 pairs in order.                   *)
Ordered(S) == {mo \in S \X S : mo[1] < mo[2]}

LEMMA PairsGrow ==
    ASSUME NEW n \in Nat, n > 0
    PROVE  X!PairsIn(n) \in Nat /\ X!PairsIn(n - 1) \in Nat /\ X!PairsIn(n) = X!PairsIn(n - 1) + (n - 1)
<1> DEFINE y == (n - 1) * (n - 2)
<1>1. y \in Nat
  <2>1. CASE n = 1
    BY <2>1
  <2>2. CASE n > 1
    <3>1. n - 1 \in Nat /\ n - 2 \in Nat
      BY <2>2
    <3> QED
      BY <3>1
  <2> QED
    BY <2>1, <2>2
<1>2. n * (n - 1) = y + 2 * (n - 1)
  OBVIOUS
<1>3. X!PairsIn(n) = (y + 2 * (n - 1)) \div 2
  BY <1>2 DEF X!PairsIn
<1>4. X!PairsIn(n - 1) = y \div 2
  <2>1. (n - 1) * ((n - 1) - 1) = y
    OBVIOUS
  <2> QED
    BY <2>1 DEF X!PairsIn
<1> HIDE DEF y
<1> QED
  BY <1>1, <1>3, <1>4

LEMMA OrderedMinus ==
    ASSUME NEW S, IsFiniteSet(S), S \subseteq Nat, NEW x \in S
    PROVE  /\ IsFiniteSet(Ordered(S))
           /\ Cardinality(Ordered(S)) = Cardinality(Ordered(S \ {x})) + Cardinality(S \ {x})
<1> DEFINE T == S \ {x}
           f == [y \in T |-> IF x < y THEN <<x, y>> ELSE <<y, x>>]
           with == {mo \in Ordered(S) : mo[1] = x \/ mo[2] = x}
<1>1. IsFiniteSet(Ordered(S)) /\ IsFiniteSet(T)
  <2>1. IsFiniteSet(S \X S)
    BY FS_Product
  <2>2. Ordered(S) \subseteq S \X S
    BY DEF Ordered
  <2> QED
    BY <2>1, <2>2, FS_Subset
<1>2. f \in [T -> with]
  <2> SUFFICES ASSUME NEW y \in T PROVE f[y] \in with
    OBVIOUS
  <2>1. y \in Nat /\ x \in Nat /\ y # x
    OBVIOUS
  <2>2. f[y] = (IF x < y THEN <<x, y>> ELSE <<y, x>>)
    OBVIOUS
  <2> HIDE DEF f
  <2>3. f[y] \in S \X S
    BY <2>2
  <2>4. f[y][1] < f[y][2] /\ (f[y][1] = x \/ f[y][2] = x)
    BY <2>1, <2>2
  <2> QED
    BY <2>3, <2>4 DEF Ordered
<1>3. \A a \in T, b \in T : f[a] = f[b] => a = b
  <2> SUFFICES ASSUME NEW a \in T, NEW b \in T, f[a] = f[b] PROVE a = b
    OBVIOUS
  <2>1. f[a] = (IF x < a THEN <<x, a>> ELSE <<a, x>>) /\ f[b] = (IF x < b THEN <<x, b>> ELSE <<b, x>>)
    OBVIOUS
  <2> QED
    BY <2>1
<1>4. \A mo \in with : \E y \in T : f[y] = mo
  <2> SUFFICES ASSUME NEW mo \in with PROVE \E y \in T : f[y] = mo
    OBVIOUS
  <2>1. mo \in S \X S /\ mo[1] < mo[2] /\ (mo[1] = x \/ mo[2] = x)
    BY DEF Ordered
  <2> HIDE DEF with, f, T
  <2>0. mo[1] \in S /\ mo[2] \in S /\ mo = <<mo[1], mo[2]>>
    BY <2>1
  <2>2. mo = <<mo[1], mo[2]>> /\ mo[1] \in Nat /\ mo[2] \in Nat /\ mo[1] \in S /\ mo[2] \in S
    BY <2>0
  <2> USE DEF with, f, T
  <2>3. CASE mo[1] = x
    <3>1. mo[2] \in T /\ x < mo[2]
      BY <2>1, <2>2, <2>3
    <3>2. f[mo[2]] = <<x, mo[2]>>
      BY <3>1
    <3> QED
      BY <2>2, <2>3, <3>1, <3>2
  <2>4. CASE mo[2] = x
    <3>1. mo[1] \in T /\ ~(x < mo[1])
      BY <2>1, <2>2, <2>4
    <3>2. f[mo[1]] = <<mo[1], x>>
      BY <3>1
    <3> QED
      BY <2>2, <2>4, <3>1, <3>2
  <2> QED
    BY <2>1, <2>3, <2>4
<1> HIDE DEF f
<1> HIDE DEF T, with
<1>5. f \in Bijection(T, with)
  BY <1>2, <1>3, <1>4 DEF Bijection, Injection, Surjection, IsInjective
<1> USE DEF T, with
<1>6. IsFiniteSet(with) /\ Cardinality(with) = Cardinality(T)
  BY <1>1, <1>5, FS_Bijection DEF ExistsBijection
<1>7. Ordered(S) = Ordered(T) \cup with /\ Ordered(T) \cap with = {}
  BY DEF Ordered
<1>8. IsFiniteSet(Ordered(T))
  BY <1>1, <1>7, FS_Subset
<1> HIDE DEF T, with
<1>9. Cardinality(Ordered(T) \cap with) = 0
  BY <1>7, FS_EmptySet
<1>10. Cardinality(Ordered(T)) \in Nat /\ Cardinality(with) \in Nat
  BY <1>6, <1>8, FS_CardinalityType
<1>11. Cardinality(Ordered(T) \cup with) = Cardinality(Ordered(T)) + Cardinality(with) - Cardinality(Ordered(T) \cap with)
  BY <1>6, <1>8, FS_Union
<1> QED
  BY <1>1, <1>6, <1>7, <1>9, <1>10, <1>11 DEF T

LEMMA OrderedPairs ==
    ASSUME NEW S, IsFiniteSet(S), S \subseteq Nat
    PROVE  IsFiniteSet(Ordered(S)) /\ Cardinality(Ordered(S)) = X!PairsIn(Cardinality(S))
<1> DEFINE bad == {s \in SUBSET S : Cardinality(Ordered(s)) # X!PairsIn(Cardinality(s))}
           wrong == {Cardinality(s) : s \in bad}
<1>1. \A s \in SUBSET S : IsFiniteSet(s) /\ Cardinality(s) \in Nat
  BY FS_Subset, FS_CardinalityType
<1>2. bad = {}
  <2> SUFFICES ASSUME bad # {} PROVE FALSE
    OBVIOUS
  <2>1. wrong \subseteq Nat /\ wrong # {}
    BY <1>1
  <2> HIDE DEF wrong
  <2>2. PICK k \in wrong : \A x \in wrong : k <= x
    BY <2>1, LeastNat
  <2>3. PICK s \in bad : k = Cardinality(s)
    BY <2>2 DEF wrong
  <2>4. s \in SUBSET S /\ Cardinality(Ordered(s)) # X!PairsIn(Cardinality(s))
    BY <2>3
  <2> HIDE DEF bad
  <2>5. s # {}
    <3> SUFFICES ASSUME s = {} PROVE FALSE
      OBVIOUS
    <3>1. Ordered(s) = {}
      BY DEF Ordered
    <3>2. Cardinality(s) = 0 /\ Cardinality(Ordered(s)) = 0
      BY <3>1, FS_EmptySet
    <3>3. X!PairsIn(0) = 0
      BY DEF X!PairsIn
    <3> QED
      BY <2>4, <3>2, <3>3
  <2>6. PICK x : x \in s
    BY <2>5
  <2> DEFINE r == s \ {x}
  <2>7. IsFiniteSet(s) /\ Cardinality(s) \in Nat /\ IsFiniteSet(r) /\ Cardinality(r) \in Nat
    BY <1>1, <2>4
  <2>8. Cardinality(r) = Cardinality(s) - 1
    BY <2>6, <2>7, FS_RemoveElement
  <2>9. r \notin bad
    <3> SUFFICES ASSUME r \in bad PROVE FALSE
      OBVIOUS
    <3>1. k <= Cardinality(r)
      BY <2>2 DEF wrong
    <3> QED
      BY <2>3, <2>7, <2>8, <3>1
  <2>10. Cardinality(Ordered(r)) = X!PairsIn(Cardinality(r))
    BY <2>4, <2>9 DEF bad
  <2>11. s \subseteq Nat
    BY <2>4
  <2>12. Cardinality(Ordered(s)) = Cardinality(Ordered(r)) + Cardinality(r)
    BY <2>6, <2>7, <2>11, OrderedMinus
  <2> HIDE DEF r
  <2>13. Cardinality(s) > 0
    BY <2>7, <2>8
  <2>14. X!PairsIn(Cardinality(s)) = X!PairsIn(Cardinality(s) - 1) + (Cardinality(s) - 1)
    BY <2>7, <2>13, PairsGrow
  <2> QED
    BY <2>4, <2>8, <2>10, <2>12, <2>14
<1>3. IsFiniteSet(S \X S) /\ Ordered(S) \subseteq S \X S
  BY FS_Product DEF Ordered
<1>4. IsFiniteSet(Ordered(S))
  BY <1>3, FS_Subset
<1>5. Cardinality(Ordered(S)) = X!PairsIn(Cardinality(S))
  BY <1>2
<1> QED
  BY <1>4, <1>5

(* The pairs within groups are the pairs of one group.                      *)
InCell(S, h, i) == {m \in S : h[m] = i}
SameCell(S, h) == {mo \in S \X S : mo[1] < mo[2] /\ h[mo[1]] = h[mo[2]]}

LEMMA PairsOfGroups ==
    ASSUME NEW S, IsFiniteSet(S), S \subseteq Nat, NEW I, IsFiniteSet(I), NEW h, \A m \in S : h[m] \in I
    PROVE  X!Total([i \in I |-> X!PairsIn(Cardinality(InCell(S, h, i)))]) = Cardinality(SameCell(S, h))
<1> DEFINE F == [i \in I |-> X!PairsIn(Cardinality(InCell(S, h, i)))]
           U == SameCell(S, h)
           c == [u \in U |-> h[u[1]]]
<1>1. IsFiniteSet(U)
  <2>1. IsFiniteSet(S \X S) /\ U \subseteq S \X S
    BY FS_Product DEF SameCell
  <2> QED
    BY <2>1, FS_Subset
<1>2. IsFiniteSet(DOMAIN F)
  OBVIOUS
<1>3. ASSUME NEW u \in U PROVE c[u] \in DOMAIN F
  BY DEF SameCell
<1>4. ASSUME NEW i \in DOMAIN F PROVE F[i] = Cardinality({u \in U : c[u] = i})
  <2>1. {u \in U : c[u] = i} = Ordered(InCell(S, h, i))
    BY DEF SameCell, Ordered, InCell
  <2>2. IsFiniteSet(InCell(S, h, i)) /\ InCell(S, h, i) \subseteq Nat
    BY FS_Subset DEF InCell
  <2>3. Cardinality(Ordered(InCell(S, h, i))) = X!PairsIn(Cardinality(InCell(S, h, i)))
    BY <2>2, OrderedPairs
  <2> QED
    BY <2>1, <2>3
<1> HIDE DEF F, U, c
<1>5. (\A u \in U : c[u] \in DOMAIN F) /\ (\A i \in DOMAIN F : F[i] = Cardinality({u \in U : c[u] = i}))
  BY <1>3, <1>4
<1>6. X!Total(F) = Cardinality(U)
  BY <1>1, <1>2, <1>5, TotalCounts
<1> QED
  BY <1>6 DEF F, U

(* A sum of a share for each member, taken group by group.                  *)
Shares(S, v) == UNION {{m} \X (1..v[m]) : m \in S}

LEMMA SharesAre ==
    ASSUME NEW S, IsFiniteSet(S), NEW v, NEW b \in Nat, \A m \in S : v[m] \in 0..b
    PROVE  /\ IsFiniteSet(Shares(S, v))
           /\ \A u \in Shares(S, v) : u[1] \in S
           /\ \A m \in S : {u \in Shares(S, v) : u[1] = m} = {m} \X (1..v[m])
<1>1. Shares(S, v) \subseteq S \X (1..b)
  <2> SUFFICES ASSUME NEW m \in S, NEW u \in {m} \X (1..v[m]) PROVE u \in S \X (1..b)
    BY DEF Shares
  <2>1. v[m] \in 0..b
    OBVIOUS
  <2>2. u[1] = m /\ u[2] \in 1..v[m] /\ u = <<u[1], u[2]>>
    OBVIOUS
  <2>3. u[2] \in 1..b
    BY <2>1, <2>2
  <2> QED
    BY <2>2, <2>3
<1>2. IsFiniteSet(1..b)
  BY FS_Interval
<1>3. IsFiniteSet(Shares(S, v))
  BY <1>1, <1>2, FS_Product, FS_Subset
<1> QED
  BY <1>1, <1>3 DEF Shares

LEMMA EvenShares ==
    ASSUME NEW S, IsFiniteSet(S), NEW n \in Nat
    PROVE  IsFiniteSet(S \X (1..n)) /\ Cardinality(S \X (1..n)) = Cardinality(S) * n
<1>1. IsFiniteSet(1..n) /\ Cardinality(1..n) = n
  BY FS_Interval
<1> QED
  BY <1>1, FS_Product

LEMMA SharesOfGroups ==
    ASSUME NEW S, IsFiniteSet(S), NEW I, IsFiniteSet(I), NEW h, \A m \in S : h[m] \in I,
           NEW v, NEW b \in Nat, \A i \in I : v[i] \in 0..b,
           NEW F, DOMAIN F = I, \A i \in I : F[i] = Cardinality(InCell(S, h, i)) * v[i],
           NEW G_, DOMAIN G_ = S, \A m \in S : G_[m] = v[h[m]]
    PROVE  X!Total(F) = X!Total(G_)
<1> DEFINE w == [m \in S |-> v[h[m]]]
           U == Shares(S, w)
           byMember == [u \in U |-> u[1]]
           byGroup == [u \in U |-> h[u[1]]]
<1>1. \A m \in S : w[m] \in 0..b /\ w[m] \in Nat
  OBVIOUS
<1>2. /\ IsFiniteSet(U)
      /\ \A u \in U : u[1] \in S
      /\ \A m \in S : {u \in U : u[1] = m} = {m} \X (1..w[m])
  <2> HIDE DEF w
  <2> QED
    BY <1>1, SharesAre
<1>3. ASSUME NEW m \in S PROVE G_[m] = Cardinality({u \in U : byMember[u] = m})
  <2>1. {u \in U : byMember[u] = m} = {m} \X (1..w[m])
    BY <1>2
  <2>2. IsFiniteSet({m}) /\ Cardinality({m}) = 1
    BY FS_Singleton
  <2>4. G_[m] = w[m] /\ w[m] \in Nat
    BY <1>1
  <2> HIDE DEF w, U, byMember
  <2>3. Cardinality({m} \X (1..w[m])) = Cardinality({m}) * w[m]
    BY <2>2, <2>4, EvenShares
  <2>5. Cardinality({m} \X (1..w[m])) = w[m]
    BY <2>2, <2>3, <2>4
  <2> HIDE DEF byGroup
  <2> QED
    BY <2>1, <2>4, <2>5
<1>4. ASSUME NEW i \in I PROVE F[i] = Cardinality({u \in U : byGroup[u] = i})
  <2>1. {u \in U : byGroup[u] = i} = InCell(S, h, i) \X (1..v[i])
    <3>1. ASSUME NEW u \in U, byGroup[u] = i PROVE u \in InCell(S, h, i) \X (1..v[i])
      <4>1. u[1] \in S /\ h[u[1]] = i
        BY <1>2, <3>1
      <4>2. u \in {u[1]} \X (1..w[u[1]])
        BY <1>2, <4>1
      <4>3. w[u[1]] = v[i]
        BY <4>1
      <4>4. u[1] \in InCell(S, h, i)
        BY <4>1 DEF InCell
      <4> HIDE DEF w, U, byGroup
      <4> QED
        BY <4>2, <4>3, <4>4
    <3>2. ASSUME NEW u \in InCell(S, h, i) \X (1..v[i]) PROVE u \in U /\ byGroup[u] = i
      <4>1. u[1] \in S /\ h[u[1]] = i /\ u = <<u[1], u[2]>> /\ u[2] \in 1..v[i]
        BY DEF InCell
      <4>2. w[u[1]] = v[i]
        BY <4>1
      <4>3. u \in {u[1]} \X (1..w[u[1]])
        BY <4>1, <4>2
      <4>4. u \in U
        BY <1>2, <4>1, <4>3
      <4> QED
        BY <4>1, <4>4
    <3> HIDE DEF U, byGroup
    <3> QED
      BY <3>1, <3>2
  <2>2. IsFiniteSet(InCell(S, h, i))
    BY FS_Subset DEF InCell
  <2>3. v[i] \in Nat /\ F[i] = Cardinality(InCell(S, h, i)) * v[i]
    OBVIOUS
  <2> HIDE DEF U, byGroup
  <2>4. Cardinality(InCell(S, h, i) \X (1..v[i])) = Cardinality(InCell(S, h, i)) * v[i]
    BY <2>2, <2>3, EvenShares
  <2> QED
    BY <2>1, <2>3, <2>4
<1>5. (\A u \in U : byMember[u] \in S) /\ (\A u \in U : byGroup[u] \in I)
  BY <1>2
<1> HIDE DEF U, byMember, byGroup, w
<1>6. X!Total(F) = Cardinality(U)
  BY <1>2, <1>4, <1>5, TotalCounts
<1>7. X!Total(G_) = Cardinality(U)
  BY <1>2, <1>3, <1>5, TotalCounts
<1> QED
  BY <1>6, <1>7

(* A part of one, and how often it fits.                                    *)
LEMMA WholeShare ==
    ASSUME NEW n \in Nat, n # 0, NEW q \in Nat, NEW k \in Nat
    PROVE  (k * (n * q)) \div n = k * q
<1> DEFINE x == k * q
<1>1. x \in Nat /\ k * (n * q) = n * x
  OBVIOUS
<1> HIDE DEF x
<1> DEFINE d == (n * x) \div n
<1>2. n * x \in Int /\ n > 0
  BY <1>1
<1>3. d \in Int /\ n * d <= n * x /\ n * x < n * d + n
  BY <1>1, <1>2
<1> HIDE DEF d
<1>4. d = x
  <2>1. ~(d < x)
    <3> SUFFICES ASSUME d < x PROVE FALSE
      OBVIOUS
    <3>1. PICK r \in Nat : x = d + 1 + r
      BY <1>1, <1>3
    <3>2. n * x = n * d + n + n * r
      BY <1>3, <3>1
    <3>3. n * r \in Nat /\ n * d \in Int
      BY <1>3
    <3> QED
      BY <1>1, <1>3, <3>2, <3>3
  <2>2. ~(x < d)
    <3> SUFFICES ASSUME x < d PROVE FALSE
      OBVIOUS
    <3>1. PICK r \in Nat : d = x + 1 + r
      BY <1>1, <1>3
    <3>2. n * d = n * x + n + n * r
      BY <1>1, <3>1
    <3>3. n * r \in Nat /\ n * x \in Int
      BY <1>1
    <3> QED
      BY <1>1, <1>3, <3>2, <3>3
  <2> QED
    BY <1>1, <1>3, <2>1, <2>2
<1> QED
  BY <1>1, <1>4 DEF d, x

(* Groups of one comparison.                                                *)
Golden(m) == {x \in X!Labelled : experimentsInput.gold[x] = experimentsInput.gold[m]}
Peered(res, m) == X!Peers(res, m) \cap X!Labelled

LEMMA ExperimentFacts ==
    /\ IsFiniteSet(Mentions) /\ Mentions \subseteq Nat /\ None \notin X!Evidences
    /\ Unit \in Nat
    /\ \A i \in ExperimentInputs : \A m \in Mentions : i.title[m] # None
    /\ \A n \in 1..Cardinality(Mentions) : \E k \in 0..Unit : n * k = Unit
BY ResolutionAssumption, XCardinality DEF ResolutionAssumption, X!ExperimentAssumption, X!IsFiniteSet, IsFiniteSet

LEMMA LabelledFacts ==
    /\ IsFiniteSet(X!Labelled) /\ X!Labelled \subseteq Nat /\ X!Labelled \subseteq Mentions
    /\ \A m \in X!Labelled : m \in Golden(m)
    /\ \A res : \A m \in X!Labelled : m \in Peered(res, m)
    /\ X!GoldGroups = {Golden(m) : m \in X!Labelled} /\ IsFiniteSet(X!GoldGroups)
    /\ \A res : X!PredGroups(res) = {Peered(res, m) : m \in X!Labelled} /\ IsFiniteSet(X!PredGroups(res))
<1>1. X!Labelled \subseteq Mentions
  BY DEF X!Labelled
<1>2. IsFiniteSet(X!Labelled) /\ X!Labelled \subseteq Nat
  BY <1>1, ExperimentFacts, FS_Subset
<1>3. X!GoldGroups = {Golden(m) : m \in X!Labelled} /\ X!GoldGroups \subseteq SUBSET X!Labelled
  BY DEF X!GoldGroups, Golden
<1>4. \A res : X!PredGroups(res) = {Peered(res, m) : m \in X!Labelled} /\ X!PredGroups(res) \subseteq SUBSET X!Labelled
  BY DEF X!PredGroups, Peered
<1>5. IsFiniteSet(SUBSET X!Labelled)
  BY <1>2, FS_SUBSET
<1>6. IsFiniteSet(X!GoldGroups)
  BY <1>3, <1>5, FS_Subset
<1>7. ASSUME NEW res PROVE IsFiniteSet(X!PredGroups(res))
  <2>1. X!PredGroups(res) \subseteq SUBSET X!Labelled
    BY <1>4
  <2> QED
    BY <1>5, <2>1, FS_Subset
<1>8. \A m \in X!Labelled : m \in Golden(m)
  BY DEF Golden
<1>9. \A res : \A m \in X!Labelled : m \in Peered(res, m)
  BY <1>1 DEF Peered, X!Peers
<1> QED
  BY <1>1, <1>2, <1>3, <1>4, <1>6, <1>7, <1>8, <1>9

LEMMA KeysMean ==
    ASSUME NEW res, NEW m, NEW o
    PROVE  X!GroupKey(res, m) = X!GroupKey(res, o) <=> m = o \/ X!Together(res, m, o)
BY DEF X!GroupKey, X!Together

LEMMA SameGroups ==
    /\ \A m \in X!Labelled, o \in X!Labelled : Golden(m) = Golden(o) <=> X!SameGold(m, o)
    /\ \A res : \A m \in X!Labelled, o \in X!Labelled :
          Peered(res, m) = Peered(res, o) <=> m = o \/ X!Together(res, m, o)
    /\ \A m \in X!Labelled, o \in X!Labelled : o \in Golden(m) <=> Golden(o) = Golden(m)
    /\ \A res : \A m \in X!Labelled, o \in X!Labelled : o \in Peered(res, m) <=> Peered(res, o) = Peered(res, m)
<1>1. \A m \in X!Labelled, o \in X!Labelled : o \in Golden(m) <=> Golden(o) = Golden(m)
  BY DEF Golden
<1>2. \A m \in X!Labelled, o \in X!Labelled : o \in Golden(m) <=> X!SameGold(m, o)
  BY DEF Golden, X!SameGold
<1>3. \A res : \A m \in X!Labelled, o \in X!Labelled :
          o \in Peered(res, m) <=> X!GroupKey(res, o) = X!GroupKey(res, m)
  BY LabelledFacts DEF Peered, X!Peers
<1>4. ASSUME NEW res, NEW m \in X!Labelled, NEW o \in X!Labelled
      PROVE  o \in Peered(res, m) <=> Peered(res, o) = Peered(res, m)
  <2>1. ASSUME o \in Peered(res, m) PROVE Peered(res, o) = Peered(res, m)
    <3>1. X!GroupKey(res, o) = X!GroupKey(res, m)
      BY <1>3, <2>1
    <3> QED
      BY <3>1 DEF Peered, X!Peers
  <2> QED
    BY <2>1, LabelledFacts
<1>5. ASSUME NEW res, NEW m \in X!Labelled, NEW o \in X!Labelled
      PROVE  Peered(res, m) = Peered(res, o) <=> m = o \/ X!Together(res, m, o)
  BY <1>3, <1>4, KeysMean
<1> QED
  BY <1>1, <1>2, <1>4, <1>5

(* The pairs of a group, of both groupings, and of one and not the other.   *)
PairsOf(p) == {mo \in p : mo[1] < mo[2]}
GoldPairs == {mo \in X!Labelled \X X!Labelled : mo[1] < mo[2] /\ X!SameGold(mo[1], mo[2])}
PredPairs(res) == {mo \in X!Labelled \X X!Labelled : mo[1] < mo[2] /\ X!Together(res, mo[1], mo[2])}

LEMMA PairCounts ==
    ASSUME NEW res
    PROVE  /\ X!Metrics(res).tp = Cardinality(GoldPairs \cap PredPairs(res))
           /\ X!Metrics(res).fp = Cardinality(PredPairs(res)) - X!Metrics(res).tp
           /\ X!Metrics(res).fn = Cardinality(GoldPairs) - X!Metrics(res).tp
<1> DEFINE S == X!Labelled
           golds == [m \in S |-> Golden(m)]
           preds == [m \in S |-> Peered(res, m)]
           both == [m \in S |-> <<Golden(m), Peered(res, m)>>]
           cells == X!GoldGroups \X X!PredGroups(res)
<1>1. IsFiniteSet(S) /\ S \subseteq Nat /\ IsFiniteSet(X!GoldGroups) /\ IsFiniteSet(X!PredGroups(res)) /\ IsFiniteSet(cells)
  BY LabelledFacts, FS_Product
<1>2. /\ \A m \in S : golds[m] \in X!GoldGroups /\ preds[m] \in X!PredGroups(res) /\ both[m] \in cells
  BY LabelledFacts
<1>3. ASSUME NEW g \in X!GoldGroups PROVE InCell(S, golds, g) = g
  <2>1. PICK m \in S : g = Golden(m)
    BY LabelledFacts
  <2>2. g \subseteq S
    BY <2>1 DEF Golden
  <2> QED
    BY <2>1, <2>2, SameGroups DEF InCell
<1>4. ASSUME NEW g \in X!PredGroups(res) PROVE InCell(S, preds, g) = g
  <2>1. PICK m \in S : g = Peered(res, m)
    BY LabelledFacts
  <2>2. g \subseteq S
    BY <2>1 DEF Peered
  <2> QED
    BY <2>1, <2>2, SameGroups DEF InCell
<1>5. ASSUME NEW c \in cells PROVE InCell(S, both, c) = c[1] \cap c[2]
  <2>1. c[1] \in X!GoldGroups /\ c[2] \in X!PredGroups(res) /\ c = <<c[1], c[2]>>
    OBVIOUS
  <2>2. InCell(S, golds, c[1]) = c[1] /\ InCell(S, preds, c[2]) = c[2]
    BY <1>3, <1>4, <2>1
  <2>3. \A m \in S : both[m] = c <=> golds[m] = c[1] /\ preds[m] = c[2]
    BY <2>1
  <2>4. InCell(S, both, c) = InCell(S, golds, c[1]) \cap InCell(S, preds, c[2])
    BY <2>3 DEF InCell
  <2> QED
    BY <2>2, <2>4
<1>6. SameCell(S, golds) = GoldPairs
  BY SameGroups DEF SameCell, GoldPairs
<1>7. SameCell(S, preds) = PredPairs(res)
  <2>1. \A mo \in S \X S : mo[1] < mo[2] => mo[1] # mo[2]
    BY <1>1
  <2> QED
    BY <2>1, SameGroups DEF SameCell, PredPairs
<1>8. SameCell(S, both) = GoldPairs \cap PredPairs(res)
  <2>1. \A mo \in S \X S : both[mo[1]] = both[mo[2]] <=> golds[mo[1]] = golds[mo[2]] /\ preds[mo[1]] = preds[mo[2]]
    OBVIOUS
  <2>2. SameCell(S, both) = SameCell(S, golds) \cap SameCell(S, preds)
    BY <2>1 DEF SameCell
  <2> QED
    BY <1>6, <1>7, <2>2
<1>9. /\ X!Metrics(res).tp = X!Total([c \in cells |-> X!PairsIn(Cardinality(c[1] \cap c[2]))])
      /\ X!Metrics(res).fp = X!Total([g \in X!PredGroups(res) |-> X!PairsIn(Cardinality(g))]) - X!Metrics(res).tp
      /\ X!Metrics(res).fn = X!Total([g \in X!GoldGroups |-> X!PairsIn(Cardinality(g))]) - X!Metrics(res).tp
  BY XCardinality DEF X!Metrics
<1>10. /\ [c \in cells |-> X!PairsIn(Cardinality(c[1] \cap c[2]))]
             = [c \in cells |-> X!PairsIn(Cardinality(InCell(S, both, c)))]
       /\ [g \in X!PredGroups(res) |-> X!PairsIn(Cardinality(g))]
             = [g \in X!PredGroups(res) |-> X!PairsIn(Cardinality(InCell(S, preds, g)))]
       /\ [g \in X!GoldGroups |-> X!PairsIn(Cardinality(g))]
             = [g \in X!GoldGroups |-> X!PairsIn(Cardinality(InCell(S, golds, g)))]
  <2> HIDE DEF golds, preds, both, cells, S
  <2> QED
    BY <1>3, <1>4, <1>5
<1> HIDE DEF golds, preds, both, cells, S
<1>11. X!Total([c \in cells |-> X!PairsIn(Cardinality(InCell(S, both, c)))]) = Cardinality(SameCell(S, both))
  BY <1>1, <1>2, PairsOfGroups
<1>12. X!Total([g \in X!PredGroups(res) |-> X!PairsIn(Cardinality(InCell(S, preds, g)))]) = Cardinality(SameCell(S, preds))
  BY <1>1, <1>2, PairsOfGroups
<1>13. X!Total([g \in X!GoldGroups |-> X!PairsIn(Cardinality(InCell(S, golds, g)))]) = Cardinality(SameCell(S, golds))
  BY <1>1, <1>2, PairsOfGroups
<1> QED
  BY <1>6, <1>7, <1>8, <1>9, <1>10, <1>11, <1>12, <1>13

(* The three counts of pairs: agreed, only predicted, only gold.            *)
LEMMA InAndOut ==
    ASSUME NEW a, NEW b, IsFiniteSet(a), IsFiniteSet(b)
    PROVE  Cardinality(a) - Cardinality(a \cap b) = Cardinality(a \ b)
<1> DEFINE i == a \cap b
           d == a \ b
<1>1. a = i \cup d /\ i \cap d = {}
  OBVIOUS
<1>2. IsFiniteSet(i) /\ IsFiniteSet(d)
  BY FS_Subset
<1> HIDE DEF i, d
<1>3. Cardinality(i \cup d) = Cardinality(i) + Cardinality(d) - Cardinality(i \cap d)
  BY <1>2, FS_Union
<1>4. Cardinality(i \cap d) = 0
  BY <1>1, FS_EmptySet
<1>5. Cardinality(i) \in Nat /\ Cardinality(d) \in Nat
  BY <1>2, FS_CardinalityType
<1>6. Cardinality(a) = Cardinality(i) + Cardinality(d)
  BY <1>1, <1>3, <1>4, <1>5
<1>7. Cardinality(a) - Cardinality(i) = Cardinality(d)
  BY <1>5, <1>6
<1> QED
  BY <1>7 DEF i, d

LEMMA CountsAreExact ==
    ASSUME NEW res
    PROVE  LET k == X!Metrics(res) IN
           /\ k.tp = X!Cardinality({mo \in X!Labelled \X X!Labelled :
                    mo[1] < mo[2] /\ (X!SameGold(mo[1], mo[2]) /\ X!Together(res, mo[1], mo[2]))})
           /\ k.fp = X!Cardinality({mo \in X!Labelled \X X!Labelled :
                    mo[1] < mo[2] /\ (~X!SameGold(mo[1], mo[2]) /\ X!Together(res, mo[1], mo[2]))})
           /\ k.fn = X!Cardinality({mo \in X!Labelled \X X!Labelled :
                    mo[1] < mo[2] /\ (X!SameGold(mo[1], mo[2]) /\ ~X!Together(res, mo[1], mo[2]))})
<1> DEFINE S == X!Labelled
           P == PredPairs(res)
           D == GoldPairs
<1>1. IsFiniteSet(P) /\ IsFiniteSet(D)
  <2>1. IsFiniteSet(S \X S) /\ P \subseteq S \X S /\ D \subseteq S \X S
    BY LabelledFacts, FS_Product DEF PredPairs, GoldPairs
  <2> QED
    BY <2>1, FS_Subset
<1>2. /\ D \cap P = {mo \in S \X S : mo[1] < mo[2] /\ (X!SameGold(mo[1], mo[2]) /\ X!Together(res, mo[1], mo[2]))}
      /\ P \ D = {mo \in S \X S : mo[1] < mo[2] /\ (~X!SameGold(mo[1], mo[2]) /\ X!Together(res, mo[1], mo[2]))}
      /\ D \ P = {mo \in S \X S : mo[1] < mo[2] /\ (X!SameGold(mo[1], mo[2]) /\ ~X!Together(res, mo[1], mo[2]))}
  BY DEF GoldPairs, PredPairs
<1>3. P \cap D = D \cap P
  OBVIOUS
<1>4. /\ X!Metrics(res).tp = Cardinality(D \cap P)
      /\ X!Metrics(res).fp = Cardinality(P) - X!Metrics(res).tp
      /\ X!Metrics(res).fn = Cardinality(D) - X!Metrics(res).tp
  BY PairCounts DEF P, D
<1> HIDE DEF P, D
<1>5. Cardinality(P) - Cardinality(D \cap P) = Cardinality(P \ D)
  BY <1>1, <1>3, InAndOut
<1>6. Cardinality(D) - Cardinality(D \cap P) = Cardinality(D \ P)
  BY <1>1, InAndOut
<1> QED
  BY <1>2, <1>4, <1>5, <1>6, XCardinality

(* B-cubed: a cell of n records is n times the share of one of them.        *)
LEMMA ShareOfCell ==
    ASSUME NEW a, NEW b, a \subseteq b, b \subseteq Mentions, b # {}
    PROVE  \E q \in 0..Unit :
              /\ (Cardinality(a) * Cardinality(a) * Unit) \div Cardinality(b) = Cardinality(a) * (Cardinality(a) * q)
              /\ (Cardinality(a) * Unit) \div Cardinality(b) = Cardinality(a) * q
              /\ Cardinality(a) * q \in 0..Unit
<1> DEFINE k == Cardinality(a)
           n == Cardinality(b)
<1>1. IsFiniteSet(b) /\ Cardinality(b) <= Cardinality(Mentions) /\ IsFiniteSet(a) /\ Cardinality(a) <= Cardinality(b)
  <2>1. IsFiniteSet(b) /\ Cardinality(b) <= Cardinality(Mentions)
    BY ExperimentFacts, FS_Subset
  <2> QED
    BY <2>1, FS_Subset
<1>2. k \in Nat /\ n \in Nat /\ n # 0 /\ k <= n /\ Cardinality(Mentions) \in Nat /\ n <= Cardinality(Mentions)
  BY <1>1, ExperimentFacts, FS_CardinalityType, FS_EmptySet
<1> HIDE DEF k, n
<1>3. PICK q \in 0..Unit : n * q = Unit
  BY <1>2, ExperimentFacts
<1>4. q \in Nat /\ Unit \in Nat
  BY <1>3, ExperimentFacts
<1>5. (k * Unit) \div n = k * q
  BY <1>2, <1>3, <1>4, WholeShare
<1>6. (k * k * Unit) \div n = k * (k * q)
  <2> DEFINE kk == k * k
  <2>1. kk \in Nat
    BY <1>2
  <2> HIDE DEF kk
  <2>2. (kk * (n * q)) \div n = kk * q
    BY <1>2, <1>4, <2>1, WholeShare
  <2>3. k * k * Unit = kk * (n * q)
    BY <1>3 DEF kk
  <2>4. kk * q = k * (k * q)
    BY <1>2, <1>4 DEF kk
  <2> QED
    BY <2>2, <2>3, <2>4
<1>7. k * q \in 0..Unit
  <2>1. PICK r \in Nat : n = k + r
    <3>1. n - k \in Nat /\ n = k + (n - k)
      BY <1>2
    <3> QED
      BY <3>1
  <2>2. n * q = k * q + r * q
    BY <1>2, <1>4, <2>1
  <2>3. k * q \in Nat /\ r * q \in Nat
    BY <1>2, <1>4, <2>1
  <2> QED
    BY <1>3, <1>4, <2>2, <2>3
<1> QED
  BY <1>3, <1>5, <1>6, <1>7 DEF k, n

Cells(res) == X!GoldGroups \X X!PredGroups(res)
CellOf(res) == [m \in X!Labelled |-> <<Golden(m), Peered(res, m)>>]

LEMMA CellFacts ==
    ASSUME NEW res
    PROVE  /\ IsFiniteSet(Cells(res))
           /\ \A m \in X!Labelled : CellOf(res)[m] \in Cells(res)
           /\ \A c \in Cells(res) :
                 /\ InCell(X!Labelled, CellOf(res), c) = c[1] \cap c[2]
                 /\ c[1] \subseteq Mentions /\ c[1] # {} /\ c[2] \subseteq Mentions /\ c[2] # {}
<1>1. IsFiniteSet(Cells(res))
  BY LabelledFacts, FS_Product DEF Cells
<1>2. \A m \in X!Labelled : CellOf(res)[m] \in Cells(res)
  BY LabelledFacts DEF Cells, CellOf
<1>3. ASSUME NEW c \in Cells(res)
      PROVE  /\ InCell(X!Labelled, CellOf(res), c) = c[1] \cap c[2]
             /\ c[1] \subseteq Mentions /\ c[1] # {} /\ c[2] \subseteq Mentions /\ c[2] # {}
  <2>1. c[1] \in X!GoldGroups /\ c[2] \in X!PredGroups(res) /\ c = <<c[1], c[2]>>
    BY DEF Cells
  <2>2. PICK x \in X!Labelled : c[1] = Golden(x)
    BY <2>1, LabelledFacts
  <2>3. PICK y \in X!Labelled : c[2] = Peered(res, y)
    BY <2>1, LabelledFacts
  <2>4. c[1] \subseteq X!Labelled /\ c[2] \subseteq X!Labelled
    BY <2>2, <2>3 DEF Golden, Peered
  <2>5. c[1] # {} /\ c[2] # {}
    BY <2>2, <2>3, LabelledFacts
  <2>6. ASSUME NEW m \in X!Labelled PROVE CellOf(res)[m] = c <=> m \in c[1] \cap c[2]
    <3>1. CellOf(res)[m] = <<Golden(m), Peered(res, m)>>
      BY DEF CellOf
    <3>2. CellOf(res)[m] = c <=> Golden(m) = c[1] /\ Peered(res, m) = c[2]
      BY <2>1, <3>1
    <3>3. (m \in c[1] <=> Golden(m) = c[1]) /\ (m \in c[2] <=> Peered(res, m) = c[2])
      BY <2>2, <2>3, SameGroups
    <3> QED
      BY <3>2, <3>3
  <2>7. InCell(X!Labelled, CellOf(res), c) = c[1] \cap c[2]
    BY <2>4, <2>6 DEF InCell
  <2> QED
    BY <2>4, <2>5, <2>7, LabelledFacts
<1> QED
  BY <1>1, <1>2, <1>3

LEMMA CubedIsExact ==
    ASSUME NEW res, NEW side \in {1, 2}
    PROVE  X!Total([c \in Cells(res) |->
                (Cardinality(c[1] \cap c[2]) * Cardinality(c[1] \cap c[2]) * Unit) \div Cardinality(c[side])])
             = X!Total([m \in X!Labelled |->
                (Cardinality(Golden(m) \cap Peered(res, m)) * Unit) \div Cardinality(CellOf(res)[m][side])])
<1> DEFINE S == X!Labelled
           I == Cells(res)
           h == CellOf(res)
           v == [c \in I |-> (Cardinality(c[1] \cap c[2]) * Unit) \div Cardinality(c[side])]
           F == [c \in I |-> (Cardinality(c[1] \cap c[2]) * Cardinality(c[1] \cap c[2]) * Unit) \div Cardinality(c[side])]
           each == [m \in S |-> (Cardinality(Golden(m) \cap Peered(res, m)) * Unit) \div Cardinality(CellOf(res)[m][side])]
<1>1. IsFiniteSet(S) /\ IsFiniteSet(I) /\ (\A m \in S : h[m] \in I) /\ Unit \in Nat
  BY LabelledFacts, CellFacts, ExperimentFacts
<1>2. ASSUME NEW c \in I
      PROVE  v[c] \in 0..Unit /\ F[c] = Cardinality(InCell(S, h, c)) * v[c]
  <2> DEFINE a == c[1] \cap c[2]
             b == c[side]
  <2>1. a \subseteq b /\ b \subseteq Mentions /\ b # {}
    BY CellFacts
  <2>2. InCell(S, h, c) = a
    BY CellFacts
  <2>3. /\ v[c] = (Cardinality(a) * Unit) \div Cardinality(b)
        /\ F[c] = (Cardinality(a) * Cardinality(a) * Unit) \div Cardinality(b)
    OBVIOUS
  <2> HIDE DEF a, b, v, F, I, h, S
  <2>4. PICK q \in 0..Unit :
              /\ (Cardinality(a) * Cardinality(a) * Unit) \div Cardinality(b) = Cardinality(a) * (Cardinality(a) * q)
              /\ (Cardinality(a) * Unit) \div Cardinality(b) = Cardinality(a) * q
              /\ Cardinality(a) * q \in 0..Unit
    BY <2>1, ShareOfCell
  <2> QED
    BY <2>2, <2>3, <2>4
<1>3. ASSUME NEW m \in S PROVE each[m] = v[h[m]]
  <2>1. h[m] = <<Golden(m), Peered(res, m)>> /\ h[m] \in I
    BY <1>1 DEF CellOf
  <2>2. h[m][1] = Golden(m) /\ h[m][2] = Peered(res, m)
    BY <2>1
  <2>3. v[h[m]] = (Cardinality(h[m][1] \cap h[m][2]) * Unit) \div Cardinality(h[m][side])
    BY <2>1
  <2> QED
    BY <2>2, <2>3
<1>4. DOMAIN F = I /\ DOMAIN each = S
  OBVIOUS
<1> HIDE DEF S, I, h, v, F, each
<1>5. X!Total(F) = X!Total(each)
  BY <1>1, <1>2, <1>3, <1>4, SharesOfGroups
<1> QED
  BY <1>5 DEF S, I, h, F, each

(* What differs, by size and by pairs.                                      *)
Agree(a, b, m, o) ==
    /\ X!Together(a, m, o) => X!Together(b, m, o)
    /\ X!Together(b, m, o) => X!Together(a, m, o)

LEMMA PeersDiffer ==
    ASSUME NEW a, NEW b, NEW m \in Mentions
    PROVE  X!Peers(a, m) = X!Peers(b, m)
             <=> \A o \in Mentions \ {m} : Agree(a, b, m, o)
<1>1. \A o \in Mentions :
          /\ (o \in X!Peers(a, m)) <=> (m = o \/ X!Together(a, m, o))
          /\ (o \in X!Peers(b, m)) <=> (m = o \/ X!Together(b, m, o))
  BY KeysMean DEF X!Peers
<1>2. X!Peers(a, m) \subseteq Mentions /\ X!Peers(b, m) \subseteq Mentions
  BY DEF X!Peers
<1>3. ASSUME NEW o \in Mentions \ {m}, X!Peers(a, m) = X!Peers(b, m)
      PROVE  Agree(a, b, m, o)
  <2>1. o \in Mentions /\ o # m
    OBVIOUS
  <2>2. (o \in X!Peers(a, m)) <=> (m = o \/ X!Together(a, m, o))
    BY <1>1, <2>1
  <2>3. (o \in X!Peers(b, m)) <=> (m = o \/ X!Together(b, m, o))
    BY <1>1, <2>1
  <2> QED
    BY <1>3, <2>1, <2>2, <2>3 DEF Agree
<1>4. ASSUME NEW o \in Mentions,
             \A x \in Mentions \ {m} : Agree(a, b, m, x)
      PROVE  o \in X!Peers(a, m) <=> o \in X!Peers(b, m)
  <2>1. CASE o = m
    BY <1>1, <2>1
  <2>2. CASE o # m
    <3>1. Agree(a, b, m, o)
      BY <1>4, <2>2
    <3>2. (o \in X!Peers(a, m)) <=> (m = o \/ X!Together(a, m, o))
      BY <1>1
    <3>3. (o \in X!Peers(b, m)) <=> (m = o \/ X!Together(b, m, o))
      BY <1>1
    <3> QED
      BY <2>2, <3>1, <3>2, <3>3 DEF Agree
  <2> QED
    BY <2>1, <2>2
<1>5. ASSUME \A x \in Mentions \ {m} : Agree(a, b, m, x)
      PROVE  X!Peers(a, m) = X!Peers(b, m)
  <2>1. \A o \in Mentions : o \in X!Peers(a, m) <=> o \in X!Peers(b, m)
    BY <1>4, <1>5
  <2> QED
    BY <1>2, <2>1
<1> QED
  BY <1>3, <1>5

LEMMA DifferencesAreExact ==
    ASSUME NEW new, experimentsInput \in ExperimentInputs
    PROVE  X!Differences(new) =
            {m \in Mentions :
                \/ X!Legacy[m].entity = None
                \/ \E o \in Mentions \ {m} : X!Together(X!Legacy, m, o) # X!Together(new, m, o)}
<1>1. ASSUME NEW m \in Mentions
      PROVE  X!Legacy[m].status = "dropped" <=> X!Legacy[m].entity = None
  BY ExperimentFacts DEF X!Legacy, X!Member
<1>2. ASSUME NEW m \in Mentions
      PROVE  m \in X!Differences(new) <=>
                X!Peers(X!Legacy, m) # X!Peers(new, m) \/ X!Legacy[m].status = "dropped"
  <2> DEFINE old == X!Peers(X!Legacy, m)
             now == X!Peers(new, m)
             both == old \cap now
  <2>1. both = {x \in Mentions : /\ X!GroupKey(X!Legacy, x) = X!GroupKey(X!Legacy, m)
                                /\ X!GroupKey(new, x) = X!GroupKey(new, m)}
    BY DEF X!Peers
  <2>2. m \in X!Differences(new) <=>
          \/ Cardinality(old) # Cardinality(both) \/ Cardinality(now) # Cardinality(both)
          \/ X!Legacy[m].status = "dropped"
    <3> HIDE DEF both, old, now
    <3> QED
      BY <2>1, XCardinality DEF X!Differences, old, now
  <2>3. IsFiniteSet(old) /\ IsFiniteSet(now)
    BY ExperimentFacts, FS_Subset DEF X!Peers
  <2> HIDE DEF old, now
  <2>4. both \subseteq old /\ both \subseteq now
    OBVIOUS
  <2>5. Cardinality(old) = Cardinality(both) <=> old = both
    BY <2>3, <2>4, FS_Subset
  <2>6. Cardinality(now) = Cardinality(both) <=> now = both
    BY <2>3, <2>4, FS_Subset
  <2>7. old = both /\ now = both <=> old = now
    OBVIOUS
  <2> HIDE DEF both
  <2> QED
    BY <2>2, <2>5, <2>6, <2>7 DEF old, now
<1>3. ASSUME NEW m \in Mentions
      PROVE  X!Peers(X!Legacy, m) # X!Peers(new, m)
                <=> \E o \in Mentions \ {m} : ~Agree(X!Legacy, new, m, o)
  BY PeersDiffer
<1>4. \A m, o : (X!Together(X!Legacy, m, o) # X!Together(new, m, o))
                 <=> ~Agree(X!Legacy, new, m, o)
  BY Zenon DEF Agree, X!Together
<1>5. X!Differences(new) \subseteq Mentions
  BY DEF X!Differences
<1> QED
  BY <1>1, <1>2, <1>3, <1>4, <1>5

LEMMA MetricsAreExact ==
    ASSUME NEW res
    PROVE  LET k == X!Metrics(res)
               peers(m) == {m} \cup {o \in X!Labelled : X!Together(res, m, o)}
               same(m) == {o \in X!Labelled : X!SameGold(m, o)}
           IN  /\ k.precision = X!Total([m \in X!Labelled |->
                      (X!Cardinality(peers(m) \cap same(m)) * Unit) \div X!Cardinality(peers(m))])
               /\ k.recall = X!Total([m \in X!Labelled |->
                      (X!Cardinality(peers(m) \cap same(m)) * Unit) \div X!Cardinality(same(m))])
<1> DEFINE k == X!Metrics(res)
           peers(m) == {m} \cup {o \in X!Labelled : X!Together(res, m, o)}
           same(m) == {o \in X!Labelled : X!SameGold(m, o)}
           value(m, s) == (Cardinality(Golden(m) \cap Peered(res, m)) * Unit) \div Cardinality(CellOf(res)[m][s])
<1>1. ASSUME NEW m \in X!Labelled PROVE peers(m) = Peered(res, m) /\ same(m) = Golden(m)
  <2>1. \A o \in X!Labelled : o \in Golden(m) <=> o \in same(m)
    BY SameGroups
  <2>2. \A o \in X!Labelled : o \in Peered(res, m) <=> o \in peers(m)
    BY SameGroups
  <2>3. Golden(m) \subseteq X!Labelled /\ Peered(res, m) \subseteq X!Labelled /\ m \in X!Labelled
    BY DEF Golden, Peered
  <2> QED
    BY <2>1, <2>2, <2>3
<1>2. /\ k.precision = X!Total([c \in Cells(res) |->
              (Cardinality(c[1] \cap c[2]) * Cardinality(c[1] \cap c[2]) * Unit) \div Cardinality(c[2])])
      /\ k.recall = X!Total([c \in Cells(res) |->
              (Cardinality(c[1] \cap c[2]) * Cardinality(c[1] \cap c[2]) * Unit) \div Cardinality(c[1])])
  BY XCardinality DEF X!Metrics, Cells
<1>3. /\ k.precision = X!Total([m \in X!Labelled |-> value(m, 2)])
      /\ k.recall = X!Total([m \in X!Labelled |-> value(m, 1)])
  BY <1>2, CubedIsExact
<1>4. ASSUME NEW m \in X!Labelled
      PROVE  /\ value(m, 2) = (X!Cardinality(peers(m) \cap same(m)) * Unit) \div X!Cardinality(peers(m))
             /\ value(m, 1) = (X!Cardinality(peers(m) \cap same(m)) * Unit) \div X!Cardinality(same(m))
  <2>1. CellOf(res)[m] = <<Golden(m), Peered(res, m)>>
    BY DEF CellOf
  <2>2. CellOf(res)[m][1] = Golden(m) /\ CellOf(res)[m][2] = Peered(res, m)
    BY <2>1
  <2>3. Golden(m) \cap Peered(res, m) = peers(m) \cap same(m)
    BY <1>1
  <2> HIDE DEF peers, same
  <2> QED
    BY <1>1, <2>2, <2>3, XCardinality
<1> HIDE DEF value
<1>5. /\ [m \in X!Labelled |-> value(m, 2)]
             = [m \in X!Labelled |-> (X!Cardinality(peers(m) \cap same(m)) * Unit) \div X!Cardinality(peers(m))]
      /\ [m \in X!Labelled |-> value(m, 1)]
             = [m \in X!Labelled |-> (X!Cardinality(peers(m) \cap same(m)) * Unit) \div X!Cardinality(same(m))]
  <2> HIDE DEF peers, same
  <2> QED
    BY <1>4
<1> QED
  BY <1>3, <1>5

(* Every score of a comparison is the count over its records and pairs that *)
(* it is named for (evaluation.py).                                         *)
LEMMA ScoresHold == ASSUME experimentsInput \in ExperimentInputs PROVE X!ScoresAreExact
<1> SUFFICES ASSUME NEW w \in Writers, found[w] # None
    PROVE  /\ X!Differences(found[w]) =
                {m \in Mentions :
                    \/ X!Legacy[m].entity = None
                    \/ \E o \in Mentions \ {m} : X!Together(X!Legacy, m, o) # X!Together(found[w], m, o)}
           /\ experimentsInput.gold # None => \A res \in {X!Legacy, found[w]} :
                LET k == X!Metrics(res)
                    peers(m) == {m} \cup {o \in X!Labelled : X!Together(res, m, o)}
                    same(m) == {o \in X!Labelled : X!SameGold(m, o)}
                IN  /\ k.tp = X!Cardinality({mo \in X!Labelled \X X!Labelled :
                          mo[1] < mo[2] /\ (X!SameGold(mo[1], mo[2]) /\ X!Together(res, mo[1], mo[2]))})
                    /\ k.fp = X!Cardinality({mo \in X!Labelled \X X!Labelled :
                          mo[1] < mo[2] /\ (~X!SameGold(mo[1], mo[2]) /\ X!Together(res, mo[1], mo[2]))})
                    /\ k.fn = X!Cardinality({mo \in X!Labelled \X X!Labelled :
                          mo[1] < mo[2] /\ (X!SameGold(mo[1], mo[2]) /\ ~X!Together(res, mo[1], mo[2]))})
                    /\ k.precision = X!Total([m \in X!Labelled |->
                          (X!Cardinality(peers(m) \cap same(m)) * Unit) \div X!Cardinality(peers(m))])
                    /\ k.recall = X!Total([m \in X!Labelled |->
                          (X!Cardinality(peers(m) \cap same(m)) * Unit) \div X!Cardinality(same(m))])
  BY DEF X!ScoresAreExact, X!PairsWhere
<1>1. \A res : LET k == X!Metrics(res) IN
           /\ k.tp = X!Cardinality({mo \in X!Labelled \X X!Labelled :
                    mo[1] < mo[2] /\ (X!SameGold(mo[1], mo[2]) /\ X!Together(res, mo[1], mo[2]))})
           /\ k.fp = X!Cardinality({mo \in X!Labelled \X X!Labelled :
                    mo[1] < mo[2] /\ (~X!SameGold(mo[1], mo[2]) /\ X!Together(res, mo[1], mo[2]))})
           /\ k.fn = X!Cardinality({mo \in X!Labelled \X X!Labelled :
                    mo[1] < mo[2] /\ (X!SameGold(mo[1], mo[2]) /\ ~X!Together(res, mo[1], mo[2]))})
  BY CountsAreExact
<1> QED
  BY <1>1, DifferencesAreExact, MetricsAreExact

(* What a comparison writes is computed from its input, which stays.        *)
LEMMA ContentStays ==
    ASSUME experimentsInput' = experimentsInput
    PROVE  /\ X!Planned' = X!Planned
           /\ \A w, a, new : X!Content(w, a, new)' = X!Content(w, a, new)
<1>1. X!Planned' = X!Planned
  BY DEF X!Planned
<1>2. X!Legacy' = X!Legacy
  BY DEF X!Legacy, X!FirstType
<1>3. X!Labelled' = X!Labelled
  BY DEF X!Labelled
<1>4. X!GoldGroups' = X!GoldGroups
  BY <1>3 DEF X!GoldGroups
<1>5. \A res : X!PredGroups(res)' = X!PredGroups(res)
  BY <1>3 DEF X!PredGroups
<1>6. \A res : X!Linked(res)' = X!Linked(res)
  BY DEF X!Linked
<1>7. \A new : X!Differences(new)' = X!Differences(new)
  BY <1>2 DEF X!Differences
<1>8. ASSUME NEW res PROVE X!Metrics(res)' = X!Metrics(res)
  BY <1>3, <1>4, <1>5 DEF X!Metrics
<1>9. ASSUME NEW new PROVE X!Report(new)' = X!Report(new)
  <2>1. X!Metrics(new)' = X!Metrics(new)
    BY <1>8
  <2>2. X!Metrics(X!Legacy)' = X!Metrics(X!Legacy)
    BY <1>2, <1>8
  <2> QED
    BY <1>7, <2>1, <2>2 DEF X!Report
<1>10. ASSUME NEW w, NEW a, NEW new PROVE X!Content(w, a, new)' = X!Content(w, a, new)
  BY <1>2, <1>6, <1>7, <1>9 DEF X!Content
<1> QED
  BY <1>1, <1>10

(* Where a comparison is: the artifacts it wrote, in the order planned.     *)
Ahead == {"differences", "comparison"}
Wrote(w, j) == \E i \in 1..(writer[w] - 1) : X!Planned[i] = j
WroteOf(w) == {X!Planned[i] : i \in 1..(writer[w] - 1)}

Writes(w) ==
    /\ dir.made /\ \A u \in Writers : writer[u] > 0 => u = w
    /\ writer[w] <= Len(X!Planned) + 1
    /\ dir.manifest = None => writer[w] = 1
    /\ dir.manifest # None => dir.manifest.state = "running"
    /\ DOMAIN dir.files = WroteOf(w)
    /\ \A a \in WroteOf(w) : dir.files[a] = X!Content(w, a, found[w])
    /\ "evidence" \in WroteOf(w) => found[w] \in X!Evidences

\* A manifest of a comparison that ended, with all it wrote.
WholeManifest(m) ==
    \E w \in Writers :
        /\ writer[w] = -1 /\ found[w] \in X!Evidences
        /\ DOMAIN m.sealed = X!ToSet(X!Planned)
        /\ \A a \in X!ToSet(X!Planned) : m.sealed[a] = X!Content(w, a, found[w])

Viewed ==
    /\ WholeManifest(view.manifest)
    /\ DOMAIN view.read \subseteq X!ToSet(X!Planned)
    /\ \A a \in DOMAIN view.read : view.read[a] = view.manifest.sealed[a]

ExperimentTypes ==
    /\ experimentsInput \in ExperimentInputs
    /\ writer \in [Writers -> Int] /\ found \in [Writers -> X!Evidences \cup {None}]
    /\ \A w \in Writers : writer[w] \in Nat \/ writer[w] = -1
    /\ dir = [made |-> dir.made, manifest |-> dir.manifest, files |-> dir.files]
    /\ view = [state |-> view.state, manifest |-> view.manifest, read |-> view.read]

(* At most one comparison writes; the directory has exactly what it wrote so *)
(* far, under a running manifest; a complete manifest seals what one ended   *)
(* comparison wrote; and what a viewer has read is of the manifest it opened. *)
ExperimentInv ==
    /\ ExperimentTypes
    /\ ~dir.made => dir.manifest = None /\ dir.files = <<>> /\ \A w \in Writers : writer[w] \in {0, -1}
    /\ \A w \in Writers : writer[w] > 0 => Writes(w)
    /\ dir.manifest # None /\ dir.manifest.state = "complete" => WholeManifest(dir.manifest)
    /\ view.state \in {"reading", "shown"} => Viewed
    /\ view.state = "shown" => DOMAIN view.read = X!ToSet(X!Planned)

LEMMA PlanFacts ==
    /\ Len(X!Planned) \in 5..6 /\ DOMAIN X!Planned = 1..Len(X!Planned)
    /\ \A i \in 1..Len(X!Planned) : \A j \in 1..Len(X!Planned) : X!Planned[i] = X!Planned[j] => i = j
    /\ \E k \in 1..Len(X!Planned) :
          /\ X!Planned[k] = "evidence"
          /\ \A i \in 1..(k - 1) : X!Planned[i] \in {"corpus", "gold", "legacy"}
          /\ \A i \in (k + 1)..Len(X!Planned) : X!Planned[i] \in {"differences", "comparison"}
    /\ X!ToSet(X!Planned) = {X!Planned[i] : i \in 1..Len(X!Planned)}
    /\ X!Planned[1] = "corpus"
    /\ X!ToSet(X!Planned) \subseteq X!ToSet(X!Artifacts)
    /\ "gold" \in X!ToSet(X!Planned) => X!ToSet(X!Planned) = X!ToSet(X!Artifacts)
    /\ X!ToSet(X!Artifacts) \ {"gold"} \subseteq X!ToSet(X!Planned)
<1> DEFINE s == <<"corpus", "gold", "legacy", "evidence", "differences", "comparison">>
           t == <<"corpus", "legacy", "evidence", "differences", "comparison">>
<1>1. X!Planned = s \/ X!Planned = t
  BY DEF X!Planned, X!Artifacts
<1>2. Len(s) = 6 /\ DOMAIN s = 1..6 /\ Len(t) = 5 /\ DOMAIN t = 1..5
  OBVIOUS
<1>3. /\ X!ToSet(X!Planned) = {X!Planned[i] : i \in DOMAIN X!Planned}
      /\ X!ToSet(X!Artifacts) = {s[i] : i \in DOMAIN s}
  BY DEF X!ToSet, X!Artifacts
<1>4. 1..6 = {1, 2, 3, 4, 5, 6} /\ 1..5 = {1, 2, 3, 4, 5}
  OBVIOUS
<1>5. X!ToSet(X!Artifacts) = {"corpus", "gold", "legacy", "evidence", "differences", "comparison"}
  BY <1>2, <1>3, <1>4
<1>6. CASE X!Planned = s
  <2>1. X!ToSet(X!Planned) = X!ToSet(X!Artifacts)
    BY <1>3, <1>6
  <2>2. s[1] = "corpus" /\ s[2] = "gold" /\ s[3] = "legacy" /\ s[4] = "evidence" /\ s[5] = "differences" /\ s[6] = "comparison"
    OBVIOUS
  <2> HIDE DEF s, t
  <2>3. 1..3 = {1, 2, 3} /\ 5..6 = {5, 6}
    OBVIOUS
  <2>4. /\ s[4] = "evidence"
        /\ \A i \in 1..(4 - 1) : s[i] \in {"corpus", "gold", "legacy"}
        /\ \A i \in (4 + 1)..6 : s[i] \in {"differences", "comparison"}
    BY <2>2, <2>3
  <2>5. \A i \in 1..6 : \A j \in 1..6 : s[i] = s[j] => i = j
    BY <1>4, <2>2
  <2>6. Len(X!Planned) = 6 /\ DOMAIN X!Planned = 1..Len(X!Planned)
    BY <1>2, <1>6
  <2>7. \A i \in 1..Len(X!Planned) : \A j \in 1..Len(X!Planned) : X!Planned[i] = X!Planned[j] => i = j
    BY <2>5, <2>6, <1>6
  <2>8. /\ 4 \in 1..Len(X!Planned) /\ X!Planned[4] = "evidence"
        /\ \A i \in 1..(4 - 1) : X!Planned[i] \in {"corpus", "gold", "legacy"}
        /\ \A i \in (4 + 1)..Len(X!Planned) : X!Planned[i] \in {"differences", "comparison"}
    BY <2>4, <2>6, <1>6
  <2>9. \E k \in 1..Len(X!Planned) :
          /\ X!Planned[k] = "evidence"
          /\ \A i \in 1..(k - 1) : X!Planned[i] \in {"corpus", "gold", "legacy"}
          /\ \A i \in (k + 1)..Len(X!Planned) : X!Planned[i] \in {"differences", "comparison"}
    BY <2>8
  <2>10. X!ToSet(X!Planned) = {X!Planned[i] : i \in 1..Len(X!Planned)} /\ X!Planned[1] = "corpus"
    BY <1>3, <2>2, <2>6, <1>6
  <2>11. /\ X!ToSet(X!Planned) \subseteq X!ToSet(X!Artifacts)
         /\ "gold" \in X!ToSet(X!Planned) => X!ToSet(X!Planned) = X!ToSet(X!Artifacts)
         /\ X!ToSet(X!Artifacts) \ {"gold"} \subseteq X!ToSet(X!Planned)
    BY <1>5, <2>1
  <2>12. Len(X!Planned) \in 5..6
    BY <2>6
  <2> QED
    BY <2>6, <2>7, <2>9, <2>10, <2>11, <2>12
<1>7. CASE X!Planned = t
  <2>2. t[1] = "corpus" /\ t[2] = "legacy" /\ t[3] = "evidence" /\ t[4] = "differences" /\ t[5] = "comparison"
    OBVIOUS
  <2> HIDE DEF s, t
  <2>1. X!ToSet(X!Planned) = {"corpus", "legacy", "evidence", "differences", "comparison"}
    BY <1>2, <1>3, <1>4, <1>7, <2>2
  <2>3. 1..2 = {1, 2} /\ 4..5 = {4, 5}
    OBVIOUS
  <2>4. /\ t[3] = "evidence"
        /\ \A i \in 1..(3 - 1) : t[i] \in {"corpus", "gold", "legacy"}
        /\ \A i \in (3 + 1)..5 : t[i] \in {"differences", "comparison"}
    BY <2>2, <2>3
  <2>5. \A i \in 1..5 : \A j \in 1..5 : t[i] = t[j] => i = j
    BY <1>4, <2>2
  <2>6. Len(X!Planned) = 5 /\ DOMAIN X!Planned = 1..Len(X!Planned)
    BY <1>2, <1>7
  <2>7. \A i \in 1..Len(X!Planned) : \A j \in 1..Len(X!Planned) : X!Planned[i] = X!Planned[j] => i = j
    BY <2>5, <2>6, <1>7
  <2>8. /\ 3 \in 1..Len(X!Planned) /\ X!Planned[3] = "evidence"
        /\ \A i \in 1..(3 - 1) : X!Planned[i] \in {"corpus", "gold", "legacy"}
        /\ \A i \in (3 + 1)..Len(X!Planned) : X!Planned[i] \in {"differences", "comparison"}
    BY <2>4, <2>6, <1>7
  <2>9. \E k \in 1..Len(X!Planned) :
          /\ X!Planned[k] = "evidence"
          /\ \A i \in 1..(k - 1) : X!Planned[i] \in {"corpus", "gold", "legacy"}
          /\ \A i \in (k + 1)..Len(X!Planned) : X!Planned[i] \in {"differences", "comparison"}
    BY <2>8
  <2>10. X!ToSet(X!Planned) = {X!Planned[i] : i \in 1..Len(X!Planned)} /\ X!Planned[1] = "corpus"
    BY <1>3, <2>2, <2>6, <1>7
  <2>11. /\ X!ToSet(X!Planned) \subseteq X!ToSet(X!Artifacts)
         /\ "gold" \in X!ToSet(X!Planned) => X!ToSet(X!Planned) = X!ToSet(X!Artifacts)
         /\ X!ToSet(X!Artifacts) \ {"gold"} \subseteq X!ToSet(X!Planned)
    BY <1>5, <2>1
  <2>12. Len(X!Planned) \in 5..6
    BY <2>6
  <2> QED
    BY <2>6, <2>7, <2>9, <2>10, <2>11, <2>12
<1> QED
  BY <1>1, <1>6, <1>7

LEMMA EarlyContent ==
    ASSUME NEW w, NEW a \in {"corpus", "gold", "legacy"}
    PROVE  \A x, y : X!Content(w, a, x) = X!Content(w, a, y)
BY DEF X!Content

LEMMA ExperimentInit == X!Init => ExperimentInv
<1> SUFFICES ASSUME X!Init PROVE ExperimentInv
  OBVIOUS
<1>1. /\ dir = [made |-> FALSE, manifest |-> None, files |-> <<>>]
      /\ view = [state |-> "none", manifest |-> None, read |-> <<>>]
      /\ writer = [w \in Writers |-> 0] /\ found = [w \in Writers |-> None]
      /\ experimentsInput \in ExperimentInputs
  BY DEF X!Init, X!NoView
<1>2. ExperimentTypes
  BY <1>1 DEF ExperimentTypes
<1> QED
  BY <1>1, <1>2 DEF ExperimentInv

(* A step that leaves found alone and ends no comparison with artifacts      *)
(* keeps every whole manifest.                                              *)
LEMMA ManifestsStay ==
    ASSUME experimentsInput' = experimentsInput, NEW m, WholeManifest(m),
           \A w \in Writers : writer[w] = -1 => writer'[w] = -1 /\ found'[w] = found[w],
           X!Evidences' = X!Evidences
    PROVE  WholeManifest(m)'
<1>1. PICK w \in Writers :
        /\ writer[w] = -1 /\ found[w] \in X!Evidences
        /\ DOMAIN m.sealed = X!ToSet(X!Planned)
        /\ \A a \in X!ToSet(X!Planned) : m.sealed[a] = X!Content(w, a, found[w])
  BY DEF WholeManifest
<1>2. X!ToSet(X!Planned)' = X!ToSet(X!Planned)
  BY ContentStays DEF X!ToSet
<1>3. \A a \in X!ToSet(X!Planned) : m.sealed[a] = X!Content(w, a, found[w])'
  BY <1>1, ContentStays DEF X!ToSet
<1> QED
  BY <1>1, <1>2, <1>3 DEF WholeManifest

LEMMA EvidencesStay == X!Evidences' = X!Evidences
BY DEF X!Evidences, X!Member

(* What ended stays, and with it what was read of it.                       *)
LEMMA EndedStays ==
    ASSUME ExperimentInv, experimentsInput' = experimentsInput,
           \A w \in Writers : writer[w] = -1 => writer'[w] = -1 /\ found'[w] = found[w]
    PROVE  /\ X!Planned' = X!Planned /\ X!ToSet(X!Planned)' = X!ToSet(X!Planned)
           /\ view' = view => /\ view'.state \in {"reading", "shown"} => Viewed'
                              /\ view'.state = "shown" => DOMAIN view'.read = X!ToSet(X!Planned)'
<1>1. X!Planned' = X!Planned /\ X!ToSet(X!Planned)' = X!ToSet(X!Planned)
  BY ContentStays DEF X!ToSet
<1>2. ASSUME view' = view, view.state \in {"reading", "shown"} PROVE Viewed'
  <2>1. Viewed
    BY <1>2 DEF ExperimentInv
  <2>2. ASSUME NEW m, WholeManifest(m) PROVE WholeManifest(m)'
    BY <2>2, EvidencesStay, ManifestsStay
  <2>3. WholeManifest(view.manifest)'
    BY <1>2, <2>1, <2>2 DEF Viewed, WholeManifest
  <2> QED
    BY <1>1, <1>2, <2>1, <2>3 DEF Viewed
<1>3. ASSUME view' = view, view.state = "shown" PROVE DOMAIN view.read = X!ToSet(X!Planned)
  BY <1>3 DEF ExperimentInv
<1> QED
  BY <1>1, <1>2, <1>3

LEMMA ManifestStays ==
    ASSUME ExperimentInv, experimentsInput' = experimentsInput, dir'.manifest = dir.manifest,
           \A w \in Writers : writer[w] = -1 => writer'[w] = -1 /\ found'[w] = found[w]
    PROVE  dir'.manifest # None /\ dir'.manifest.state = "complete" => WholeManifest(dir.manifest)'
<1> SUFFICES ASSUME dir'.manifest # None, dir'.manifest.state = "complete" PROVE WholeManifest(dir.manifest)'
  OBVIOUS
<1>1. WholeManifest(dir.manifest)
  BY DEF ExperimentInv
<1>2. ASSUME NEW m, WholeManifest(m) PROVE WholeManifest(m)'
  BY <1>2, EvidencesStay, ManifestsStay
<1> QED
  BY <1>1, <1>2 DEF WholeManifest

LEMMA BeginKeeps == ASSUME ExperimentInv, NEW w \in Writers, X!Begin(w) PROVE ExperimentInv'
<1>1. /\ writer[w] = 0 /\ ~dir.made /\ dir' = [dir EXCEPT !.made = TRUE]
      /\ writer' = [writer EXCEPT ![w] = 1]
      /\ experimentsInput' = experimentsInput /\ found' = found /\ view' = view
  BY DEF X!Begin
<1>2. ExperimentTypes /\ dir.manifest = None /\ dir.files = <<>> /\ \A u \in Writers : writer[u] \in {0, -1}
  BY <1>1 DEF ExperimentInv
<1>3. dir' = [made |-> TRUE, manifest |-> None, files |-> <<>>]
  BY <1>1, <1>2 DEF ExperimentTypes
<1>4. ExperimentTypes'
  <2>1. writer' \in [Writers -> Int] /\ \A u \in Writers : writer'[u] \in Nat \/ writer'[u] = -1
    BY <1>1, <1>2 DEF ExperimentTypes
  <2>2. dir' = [made |-> dir'.made, manifest |-> dir'.manifest, files |-> dir'.files]
    BY <1>3
  <2> QED
    BY <1>1, <1>2, <2>1, <2>2, EvidencesStay DEF ExperimentTypes
<1>5. writer'[w] = 1 /\ \A u \in Writers \ {w} : writer'[u] = writer[u]
  BY <1>1, <1>2 DEF ExperimentTypes
<1>6. WroteOf(w)' = {}
  BY <1>5 DEF WroteOf
<1>7. ASSUME NEW u \in Writers, writer'[u] > 0 PROVE Writes(u)'
  <2>1. u = w
    BY <1>2, <1>5, <1>7
  <2>2. DOMAIN (<<>>) = {}
    OBVIOUS
  <2>3. \A x \in Writers : writer'[x] > 0 => x = w
    BY <1>2, <1>5
  <2>4. 1 <= (Len(X!Planned) + 1)'
    <3>1. Len(X!Planned) \in 5..6 /\ X!Planned' = X!Planned
      BY <1>1, PlanFacts, ContentStays
    <3> QED
      BY <3>1
  <2> QED
    BY <1>3, <1>5, <1>6, <2>1, <2>2, <2>3, <2>4 DEF Writes
<1>8. \A u \in Writers : writer[u] = -1 => writer'[u] = -1 /\ found'[u] = found[u]
  BY <1>1, <1>5
<1>9. /\ view'.state \in {"reading", "shown"} => Viewed'
      /\ view'.state = "shown" => DOMAIN view'.read = X!ToSet(X!Planned)'
  BY <1>1, <1>8, EndedStays
<1> QED
  BY <1>3, <1>4, <1>7, <1>9 DEF ExperimentInv

LEMMA RefuseKeeps == ASSUME ExperimentInv, NEW w \in Writers, X!Refuse(w) PROVE ExperimentInv'
<1>1. /\ writer[w] = 0 /\ dir' = dir
      /\ writer' = [writer EXCEPT ![w] = -1]
      /\ experimentsInput' = experimentsInput /\ found' = found /\ view' = view
  BY DEF X!Refuse
<1>2. ExperimentTypes
  BY DEF ExperimentInv
<1>3. ExperimentTypes'
  BY <1>1, <1>2, EvidencesStay DEF ExperimentTypes
<1>4. writer'[w] = -1 /\ \A u \in Writers \ {w} : writer'[u] = writer[u]
  BY <1>1, <1>2 DEF ExperimentTypes
<1>5. \A u \in Writers : writer[u] = -1 => writer'[u] = -1 /\ found'[u] = found[u]
  BY <1>1, <1>4
<1>6. /\ view'.state \in {"reading", "shown"} => Viewed'
      /\ view'.state = "shown" => DOMAIN view'.read = X!ToSet(X!Planned)'
  BY <1>1, <1>5, EndedStays
<1>7. dir'.manifest # None /\ dir'.manifest.state = "complete" => WholeManifest(dir.manifest)'
  BY <1>1, <1>5, ManifestStays
<1>8. ASSUME NEW u \in Writers, writer'[u] > 0 PROVE Writes(u)'
  <2>1. u # w /\ writer'[u] = writer[u] /\ Writes(u)
    BY <1>4, <1>8 DEF ExperimentInv
  <2>2. WroteOf(u)' = WroteOf(u) /\ X!Planned' = X!Planned
    BY <1>1, <2>1, ContentStays DEF WroteOf
  <2>3. \A a : X!Content(u, a, found[u])' = X!Content(u, a, found[u])
    BY <1>1, ContentStays
  <2>4. \A x \in Writers : writer'[x] > 0 => x = u
    BY <1>4, <2>1 DEF Writes
  <2> QED
    BY <1>1, <2>1, <2>2, <2>3, <2>4, EvidencesStay DEF Writes
<1>9. ~dir.made => dir.manifest = None /\ dir.files = <<>> /\ \A u \in Writers : writer'[u] \in {0, -1}
  BY <1>4 DEF ExperimentInv
<1> QED
  BY <1>1, <1>3, <1>6, <1>7, <1>8, <1>9 DEF ExperimentInv

(* The writer's own steps: nobody else is writing.                          *)
LEMMA AnnounceKeeps == ASSUME ExperimentInv, NEW w \in Writers, X!Announce(w) PROVE ExperimentInv'
<1>1. /\ writer[w] = 1 /\ dir.manifest = None
      /\ dir' = [dir EXCEPT !.manifest = [state |-> "running", sealed |-> <<>>]]
      /\ writer' = writer
      /\ experimentsInput' = experimentsInput /\ found' = found /\ view' = view
  BY DEF X!Announce, X!Manifest
<1>2. ExperimentTypes /\ Writes(w)
  BY <1>1 DEF ExperimentInv
<1>3. dir' = [made |-> dir.made, manifest |-> [state |-> "running", sealed |-> <<>>], files |-> dir.files]
  BY <1>1, <1>2 DEF ExperimentTypes
<1> DEFINE m == [state |-> "running", sealed |-> <<>>]
<1>4. ExperimentTypes'
  BY <1>1, <1>2, <1>3, EvidencesStay DEF ExperimentTypes
<1>6. /\ view'.state \in {"reading", "shown"} => Viewed'
      /\ view'.state = "shown" => DOMAIN view'.read = X!ToSet(X!Planned)'
  BY <1>1, EndedStays
<1>7. dir'.manifest.state = "running"
  BY <1>3
<1>8. ASSUME NEW u \in Writers, writer'[u] > 0 PROVE Writes(u)'
  <2>1. Writes(u)
    BY <1>1, <1>8 DEF ExperimentInv
  <2>2. WroteOf(u)' = WroteOf(u) /\ X!Planned' = X!Planned
    BY <1>1, ContentStays DEF WroteOf
  <2>3. \A a : X!Content(u, a, found[u])' = X!Content(u, a, found[u])
    BY <1>1, ContentStays
  <2>4. dir'.made = dir.made /\ dir'.files = dir.files
    BY <1>3
  <2>5. u = w
    BY <1>1, <1>2, <1>8 DEF Writes
  <2> QED
    BY <1>1, <1>7, <2>1, <2>2, <2>3, <2>4, <2>5, EvidencesStay DEF Writes
<1>9. dir'.made
  BY <1>2, <1>3 DEF Writes
<1> QED
  BY <1>4, <1>6, <1>7, <1>8, <1>9 DEF ExperimentInv

LEMMA StopComparisonKeeps ==
    ASSUME ExperimentInv, NEW w \in Writers, writer[w] > 0, writer' = [writer EXCEPT ![w] = -1],
           experimentsInput' = experimentsInput, found' = found, view' = view,
           \/ dir' = dir
           \/ \E m : dir' = [dir EXCEPT !.manifest = m] /\ (m.state = "complete" => WholeManifest(m)')
    PROVE  ExperimentInv'
<1>1. ExperimentTypes /\ Writes(w)
  BY DEF ExperimentInv
<1>2. writer'[w] = -1 /\ \A u \in Writers \ {w} : writer'[u] = writer[u]
  BY <1>1 DEF ExperimentTypes
<1>3. \A u \in Writers : ~(writer'[u] > 0)
  BY <1>1, <1>2 DEF Writes
<1>4. \A u \in Writers : writer[u] = -1 => writer'[u] = -1 /\ found'[u] = found[u]
  BY <1>2
<1>5. /\ view'.state \in {"reading", "shown"} => Viewed'
      /\ view'.state = "shown" => DOMAIN view'.read = X!ToSet(X!Planned)'
  BY <1>4, EndedStays
<1>6. /\ dir' = [made |-> dir'.made, manifest |-> dir'.manifest, files |-> dir'.files] /\ dir'.made
      /\ dir'.manifest # None /\ dir'.manifest.state = "complete" => WholeManifest(dir.manifest)'
  <2>1. CASE dir' = dir
    <3>1. dir'.manifest # None /\ dir'.manifest.state = "complete" => WholeManifest(dir.manifest)'
      BY <1>4, <2>1, ManifestStays
    <3> QED
      BY <1>1, <2>1, <3>1 DEF Writes, ExperimentTypes
  <2>2. ASSUME NEW m, dir' = [dir EXCEPT !.manifest = m], m.state = "complete" => WholeManifest(m)'
        PROVE  /\ dir' = [made |-> dir'.made, manifest |-> dir'.manifest, files |-> dir'.files] /\ dir'.made
               /\ dir'.manifest # None /\ dir'.manifest.state = "complete" => WholeManifest(dir.manifest)'
    <3>1. dir' = [made |-> dir.made, manifest |-> m, files |-> dir.files]
      BY <1>1, <2>2 DEF ExperimentTypes
    <3>2. WholeManifest(m)' /\ dir'.manifest = m => WholeManifest(dir.manifest)'
      BY DEF WholeManifest
    <3> QED
      BY <1>1, <2>2, <3>1, <3>2 DEF Writes
  <2> QED
    BY <2>1, <2>2
<1>7. ExperimentTypes'
  <2>1. writer' \in [Writers -> Int] /\ \A u \in Writers : writer'[u] \in Nat \/ writer'[u] = -1
    BY <1>1 DEF ExperimentTypes
  <2> QED
    BY <1>1, <1>6, <2>1, EvidencesStay DEF ExperimentTypes
<1> QED
  BY <1>3, <1>5, <1>6, <1>7 DEF ExperimentInv

LEMMA FailKeeps == ASSUME ExperimentInv, NEW w \in Writers, X!Fail(w) PROVE ExperimentInv'
<1> DEFINE m == [state |-> "failed", sealed |-> <<>>]
<1>1. /\ writer[w] > 0 /\ writer' = [writer EXCEPT ![w] = -1]
      /\ experimentsInput' = experimentsInput /\ found' = found /\ view' = view
      /\ dir' = dir \/ dir' = [dir EXCEPT !.manifest = m]
  BY DEF X!Fail, X!Manifest
<1>2. m.state # "complete"
  OBVIOUS
<1> HIDE DEF m
<1> QED
  BY <1>1, <1>2, StopComparisonKeeps

LEMMA CrashKeeps == ASSUME ExperimentInv, NEW w \in Writers, X!Crash(w) PROVE ExperimentInv'
BY StopComparisonKeeps DEF X!Crash

LEMMA SealKeeps == ASSUME ExperimentInv, NEW w \in Writers, X!Seal(w) PROVE ExperimentInv'
<1>0. PICK m : m = [state |-> "complete", sealed |-> dir.files]
  OBVIOUS
<1>1. /\ writer[w] = Len(X!Planned) + 1 /\ writer' = [writer EXCEPT ![w] = -1]
      /\ experimentsInput' = experimentsInput /\ found' = found /\ view' = view
      /\ dir' = [dir EXCEPT !.manifest = m]
  BY <1>0 DEF X!Seal, X!Manifest
<1>2. Len(X!Planned) \in 5..6
  BY PlanFacts
<1>3. writer[w] > 0 /\ 1..(writer[w] - 1) = 1..Len(X!Planned)
  BY <1>1, <1>2
<1>4. WroteOf(w) = X!ToSet(X!Planned)
  BY <1>3, PlanFacts DEF WroteOf
<1>5. Writes(w) /\ ExperimentTypes
  BY <1>3 DEF ExperimentInv
<1>6. "evidence" \in WroteOf(w)
  BY <1>4, PlanFacts
<1>7. writer'[w] = -1
  BY <1>1, <1>5 DEF ExperimentTypes
<1>8. X!ToSet(X!Planned)' = X!ToSet(X!Planned) /\ \A a : X!Content(w, a, found[w])' = X!Content(w, a, found[w])
  BY <1>1, ContentStays DEF X!ToSet
<1>9. m.sealed = dir.files
  BY <1>0
<1>10. found'[w] \in X!Evidences'
  BY <1>1, <1>5, <1>6, EvidencesStay DEF Writes
<1>11. /\ DOMAIN m.sealed = X!ToSet(X!Planned)'
       /\ \A a \in X!ToSet(X!Planned)' : m.sealed[a] = X!Content(w, a, found[w])'
  BY <1>4, <1>5, <1>8, <1>9 DEF Writes
<1>12. ASSUME NEW n, n = m PROVE WholeManifest(n)'
  BY <1>1, <1>7, <1>10, <1>11, <1>12 DEF WholeManifest
<1> QED
  BY <1>1, <1>3, <1>12, StopComparisonKeeps

LEMMA WriteKeeps == ASSUME ExperimentInv, NEW w \in Writers, X!WriteArtifact(w) PROVE ExperimentInv'
<1> DEFINE a == X!Planned[writer[w]]
<1>1. /\ writer[w] \in DOMAIN X!Planned /\ dir.manifest # None
      /\ \E new \in IF a = "evidence" THEN X!Evidences ELSE {found[w]} :
            /\ found' = [found EXCEPT ![w] = new]
            /\ dir' = [dir EXCEPT !.files = X!Written(a, X!Content(w, a, new))]
      /\ writer' = [writer EXCEPT ![w] = @ + 1]
      /\ experimentsInput' = experimentsInput /\ view' = view
  BY DEF X!WriteArtifact
<1>2. PICK new \in IF a = "evidence" THEN X!Evidences ELSE {found[w]} :
            /\ found' = [found EXCEPT ![w] = new]
            /\ dir' = [dir EXCEPT !.files = X!Written(a, X!Content(w, a, new))]
  BY <1>1
<1>3. /\ Len(X!Planned) \in 5..6 /\ writer[w] \in 1..Len(X!Planned) /\ writer[w] \in Nat /\ writer[w] > 0
  BY <1>1, PlanFacts
<1>4. Writes(w) /\ ExperimentTypes
  BY <1>3 DEF ExperimentInv
<1>5. writer'[w] = writer[w] + 1 /\ \A u \in Writers \ {w} : writer'[u] = writer[u]
  BY <1>1, <1>4 DEF ExperimentTypes
<1>6. found'[w] = new /\ \A u \in Writers \ {w} : found'[u] = found[u]
  BY <1>2, <1>4 DEF ExperimentTypes
<1>7. /\ dir' = [made |-> dir.made, manifest |-> dir.manifest, files |-> X!Written(a, X!Content(w, a, new))]
      /\ dir'.made = dir.made /\ dir'.manifest = dir.manifest
      /\ dir'.files = X!Written(a, X!Content(w, a, new))
  BY <1>2, <1>4 DEF ExperimentTypes
<1>8. a \notin WroteOf(w)
  <2> SUFFICES ASSUME NEW i \in 1..(writer[w] - 1), X!Planned[i] = a PROVE FALSE
    BY DEF WroteOf
  <2>1. i \in 1..Len(X!Planned) /\ i # writer[w]
    BY <1>3
  <2> QED
    BY <1>3, <2>1, PlanFacts
<1>9. WroteOf(w)' = WroteOf(w) \cup {a}
  <2>1. 1..(writer'[w] - 1) = 1..(writer[w] - 1) \cup {writer[w]}
    BY <1>3, <1>5
  <2>2. X!Planned' = X!Planned
    BY <1>1, ContentStays
  <2> QED
    BY <2>1, <2>2 DEF WroteOf
<1>10. \A x, y : X!Content(w, x, y)' = X!Content(w, x, y)
  BY <1>1, ContentStays
<1>11. ASSUME NEW b \in WroteOf(w) PROVE X!Content(w, b, found[w]) = X!Content(w, b, new)
  <2>1. CASE a = "evidence"
    <3>1. PICK k \in 1..Len(X!Planned) :
            /\ X!Planned[k] = "evidence"
            /\ \A i \in 1..(k - 1) : X!Planned[i] \in {"corpus", "gold", "legacy"}
      BY PlanFacts
    <3>2. k = writer[w]
      BY <1>3, <2>1, <3>1, PlanFacts
    <3>3. b \in {"corpus", "gold", "legacy"}
      BY <3>1, <3>2 DEF WroteOf
    <3> QED
      BY <3>3, EarlyContent
  <2>2. CASE a # "evidence"
    BY <1>2, <2>2
  <2> QED
    BY <2>1, <2>2
<1>12. DOMAIN dir.files = WroteOf(w) /\ \A b \in WroteOf(w) : dir.files[b] = X!Content(w, b, found[w])
  BY <1>4 DEF Writes
<1> HIDE DEF a
<1>13. /\ DOMAIN dir'.files = WroteOf(w)'
       /\ \A b \in WroteOf(w)' : dir'.files[b] = X!Content(w, b, new)
  <2>1. dir'.files = [x \in WroteOf(w) \cup {a} |-> IF x = a THEN X!Content(w, a, new) ELSE dir.files[x]]
    BY <1>7, <1>12 DEF X!Written
  <2> QED
    BY <1>8, <1>9, <1>11, <1>12, <2>1
<1>14. found' \in [Writers -> X!Evidences \cup {None}] /\ ("evidence" \in WroteOf(w)' => new \in X!Evidences)
  <2>1. CASE a = "evidence"
    BY <1>2, <1>4, <2>1 DEF ExperimentTypes
  <2>2. CASE a # "evidence"
    <3>1. new = found[w]
      BY <1>2, <2>2
    <3> QED
      BY <1>2, <1>4, <1>9, <2>2, <3>1 DEF ExperimentTypes, Writes
  <2> QED
    BY <2>1, <2>2
<1>15. Writes(w)'
  <2>1. writer'[w] <= (Len(X!Planned) + 1)'
    <3>1. X!Planned' = X!Planned
      BY <1>1, ContentStays
    <3> QED
      BY <1>3, <1>5, <3>1
  <2>2. \A u \in Writers : writer'[u] > 0 => u = w
    BY <1>4, <1>5 DEF Writes
  <2>3. \A b \in WroteOf(w)' : dir'.files[b] = X!Content(w, b, found[w])'
    BY <1>6, <1>10, <1>13
  <2>4. "evidence" \in WroteOf(w)' => found'[w] \in X!Evidences'
    BY <1>6, <1>14, EvidencesStay
  <2>5. dir'.made /\ dir'.manifest # None /\ dir'.manifest.state = "running"
    BY <1>1, <1>4, <1>7 DEF Writes
  <2> QED
    BY <1>13, <2>1, <2>2, <2>3, <2>4, <2>5 DEF Writes
<1>16. ASSUME NEW u \in Writers, writer'[u] > 0 PROVE Writes(u)'
  <2>1. u = w
    BY <1>4, <1>5, <1>16 DEF Writes
  <2> QED
    BY <1>15, <2>1
<1>17. \A u \in Writers : writer[u] = -1 => writer'[u] = -1 /\ found'[u] = found[u]
  BY <1>3, <1>5, <1>6
<1>18. /\ view'.state \in {"reading", "shown"} => Viewed'
       /\ view'.state = "shown" => DOMAIN view'.read = X!ToSet(X!Planned)'
  BY <1>1, <1>17, EndedStays
<1>19. dir'.manifest # None /\ dir'.manifest.state = "complete" => WholeManifest(dir.manifest)'
  BY <1>1, <1>7, <1>17, ManifestStays
<1>20. ExperimentTypes'
  <2>1. writer' \in [Writers -> Int] /\ \A u \in Writers : writer'[u] \in Nat \/ writer'[u] = -1
    BY <1>1, <1>3, <1>4, <1>5 DEF ExperimentTypes
  <2>2. dir' = [made |-> dir'.made, manifest |-> dir'.manifest, files |-> dir'.files]
    BY <1>7
  <2> QED
    BY <1>1, <1>4, <1>14, <2>1, <2>2, EvidencesStay DEF ExperimentTypes
<1>21. dir'.made
  BY <1>4, <1>7 DEF Writes
<1> QED
  BY <1>16, <1>18, <1>19, <1>20, <1>21 DEF ExperimentInv

(* Somebody exchanges a file: nobody is writing then, and what was sealed    *)
(* keeps its hashes.                                                        *)
LEMMA ExchangeKeeps == ASSUME ExperimentInv, X!Exchange PROVE ExperimentInv'
<1>1. PICK a \in DOMAIN dir.files : dir' = [dir EXCEPT !.files[a].by = None]
  BY DEF X!Exchange
<1>2. /\ dir.manifest # None /\ dir.manifest.state = "complete"
      /\ experimentsInput' = experimentsInput /\ view' = view /\ writer' = writer /\ found' = found
  BY DEF X!Exchange
<1>3. ExperimentTypes
  BY DEF ExperimentInv
<1>4. /\ dir' = [made |-> dir'.made, manifest |-> dir'.manifest, files |-> dir'.files]
      /\ dir'.made = dir.made /\ dir'.manifest = dir.manifest
  BY <1>1, <1>3 DEF ExperimentTypes
<1>5. \A w \in Writers : ~(writer[w] > 0)
  BY <1>2 DEF ExperimentInv, Writes
<1>6. dir.made
  BY <1>2 DEF ExperimentInv
<1>7. /\ view'.state \in {"reading", "shown"} => Viewed'
      /\ view'.state = "shown" => DOMAIN view'.read = X!ToSet(X!Planned)'
  BY <1>2, EndedStays
<1>8. dir'.manifest # None /\ dir'.manifest.state = "complete" => WholeManifest(dir.manifest)'
  BY <1>2, <1>4, ManifestStays
<1>9. ExperimentTypes'
  BY <1>2, <1>3, <1>4, EvidencesStay DEF ExperimentTypes
<1> QED
  BY <1>2, <1>4, <1>5, <1>6, <1>7, <1>8, <1>9 DEF ExperimentInv

(* The viewer.                                                              *)
LEMMA OthersStay ==
    ASSUME ExperimentInv, experimentsInput' = experimentsInput, dir' = dir, writer' = writer, found' = found,
           view' = [state |-> view'.state, manifest |-> view'.manifest, read |-> view'.read],
           view'.state \in {"reading", "shown"} => Viewed',
           view'.state = "shown" => DOMAIN view'.read = X!ToSet(X!Planned)
    PROVE  ExperimentInv'
<1>1. X!Planned' = X!Planned /\ X!ToSet(X!Planned)' = X!ToSet(X!Planned)
  BY EndedStays
<1>2. dir'.manifest # None /\ dir'.manifest.state = "complete" => WholeManifest(dir.manifest)'
  BY ManifestStays
<1>3. ASSUME NEW w \in Writers, writer[w] > 0 PROVE Writes(w)'
  <2>1. Writes(w)
    BY <1>3 DEF ExperimentInv
  <2>2. WroteOf(w)' = WroteOf(w)
    BY <1>1 DEF WroteOf
  <2>3. \A a : X!Content(w, a, found[w])' = X!Content(w, a, found[w])
    BY ContentStays
  <2> QED
    BY <1>1, <2>1, <2>2, <2>3, EvidencesStay DEF Writes
<1>4. ExperimentTypes'
  BY EvidencesStay DEF ExperimentTypes, ExperimentInv
<1> QED
  BY <1>1, <1>2, <1>3, <1>4 DEF ExperimentInv

\* A whole manifest stays whole as long as no comparison moves.
LEMMA StaysWhole ==
    ASSUME ExperimentInv, experimentsInput' = experimentsInput, writer' = writer, found' = found
    PROVE  \A m : WholeManifest(m) => WholeManifest(m)'
BY EvidencesStay, ManifestsStay

LEMMA OpenKeeps == ASSUME ExperimentInv, X!Open PROVE ExperimentInv'
<1>1. /\ view.state = "none" /\ dir.manifest # None
      /\ experimentsInput' = experimentsInput /\ dir' = dir /\ writer' = writer /\ found' = found
      /\ view' = IF dir.manifest.state = "complete"
                 THEN [state |-> "reading", manifest |-> dir.manifest, read |-> <<>>]
                 ELSE [X!NoView EXCEPT !.state = "refused"]
  BY DEF X!Open
<1>2. CASE dir.manifest.state = "complete"
  <2>1. view' = [state |-> "reading", manifest |-> dir.manifest, read |-> <<>>]
    BY <1>1, <1>2
  <2>2. PICK m : m = dir.manifest
    OBVIOUS
  <2>3. WholeManifest(m)'
    BY <1>1, <1>2, <2>2, StaysWhole DEF ExperimentInv
  <2>4. WholeManifest(view.manifest)'
    BY <2>1, <2>2, <2>3 DEF WholeManifest
  <2>5. DOMAIN (<<>>) = {}
    OBVIOUS
  <2>6. Viewed'
    BY <2>1, <2>4, <2>5 DEF Viewed
  <2> QED
    BY <1>1, <2>1, <2>6, OthersStay
<1>3. CASE dir.manifest.state # "complete"
  <2>1. view' = [state |-> "refused", manifest |-> None, read |-> <<>>]
    BY <1>1, <1>3 DEF X!NoView
  <2> QED
    BY <1>1, <2>1, OthersStay
<1> QED
  BY <1>2, <1>3

\* What is expected is what was planned.
LEMMA ExpectedIsPlanned ==
    ASSUME ExperimentInv, view.state = "reading"
    PROVE  X!Expected = X!ToSet(X!Planned) /\ DOMAIN view.manifest.sealed = X!ToSet(X!Planned)
<1>1. DOMAIN view.manifest.sealed = X!ToSet(X!Planned)
  BY DEF ExperimentInv, Viewed, WholeManifest
<1>2. X!Expected = {a \in X!ToSet(X!Artifacts) : a # "gold" \/ "gold" \in X!ToSet(X!Planned)}
  BY <1>1 DEF X!Expected
<1>3. /\ X!ToSet(X!Planned) \subseteq X!ToSet(X!Artifacts)
      /\ "gold" \in X!ToSet(X!Planned) => X!ToSet(X!Planned) = X!ToSet(X!Artifacts)
      /\ X!ToSet(X!Artifacts) \ {"gold"} \subseteq X!ToSet(X!Planned)
  BY PlanFacts
<1>4. CASE "gold" \in X!ToSet(X!Planned)
  BY <1>1, <1>2, <1>3, <1>4
<1>5. CASE "gold" \notin X!ToSet(X!Planned)
  BY <1>1, <1>2, <1>3, <1>5
<1> QED
  BY <1>4, <1>5

LEMMA ReadKeeps == ASSUME ExperimentInv, NEW a, X!Read(a) PROVE ExperimentInv'
<1>1. /\ view.state = "reading" /\ a \in X!Expected \ DOMAIN view.read
      /\ experimentsInput' = experimentsInput /\ dir' = dir /\ writer' = writer /\ found' = found
      /\ view' = IF X!Intact(a)
                 THEN [view EXCEPT !.read = [x \in DOMAIN @ \cup {a} |-> IF x = a THEN dir.files[a] ELSE @[x]]]
                 ELSE [view EXCEPT !.state = "refused"]
  BY DEF X!Read
<1>2. view = [state |-> view.state, manifest |-> view.manifest, read |-> view.read] /\ Viewed
  BY <1>1 DEF ExperimentInv, ExperimentTypes
<1>3. a \in X!ToSet(X!Planned)
  BY <1>1, ExpectedIsPlanned
<1>4. CASE X!Intact(a)
  <2> DEFINE r == [x \in DOMAIN view.read \cup {a} |-> IF x = a THEN dir.files[a] ELSE view.read[x]]
  <2>1. view' = [state |-> "reading", manifest |-> view.manifest, read |-> r]
    BY <1>1, <1>2, <1>4
  <2>2. dir.files[a] = view.manifest.sealed[a]
    BY <1>4 DEF X!Intact
  <2>3. DOMAIN r \subseteq X!ToSet(X!Planned) /\ \A b \in DOMAIN r : r[b] = view.manifest.sealed[b]
    BY <1>2, <1>3, <2>2 DEF Viewed
  <2>4. PICK m : m = view.manifest
    OBVIOUS
  <2>5. WholeManifest(m)'
    BY <1>1, <1>2, <2>4, StaysWhole DEF Viewed
  <2> HIDE DEF r
  <2>6. view'.manifest = view.manifest /\ view'.read = r /\ view'.state = "reading"
    BY <2>1
  <2>7. WholeManifest(view.manifest)'
    BY <2>4, <2>5, <2>6 DEF WholeManifest
  <2>8. X!ToSet(X!Planned)' = X!ToSet(X!Planned)
    BY <1>1, EndedStays
  <2>9. Viewed'
    BY <2>3, <2>6, <2>7, <2>8 DEF Viewed
  <2> QED
    BY <1>1, <2>1, <2>6, <2>9, OthersStay
<1>5. CASE ~X!Intact(a)
  <2>1. view' = [state |-> "refused", manifest |-> view.manifest, read |-> view.read]
    BY <1>1, <1>2, <1>5
  <2> QED
    BY <1>1, <2>1, OthersStay
<1> QED
  BY <1>4, <1>5

LEMMA ShowKeeps == ASSUME ExperimentInv, X!Show PROVE ExperimentInv'
<1>1. PICK s \in {"shown", "refused"} : view' = [view EXCEPT !.state = s]
  BY DEF X!Show
<1>2. /\ view.state = "reading" /\ X!Expected \subseteq DOMAIN view.read
      /\ experimentsInput' = experimentsInput /\ dir' = dir /\ writer' = writer /\ found' = found
  BY DEF X!Show
<1>3. view = [state |-> view.state, manifest |-> view.manifest, read |-> view.read] /\ Viewed
  BY <1>2 DEF ExperimentInv, ExperimentTypes
<1>4. view' = [state |-> s, manifest |-> view.manifest, read |-> view.read]
  BY <1>1, <1>3
<1>5. DOMAIN view.read = X!ToSet(X!Planned)
  BY <1>2, <1>3, ExpectedIsPlanned DEF Viewed
<1>6. PICK m : m = view.manifest
  OBVIOUS
<1>7. WholeManifest(m)'
  BY <1>2, <1>3, <1>6, StaysWhole DEF Viewed
<1>8. view'.manifest = view.manifest /\ view'.read = view.read
  BY <1>4
<1>9. WholeManifest(view.manifest)'
  BY <1>6, <1>7, <1>8 DEF WholeManifest
<1>10. X!ToSet(X!Planned)' = X!ToSet(X!Planned)
  BY <1>2, EndedStays
<1>11. Viewed'
  BY <1>3, <1>8, <1>9, <1>10 DEF Viewed
<1> QED
  BY <1>2, <1>4, <1>5, <1>8, <1>11, OthersStay

LEMMA ExperimentNext == ASSUME ExperimentInv, X!Next PROVE ExperimentInv'
BY BeginKeeps, RefuseKeeps, AnnounceKeeps, WriteKeeps, SealKeeps, FailKeeps, CrashKeeps, ExchangeKeeps,
   OpenKeeps, ReadKeeps, ShowKeeps DEF X!Next

LEMMA ExperimentStill ==
    ASSUME ExperimentInv, UNCHANGED experimentsVars
    PROVE  ExperimentInv'
<1>1. experimentsInput' = experimentsInput /\ dir' = dir /\ writer' = writer /\ found' = found /\ view' = view
  BY DEF experimentsVars
<1>2. /\ view'.state \in {"reading", "shown"} => Viewed'
      /\ view'.state = "shown" => DOMAIN view'.read = X!ToSet(X!Planned)
  BY <1>1, EndedStays
<1>3. view' = [state |-> view'.state, manifest |-> view'.manifest, read |-> view'.read]
  BY <1>1 DEF ExperimentInv, ExperimentTypes
<1> QED
  BY <1>1, <1>2, <1>3, OthersStay

(* What a page shows was written by one comparison that ended.             *)
LEMMA OneRunIsShown == ASSUME ExperimentInv PROVE X!ShownIsOneRun
<1> SUFFICES ASSUME view.state = "shown"
    PROVE  \E w \in Writers :
            /\ found[w] # None /\ DOMAIN view.read = X!ToSet(X!Planned)
            /\ \A a \in DOMAIN view.read : view.read[a] = X!Content(w, a, found[w])
  BY DEF X!ShownIsOneRun
<1>1. Viewed /\ DOMAIN view.read = X!ToSet(X!Planned)
  BY DEF ExperimentInv
<1>2. PICK w \in Writers :
        /\ found[w] \in X!Evidences
        /\ \A a \in X!ToSet(X!Planned) : view.manifest.sealed[a] = X!Content(w, a, found[w])
  BY <1>1 DEF Viewed, WholeManifest
<1>3. found[w] # None
  BY <1>2, ExperimentFacts
<1> QED
  BY <1>1, <1>2, <1>3 DEF Viewed

(* The graphs that are shown of resolved results.                           *)

LEMMA GCardinality == \A S : G!Cardinality(S) = Cardinality(S)
BY DEF G!Cardinality, Cardinality

LEMMA GraphFacts ==
    /\ MaxDepth \in Nat
    /\ \A g \in Sources :
        /\ IsFiniteSet(g.nodes) /\ \A n \in g.nodes : n.sources = {}
        /\ IsFiniteSet(g.edges) /\ \A e \in g.edges : e.of = <<>>
<1>1. G!GraphAssumption
  BY ResolutionAssumption DEF ResolutionAssumption
<1>2. MaxDepth \in Nat
  BY <1>1 DEF G!GraphAssumption
<1>3. ASSUME NEW g \in Sources
      PROVE  /\ IsFiniteSet(g.nodes) /\ \A n \in g.nodes : n.sources = {}
             /\ IsFiniteSet(g.edges) /\ \A e \in g.edges : e.of = <<>>
  <2>1. /\ IsFiniteSet(g.nodes) /\ \A n \in g.nodes : n = G!Node(n.rec)
        /\ IsFiniteSet(g.edges) /\ \A e \in g.edges : e.of = <<>>
    BY <1>1 DEF G!GraphAssumption, G!IsFiniteSet, IsFiniteSet
  <2> QED
    BY <2>1 DEF G!Node
<1> QED
  BY <1>2, <1>3

(* Reading a node, merge by merge: level k has what its members were merged *)
(* from k times before.                                                     *)
MemberLevels(n, d, f) == f = [i \in 0..d |-> IF i = 0 THEN {n} ELSE UNION {m.sources : m \in f[i - 1]}]
Level(n) == CHOOSE f : MemberLevels(n, MaxDepth, f)

LEMMA MemberLevelsExist ==
    ASSUME NEW n
    PROVE  \A d \in Nat : \E f : MemberLevels(n, d, f)
<1> DEFINE wrong == {d \in Nat : ~\E f : MemberLevels(n, d, f)}
<1> SUFFICES ASSUME wrong # {} PROVE FALSE
  OBVIOUS
<1>1. wrong \subseteq Nat
  OBVIOUS
<1> HIDE DEF wrong
<1>2. PICK d \in wrong : \A x \in wrong : d <= x
  BY <1>1, LeastNat
<1>3. d \in Nat /\ ~\E f : MemberLevels(n, d, f)
  BY <1>2 DEF wrong
<1>4. d # 0
  <2> SUFFICES ASSUME d = 0 PROVE FALSE
    OBVIOUS
  <2> DEFINE f == [i \in 0..0 |-> {n}]
  <2>1. 0..0 = {0}
    OBVIOUS
  <2>2. f = [i \in 0..0 |-> IF i = 0 THEN {n} ELSE UNION {m.sources : m \in f[i - 1]}]
    BY <2>1
  <2> QED
    BY <1>3, <2>2 DEF MemberLevels
<1>5. d - 1 \in Nat /\ ~(d <= d - 1)
  BY <1>3, <1>4
<1>6. PICK f : MemberLevels(n, d - 1, f)
  BY <1>2, <1>5 DEF wrong
<1> DEFINE next1 == UNION {m.sources : m \in f[d - 1]}
           h == [i \in 0..d |-> IF i = d THEN next1 ELSE f[i]]
<1>7. ASSUME NEW i \in 0..d
      PROVE  h[i] = IF i = 0 THEN {n} ELSE UNION {m.sources : m \in h[i - 1]}
  <2>1. CASE i = d
    <3>1. h[d] = next1 /\ h[d - 1] = f[d - 1]
      BY <1>3, <1>5
    <3> QED
      BY <1>4, <2>1, <3>1
  <2>2. CASE i # d /\ i # 0
    <3>1. i \in 0..(d - 1) /\ i - 1 \in 0..d /\ i - 1 # d
      BY <1>3, <2>2
    <3>2. f[i] = UNION {m.sources : m \in f[i - 1]}
      BY <1>6, <2>2, <3>1 DEF MemberLevels
    <3>3. h[i] = f[i] /\ h[i - 1] = f[i - 1]
      BY <2>2, <3>1
    <3> QED
      BY <2>2, <3>2, <3>3
  <2>3. CASE i = 0 /\ i # d
    <3>1. i \in 0..(d - 1)
      BY <1>3, <2>3
    <3>2. f[0] = {n}
      BY <1>6, <2>3, <3>1 DEF MemberLevels
    <3> QED
      BY <2>3, <3>2
  <2> QED
    BY <2>1, <2>2, <2>3
<1>8. h = [i \in 0..d |-> IF i = 0 THEN {n} ELSE UNION {m.sources : m \in h[i - 1]}]
  BY <1>7
<1> HIDE DEF h
<1> QED
  BY <1>3, <1>8 DEF MemberLevels

LEMMA LevelFacts ==
    ASSUME NEW n
    PROVE  /\ Level(n)[0] = {n}
           /\ \A i \in 1..MaxDepth : Level(n)[i] = UNION {m.sources : m \in Level(n)[i - 1]}
           /\ G!SourceRecords(n) = {m.rec : m \in UNION {Level(n)[i] : i \in 0..MaxDepth}}
<1>1. MaxDepth \in Nat
  BY GraphFacts
<1>2. MemberLevels(n, MaxDepth, Level(n))
  BY <1>1, MemberLevelsExist DEF Level
<1>3. Level(n) = CHOOSE f : f = [i \in 0..MaxDepth |-> IF i = 0 THEN {n} ELSE UNION {m.sources : m \in f[i - 1]}]
  BY DEF Level, MemberLevels
<1>4. G!SourceRecords(n) = {m.rec : m \in UNION {Level(n)[i] : i \in 0..MaxDepth}}
  BY <1>3 DEF G!SourceRecords
<1>5. \A i \in 0..MaxDepth : Level(n)[i] = IF i = 0 THEN {n} ELSE UNION {m.sources : m \in Level(n)[i - 1]}
  BY <1>2 DEF MemberLevels
<1>6. Level(n)[0] = {n}
  <2>1. 0 \in 0..MaxDepth
    BY <1>1
  <2> QED
    BY <1>5, <2>1
<1>7. \A i \in 1..MaxDepth : Level(n)[i] = UNION {m.sources : m \in Level(n)[i - 1]}
  <2> SUFFICES ASSUME NEW i \in 1..MaxDepth PROVE Level(n)[i] = UNION {m.sources : m \in Level(n)[i - 1]}
    OBVIOUS
  <2>1. i \in 0..MaxDepth /\ i # 0
    BY <1>1
  <2> QED
    BY <1>5, <2>1
<1> QED
  BY <1>4, <1>6, <1>7

\* Nothing is below an empty level.
LEMMA LevelsEnd ==
    ASSUME NEW n, NEW d \in 0..MaxDepth, Level(n)[d] = {}
    PROVE  \A i \in d..MaxDepth : Level(n)[i] = {}
<1> DEFINE wrong == {i \in d..MaxDepth : Level(n)[i] # {}}
<1> SUFFICES ASSUME wrong # {} PROVE FALSE
  OBVIOUS
<1>0. MaxDepth \in Nat /\ d \in Nat
  BY GraphFacts
<1>1. wrong \subseteq Nat
  BY <1>0
<1> HIDE DEF wrong
<1>2. PICK i \in wrong : \A x \in wrong : i <= x
  BY <1>1, LeastNat
<1>3. i \in d..MaxDepth /\ Level(n)[i] # {}
  BY <1>2 DEF wrong
<1>4. i # d /\ i \in 1..MaxDepth /\ i - 1 \in d..MaxDepth /\ ~(i <= i - 1)
  BY <1>0, <1>3
<1>5. Level(n)[i - 1] = {}
  BY <1>2, <1>4 DEF wrong
<1>6. Level(n)[i] = UNION {m.sources : m \in Level(n)[i - 1]}
  BY <1>4, LevelFacts
<1> QED
  BY <1>3, <1>5, <1>6

\* The levels of a merged node are those of its members, one further down.
OfAll(S, i) == UNION {Level(m)[i] : m \in S}

LEMMA MergedLevels ==
    ASSUME NEW p
    PROVE  \A i \in 1..MaxDepth : Level(p)[i] = OfAll(p.sources, i - 1)
<1> DEFINE wrong == {i \in 1..MaxDepth : Level(p)[i] # OfAll(p.sources, i - 1)}
<1> SUFFICES ASSUME wrong # {} PROVE FALSE
  OBVIOUS
<1>0. MaxDepth \in Nat
  BY GraphFacts
<1>1. wrong \subseteq Nat
  BY <1>0
<1> HIDE DEF wrong
<1>2. PICK i \in wrong : \A x \in wrong : i <= x
  BY <1>1, LeastNat
<1>3. i \in 1..MaxDepth /\ Level(p)[i] # OfAll(p.sources, i - 1)
  BY <1>2 DEF wrong
<1>4. Level(p)[i] = UNION {m.sources : m \in Level(p)[i - 1]}
  BY <1>3, LevelFacts
<1>5. CASE i = 1
  <2>1. Level(p)[0] = {p} /\ \A m : Level(m)[0] = {m}
    BY LevelFacts
  <2>2. OfAll(p.sources, 0) = p.sources
    BY <2>1 DEF OfAll
  <2>3. Level(p)[1] = p.sources
    <3>1. i - 1 = 0
      BY <1>5
    <3>2. Level(p)[1] = UNION {m.sources : m \in {p}}
      BY <1>4, <1>5, <2>1, <3>1
    <3> QED
      BY <3>2
  <2> QED
    BY <1>3, <1>5, <2>2, <2>3
<1>6. CASE i # 1
  <2>1. i - 1 \in 1..MaxDepth /\ ~(i <= i - 1) /\ i \in Nat
    BY <1>0, <1>3, <1>6
  <2>2. Level(p)[i - 1] = OfAll(p.sources, i - 2)
    <3>1. i - 1 \notin wrong
      BY <1>2, <2>1
    <3>2. (i - 1) - 1 = i - 2
      BY <2>1
    <3> QED
      BY <2>1, <3>1, <3>2 DEF wrong
  <2>3. ASSUME NEW m PROVE Level(m)[i - 1] = UNION {x.sources : x \in Level(m)[i - 2]}
    <3>1. (i - 1) - 1 = i - 2
      BY <2>1
    <3> QED
      BY <2>1, <3>1, LevelFacts
  <2>4. OfAll(p.sources, i - 1) = UNION {UNION {x.sources : x \in Level(m)[i - 2]} : m \in p.sources}
    BY <2>3 DEF OfAll
  <2>5. Level(p)[i] = UNION {x.sources : x \in UNION {Level(m)[i - 2] : m \in p.sources}}
    BY <1>4, <2>2 DEF OfAll
  <2> QED
    BY <1>3, <2>4, <2>5
<1> QED
  BY <1>5, <1>6

LEMMA MergedRecords ==
    ASSUME NEW p, \A m \in p.sources : Level(m)[MaxDepth] = {}
    PROVE  G!SourceRecords(p) = {p.rec} \cup UNION {G!SourceRecords(m) : m \in p.sources}
<1>0. MaxDepth \in Nat
  BY GraphFacts
<1>1. ASSUME NEW r \in G!SourceRecords(p)
      PROVE  r \in {p.rec} \cup UNION {G!SourceRecords(m) : m \in p.sources}
  <2>1. PICK i \in 0..MaxDepth : \E x \in Level(p)[i] : r = x.rec
    BY LevelFacts
  <2>2. PICK x \in Level(p)[i] : r = x.rec
    BY <2>1
  <2>3. CASE i = 0
    BY <2>2, <2>3, LevelFacts
  <2>4. CASE i # 0
    <3>1. i \in 1..MaxDepth /\ i - 1 \in 0..MaxDepth
      BY <1>0, <2>4
    <3>2. PICK m \in p.sources : x \in Level(m)[i - 1]
      BY <2>2, <3>1, MergedLevels DEF OfAll
    <3>3. r \in G!SourceRecords(m)
      BY <2>2, <3>1, <3>2, LevelFacts
    <3> QED
      BY <3>2, <3>3
  <2> QED
    BY <2>3, <2>4
<1>2. p.rec \in G!SourceRecords(p)
  <2>1. p \in Level(p)[0] /\ 0 \in 0..MaxDepth
    BY <1>0, LevelFacts
  <2> QED
    BY <2>1, LevelFacts
<1>3. ASSUME NEW m \in p.sources, NEW r \in G!SourceRecords(m) PROVE r \in G!SourceRecords(p)
  <2>1. PICK i \in 0..MaxDepth : \E x \in Level(m)[i] : r = x.rec
    BY LevelFacts
  <2>2. PICK x \in Level(m)[i] : r = x.rec
    BY <2>1
  <2>3. i # MaxDepth
    BY <2>2
  <2>4. i + 1 \in 1..MaxDepth /\ (i + 1) - 1 = i /\ i + 1 \in 0..MaxDepth
    BY <1>0, <2>3
  <2>5. Level(p)[i + 1] = OfAll(p.sources, i)
    BY <2>4, MergedLevels
  <2>6. x \in Level(p)[i + 1]
    BY <2>2, <2>5 DEF OfAll
  <2> QED
    BY <2>2, <2>4, <2>6, LevelFacts
<1> QED
  BY <1>1, <1>2, <1>3

(* Following a relation back, projection by projection.                     *)
EdgeForms(e, d, f) == f = [k \in 0..d |-> IF k = 0 THEN e ELSE IF f[k - 1].of = <<>> THEN f[k - 1] ELSE f[k - 1].of[1]]
Form(e) == CHOOSE f : EdgeForms(e, MaxDepth, f)
Back(e) == IF e.of = <<>> THEN e ELSE e.of[1]

LEMMA EdgeFormsExist ==
    ASSUME NEW e
    PROVE  \A d \in Nat : \E f : EdgeForms(e, d, f)
<1> DEFINE wrong == {d \in Nat : ~\E f : EdgeForms(e, d, f)}
<1> SUFFICES ASSUME wrong # {} PROVE FALSE
  OBVIOUS
<1>1. wrong \subseteq Nat
  OBVIOUS
<1> HIDE DEF wrong
<1>2. PICK d \in wrong : \A x \in wrong : d <= x
  BY <1>1, LeastNat
<1>3. d \in Nat /\ ~\E f : EdgeForms(e, d, f)
  BY <1>2 DEF wrong
<1>4. d # 0
  <2> SUFFICES ASSUME d = 0 PROVE FALSE
    OBVIOUS
  <2> DEFINE f == [i \in 0..0 |-> e]
  <2>1. 0..0 = {0}
    OBVIOUS
  <2>2. f = [k \in 0..0 |-> IF k = 0 THEN e ELSE IF f[k - 1].of = <<>> THEN f[k - 1] ELSE f[k - 1].of[1]]
    BY <2>1
  <2> QED
    BY <1>3, <2>2 DEF EdgeForms
<1>5. d - 1 \in Nat /\ ~(d <= d - 1)
  BY <1>3, <1>4
<1>6. PICK f : EdgeForms(e, d - 1, f)
  BY <1>2, <1>5 DEF wrong
<1>60. \A i \in 0..(d - 1) : f[i] = IF i = 0 THEN e ELSE Back(f[i - 1])
  BY <1>6 DEF EdgeForms, Back
<1> DEFINE next1 == Back(f[d - 1])
           h == [i \in 0..d |-> IF i = d THEN next1 ELSE f[i]]
<1>7. ASSUME NEW i \in 0..d
      PROVE  h[i] = IF i = 0 THEN e ELSE Back(h[i - 1])
  <2>1. CASE i = d
    <3>1. h[d] = next1 /\ h[d - 1] = f[d - 1]
      BY <1>3, <1>5
    <3> QED
      BY <1>4, <2>1, <3>1
  <2>2. CASE i # d /\ i # 0
    <3>1. i \in 0..(d - 1) /\ i - 1 \in 0..d /\ i - 1 # d
      BY <1>3, <2>2
    <3>2. f[i] = Back(f[i - 1])
      BY <1>60, <2>2, <3>1
    <3>3. h[i] = f[i] /\ h[i - 1] = f[i - 1]
      BY <2>2, <3>1
    <3> QED
      BY <2>2, <3>2, <3>3
  <2>3. CASE i = 0 /\ i # d
    <3>1. i \in 0..(d - 1)
      BY <1>3, <2>3
    <3>2. f[0] = e
      BY SMTT(30), <1>60, <2>3, <3>1
    <3> QED
      BY <2>3, <3>2
  <2> QED
    BY <2>1, <2>2, <2>3
<1>8. h = [i \in 0..d |-> IF i = 0 THEN e ELSE IF h[i - 1].of = <<>> THEN h[i - 1] ELSE h[i - 1].of[1]]
  BY <1>7 DEF Back
<1> HIDE DEF h
<1> QED
  BY <1>3, <1>8 DEF EdgeForms

LEMMA FormFacts ==
    ASSUME NEW e
    PROVE  /\ Form(e)[0] = e
           /\ \A i \in 1..MaxDepth : Form(e)[i] = Back(Form(e)[i - 1])
           /\ G!FirstForm(e) = Form(e)[MaxDepth]
<1>1. MaxDepth \in Nat
  BY GraphFacts
<1>2. EdgeForms(e, MaxDepth, Form(e))
  BY <1>1, EdgeFormsExist DEF Form
<1>3. Form(e) = CHOOSE f : f = [k \in 0..MaxDepth |-> IF k = 0 THEN e ELSE IF f[k - 1].of = <<>> THEN f[k - 1] ELSE f[k - 1].of[1]]
  BY DEF Form, EdgeForms
<1>4. G!FirstForm(e) = Form(e)[MaxDepth]
  BY <1>3 DEF G!FirstForm
<1>5. \A i \in 0..MaxDepth : Form(e)[i] = IF i = 0 THEN e ELSE Back(Form(e)[i - 1])
  BY <1>2 DEF EdgeForms, Back
<1>6. Form(e)[0] = e
  <2>1. 0 \in 0..MaxDepth
    BY <1>1
  <2> QED
    BY <1>5, <2>1
<1>7. \A i \in 1..MaxDepth : Form(e)[i] = Back(Form(e)[i - 1])
  <2> SUFFICES ASSUME NEW i \in 1..MaxDepth PROVE Form(e)[i] = Back(Form(e)[i - 1])
    OBVIOUS
  <2>1. i \in 0..MaxDepth /\ i # 0
    BY <1>1
  <2> QED
    BY <1>5, <2>1
<1> QED
  BY <1>4, <1>6, <1>7

\* A first relation is its own form from there on.
LEMMA FormsEnd ==
    ASSUME NEW e, NEW d \in 0..MaxDepth, Form(e)[d].of = <<>>
    PROVE  \A i \in d..MaxDepth : Form(e)[i] = Form(e)[d]
<1> DEFINE wrong == {i \in d..MaxDepth : Form(e)[i] # Form(e)[d]}
<1> SUFFICES ASSUME wrong # {} PROVE FALSE
  OBVIOUS
<1>0. MaxDepth \in Nat /\ d \in Nat
  BY GraphFacts
<1>1. wrong \subseteq Nat
  BY <1>0
<1> HIDE DEF wrong
<1>2. PICK i \in wrong : \A x \in wrong : i <= x
  BY <1>1, LeastNat
<1>3. i \in d..MaxDepth /\ Form(e)[i] # Form(e)[d]
  BY <1>2 DEF wrong
<1>4. i # d /\ i \in 1..MaxDepth /\ i - 1 \in d..MaxDepth /\ ~(i <= i - 1)
  BY <1>0, <1>3
<1>5. Form(e)[i - 1] = Form(e)[d]
  BY <1>2, <1>4 DEF wrong
<1>6. Form(e)[i] = Back(Form(e)[i - 1])
  BY <1>4, FormFacts
<1> QED
  BY <1>3, <1>5, <1>6 DEF Back

\* The forms of a projected relation are those of what it was projected from,
\* one further down.
LEMMA ProjectedForms ==
    ASSUME NEW e, NEW p, p.of = <<e>>
    PROVE  \A i \in 1..MaxDepth : Form(p)[i] = Form(e)[i - 1]
<1> DEFINE wrong == {i \in 1..MaxDepth : Form(p)[i] # Form(e)[i - 1]}
<1> SUFFICES ASSUME wrong # {} PROVE FALSE
  OBVIOUS
<1>0. MaxDepth \in Nat
  BY GraphFacts
<1>1. wrong \subseteq Nat
  BY <1>0
<1> HIDE DEF wrong
<1>2. PICK i \in wrong : \A x \in wrong : i <= x
  BY <1>1, LeastNat
<1>3. i \in 1..MaxDepth /\ Form(p)[i] # Form(e)[i - 1]
  BY <1>2 DEF wrong
<1>4. Form(p)[i] = Back(Form(p)[i - 1])
  BY <1>3, FormFacts
<1>5. CASE i = 1
  <2>1. Form(p)[0] = p /\ Form(e)[0] = e
    BY FormFacts
  <2>2. i - 1 = 0
    BY <1>5
  <2>3. p.of # <<>> /\ p.of[1] = e
    OBVIOUS
  <2> QED
    BY <1>3, <1>4, <2>1, <2>2, <2>3 DEF Back
<1>6. CASE i # 1
  <2>1. i - 1 \in 1..MaxDepth /\ ~(i <= i - 1) /\ i \in Nat
    BY <1>0, <1>3, <1>6
  <2>2. (i - 1) - 1 = i - 2
    BY <2>1
  <2>3. Form(p)[i - 1] = Form(e)[i - 2]
    <3>1. i - 1 \notin wrong
      BY <1>2, <2>1
    <3> QED
      BY <2>1, <2>2, <3>1 DEF wrong
  <2>4. Form(e)[i - 1] = Back(Form(e)[i - 2])
    BY <2>1, <2>2, FormFacts
  <2> QED
    BY <1>3, <1>4, <2>3, <2>4
<1> QED
  BY <1>5, <1>6

\* What was projected stands for what it was projected from.
LEMMA ProjectedFirstForm ==
    ASSUME NEW e, NEW p, p.of = <<e>>, NEW d \in 1..MaxDepth, d # MaxDepth, Form(e)[d - 1].of = <<>>
    PROVE  /\ G!FirstForm(p) = G!FirstForm(e)
           /\ Form(p)[d].of = <<>>
<1>1. MaxDepth \in Nat /\ d \in Nat
  BY GraphFacts
<1>2. d - 1 \in 0..MaxDepth /\ MaxDepth - 1 \in (d - 1)..MaxDepth /\ MaxDepth \in (d - 1)..MaxDepth /\ MaxDepth \in 1..MaxDepth
  BY <1>1
<1>3. Form(e)[MaxDepth] = Form(e)[d - 1] /\ Form(e)[MaxDepth - 1] = Form(e)[d - 1]
  BY <1>2, FormsEnd
<1>4. Form(p)[MaxDepth] = Form(e)[MaxDepth - 1] /\ Form(p)[d] = Form(e)[d - 1]
  BY <1>2, ProjectedForms
<1> QED
  BY <1>3, <1>4, FormFacts

(* Disagreements.                                                           *)
LEMMA FiniteValues ==
    ASSUME NEW S, IsFiniteSet(S), NEW f
    PROVE  IsFiniteSet({f[x] : x \in S})
<1> DEFINE T == {f[x] : x \in S}
           h == [x \in S |-> f[x]]
<1>1. h \in Surjection(S, T)
  BY DEF Surjection
<1> QED
  BY <1>1, FS_Surjection

LEMMA SeveralValues ==
    ASSUME NEW S, IsFiniteSet(S), NEW u \in S, NEW v \in S, u # v
    PROVE  Cardinality(S) > 1
<1>1. IsFiniteSet({u}) /\ Cardinality({u}) = 1
  BY FS_Singleton
<1>2. {u} \cup {v} \in SUBSET S
  OBVIOUS
<1>3. Cardinality({u} \cup {v}) = 1 + 1
  <2>1. v \notin {u}
    OBVIOUS
  <2> QED
    BY <1>1, <2>1, FS_AddElement
<1>4. Cardinality({u} \cup {v}) <= Cardinality(S) /\ Cardinality(S) \in Nat
  BY <1>2, FS_Subset, FS_CardinalityType
<1> QED
  BY <1>3, <1>4

\* All values on which the records a node stands for disagree are among the
\* conflicts it is shown with.
Shows(n) ==
    \A a \in G!SourceRecords(n) : \A b \in G!SourceRecords(n) : \A f \in DOMAIN a.fields \cap DOMAIN b.fields :
        a.fields[f] # b.fields[f] =>
            \E z \in n.conflicts : z[1] = f /\ a.fields[f] \in z[2] /\ b.fields[f] \in z[2]

LEMMA MergedShows ==
    ASSUME NEW S, NEW p, p.conflicts = G!Conflicts(S),
           G!SourceRecords(p) = UNION {G!SourceRecords(n) : n \in S},
           IsFiniteSet(G!SourceRecords(p))
    PROVE  Shows(p)
<1> DEFINE recs == UNION {G!SourceRecords(n) : n \in S}
           values(f) == {r.fields[f] : r \in {x \in recs : f \in DOMAIN x.fields}}
<1>1. G!Conflicts(S) = {<<f, values(f)>> : f \in {h \in UNION {DOMAIN r.fields : r \in recs} : G!Cardinality(values(h)) > 1}}
  BY DEF G!Conflicts
<1>2. SUFFICES ASSUME NEW a \in recs, NEW b \in recs, NEW f \in DOMAIN a.fields \cap DOMAIN b.fields, a.fields[f] # b.fields[f]
               PROVE  \E z \in G!Conflicts(S) : z[1] = f /\ a.fields[f] \in z[2] /\ b.fields[f] \in z[2]
  BY DEF Shows
<1>3. IsFiniteSet(values(f))
  <2> DEFINE at == {x \in recs : f \in DOMAIN x.fields}
             value == [r \in at |-> r.fields[f]]
  <2>1. IsFiniteSet(at)
    <3>1. at \in SUBSET recs
      OBVIOUS
    <3> QED
      BY <3>1, FS_Subset
  <2>2. values(f) = {value[r] : r \in at}
    OBVIOUS
  <2> HIDE DEF at, value, values
  <2> QED
    BY <2>1, <2>2, FiniteValues
<1>4. a.fields[f] \in values(f) /\ b.fields[f] \in values(f)
  OBVIOUS
<1>5. f \in UNION {DOMAIN r.fields : r \in recs}
  BY <1>2
<1>6. G!Cardinality(values(f)) > 1
  <2> HIDE DEF values
  <2> QED
    BY <1>2, <1>3, <1>4, SeveralValues, GCardinality
<1>7. <<f, values(f)>> \in G!Conflicts(S)
  <2> HIDE DEF values, recs
  <2> DEFINE several == {h \in UNION {DOMAIN r.fields : r \in recs} : G!Cardinality(values(h)) > 1}
  <2>1. f \in several
    BY <1>5, <1>6
  <2>2. G!Conflicts(S) = {<<h, values(h)>> : h \in several}
    BY <1>1
  <2> HIDE DEF several
  <2> QED
    BY <2>1, <2>2
<1> HIDE DEF values
<1> QED
  BY <1>4, <1>7

(* How the graph of a run stands to the graph that was loaded first.        *)
IdsOf(g) == {n.rec.id : n \in g.nodes}
Carried(s, c, i) == {m.rec : m \in {x \in s.nodes : c[x.rec.id] = i}}

Loaded(s) ==
    /\ IsFiniteSet(s.nodes) /\ IsFiniteSet(s.edges)
    /\ \A e \in s.edges : e.from \in IdsOf(s) /\ e.to \in IdsOf(s)

Framed(g, s, c) ==
    /\ g.kind = s.kind
    /\ IsFiniteSet(g.nodes)
    /\ \A m \in g.nodes : \A n \in g.nodes : m.rec.id = n.rec.id => m = n
    /\ c \in [IdsOf(s) -> IdsOf(g)]

NodeKept(n, s, c, d) ==
    /\ Level(n)[d] = {}
    /\ G!SourceRecords(n) = Carried(s, c, n.rec.id)
    /\ Shows(n)

Back1(s, c, e) == e.from = c[G!FirstForm(e).from] /\ e.to = c[G!FirstForm(e).to]

EdgesKept(g, s, c, d) ==
    /\ {G!FirstForm(e) : e \in g.edges} = s.edges
    /\ \A e \in g.edges : \A h \in g.edges : G!FirstForm(e) = G!FirstForm(h) => e = h
    /\ \A e \in g.edges :
        /\ Form(e)[d - 1].of = <<>> /\ Back1(s, c, e)
        /\ e.from \in IdsOf(g) /\ e.to \in IdsOf(g)

KeptWhole(g, s, c, d) ==
    /\ Loaded(s) /\ Framed(g, s, c)
    /\ \A n \in g.nodes : NodeKept(n, s, c, d)
    /\ EdgesKept(g, s, c, d)

LEMMA ValidIds ==
    ASSUME NEW g, IsFiniteSet(g.nodes), G!ValidGraph(g)
    PROVE  /\ \A m \in g.nodes : \A n \in g.nodes : m.rec.id = n.rec.id => m = n
           /\ \A e \in g.edges : e.from \in IdsOf(g) /\ e.to \in IdsOf(g)
<1> DEFINE f == [n \in g.nodes |-> n.rec.id]
<1>1. f \in Surjection(g.nodes, IdsOf(g))
  BY DEF Surjection, IdsOf
<1>2. Cardinality(IdsOf(g)) = Cardinality(g.nodes)
  BY GCardinality DEF G!ValidGraph, IdsOf
<1>3. f \in Injection(g.nodes, IdsOf(g))
  <2> HIDE DEF f
  <2> QED
    BY <1>1, <1>2, FS_Surjection
<1>4. \A m \in g.nodes : \A n \in g.nodes : f[m] = f[n] => m = n
  <2> HIDE DEF f
  <2> QED
    BY <1>3 DEF Injection, IsInjective
<1>5. \A e \in g.edges : e.from \in IdsOf(g) /\ e.to \in IdsOf(g)
  BY DEF G!ValidGraph, IdsOf
<1> QED
  BY <1>4, <1>5

LEMMA CarriedFinite ==
    ASSUME NEW s, NEW c, NEW i, IsFiniteSet(s.nodes)
    PROVE  IsFiniteSet(Carried(s, c, i))
<1> DEFINE T == {x \in s.nodes : c[x.rec.id] = i}
           f == [m \in T |-> m.rec]
<1>1. IsFiniteSet(T)
  <2>1. T \in SUBSET s.nodes
    OBVIOUS
  <2> QED
    BY <2>1, FS_Subset
<1>2. Carried(s, c, i) = {f[m] : m \in T}
  BY DEF Carried
<1> HIDE DEF T, f
<1> QED
  BY <1>1, <1>2, FiniteValues

\* The graph as it was loaded, in a run of it.
LEMMA FirstIsWhole ==
    ASSUME NEW g \in Sources, G!ValidGraph(g), NEW d \in 1..MaxDepth
    PROVE  KeptWhole(g, g, [i \in {n.rec.id : n \in g.nodes} |-> i], d)
<1> DEFINE c == [i \in {n.rec.id : n \in g.nodes} |-> i]
<1>0. MaxDepth \in Nat /\ d \in Nat /\ d \in 0..MaxDepth /\ 1 \in 0..MaxDepth /\ 1 \in 1..MaxDepth
  BY GraphFacts
<1>1. /\ IsFiniteSet(g.nodes) /\ \A n \in g.nodes : n.sources = {}
      /\ IsFiniteSet(g.edges) /\ \A e \in g.edges : e.of = <<>>
  BY GraphFacts
<1>2. /\ \A m \in g.nodes : \A n \in g.nodes : m.rec.id = n.rec.id => m = n
      /\ \A e \in g.edges : e.from \in IdsOf(g) /\ e.to \in IdsOf(g)
  BY <1>1, ValidIds
<1>3. c \in [IdsOf(g) -> IdsOf(g)] /\ \A i \in IdsOf(g) : c[i] = i
  BY DEF IdsOf
<1>4. ASSUME NEW n \in g.nodes PROVE NodeKept(n, g, c, d)
  <2>1. Level(n)[1] = {}
    <3>1. Level(n)[0] = {n} /\ Level(n)[1] = UNION {m.sources : m \in Level(n)[1 - 1]}
      BY <1>0, LevelFacts
    <3>2. 1 - 1 = 0
      OBVIOUS
    <3> QED
      BY <1>1, <3>1, <3>2
  <2>2. Level(n)[d] = {}
    <3>1. d \in 1..MaxDepth
      OBVIOUS
    <3> QED
      BY <1>0, <2>1, <3>1, LevelsEnd
  <2>3. G!SourceRecords(n) = {n.rec}
    <3>1. n.sources = {}
      BY <1>1
    <3> QED
      BY <3>1, MergedRecords
  <2>4. Carried(g, c, n.rec.id) = {n.rec}
    <3>1. \A x \in g.nodes : c[x.rec.id] = n.rec.id <=> x = n
      BY <1>2, <1>3 DEF IdsOf
    <3> QED
      BY <3>1 DEF Carried
  <2>5. Shows(n)
    BY <2>3 DEF Shows
  <2> QED
    BY <2>2, <2>3, <2>4, <2>5 DEF NodeKept
<1>5. ASSUME NEW e \in g.edges
      PROVE  G!FirstForm(e) = e /\ Form(e)[d - 1].of = <<>>
  <2>1. Form(e)[0] = e /\ e.of = <<>> /\ 0 \in 0..MaxDepth
    BY <1>0, <1>1, FormFacts
  <2>2. d - 1 \in 0..MaxDepth /\ MaxDepth \in 0..MaxDepth
    BY <1>0
  <2>3. \A i \in 0..MaxDepth : Form(e)[i] = e
    BY <2>1, FormsEnd
  <2> QED
    BY <2>1, <2>2, <2>3, FormFacts
<1>6. EdgesKept(g, g, c, d)
  <2>1. \A e \in g.edges : c[e.from] = e.from /\ c[e.to] = e.to
    BY <1>2, <1>3
  <2>2. {G!FirstForm(e) : e \in g.edges} = g.edges
    BY <1>5
  <2> HIDE DEF c
  <2>3. \A e \in g.edges : Back1(g, c, e)
    BY <1>5, <2>1 DEF Back1
  <2> QED
    BY <1>2, <1>5, <2>2, <2>3 DEF EdgesKept
<1>7. Loaded(g) /\ Framed(g, g, c)
  <2> HIDE DEF c
  <2> QED
    BY <1>1, <1>2, <1>3 DEF Loaded, Framed
<1> QED
  BY <1>4, <1>6, <1>7 DEF KeptWhole

(* A run, and what is known of it.                                          *)
Owned(r) ==
    /\ r.owner \in [IdsOf(r.graph) -> IdsOf(r.graph)]
    /\ \A i \in IdsOf(r.graph) : r.owner[r.owner[i]] = r.owner[i]

Judged(r) ==
    /\ DOMAIN r.decided = DOMAIN r.evidence
    /\ DOMAIN r.evidence \subseteq IdsOf(r.graph) \X IdsOf(r.graph)
    /\ \A p \in DOMAIN r.decided : r.decided[p] \in {"open", "merged"}

IsRun(r) ==
    r = [graph |-> r.graph, carrier |-> r.carrier, evidence |-> r.evidence,
         decided |-> r.decided, owner |-> r.owner, revision |-> r.revision]

(* The last run's graph carries the first graph whole: its nodes partition  *)
(* the first records, its edges are the first ones with their ends followed, *)
(* and both can be read back within as many levels as there were runs.       *)
GraphInv ==
    /\ source \in Sources /\ depth \in 0..MaxDepth
    /\ run # None =>
        /\ depth \in 1..MaxDepth /\ IsRun(run) /\ Owned(run) /\ Judged(run)
        /\ KeptWhole(run.graph, source, run.carrier, depth)

LEMMA NodesById ==
    ASSUME KeptWhole(run.graph, source, run.carrier, depth), NEW i \in IdsOf(run.graph)
    PROVE  /\ G!NodeIn(i) \in run.graph.nodes /\ G!NodeIn(i).rec.id = i
           /\ \A n \in run.graph.nodes : n.rec.id = i => n = G!NodeIn(i)
<1>1. \E n \in run.graph.nodes : n.rec.id = i
  BY DEF IdsOf
<1>2. G!NodeIn(i) \in run.graph.nodes /\ G!NodeIn(i).rec.id = i
  BY <1>1 DEF G!NodeIn
<1>3. \A m \in run.graph.nodes : \A n \in run.graph.nodes : m.rec.id = n.rec.id => m = n
  BY DEF KeptWhole, Framed
<1> QED
  BY <1>2, <1>3

\* A run's result keeps what the run's graph kept.
LEMMA ProjectedNodeKept ==
    ASSUME KeptWhole(run.graph, source, run.carrier, depth), Owned(run),
           depth \in 1..MaxDepth, depth # MaxDepth,
           NEW o \in IdsOf(run.graph), run.owner[o] = o
    PROVE  /\ G!ProjectedNode(o).rec.id = o
           /\ NodeKept(G!ProjectedNode(o), source, [i \in DOMAIN run.carrier |-> run.owner[run.carrier[i]]], depth + 1)
<1> DEFINE members == {n \in run.graph.nodes : run.owner[n.rec.id] = o}
           p == G!ProjectedNode(o)
           c == [i \in DOMAIN run.carrier |-> run.owner[run.carrier[i]]]
<1>0. MaxDepth \in Nat /\ depth \in Nat /\ depth \in 0..MaxDepth /\ depth + 1 \in depth..MaxDepth /\ depth + 1 \in 1..MaxDepth /\ MaxDepth \in depth..MaxDepth
  BY GraphFacts
<1>1. \A n \in run.graph.nodes :
        /\ Level(n)[depth] = {}
        /\ G!SourceRecords(n) = Carried(source, run.carrier, n.rec.id)
        /\ Shows(n)
  BY DEF KeptWhole, NodeKept
<1>2. \A n \in run.graph.nodes : Level(n)[depth + 1] = {} /\ Level(n)[MaxDepth] = {}
  BY <1>0, <1>1, LevelsEnd
<1>3. G!NodeIn(o) \in run.graph.nodes /\ G!NodeIn(o).rec.id = o
  BY NodesById
<1>4. G!NodeIn(o) \in members
  BY <1>3
<1>5. /\ run.carrier \in [IdsOf(source) -> IdsOf(run.graph)]
      /\ \A x \in source.nodes : c[x.rec.id] = run.owner[run.carrier[x.rec.id]] /\ run.carrier[x.rec.id] \in IdsOf(run.graph)
  <2>1. run.carrier \in [IdsOf(source) -> IdsOf(run.graph)]
    BY DEF KeptWhole, Framed
  <2>2. \A x \in source.nodes : x.rec.id \in IdsOf(source)
    BY DEF IdsOf
  <2> QED
    BY <2>1, <2>2
<1>6. Carried(source, c, o) = UNION {G!SourceRecords(m) : m \in members}
  <2>1. ASSUME NEW r \in Carried(source, c, o) PROVE r \in UNION {G!SourceRecords(m) : m \in members}
    <3>1. PICK x \in source.nodes : c[x.rec.id] = o /\ r = x.rec
      BY DEF Carried
    <3>2. PICK m \in run.graph.nodes : m.rec.id = run.carrier[x.rec.id]
      BY <1>5 DEF IdsOf
    <3>3. m \in members
      BY <1>5, <3>1, <3>2
    <3>4. r \in Carried(source, run.carrier, m.rec.id)
      BY <3>1, <3>2 DEF Carried
    <3>5. r \in G!SourceRecords(m)
      BY <1>1, <3>3, <3>4
    <3> QED
      BY <3>3, <3>5
  <2>2. ASSUME NEW m \in members, NEW r \in G!SourceRecords(m) PROVE r \in Carried(source, c, o)
    <3>1. r \in Carried(source, run.carrier, m.rec.id)
      BY <1>1
    <3>2. PICK x \in source.nodes : run.carrier[x.rec.id] = m.rec.id /\ r = x.rec
      BY <3>1 DEF Carried
    <3>3. c[x.rec.id] = o
      BY <1>5, <3>2
    <3> QED
      BY <3>2, <3>3 DEF Carried
  <2> HIDE DEF members, c
  <2> QED
    BY <2>1, <2>2
<1>7. IsFiniteSet(members)
  <2>1. members \in SUBSET run.graph.nodes
    OBVIOUS
  <2>2. IsFiniteSet(run.graph.nodes)
    BY DEF KeptWhole, Framed
  <2> QED
    BY <2>1, <2>2, FS_Subset
<1>8. p = IF G!Cardinality(members) = 1 THEN G!NodeIn(o)
          ELSE [rec |-> G!NodeIn(o).rec, sources |-> members, conflicts |-> G!Conflicts(members)]
  BY DEF G!ProjectedNode
<1> HIDE DEF c, p
<1>9. CASE G!Cardinality(members) = 1
  <2>1. p = G!NodeIn(o)
    BY <1>8, <1>9
  <2>2. members = {G!NodeIn(o)}
    <3> HIDE DEF members
    <3>1. PICK x : members = {x}
      BY <1>7, <1>9, GCardinality, FS_Singleton
    <3> QED
      BY <1>4, <3>1
  <2>3. G!SourceRecords(p) = Carried(source, c, p.rec.id)
    BY <1>3, <1>6, <2>1, <2>2
  <2> QED
    BY <1>1, <1>2, <1>3, <2>1, <2>3 DEF NodeKept, c, p
<1>10. CASE G!Cardinality(members) # 1
  <2>1. p = [rec |-> G!NodeIn(o).rec, sources |-> members, conflicts |-> G!Conflicts(members)]
    BY <1>8, <1>10
  <2> HIDE DEF members
  <2>2. p.rec = G!NodeIn(o).rec /\ p.sources = members /\ p.conflicts = G!Conflicts(members)
    BY <2>1
  <2>3. \A m \in members : m \in run.graph.nodes
    BY DEF members
  <2>4. G!SourceRecords(p) = {p.rec} \cup UNION {G!SourceRecords(m) : m \in members}
    BY <1>2, <2>2, <2>3, MergedRecords
  <2>5. p.rec \in G!SourceRecords(G!NodeIn(o))
    <3>1. G!NodeIn(o).rec \in G!SourceRecords(G!NodeIn(o))
      <4>1. G!NodeIn(o) \in Level(G!NodeIn(o))[0] /\ 0 \in 0..MaxDepth
        BY <1>0, LevelFacts
      <4> QED
        BY <4>1, LevelFacts
    <3> QED
      BY <2>2, <3>1
  <2>6. G!SourceRecords(p) = UNION {G!SourceRecords(m) : m \in members}
    BY <1>4, <2>4, <2>5
  <2>7. G!SourceRecords(p) = Carried(source, c, p.rec.id)
    BY <1>3, <1>6, <2>2, <2>6
  <2>8. Shows(p)
    <3>1. IsFiniteSet(source.nodes)
      BY DEF KeptWhole, Loaded
    <3>2. IsFiniteSet(G!SourceRecords(p))
      BY <2>7, <3>1, CarriedFinite
    <3> QED
      BY <2>2, <2>6, <3>2, MergedShows
  <2>9. Level(p)[depth + 1] = {}
    <3>1. (depth + 1) - 1 = depth
      BY <1>0
    <3>2. Level(p)[depth + 1] = OfAll(members, depth)
      BY <1>0, <2>2, <3>1, MergedLevels
    <3> QED
      BY <1>1, <2>3, <3>2 DEF OfAll
  <2> QED
    BY <1>3, <2>2, <2>7, <2>8, <2>9 DEF NodeKept, c, p
<1> QED
  BY <1>9, <1>10

\* A projection loses no record, no disagreement and no relation.
LEMMA ProjectKept ==
    ASSUME KeptWhole(run.graph, source, run.carrier, depth), Owned(run),
           depth \in 1..MaxDepth, depth # MaxDepth
    PROVE  KeptWhole(G!Project, source, [o \in DOMAIN run.carrier |-> run.owner[run.carrier[o]]], depth + 1)
<1> DEFINE c == [o \in DOMAIN run.carrier |-> run.owner[run.carrier[o]]]
           P == G!Project
<1>0. MaxDepth \in Nat /\ depth \in Nat /\ (depth + 1) - 1 = depth
  BY GraphFacts
<1>1. /\ run.owner \in [IdsOf(run.graph) -> IdsOf(run.graph)]
      /\ \A i \in IdsOf(run.graph) : run.owner[run.owner[i]] = run.owner[i]
  BY DEF Owned
<1>2. /\ run.graph.kind = source.kind /\ IsFiniteSet(run.graph.nodes)
      /\ run.carrier \in [IdsOf(source) -> IdsOf(run.graph)]
      /\ Loaded(source)
  BY DEF KeptWhole, Framed
<1>3. /\ P.kind = run.graph.kind
      /\ P.nodes = {G!ProjectedNode(run.owner[i]) : i \in IdsOf(run.graph)}
      /\ P.edges = G!ProjectedEdges
  BY DEF G!Project, G!NodeIds, IdsOf
<1> HIDE DEF P
<1>4. ASSUME NEW i \in IdsOf(run.graph)
      PROVE  /\ run.owner[i] \in IdsOf(run.graph)
             /\ G!ProjectedNode(run.owner[i]).rec.id = run.owner[i]
             /\ NodeKept(G!ProjectedNode(run.owner[i]), source, c, depth + 1)
  <2>1. run.owner[i] \in IdsOf(run.graph) /\ run.owner[run.owner[i]] = run.owner[i]
    BY <1>1
  <2> QED
    BY <2>1, ProjectedNodeKept
<1> HIDE DEF c
<1>5. IdsOf(P) = {run.owner[i] : i \in IdsOf(run.graph)}
  <2>1. IdsOf(P) = {n.rec.id : n \in {G!ProjectedNode(run.owner[i]) : i \in IdsOf(run.graph)}}
    BY <1>3 DEF IdsOf
  <2>2. IdsOf(P) = {G!ProjectedNode(run.owner[i]).rec.id : i \in IdsOf(run.graph)}
    BY <2>1
  <2> QED
    BY <1>4, <2>2
<1>6. c \in [IdsOf(source) -> IdsOf(P)] /\ \A o \in IdsOf(source) : c[o] = run.owner[run.carrier[o]]
  <2>1. c = [o \in IdsOf(source) |-> run.owner[run.carrier[o]]]
    BY <1>2 DEF c
  <2>2. \A o \in IdsOf(source) : run.owner[run.carrier[o]] \in IdsOf(P)
    BY <1>2, <1>5
  <2> QED
    BY <2>1, <2>2
<1>7. IsFiniteSet(P.nodes)
  <2> DEFINE pick == [n \in run.graph.nodes |-> G!ProjectedNode(run.owner[n.rec.id])]
  <2>1. P.nodes = {pick[n] : n \in run.graph.nodes}
    <3>1. \A n \in run.graph.nodes : n.rec.id \in IdsOf(run.graph) /\ pick[n] = G!ProjectedNode(run.owner[n.rec.id])
      BY DEF IdsOf
    <3>2. \A i \in IdsOf(run.graph) : \E n \in run.graph.nodes : i = n.rec.id
      BY DEF IdsOf
    <3> HIDE DEF pick
    <3> QED
      BY <1>3, <3>1, <3>2
  <2> HIDE DEF pick
  <2> QED
    BY <1>2, <2>1, FiniteValues
<1>8. \A m \in P.nodes : \A n \in P.nodes : m.rec.id = n.rec.id => m = n
  <2> SUFFICES ASSUME NEW m \in P.nodes, NEW n \in P.nodes, m.rec.id = n.rec.id PROVE m = n
    OBVIOUS
  <2>1. PICK i \in IdsOf(run.graph) : m = G!ProjectedNode(run.owner[i])
    BY <1>3
  <2>2. PICK j \in IdsOf(run.graph) : n = G!ProjectedNode(run.owner[j])
    BY <1>3
  <2>3. run.owner[i] = run.owner[j]
    BY <1>4, <2>1, <2>2
  <2> QED
    BY <2>1, <2>2, <2>3
<1>9. \A n \in P.nodes : NodeKept(n, source, c, depth + 1)
  <2> SUFFICES ASSUME NEW n \in P.nodes PROVE NodeKept(n, source, c, depth + 1)
    OBVIOUS
  <2>1. PICK i \in IdsOf(run.graph) : n = G!ProjectedNode(run.owner[i])
    BY <1>3
  <2> QED
    BY <1>4, <2>1
<1>10. /\ {G!FirstForm(e) : e \in run.graph.edges} = source.edges
       /\ \A e \in run.graph.edges : \A h \in run.graph.edges : G!FirstForm(e) = G!FirstForm(h) => e = h
       /\ \A e \in run.graph.edges :
            /\ Form(e)[depth - 1].of = <<>> /\ Back1(source, run.carrier, e)
            /\ e.from \in IdsOf(run.graph) /\ e.to \in IdsOf(run.graph)
  BY DEF KeptWhole, EdgesKept
<1> DEFINE moved(e) == IF run.owner[e.from] = e.from /\ run.owner[e.to] = e.to THEN e
                       ELSE G!Edge(e.id, run.owner[e.from], run.owner[e.to], <<e>>)
<1>11. P.edges = {moved(e) : e \in run.graph.edges}
  BY <1>3 DEF G!ProjectedEdges
<1>12. ASSUME NEW e \in run.graph.edges
       PROVE  /\ G!FirstForm(moved(e)) = G!FirstForm(e) /\ Form(moved(e))[depth].of = <<>>
              /\ moved(e).from = run.owner[e.from] /\ moved(e).to = run.owner[e.to]
  <2>1. CASE run.owner[e.from] = e.from /\ run.owner[e.to] = e.to
    <3>1. moved(e) = e
      BY <2>1
    <3> HIDE DEF moved
    <3>2. depth - 1 \in 0..MaxDepth /\ depth \in (depth - 1)..MaxDepth
      BY <1>0
    <3>3. Form(e)[depth] = Form(e)[depth - 1]
      BY <1>10, <3>2, FormsEnd
    <3> QED
      BY <1>10, <2>1, <3>1, <3>3
  <2>2. CASE ~(run.owner[e.from] = e.from /\ run.owner[e.to] = e.to)
    <3>1. moved(e) = [id |-> e.id, from |-> run.owner[e.from], to |-> run.owner[e.to], of |-> <<e>>]
      BY <2>2 DEF G!Edge
    <3> HIDE DEF moved
    <3>2. moved(e).of = <<e>> /\ moved(e).from = run.owner[e.from] /\ moved(e).to = run.owner[e.to]
      BY <3>1
    <3> QED
      BY <1>10, <3>2, ProjectedFirstForm
  <2> QED
    BY <2>1, <2>2
<1> HIDE DEF moved
<1>13. {G!FirstForm(e) : e \in P.edges} = source.edges
  <2>1. {G!FirstForm(h) : h \in {moved(e) : e \in run.graph.edges}} = {G!FirstForm(moved(e)) : e \in run.graph.edges}
    OBVIOUS
  <2>2. {G!FirstForm(moved(e)) : e \in run.graph.edges} = {G!FirstForm(e) : e \in run.graph.edges}
    BY <1>12
  <2> QED
    BY <1>10, <1>11, <2>1, <2>2
<1>14. \A e \in P.edges : \A h \in P.edges : G!FirstForm(e) = G!FirstForm(h) => e = h
  <2> SUFFICES ASSUME NEW e \in P.edges, NEW h \in P.edges, G!FirstForm(e) = G!FirstForm(h) PROVE e = h
    OBVIOUS
  <2>1. PICK a \in run.graph.edges : e = moved(a)
    BY <1>11
  <2>2. PICK b \in run.graph.edges : h = moved(b)
    BY <1>11
  <2>3. G!FirstForm(a) = G!FirstForm(b)
    BY <1>12, <2>1, <2>2
  <2>4. a = b
    BY <1>10, <2>3
  <2> QED
    BY <2>1, <2>2, <2>4
<1>15. \A e \in P.edges :
        /\ Form(e)[(depth + 1) - 1].of = <<>> /\ Back1(source, c, e)
        /\ e.from \in IdsOf(P) /\ e.to \in IdsOf(P)
  <2> SUFFICES ASSUME NEW h \in P.edges
               PROVE  /\ Form(h)[depth].of = <<>> /\ Back1(source, c, h)
                      /\ h.from \in IdsOf(P) /\ h.to \in IdsOf(P)
    BY <1>0
  <2>1. PICK e \in run.graph.edges : h = moved(e)
    BY <1>11
  <2>2. h.from = run.owner[e.from] /\ h.to = run.owner[e.to] /\ G!FirstForm(h) = G!FirstForm(e) /\ Form(h)[depth].of = <<>>
    BY <1>12, <2>1
  <2>3. e.from \in IdsOf(run.graph) /\ e.to \in IdsOf(run.graph)
    BY <1>10
  <2>4. h.from \in IdsOf(P) /\ h.to \in IdsOf(P)
    BY <1>5, <2>2, <2>3
  <2>5. G!FirstForm(e) \in source.edges
    BY <1>10
  <2>6. G!FirstForm(e).from \in IdsOf(source) /\ G!FirstForm(e).to \in IdsOf(source)
    BY <1>2, <2>5 DEF Loaded
  <2>7. e.from = run.carrier[G!FirstForm(e).from] /\ e.to = run.carrier[G!FirstForm(e).to]
    BY <1>10 DEF Back1
  <2>8. Back1(source, c, h)
    BY <1>6, <2>2, <2>6, <2>7 DEF Back1
  <2> QED
    BY <2>2, <2>4, <2>8
<1>16. Framed(P, source, c)
  BY <1>2, <1>3, <1>6, <1>7, <1>8 DEF Framed
<1>17. EdgesKept(P, source, c, depth + 1)
  BY <1>13, <1>14, <1>15 DEF EdgesKept
<1>18. KeptWhole(P, source, c, depth + 1)
  BY <1>2, <1>9, <1>16, <1>17 DEF KeptWhole
<1> QED
  BY <1>18 DEF P, c

\* Only pairs of a graph's own nodes are judged.
LEMMA AnalysedPairs ==
    ASSUME NEW g, NEW f \in G!Analyses(g)
    PROVE  DOMAIN f \subseteq IdsOf(g) \X IdsOf(g)
<1> DEFINE ps == {<<a.rec.id, b.rec.id>> : a, b \in g.nodes}
<1>1. ps \subseteq IdsOf(g) \X IdsOf(g)
  BY DEF IdsOf
<1> DEFINE qs(id) == LET cs == G!Contexts(g.kind, CHOOSE n \in g.nodes : n.rec.id = id)
                     IN  cs \cup IF G!Cardinality(cs) > 1 THEN {Joined} ELSE {}
           of(p) == {[x \in {p} |-> G!Evidence("model", "same", l, r)] : l \in qs(p[1]), r \in qs(p[2])}
<1>2. f = <<>> \/ \E p \in ps : DOMAIN f = {p}
  <2>1. G!Analyses(g) = {<<>>} \cup UNION {of(p) : p \in {q \in ps : q[1] < q[2]}}
    BY DEF G!Analyses
  <2> HIDE DEF ps, qs
  <2>2. \A p : \A h \in of(p) : DOMAIN h = {p}
    OBVIOUS
  <2> DEFINE some == {q \in ps : q[1] < q[2]}
  <2>3. \A p \in some : p \in ps
    OBVIOUS
  <2> HIDE DEF of, some
  <2>4. f = <<>> \/ f \in UNION {of(p) : p \in some}
    BY <2>1 DEF some
  <2>5. CASE f \in UNION {of(p) : p \in some}
    <3>1. PICK p \in some : f \in of(p)
      BY <2>5
    <3> QED
      BY <2>2, <2>3, <3>1
  <2> QED
    BY <2>4, <2>5
<1>3. DOMAIN <<>> = {}
  OBVIOUS
<1> HIDE DEF ps
<1> QED
  BY <1>1, <1>2, <1>3

\* An owner owns itself.
LEMMA OwnersAreSettled ==
    ASSUME NEW r, NEW f \in G!Memberships(r)
    PROVE  /\ f \in [IdsOf(r.graph) -> IdsOf(r.graph)]
           /\ \A i \in IdsOf(r.graph) : f[f[i]] = f[i]
<1>1. IdsOf(r.graph) = G!NodeIds(r)
  BY DEF IdsOf, G!NodeIds
<1>2. /\ f \in [G!NodeIds(r) -> G!NodeIds(r)]
      /\ \A i \in G!NodeIds(r) :
            /\ f[i] \in G!Cluster(r, i)
            /\ \A j \in G!Cluster(r, i) : f[j] = f[i]
  BY DEF G!Memberships
<1> QED
  BY <1>1, <1>2

LEMMA GraphInit == G!Init => GraphInv
<1> SUFFICES ASSUME G!Init PROVE GraphInv
  OBVIOUS
<1>1. source \in Sources /\ run = None /\ depth = 0
  BY DEF G!Init
<1>2. 0 \in 0..MaxDepth
  BY GraphFacts
<1> QED
  BY <1>1, <1>2 DEF GraphInv

LEMMA StartKeeps ==
    ASSUME GraphInv, NEW g, NEW c, G!Start(g, c),
           depth \in 0..MaxDepth /\ depth # MaxDepth => KeptWhole(g, source, c, depth + 1)
    PROVE  GraphInv'
<1>0. MaxDepth \in Nat
  BY GraphFacts
<1>1. depth < MaxDepth /\ depth' = depth + 1 /\ source' = source
  BY DEF G!Start
<1>2. PICK f \in G!Analyses(g) :
        run' = [graph |-> g, carrier |-> c, evidence |-> f,
                decided |-> [p \in DOMAIN f |-> "open"],
                owner |-> [i \in {n.rec.id : n \in g.nodes} |-> i], revision |-> 0]
  BY DEF G!Start
<1>3. source \in Sources /\ depth \in 0..MaxDepth
  BY DEF GraphInv
<1>4. depth' \in 1..MaxDepth /\ depth' \in 0..MaxDepth /\ depth # MaxDepth
  BY <1>0, <1>1, <1>3
<1>5. /\ run'.graph = g /\ run'.carrier = c /\ run'.evidence = f /\ run'.revision = 0
      /\ run'.decided = [p \in DOMAIN f |-> "open"] /\ run'.owner = [i \in {n.rec.id : n \in g.nodes} |-> i]
  BY <1>2
<1>6. IsRun(run)'
  BY <1>2, <1>5 DEF IsRun
<1>7. Owned(run)'
  BY <1>5 DEF Owned, IdsOf
<1>8. Judged(run)'
  <2>1. DOMAIN f \subseteq IdsOf(g) \X IdsOf(g)
    BY AnalysedPairs
  <2>2. DOMAIN run'.decided = DOMAIN f /\ \A p \in DOMAIN f : run'.decided[p] = "open"
    BY <1>5
  <2> QED
    BY <1>5, <2>1, <2>2 DEF Judged, IdsOf
<1>9. KeptWhole(run'.graph, source', run'.carrier, depth')
  BY <1>1, <1>3, <1>4, <1>5
<1> QED
  BY <1>1, <1>3, <1>4, <1>6, <1>7, <1>8, <1>9 DEF GraphInv

\* A decision changes marks and owners, and nothing the graph carries.
LEMMA DecideGraphKeeps ==
    ASSUME GraphInv, run # None, NEW p \in IdsOf(run.graph) \X IdsOf(run.graph), NEW mark \in {"open", "merged"},
           G!Decide(p, mark)
    PROVE  GraphInv'
<1> DEFINE marked == [run EXCEPT
            !.evidence = [x \in DOMAIN @ \cup {p} |->
                            IF x \in DOMAIN @ THEN @[x] ELSE G!Evidence("manual", "uncertain", None, None)],
            !.decided = [x \in DOMAIN @ \cup {p} |-> IF x = p THEN mark ELSE @[x]],
            !.revision = @ + 1]
<1>1. PICK f \in G!Memberships(marked) : run' = [marked EXCEPT !.owner = f]
  BY DEF G!Decide
<1>2. source' = source /\ depth' = depth
  BY DEF G!Decide
<1>3. source \in Sources /\ depth \in 0..MaxDepth /\ depth \in 1..MaxDepth
  BY DEF GraphInv
<1>4. /\ run = [graph |-> run.graph, carrier |-> run.carrier, evidence |-> run.evidence,
                decided |-> run.decided, owner |-> run.owner, revision |-> run.revision]
      /\ Judged(run) /\ KeptWhole(run.graph, source, run.carrier, depth)
  BY DEF GraphInv, IsRun
<1> DEFINE ev == [x \in DOMAIN run.evidence \cup {p} |->
                            IF x \in DOMAIN run.evidence THEN run.evidence[x] ELSE G!Evidence("manual", "uncertain", None, None)]
           de == [x \in DOMAIN run.decided \cup {p} |-> IF x = p THEN mark ELSE run.decided[x]]
<1>5. marked = [graph |-> run.graph, carrier |-> run.carrier, evidence |-> ev,
                decided |-> de, owner |-> run.owner, revision |-> run.revision + 1]
  <2> HIDE DEF ev, de
  <2>1. marked = [run EXCEPT !.evidence = ev, !.decided = de, !.revision = run.revision + 1]
    BY DEF ev, de
  <2> HIDE DEF marked
  <2> QED
    BY <1>4, <2>1
<1>6. /\ DOMAIN ev = DOMAIN run.evidence \cup {p} /\ DOMAIN de = DOMAIN run.decided \cup {p}
      /\ \A x \in DOMAIN de : de[x] = mark \/ (x \in DOMAIN run.decided /\ de[x] = run.decided[x])
  OBVIOUS
<1> HIDE DEF ev, de, marked
<1>7. /\ run' = [graph |-> run.graph, carrier |-> run.carrier, evidence |-> ev,
                decided |-> de, owner |-> f, revision |-> run.revision + 1]
      /\ marked.graph = run.graph
  BY <1>1, <1>5
<1>8. /\ run'.graph = run.graph /\ run'.carrier = run.carrier /\ run'.evidence = ev /\ run'.decided = de
      /\ run'.owner = f /\ run'.revision = run.revision + 1
  BY <1>7
<1>9. IsRun(run)'
  BY <1>7, <1>8 DEF IsRun
<1>10. Owned(run)'
  <2>1. /\ f \in [IdsOf(marked.graph) -> IdsOf(marked.graph)]
        /\ \A i \in IdsOf(marked.graph) : f[f[i]] = f[i]
    BY <1>1, OwnersAreSettled
  <2> QED
    BY <1>7, <1>8, <2>1 DEF Owned, IdsOf
<1>11. Judged(run)'
  <2>1. /\ DOMAIN run.decided = DOMAIN run.evidence
        /\ DOMAIN run.evidence \subseteq IdsOf(run.graph) \X IdsOf(run.graph)
        /\ \A x \in DOMAIN run.decided : run.decided[x] \in {"open", "merged"}
    BY <1>4 DEF Judged
  <2>2. DOMAIN de = DOMAIN ev /\ DOMAIN ev \subseteq IdsOf(run.graph) \X IdsOf(run.graph)
    BY <1>6, <2>1
  <2>3. \A x \in DOMAIN de : de[x] \in {"open", "merged"}
    BY <1>6, <2>1
  <2> QED
    BY <1>8, <2>2, <2>3 DEF Judged, IdsOf
<1>12. KeptWhole(run'.graph, source', run'.carrier, depth')
  BY <1>2, <1>4, <1>8
<1> QED
  BY SMTT(30), <1>2, <1>3, <1>9, <1>10, <1>11, <1>12 DEF GraphInv

LEMMA GraphNext == ASSUME GraphInv, G!Next PROVE GraphInv'
<1>1. CASE G!StartFirst
  <2>1. PICK g : g = source
    OBVIOUS
  <2>2. PICK c : c = [i \in {n.rec.id : n \in source.nodes} |-> i]
    OBVIOUS
  <2>3. G!Start(source, [i \in {n.rec.id : n \in source.nodes} |-> i])
    BY <1>1 DEF G!StartFirst
  <2>4. G!Start(g, c)
    BY <2>1, <2>2, <2>3
  <2>5. ASSUME depth \in 0..MaxDepth /\ depth # MaxDepth PROVE KeptWhole(g, source, c, depth + 1)
    <3>1. depth + 1 \in 1..MaxDepth
      BY <2>5, GraphFacts
    <3>2. g \in Sources /\ G!ValidGraph(g)
      BY <2>1, <2>4 DEF GraphInv, G!Start
    <3>3. KeptWhole(g, g, [i \in {n.rec.id : n \in g.nodes} |-> i], depth + 1)
      BY <3>1, <3>2, FirstIsWhole
    <3> QED
      BY <2>1, <2>2, <3>3
  <2> QED
    BY <2>4, <2>5, StartKeeps
<1>2. CASE G!StartDerived
  <2>1. PICK g : g = G!Project
    OBVIOUS
  <2>2. PICK c : c = [o \in DOMAIN run.carrier |-> run.owner[run.carrier[o]]]
    OBVIOUS
  <2>3. run # None /\ G!Start(G!Project, [o \in DOMAIN run.carrier |-> run.owner[run.carrier[o]]])
    BY <1>2 DEF G!StartDerived
  <2>4. G!Start(g, c)
    BY <2>1, <2>2, <2>3
  <2>5. ASSUME depth \in 0..MaxDepth /\ depth # MaxDepth PROVE KeptWhole(g, source, c, depth + 1)
    <3>1. /\ depth \in 1..MaxDepth /\ Owned(run)
          /\ KeptWhole(run.graph, source, run.carrier, depth)
      BY <2>3 DEF GraphInv
    <3> QED
      BY <2>1, <2>2, <2>5, <3>1, ProjectKept
  <2> QED
    BY <2>4, <2>5, StartKeeps
<1>3. CASE G!Review
  <2>1. run # None /\ \E p \in G!NodeIds(run) \X G!NodeIds(run) : G!Merge(p) \/ G!Manual(p) \/ G!Reset(p)
    BY <1>3 DEF G!Review
  <2>2. G!NodeIds(run) = IdsOf(run.graph)
    BY DEF G!NodeIds, IdsOf
  <2>3. PICK p \in IdsOf(run.graph) \X IdsOf(run.graph) : G!Merge(p) \/ G!Manual(p) \/ G!Reset(p)
    BY <2>1, <2>2
  <2>4. G!Decide(p, "merged") \/ G!Decide(p, "open")
    BY <2>3 DEF G!Merge, G!Manual, G!Reset
  <2> QED
    BY <2>1, <2>4, DecideGraphKeeps
<1> QED
  BY <1>1, <1>2, <1>3 DEF G!Next

LEMMA GraphStill == ASSUME GraphInv, UNCHANGED graphsVars PROVE GraphInv'
<1>1. source' = source /\ run' = run /\ depth' = depth
  BY DEF graphsVars
<1> QED
  BY <1>1 DEF GraphInv, IsRun, Owned, Judged, IdsOf

LEMMA StandFor ==
    ASSUME GraphInv, run # None, NEW n \in run.graph.nodes
    PROVE  /\ {m.rec : m \in {x \in source.nodes : x.rec.id \in G!StandsFor(n)}} = G!SourceRecords(n)
           /\ {x \in source.nodes : x.rec.id \in G!StandsFor(n)} = {x \in source.nodes : run.carrier[x.rec.id] = n.rec.id}
           /\ Shows(n)
<1>1. KeptWhole(run.graph, source, run.carrier, depth)
  BY DEF GraphInv
<1>2. run.carrier \in [IdsOf(source) -> IdsOf(run.graph)]
  BY <1>1 DEF KeptWhole, Framed
<1>3. G!SourceRecords(n) = Carried(source, run.carrier, n.rec.id) /\ Shows(n)
  BY <1>1 DEF KeptWhole, NodeKept
<1>4. \A x \in source.nodes : x.rec.id \in G!StandsFor(n) <=> run.carrier[x.rec.id] = n.rec.id
  BY <1>2 DEF G!StandsFor, IdsOf
<1>5. {x \in source.nodes : x.rec.id \in G!StandsFor(n)} = {x \in source.nodes : run.carrier[x.rec.id] = n.rec.id}
  BY <1>4
<1> QED
  BY <1>3, <1>5 DEF Carried

LEMMA RelationsAreKept ==
    ASSUME NEW g, NEW s, NEW c, NEW d, EdgesKept(g, s, c, d), IsFiniteSet(s.edges)
    PROVE  Cardinality(g.edges) = Cardinality(s.edges)
<1> DEFINE f == [e \in g.edges |-> G!FirstForm(e)]
<1>1. /\ {f[e] : e \in g.edges} = s.edges
      /\ \A e \in g.edges : \A h \in g.edges : f[e] = f[h] => e = h
      /\ f \in [g.edges -> s.edges]
  BY DEF EdgesKept
<1> HIDE DEF f
<1>2. f \in Injection(g.edges, s.edges) /\ f \in Surjection(g.edges, s.edges)
  BY <1>1 DEF Injection, Surjection, IsInjective
<1> QED
  BY <1>2, FS_Injection

(* The four parts of the property.                                          *)
LEMMA NothingLost == ASSUME GraphInv PROVE G!NothingIsLost
<1> SUFFICES ASSUME run # None
             PROVE  /\ \A n \in run.graph.nodes :
                        G!SourceRecords(n) = {m.rec : m \in {x \in source.nodes : x.rec.id \in G!StandsFor(n)}}
                    /\ {G!FirstForm(e) : e \in run.graph.edges} = source.edges
                    /\ G!Cardinality(run.graph.edges) = G!Cardinality(source.edges)
                    /\ \A e \in run.graph.edges :
                        e.from = run.carrier[G!FirstForm(e).from] /\ e.to = run.carrier[G!FirstForm(e).to]
  BY DEF G!NothingIsLost
<1>1. /\ EdgesKept(run.graph, source, run.carrier, depth)
      /\ IsFiniteSet(source.edges)
  BY DEF GraphInv, KeptWhole, Loaded
<1>2. G!Cardinality(run.graph.edges) = G!Cardinality(source.edges)
  BY <1>1, RelationsAreKept, GCardinality
<1> QED
  BY <1>1, <1>2, StandFor DEF EdgesKept, Back1

LEMMA Disagreements == ASSUME GraphInv PROVE G!DisagreementsAreShown
<1> SUFFICES ASSUME run # None, NEW n \in run.graph.nodes,
                    NEW a \in G!SourceRecords(n), NEW b \in G!SourceRecords(n),
                    NEW f \in DOMAIN a.fields \cap DOMAIN b.fields, a.fields[f] # b.fields[f]
             PROVE  \E z \in n.conflicts : z[1] = f /\ {a.fields[f], b.fields[f]} \subseteq z[2]
  BY StandFor DEF G!DisagreementsAreShown
<1>1. Shows(n)
  BY StandFor
<1>2. PICK z \in n.conflicts : z[1] = f /\ a.fields[f] \in z[2] /\ b.fields[f] \in z[2]
  BY <1>1 DEF Shows
<1> QED
  BY <1>2

\* The place of a name is that of every record that has one.
At(kind, r) == kind = "graphrag" /\ r.text # None /\ r.at # None

LEMMA SpanIs ==
    ASSUME NEW kind, NEW n, IsFiniteSet(G!SourceRecords(n)), G!Span(kind, n) # None
    PROVE  /\ \A r \in G!SourceRecords(n) : At(kind, r) => G!Span(kind, n) = <<r.text, r.at>>
           /\ \E r \in G!SourceRecords(n) : At(kind, r) /\ r.name = n.rec.name
<1> DEFINE located == {r \in G!SourceRecords(n) : At(kind, r)}
           place == [r \in located |-> <<r.text, r.at>>]
           places == {<<r.text, r.at>> : r \in located}
<1>1. G!Span(kind, n) = IF G!Cardinality(places) = 1 /\ n.rec.name \in {r.name : r \in located}
                        THEN CHOOSE z \in places : TRUE ELSE None
  BY DEF G!Span, At
<1>2. IsFiniteSet(places)
  <2>1. IsFiniteSet(located)
    <3>1. located \in SUBSET G!SourceRecords(n)
      OBVIOUS
    <3> QED
      BY <3>1, FS_Subset
  <2>2. places = {place[r] : r \in located}
    OBVIOUS
  <2> HIDE DEF places, place, located
  <2> QED
    BY <2>1, <2>2, FiniteValues
<1>3. \A r \in located : <<r.text, r.at>> \in places
  OBVIOUS
<1> HIDE DEF places
<1>4. G!Cardinality(places) = 1 /\ n.rec.name \in {r.name : r \in located} /\ G!Span(kind, n) = CHOOSE z \in places : TRUE
  BY <1>1
<1>5. PICK z : places = {z}
  BY <1>2, <1>4, GCardinality, FS_Singleton
<1>6. G!Span(kind, n) = z
  BY <1>4, <1>5
<1> QED
  BY <1>3, <1>4, <1>5, <1>6

LEMMA FirstSpan ==
    ASSUME NEW kind, NEW n, G!SourceRecords(n) = {n.rec}
    PROVE  G!Span(kind, n) = IF At(kind, n.rec) THEN <<n.rec.text, n.rec.at>> ELSE None
<1> DEFINE located == {r \in G!SourceRecords(n) : At(kind, r)}
           places == {<<r.text, r.at>> : r \in located}
<1>1. G!Span(kind, n) = IF G!Cardinality(places) = 1 /\ n.rec.name \in {r.name : r \in located}
                        THEN CHOOSE z \in places : TRUE ELSE None
  BY DEF G!Span, At
<1>2. CASE At(kind, n.rec)
  <2>1. located = {n.rec} /\ places = {<<n.rec.text, n.rec.at>>} /\ n.rec.name \in {r.name : r \in located}
    BY <1>2
  <2> HIDE DEF located, places
  <2>2. G!Cardinality(places) = 1
    BY <2>1, GCardinality, FS_Singleton
  <2> QED
    BY <1>1, <1>2, <2>1, <2>2
<1>3. CASE ~At(kind, n.rec)
  <2>1. {r.name : r \in located} = {}
    BY <1>3
  <2> HIDE DEF located, places
  <2> QED
    BY <1>1, <1>3, <2>1
<1> QED
  BY <1>2, <1>3

LEMMA Identity == ASSUME GraphInv PROVE G!IdentityIsGrounded
<1> SUFFICES ASSUME run # None, NEW n \in run.graph.nodes
             PROVE  /\ G!Ids(source.kind, n) = UNION {G!OwnIds(source.kind, x.rec) : x \in {y \in source.nodes : y.rec.id \in G!StandsFor(n)}}
                    /\ G!Span(source.kind, n) # None =>
                        \A x \in {y \in source.nodes : y.rec.id \in G!StandsFor(n)} : G!Span(source.kind, x) # None =>
                            G!Span(source.kind, x) = G!Span(source.kind, n)
                    /\ G!Span(source.kind, n) # None =>
                        \E x \in {y \in source.nodes : y.rec.id \in G!StandsFor(n)} :
                            x.rec.name = n.rec.name /\ G!Span(source.kind, x) = G!Span(source.kind, n)
  BY DEF G!IdentityIsGrounded
<1> DEFINE first == {y \in source.nodes : y.rec.id \in G!StandsFor(n)}
           kind == source.kind
<1>1. G!SourceRecords(n) = {x.rec : x \in first}
  BY StandFor
<1>2. \A x \in first : G!SourceRecords(x) = {x.rec}
  <2> SUFFICES ASSUME NEW x \in first PROVE G!SourceRecords(x) = {x.rec}
    OBVIOUS
  <2>1. x.sources = {}
    BY GraphFacts DEF GraphInv
  <2> QED
    BY <2>1, MergedRecords
<1>3. IsFiniteSet(G!SourceRecords(n))
  <2>1. KeptWhole(run.graph, source, run.carrier, depth)
    BY DEF GraphInv
  <2>2. IsFiniteSet(source.nodes) /\ G!SourceRecords(n) = Carried(source, run.carrier, n.rec.id)
    BY <2>1 DEF KeptWhole, Loaded, NodeKept
  <2> QED
    BY <2>2, CarriedFinite
<1> HIDE DEF first, kind
<1>4. G!Ids(kind, n) = UNION {G!OwnIds(kind, x.rec) : x \in first}
  BY <1>1 DEF G!Ids
<1>5. \A x \in first : G!Span(kind, x) = IF At(kind, x.rec) THEN <<x.rec.text, x.rec.at>> ELSE None
  BY <1>2, FirstSpan
<1>6. G!Span(kind, n) # None => \A x \in first : G!Span(kind, x) # None => G!Span(kind, x) = G!Span(kind, n)
  <2> SUFFICES ASSUME G!Span(kind, n) # None, NEW x \in first, G!Span(kind, x) # None
               PROVE  G!Span(kind, x) = G!Span(kind, n)
    OBVIOUS
  <2>1. At(kind, x.rec) /\ G!Span(kind, x) = <<x.rec.text, x.rec.at>>
    BY <1>5
  <2>2. x.rec \in G!SourceRecords(n)
    BY <1>1
  <2> QED
    BY <1>3, <2>1, <2>2, SpanIs
<1>7. G!Span(kind, n) # None => \E x \in first : x.rec.name = n.rec.name /\ G!Span(kind, x) = G!Span(kind, n)
  <2> SUFFICES ASSUME G!Span(kind, n) # None
               PROVE  \E x \in first : x.rec.name = n.rec.name /\ G!Span(kind, x) = G!Span(kind, n)
    OBVIOUS
  <2>1. PICK r \in G!SourceRecords(n) : At(kind, r) /\ r.name = n.rec.name
    BY <1>3, SpanIs
  <2>2. PICK x \in first : r = x.rec
    BY <1>1
  <2>3. G!Span(kind, n) = <<r.text, r.at>>
    BY <1>3, <2>1, SpanIs
  <2>4. G!Span(kind, x) = <<r.text, r.at>>
    BY <1>5, <2>1, <2>2
  <2> QED
    BY <2>1, <2>2, <2>3, <2>4
<1> QED
  BY <1>4, <1>6, <1>7 DEF first, kind

\* What is located in a node is in a first record it carries.
LEMMA QuotedFrom ==
    ASSUME GraphInv, run # None, NEW i \in IdsOf(run.graph), NEW quote, G!Located(i, quote)
    PROVE  \E x \in source.nodes : run.carrier[x.rec.id] = i /\ G!Context(source.kind, x.rec) = quote
<1>1. KeptWhole(run.graph, source, run.carrier, depth)
  BY DEF GraphInv
<1>2. run.graph.kind = source.kind
  BY <1>1 DEF KeptWhole, Framed
<1>3. G!NodeIn(i) \in run.graph.nodes /\ G!NodeIn(i).rec.id = i
  BY <1>1, NodesById
<1>4. PICK r \in G!SourceRecords(G!NodeIn(i)) : G!Context(source.kind, r) = quote
  BY <1>2 DEF G!Located, G!Contexts
<1>5. G!SourceRecords(G!NodeIn(i)) = Carried(source, run.carrier, i)
  BY <1>1, <1>3 DEF KeptWhole, NodeKept
<1>6. PICK x \in source.nodes : run.carrier[x.rec.id] = i /\ r = x.rec
  BY <1>4, <1>5 DEF Carried
<1> QED
  BY <1>4, <1>6

LEMMA PendingQuoted == ASSUME GraphInv PROVE G!PendingIsQuoted
<1> SUFFICES ASSUME run # None, NEW p \in DOMAIN run.decided, G!Annotated(p) = "pending"
             PROVE  /\ ~G!Blocked(p)
                    /\ \A side \in {<<p[1], run.evidence[p].left>>, <<p[2], run.evidence[p].right>>} :
                        \E x \in source.nodes :
                            run.carrier[x.rec.id] = side[1] /\ G!Context(source.kind, x.rec) = side[2]
  BY DEF G!PendingIsQuoted
<1>1. p \in IdsOf(run.graph) \X IdsOf(run.graph) /\ run.decided[p] \in {"open", "merged"}
  BY DEF GraphInv, Judged
<1>2. ~G!Blocked(p) /\ G!Recommends(p)
  BY <1>1 DEF G!Annotated
<1>3. G!Located(p[1], run.evidence[p].left) /\ G!Located(p[2], run.evidence[p].right)
  BY <1>2 DEF G!Recommends, G!Supported
<1>4. p[1] \in IdsOf(run.graph) /\ p[2] \in IdsOf(run.graph)
  BY <1>1
<1>5. \E x \in source.nodes : run.carrier[x.rec.id] = p[1] /\ G!Context(source.kind, x.rec) = run.evidence[p].left
  BY <1>3, <1>4, QuotedFrom
<1>6. \E x \in source.nodes : run.carrier[x.rec.id] = p[2] /\ G!Context(source.kind, x.rec) = run.evidence[p].right
  BY <1>3, <1>4, QuotedFrom
<1> QED
  BY <1>2, <1>5, <1>6

(* The two parts at once, each as long as the behaviour is of it.           *)
ShownKept ==
    /\ part = "graphs" => GraphInv
    /\ part = "experiments" => ExperimentInv

LEMMA ShownStays == ShownKept /\ [MCNext]_allVars => ShownKept'
<1> SUFFICES ASSUME ShownKept, [MCNext]_allVars PROVE ShownKept'
  OBVIOUS
<1>1. ASSUME part' = "graphs" PROVE GraphInv'
  <2>1. CASE part = "graphs" /\ G!Next
    BY <2>1, GraphNext DEF ShownKept
  <2>2. CASE part = "graphs" /\ UNCHANGED graphsVars
    BY <2>2, GraphStill DEF ShownKept
  <2> QED
    BY <1>1, <2>1, <2>2 DEF MCNext, allVars
<1>2. ASSUME part' = "experiments" PROVE ExperimentInv'
  <2>1. CASE part = "experiments" /\ X!Next
    BY <2>1, ExperimentNext DEF ShownKept
  <2>2. CASE part = "experiments" /\ UNCHANGED experimentsVars
    BY <2>2, ExperimentStill DEF ShownKept
  <2> QED
    BY <1>2, <2>1, <2>2 DEF MCNext, allVars
<1> QED
  BY <1>1, <1>2 DEF ShownKept

(* However often results are merged again, and whichever decisions are      *)
(* taken and taken back: a graph holds every record and relation of the     *)
(* first one once, shows every disagreement of what it merged, takes spans  *)
(* and identifiers from first records only, and asks a reviewer only what   *)
(* is quoted (adapter.py, projection.py).  Whoever writes, stops or         *)
(* replaces comparisons meanwhile: a page shows one of them, whole, and its *)
(* scores are those of a count over all pairs (experiments.py,              *)
(* evaluation.py).                                                          *)
THEOREM ShownStaysExact == MCSpec => []WhatIsShownIsExact
<1>1. MCInit => ShownKept
  BY GraphInit, ExperimentInit DEF MCInit, ShownKept
<1>2. ShownKept => WhatIsShownIsExact
  <2> SUFFICES ASSUME ShownKept PROVE WhatIsShownIsExact
    OBVIOUS
  <2>1. ASSUME part = "graphs"
        PROVE  G!NothingIsLost /\ G!DisagreementsAreShown /\ G!IdentityIsGrounded /\ G!PendingIsQuoted
    BY <2>1, NothingLost, Disagreements, Identity, PendingQuoted DEF ShownKept
  <2>2. ASSUME part = "experiments" PROVE X!ShownIsOneRun /\ X!ScoresAreExact
    <3>1. experimentsInput \in ExperimentInputs
      BY <2>2 DEF ShownKept, ExperimentInv, ExperimentTypes
    <3> QED
      BY <2>2, <3>1, OneRunIsShown, ScoresHold DEF ShownKept
  <2> QED
    BY <2>1, <2>2 DEF WhatIsShownIsExact
<1> QED
  BY <1>1, <1>2, ShownStays, PTL DEF MCSpec
====
