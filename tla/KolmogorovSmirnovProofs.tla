----------------------- MODULE KolmogorovSmirnovProofs -----------------------
(* What the proofs about the handlers' statistics need to know of sums over*)
(* finite sets, of the largest element of a set and of the cumulative      *)
(* distributions.                                                          *)
(*                                                                         *)
(* An induction over finite sets is by a smallest counterexample: the set  *)
(* of the subsets for which a statement fails has no minimal element.      *)
EXTENDS KolmogorovSmirnov, FiniteSetTheorems, TLAPS

LEMMA SmallestSubset ==
  ASSUME NEW S, IsFiniteSet(S), NEW B \in SUBSET SUBSET S, B # {}
  PROVE  \E m \in B : \A t \in B : t \subseteq m => t = m
<1>1. IsWellFoundedOn(StrictSubsetOrdering(S), SUBSET S)
  BY FS_FiniteSubsetsOfFinite, FS_StrictSubsetOrderingWellFounded
<1>2. \E m \in B : \A t \in B : ~(<<t, m>> \in StrictSubsetOrdering(S))
  BY <1>1, WFMin
<1> QED
  BY <1>2 DEF StrictSubsetOrdering

LEMMA LeastElement ==
  ASSUME NEW B, B \subseteq Nat, NEW k \in B
  PROVE  \E m \in B : \A n \in B : m <= n
<1> DEFINE below == {0 .. i : i \in {j \in B : j <= k}}
           K == 0 .. k
<1>1. IsFiniteSet(K)
  BY FS_Interval
<1>2. below \in SUBSET SUBSET K /\ below # {}
  OBVIOUS
<1>3. PICK s \in below : \A t \in below : t \subseteq s => t = s
  <2> HIDE DEF below, K
  <2> QED
    BY <1>1, <1>2, SmallestSubset
<1>4. PICK low \in B : low <= k /\ s = 0 .. low
  OBVIOUS
<1>5. ASSUME NEW h \in B PROVE low <= h
  <2> SUFFICES ASSUME h < low PROVE FALSE
    OBVIOUS
  <2>1. 0 .. h \in below /\ 0 .. h \subseteq s /\ 0 .. h # s
    BY <1>4
  <2> QED
    BY <2>1, <1>3
<1> QED
  BY <1>5

(* A set of naturals with a bound has a largest element.                   *)
LEMMA MaxIs ==
  ASSUME NEW S, S \subseteq Nat, S # {}, NEW bound \in Nat, \A n \in S : n <= bound
  PROVE  Max(S) \in S /\ \A n \in S : n <= Max(S)
<1> DEFINE B == {b \in Nat : \A n \in S : n <= b}
<1>1. PICK m \in B : \A b \in B : m <= b
  <2>1. B \subseteq Nat /\ bound \in B
    OBVIOUS
  <2> HIDE DEF B
  <2> QED
    BY <2>1, LeastElement
<1>2. m \in S
  <2> SUFFICES ASSUME m \notin S PROVE FALSE
    OBVIOUS
  <2>0. PICK n \in S : TRUE
    OBVIOUS
  <2>1. n \in Nat /\ m \in Nat /\ n <= m /\ n # m
    OBVIOUS
  <2>2. m - 1 \in Nat
    BY <2>1
  <2>3. \A h \in S : h <= m - 1
    OBVIOUS
  <2>4. m - 1 \in B
    BY <2>2, <2>3
  <2> QED
    BY <1>1, <2>4
<1>3. \A n \in S : m >= n
  OBVIOUS
<1> QED
  BY <1>2, <1>3 DEF Max

-----------------------------------------------------------------------------
(* The fold behind SumFunctionOnSet is a function that is defined by       *)
(* recursion over the subsets: it exists and satisfies its equation.       *)

First(s) == CHOOSE x \in s : TRUE

Rec(g, fun, T) ==
  g = [s \in SUBSET T |-> IF s = {} THEN 0 ELSE fun[First(s)] + g[s \ {First(s)}]]

Fold(fun, T) == CHOOSE g : Rec(g, fun, T)

LEMMA SumIsFold ==
  ASSUME NEW fun, NEW S
  PROVE  SumFunctionOnSet(fun, S) = Fold(fun, S)[S]
BY DEF SumFunctionOnSet, FoldFunctionOnSet, MapThenFoldSet, Fold, Rec, First

LEMMA FoldsAgree ==
  ASSUME NEW fun, NEW S, IsFiniteSet(S), NEW T,
         NEW g, Rec(g, fun, S), NEW h, Rec(h, fun, T)
  PROVE  \A s \in SUBSET S : s \subseteq T => g[s] = h[s]
<1> DEFINE B == {s \in SUBSET S : s \subseteq T /\ g[s] # h[s]}
<1> SUFFICES ASSUME B # {} PROVE FALSE
  OBVIOUS
<1>0. B \in SUBSET SUBSET S
  OBVIOUS
<1>1. PICK m \in B : \A t \in B : t \subseteq m => t = m
  <2> HIDE DEF B
  <2> QED
    BY <1>0, SmallestSubset
<1>2. /\ g[m] = IF m = {} THEN 0 ELSE fun[First(m)] + g[m \ {First(m)}]
      /\ h[m] = IF m = {} THEN 0 ELSE fun[First(m)] + h[m \ {First(m)}]
  BY DEF Rec
<1>3. m # {} /\ First(m) \in m
  BY <1>2 DEF First
<1>4. g[m \ {First(m)}] = h[m \ {First(m)}]
  BY <1>1, <1>3
<1> QED
  BY <1>2, <1>3, <1>4

LEMMA FoldExists ==
  ASSUME NEW fun, NEW S, IsFiniteSet(S)
  PROVE  Rec(Fold(fun, S), fun, S)
<1> DEFINE B == {s \in SUBSET S : ~Rec(Fold(fun, s), fun, s)}
<1> SUFFICES ASSUME B # {} PROVE FALSE
  OBVIOUS
<1>0. B \in SUBSET SUBSET S
  OBVIOUS
<1>1. PICK m \in B : \A t \in B : t \subseteq m => t = m
  <2> HIDE DEF B
  <2> QED
    BY <1>0, SmallestSubset
<1>2. \A t \in SUBSET m : t # m => Rec(Fold(fun, t), fun, t)
  BY <1>1
<1>3. \A t \in SUBSET m : IsFiniteSet(t)
  BY FS_Subset
<1> DEFINE Value(t) == Fold(fun, t)[t]
           g == [s \in SUBSET m |->
                   IF s = {} THEN 0 ELSE fun[First(s)] + Value(s \ {First(s)})]
<1>4. ASSUME NEW t \in SUBSET m, t # m PROVE g[t] = Value(t)
  <2>1. Rec(Fold(fun, t), fun, t)
    BY <1>2, <1>4
  <2>2. Value(t) = IF t = {} THEN 0 ELSE fun[First(t)] + Fold(fun, t)[t \ {First(t)}]
    BY <2>1 DEF Rec
  <2>3. CASE t = {}
    BY <2>2, <2>3
  <2>4. CASE t # {}
    <3>1. First(t) \in t
      BY <2>4 DEF First
    <3> DEFINE u == t \ {First(t)}
    <3>2. u \in SUBSET m /\ u # m /\ u \in SUBSET t /\ IsFiniteSet(t)
      BY <3>1, <1>3
    <3>3. Rec(Fold(fun, u), fun, u)
      BY <3>2, <1>2
    <3>4. Fold(fun, t)[u] = Value(u)
      BY <2>1, <3>2, <3>3, FoldsAgree
    <3> QED
      BY <2>2, <2>4, <3>4
  <2> QED
    BY <2>3, <2>4
<1>5. ASSUME NEW s \in SUBSET m, s # {} PROVE Value(s \ {First(s)}) = g[s \ {First(s)}]
  <2>1. First(s) \in s
    BY <1>5 DEF First
  <2>2. s \ {First(s)} \in SUBSET m /\ s \ {First(s)} # m
    BY <2>1
  <2> QED
    BY <2>2, <1>4
<1>6. Rec(g, fun, m)
  BY <1>5 DEF Rec
<1>7. Rec(Fold(fun, m), fun, m)
  BY <1>6 DEF Fold
<1> QED
  BY <1>7

(* The equation of the sum.                                                *)
LEMMA SumDef ==
  ASSUME NEW fun, NEW S, IsFiniteSet(S)
  PROVE  SumFunctionOnSet(fun, S) =
           IF S = {} THEN 0
           ELSE fun[First(S)] + SumFunctionOnSet(fun, S \ {First(S)})
<1>1. Rec(Fold(fun, S), fun, S)
  BY FoldExists
<1>2. Fold(fun, S)[S] = IF S = {} THEN 0 ELSE fun[First(S)] + Fold(fun, S)[S \ {First(S)}]
  BY <1>1 DEF Rec
<1>3. CASE S # {}
  <2> DEFINE u == S \ {First(S)}
  <2>1. IsFiniteSet(u) /\ u \in SUBSET S
    BY FS_Subset
  <2>2. Rec(Fold(fun, u), fun, u)
    BY <2>1, FoldExists
  <2>3. \A s \in SUBSET S : s \subseteq u => Fold(fun, S)[s] = Fold(fun, u)[s]
    <3> HIDE DEF u
    <3> QED
      BY <1>1, <2>2, FoldsAgree
  <2>4. Fold(fun, S)[u] = Fold(fun, u)[u]
    BY <2>1, <2>3
  <2> QED
    BY <1>2, <1>3, <2>4, SumIsFold
<1> QED
  BY <1>2, <1>3, SumIsFold

-----------------------------------------------------------------------------
(* What sums are.                                                          *)

LEMMA SumEmpty == \A fun : SumFunctionOnSet(fun, {}) = 0
  BY SumDef, FS_EmptySet

LEMMA SumNat ==
  ASSUME NEW fun, NEW S, IsFiniteSet(S), \A x \in S : fun[x] \in Nat
  PROVE  SumFunctionOnSet(fun, S) \in Nat
<1> DEFINE B == {s \in SUBSET S : SumFunctionOnSet(fun, s) \notin Nat}
<1> SUFFICES ASSUME B # {} PROVE FALSE
  OBVIOUS
<1>1. PICK m \in B : \A t \in B : t \subseteq m => t = m
  <2>1. B \in SUBSET SUBSET S
    OBVIOUS
  <2> HIDE DEF B
  <2> QED
    BY <2>1, SmallestSubset
<1>2. IsFiniteSet(m)
  BY FS_Subset
<1>3. CASE m = {}
  BY <1>3, SumEmpty
<1>4. CASE m # {}
  <2>1. First(m) \in m
    BY <1>4 DEF First
  <2>2. SumFunctionOnSet(fun, m \ {First(m)}) \in Nat
    BY <1>1, <2>1
  <2> QED
    BY <1>2, <1>4, <2>1, <2>2, SumDef
<1> QED
  BY <1>3, <1>4

(* The order of the summands does not matter.                              *)
LEMMA SumRemove ==
  ASSUME NEW fun, NEW S, IsFiniteSet(S), \A x \in S : fun[x] \in Nat, NEW e \in S
  PROVE  SumFunctionOnSet(fun, S) = fun[e] + SumFunctionOnSet(fun, S \ {e})
<1> DEFINE Sum(s) == SumFunctionOnSet(fun, s)
           B == {s \in SUBSET S : \E x \in s : Sum(s) # fun[x] + Sum(s \ {x})}
<1> SUFFICES ASSUME B # {} PROVE FALSE
  OBVIOUS
<1>0. ASSUME NEW s \in SUBSET S
      PROVE  /\ IsFiniteSet(s) /\ Sum(s) \in Nat
             /\ s # {} => First(s) \in s /\ Sum(s) = fun[First(s)] + Sum(s \ {First(s)})
  <2>1. IsFiniteSet(s)
    BY FS_Subset
  <2>2. Sum(s) \in Nat
    BY <2>1, SumNat
  <2> QED
    BY <2>1, <2>2, SumDef DEF First
<1>1. PICK m \in B : \A t \in B : t \subseteq m => t = m
  <2>1. B \in SUBSET SUBSET S
    OBVIOUS
  <2> HIDE DEF B
  <2> QED
    BY <2>1, SmallestSubset
<1>2. PICK x \in m : Sum(m) # fun[x] + Sum(m \ {x})
  OBVIOUS
<1> DEFINE y == First(m)
<1>3. y \in m /\ Sum(m) = fun[y] + Sum(m \ {y}) /\ x # y
  BY <1>0, <1>2
<1>4. Sum(m \ {y}) = fun[x] + Sum((m \ {y}) \ {x})
  BY <1>1, <1>3
<1>5. Sum(m \ {x}) = fun[y] + Sum((m \ {x}) \ {y})
  BY <1>1, <1>3
<1>6. (m \ {y}) \ {x} = (m \ {x}) \ {y}
  OBVIOUS
<1>7. Sum((m \ {y}) \ {x}) = Sum((m \ {x}) \ {y})
  BY <1>6
<1>8. fun[x] \in Nat /\ fun[y] \in Nat /\ Sum((m \ {x}) \ {y}) \in Nat
  BY <1>0, <1>3
<1> HIDE DEF Sum, y
<1> QED
  BY <1>2, <1>3, <1>4, <1>5, <1>7, <1>8

LEMMA SumAdd ==
  ASSUME NEW fun, NEW S, IsFiniteSet(S), NEW e, e \notin S,
         \A x \in S \cup {e} : fun[x] \in Nat
  PROVE  SumFunctionOnSet(fun, S \cup {e}) = fun[e] + SumFunctionOnSet(fun, S)
<1>1. IsFiniteSet(S \cup {e})
  BY FS_AddElement
<1>2. (S \cup {e}) \ {e} = S
  OBVIOUS
<1> QED
  BY <1>1, <1>2, SumRemove

(* A sum sees of a function only what it sums.                             *)
LEMMA SumSame ==
  ASSUME NEW fun, NEW other, NEW S, IsFiniteSet(S), \A x \in S : fun[x] = other[x]
  PROVE  SumFunctionOnSet(fun, S) = SumFunctionOnSet(other, S)
<1> DEFINE B == {s \in SUBSET S : SumFunctionOnSet(fun, s) # SumFunctionOnSet(other, s)}
<1> SUFFICES ASSUME B # {} PROVE FALSE
  OBVIOUS
<1>1. PICK m \in B : \A t \in B : t \subseteq m => t = m
  <2>1. B \in SUBSET SUBSET S
    OBVIOUS
  <2> HIDE DEF B
  <2> QED
    BY <2>1, SmallestSubset
<1>2. IsFiniteSet(m)
  BY FS_Subset
<1>3. m # {} /\ First(m) \in m
  BY SumEmpty DEF First
<1>4. SumFunctionOnSet(fun, m \ {First(m)}) = SumFunctionOnSet(other, m \ {First(m)})
  BY <1>1, <1>3
<1> QED
  BY <1>2, <1>3, <1>4, SumDef

(* Zeros can be left out; no part exceeds the whole.                       *)
LEMMA SumWithin ==
  ASSUME NEW fun, NEW S, IsFiniteSet(S), \A x \in S : fun[x] \in Nat, NEW T \in SUBSET S
  PROVE  /\ SumFunctionOnSet(fun, T) <= SumFunctionOnSet(fun, S)
         /\ (\A x \in S \ T : fun[x] = 0) => SumFunctionOnSet(fun, T) = SumFunctionOnSet(fun, S)
         /\ (\E x \in S \ T : fun[x] > 0) => SumFunctionOnSet(fun, T) < SumFunctionOnSet(fun, S)
<1> DEFINE Sum(s) == SumFunctionOnSet(fun, s)
           Good(s) == /\ Sum(T) <= Sum(s)
                      /\ (\A x \in s \ T : fun[x] = 0) => Sum(T) = Sum(s)
                      /\ (\E x \in s \ T : fun[x] > 0) => Sum(T) < Sum(s)
           B == {s \in SUBSET S : T \subseteq s /\ ~Good(s)}
<1> SUFFICES ASSUME B # {} PROVE FALSE
  OBVIOUS
<1>0. \A s \in SUBSET S : IsFiniteSet(s) /\ Sum(s) \in Nat
  BY FS_Subset, SumNat
<1>1. PICK m \in B : \A t \in B : t \subseteq m => t = m
  <2>1. B \in SUBSET SUBSET S
    OBVIOUS
  <2> HIDE DEF B
  <2> QED
    BY <2>1, SmallestSubset
<1>2. PICK y \in m : y \notin T
  <2>1. Good(T)
    BY <1>0
  <2> QED
    BY <2>1
<1>3. Good(m \ {y})
  BY <1>1, <1>2
<1>4. Sum(m) = fun[y] + Sum(m \ {y})
  BY <1>0, SumRemove
<1>5. fun[y] \in Nat /\ Sum(T) \in Nat /\ Sum(m \ {y}) \in Nat
  BY <1>0
<1>6. Good(m)
  <2>1. \A x \in m \ T : x = y \/ x \in (m \ {y}) \ T
    OBVIOUS
  <2>2. (m \ {y}) \ T \subseteq m \ T
    OBVIOUS
  <2> QED
    BY <1>2, <1>3, <1>4, <1>5, <2>1, <2>2
<1> QED
  BY <1>6

LEMMA SumPlus ==
  ASSUME NEW fun, NEW one, NEW other, NEW S, IsFiniteSet(S),
         \A x \in S : one[x] \in Nat /\ other[x] \in Nat /\ fun[x] = one[x] + other[x]
  PROVE  SumFunctionOnSet(fun, S) = SumFunctionOnSet(one, S) + SumFunctionOnSet(other, S)
<1> DEFINE B == {s \in SUBSET S :
                  SumFunctionOnSet(fun, s) # SumFunctionOnSet(one, s) + SumFunctionOnSet(other, s)}
<1> SUFFICES ASSUME B # {} PROVE FALSE
  OBVIOUS
<1>1. PICK m \in B : \A t \in B : t \subseteq m => t = m
  <2>1. B \in SUBSET SUBSET S
    OBVIOUS
  <2> HIDE DEF B
  <2> QED
    BY <2>1, SmallestSubset
<1>2. IsFiniteSet(m)
  BY FS_Subset
<1>3. m # {} /\ First(m) \in m
  <2>1. m = {} => \A f : SumFunctionOnSet(f, m) = 0
    BY <1>2, SumDef
  <2>2. SumFunctionOnSet(fun, m) # SumFunctionOnSet(one, m) + SumFunctionOnSet(other, m)
    OBVIOUS
  <2> HIDE DEF B
  <2>3. m # {}
    BY <2>1, <2>2
  <2> QED
    BY <2>3 DEF First
<1> DEFINE x == First(m)
           u == m \ {x}
<1>4. SumFunctionOnSet(fun, u) = SumFunctionOnSet(one, u) + SumFunctionOnSet(other, u)
  BY <1>1, <1>3
<1>5. /\ SumFunctionOnSet(fun, m) = fun[x] + SumFunctionOnSet(fun, u)
      /\ SumFunctionOnSet(one, m) = one[x] + SumFunctionOnSet(one, u)
      /\ SumFunctionOnSet(other, m) = other[x] + SumFunctionOnSet(other, u)
  BY <1>2, <1>3, SumDef
<1>6. IsFiniteSet(u)
  BY <1>2, FS_RemoveElement
<1>7. SumFunctionOnSet(one, u) \in Nat /\ SumFunctionOnSet(other, u) \in Nat
  BY <1>6, SumNat
<1>8. one[x] \in Nat /\ other[x] \in Nat /\ fun[x] = one[x] + other[x]
  BY <1>3
<1>9. SumFunctionOnSet(fun, m) # SumFunctionOnSet(one, m) + SumFunctionOnSet(other, m)
  OBVIOUS
<1> HIDE DEF u, x
<1> QED
  BY <1>4, <1>5, <1>7, <1>8, <1>9

LEMMA DisjointUnion ==
  ASSUME NEW S, IsFiniteSet(S), NEW T, IsFiniteSet(T), S \cap T = {}
  PROVE  Cardinality(S \cup T) = Cardinality(S) + Cardinality(T)
<1>1. Cardinality(S) \in Nat /\ Cardinality(T) \in Nat
  BY FS_CardinalityType
<1>2. Cardinality(S \cup T) = Cardinality(S) + Cardinality(T) - Cardinality(S \cap T)
  BY FS_Union
<1>3. Cardinality(S \cap T) = 0
  BY FS_EmptySet
<1> QED
  BY <1>1, <1>2, <1>3

(* The elements of N, counted by their value under a function.             *)
LEMMA SumOfFibres ==
  ASSUME NEW N, IsFiniteSet(N), NEW K, IsFiniteSet(K),
         NEW value, \A i \in N : value[i] \in K,
         NEW count, \A g \in K : \A fibre :
           (\A i : i \in fibre <=> i \in N /\ value[i] = g) => count[g] = Cardinality(fibre)
  PROVE  SumFunctionOnSet(count, K) = Cardinality(N)
<1> DEFINE Within(k) == {i \in N : value[i] \in k}
           B == {k \in SUBSET K : SumFunctionOnSet(count, k) # Cardinality(Within(k))}
<1>0. \A k \in SUBSET K : IsFiniteSet(k) /\ IsFiniteSet(Within(k)) /\ Cardinality(Within(k)) \in Nat
  BY FS_Subset, FS_CardinalityType
<1>1. B = {}
  <2> SUFFICES ASSUME B # {} PROVE FALSE
    OBVIOUS
  <2>1. PICK m \in B : \A t \in B : t \subseteq m => t = m
    <3>1. B \in SUBSET SUBSET K
      OBVIOUS
    <3> HIDE DEF B
    <3> QED
      BY <3>1, SmallestSubset
  <2>2. IsFiniteSet(m) /\ m \subseteq K /\ SumFunctionOnSet(count, m) # Cardinality(Within(m))
    BY <1>0
  <2>3. m # {}
    <3>1. Within({}) = {}
      OBVIOUS
    <3> HIDE DEF Within
    <3> QED
      BY <2>2, <3>1, SumEmpty, FS_EmptySet
  <2>4. First(m) \in m
    BY <2>3 DEF First
  <2> DEFINE g == First(m)
             u == m \ {g}
             F == {i \in N : value[i] = g}
  <2>5. SumFunctionOnSet(count, u) = Cardinality(Within(u))
    BY <2>1, <2>4
  <2>6. SumFunctionOnSet(count, m) = count[g] + SumFunctionOnSet(count, u)
    BY <2>2, <2>3, SumDef
  <2>7. count[g] = Cardinality(F) /\ IsFiniteSet(F) /\ Cardinality(F) \in Nat
    <3>1. g \in K /\ \A i : i \in F <=> i \in N /\ value[i] = g
      BY <2>2, <2>4
    <3>2. IsFiniteSet(F) /\ Cardinality(F) \in Nat
      BY FS_Subset, FS_CardinalityType
    <3> HIDE DEF F, g
    <3> QED
      BY <3>1, <3>2
  <2>8. Within(m) = Within(u) \cup F /\ Within(u) \cap F = {}
    BY <2>4
  <2>9. IsFiniteSet(Within(u)) /\ Cardinality(Within(u)) \in Nat
    BY <1>0, <2>2
  <2>10. Cardinality(Within(m)) = Cardinality(Within(u)) + Cardinality(F)
    <3>1. Cardinality(Within(u) \cup F) = Cardinality(Within(u)) + Cardinality(F)
      <4> HIDE DEF Within, F
      <4> QED
        BY <2>7, <2>8, <2>9, DisjointUnion
    <3> HIDE DEF Within, F
    <3> QED
      BY <2>8, <3>1
  <2> HIDE DEF Within, u, g, F
  <2> QED
    BY <2>2, <2>5, <2>6, <2>7, <2>9, <2>10
<1>2. Within(K) = N
  OBVIOUS
<1>3. SumFunctionOnSet(count, K) = Cardinality(Within(K))
  BY <1>1
<1> QED
  BY <1>2, <1>3

-----------------------------------------------------------------------------
(* What samples, their distributions and their statistic are.              *)

IsSample(d) ==
  /\ IsFiniteSet(DOMAIN d)
  /\ DOMAIN d \subseteq Nat
  /\ \A v \in DOMAIN d : d[v] \in Nat

LEMMA SampleSums ==
  ASSUME NEW d, IsSample(d), NEW S \in SUBSET DOMAIN d
  PROVE  /\ IsFiniteSet(S)
         /\ SumFunctionOnSet(d, S) \in Nat
         /\ Size(d) \in Nat
         /\ SumFunctionOnSet(d, S) <= Size(d)
<1>1. IsFiniteSet(S) /\ \A x \in DOMAIN d : d[x] \in Nat
  BY FS_Subset DEF IsSample
<1>2. SumFunctionOnSet(d, S) \in Nat /\ SumFunctionOnSet(d, DOMAIN d) \in Nat
  BY <1>1, SumNat DEF IsSample
<1>3. SumFunctionOnSet(d, S) <= SumFunctionOnSet(d, DOMAIN d)
  BY <1>1, SumWithin DEF IsSample
<1> QED
  BY <1>1, <1>2, <1>3 DEF Size, SumFunction

LEMMA SumAtLeast ==
  ASSUME NEW d, IsSample(d), NEW v \in DOMAIN d
  PROVE  d[v] <= Size(d)
<1>1. SumFunctionOnSet(d, DOMAIN d) = d[v] + SumFunctionOnSet(d, DOMAIN d \ {v})
  BY SumRemove DEF IsSample
<1>2. SumFunctionOnSet(d, DOMAIN d \ {v}) \in Nat /\ d[v] \in Nat
  BY SampleSums DEF IsSample
<1> QED
  BY <1>1, <1>2 DEF Size, SumFunction

LEMMA UpToBounds ==
  ASSUME NEW d, IsSample(d), NEW value
  PROVE  UpTo(d, value) \in Nat /\ UpTo(d, value) <= Size(d) /\ Size(d) \in Nat
<1>1. {v \in DOMAIN d : v <= value} \in SUBSET DOMAIN d
  OBVIOUS
<1> QED
  BY <1>1, SampleSums DEF UpTo

LEMMA UpToAll ==
  ASSUME NEW d, NEW value, \A v \in DOMAIN d : v <= value
  PROVE  UpTo(d, value) = Size(d)
<1>1. {v \in DOMAIN d : v <= value} = DOMAIN d
  OBVIOUS
<1> QED
  BY <1>1 DEF UpTo, Size, SumFunction

LEMMA UpToNone ==
  ASSUME NEW d, NEW value, \A v \in DOMAIN d : ~(v <= value)
  PROVE  UpTo(d, value) = 0
<1>1. {v \in DOMAIN d : v <= value} = {}
  OBVIOUS
<1> QED
  BY <1>1, SumEmpty DEF UpTo

LEMMA DistanceSame == \A a \in Int : Distance(a, a) = 0
  BY DEF Distance

LEMMA ProductMonotone ==
  ASSUME NEW A \in Nat, NEW B \in Nat, NEW a \in 0 .. A
  PROVE  a * B \in 0 .. A * B
<1>1. A - a \in Nat
  OBVIOUS
<1>2. (A - a) * B \in Nat /\ a * B \in Nat
  BY <1>1
<1>3. A * B = a * B + (A - a) * B
  OBVIOUS
<1> QED
  BY <1>2, <1>3

LEMMA DistanceBound ==
  ASSUME NEW A \in Nat, NEW B \in Nat, NEW a \in 0 .. A, NEW b \in 0 .. B
  PROVE  Distance(a * B, b * A) \in 0 .. A * B
<1>1. a * B \in 0 .. A * B /\ b * A \in 0 .. A * B /\ A * B \in Nat
  <2>1. b * A \in 0 .. B * A
    BY ProductMonotone
  <2>2. a * B \in 0 .. A * B
    BY ProductMonotone
  <2> QED
    BY <2>1, <2>2
<1> DEFINE x == a * B
           y == b * A
           z == A * B
<1> HIDE DEF x, y, z
<1>2. Distance(x, y) \in 0 .. z
  BY <1>1 DEF Distance, x, y, z
<1> QED
  BY <1>2 DEF x, y, z

(* Two sets whose elements are matched by elements as large of the other   *)
(* have the same largest element.                                          *)
LEMMA MaxSame ==
  ASSUME NEW bound \in Nat,
         NEW S, S \subseteq 0 .. bound, S # {},
         NEW T, T \subseteq 0 .. bound, T # {},
         \A s \in S : \E t \in T : s <= t,
         \A t \in T : \E s \in S : t <= s
  PROVE  Max(S) = Max(T)
<1>0. /\ S \subseteq Nat /\ \A n \in S : n <= bound
      /\ T \subseteq Nat /\ \A n \in T : n <= bound
  OBVIOUS
<1>1. Max(S) \in S /\ \A n \in S : n <= Max(S)
  <2> QED
    BY <1>0, MaxIs
<1>2. Max(T) \in T /\ \A n \in T : n <= Max(T)
  <2> QED
    BY <1>0, MaxIs
<1>3. PICK t \in T : Max(S) <= t
  BY <1>1
<1>4. PICK s \in S : Max(T) <= s
  BY <1>2
<1>5. t <= Max(T) /\ s <= Max(S)
  BY <1>1, <1>2
<1>6. s \in Nat /\ t \in Nat /\ Max(S) \in Nat /\ Max(T) \in Nat
  BY <1>0, <1>1, <1>2
<1> QED
  BY <1>3, <1>4, <1>5, <1>6

(* A finite set of naturals has a bound, and with it a largest element.    *)
LEMMA FiniteBound ==
  ASSUME NEW N, IsFiniteSet(N), N \subseteq Nat
  PROVE  \E bound \in Nat : \A n \in N : n <= bound
<1> DEFINE Bounded(s) == \E bound \in Nat : \A n \in s : n <= bound
           Bad == {s \in SUBSET N : ~\E bound \in Nat : \A n \in s : n <= bound}
<1> SUFFICES ASSUME Bad # {} PROVE FALSE
  OBVIOUS
<1>1. PICK m \in Bad : \A t \in Bad : t \subseteq m => t = m
  <2>1. Bad \in SUBSET SUBSET N
    OBVIOUS
  <2>2. Bad # {} /\ IsFiniteSet(N)
    OBVIOUS
  <2> HIDE DEF Bad
  <2> QED
    BY ONLY <2>1, <2>2, SmallestSubset
<1>2. CASE m = {}
  <2>1. Bounded(m)
    BY <1>2
  <2> QED
    BY <2>1
<1>3. CASE m # {}
  <2>1. PICK x \in m : TRUE
    BY <1>3
  <2>2. Bounded(m \ {x})
    <3>1. m \ {x} \in SUBSET N /\ m \ {x} \subseteq m /\ m \ {x} # m
      BY <2>1
    <3>2. m \ {x} \notin Bad
      <4> HIDE DEF Bad
      <4> QED
        BY <1>1, <3>1
    <3> QED
      BY <3>1, <3>2
  <2>3. PICK bound \in Nat : \A n \in m \ {x} : n <= bound
    BY <2>2
  <2>4. x \in Nat
    BY <2>1
  <2>5. \A n \in m : n \in Nat /\ n <= bound + x
    BY <2>3, <2>4
  <2>6. bound + x \in Nat
    BY <2>4
  <2>7. Bounded(m)
    BY <2>5, <2>6
  <2> QED
    BY <2>7
<1> QED
  BY <1>2, <1>3

LEMMA MaxOfFinite ==
  ASSUME NEW S, IsFiniteSet(S), S \subseteq Nat, S # {}
  PROVE  Max(S) \in S /\ \A n \in S : n <= Max(S)
<1>1. PICK bound \in Nat : \A n \in S : n <= bound
  BY FiniteBound
<1> QED
  BY <1>1, MaxIs

LEMMA MaxOfKeys ==
  ASSUME NEW d, IsSample(d)
  PROVE  /\ Max({0} \cup DOMAIN d) \in {0} \cup DOMAIN d
         /\ Max({0} \cup DOMAIN d) \in Nat
         /\ \A v \in DOMAIN d : v <= Max({0} \cup DOMAIN d)
<1>1. IsFiniteSet({0} \cup DOMAIN d)
  <2>1. IsFiniteSet(DOMAIN d \cup {0})
    BY FS_AddElement DEF IsSample
  <2>2. {0} \cup DOMAIN d = DOMAIN d \cup {0}
    OBVIOUS
  <2> QED
    BY <2>1, <2>2
<1>2. {0} \cup DOMAIN d \subseteq Nat
  BY DEF IsSample
<1> QED
  BY <1>1, <1>2, MaxOfFinite

(* No difference is never a significant one.                               *)
LEMMA ExceedsNothing ==
  ASSUME NEW m \in Nat, NEW n \in Nat, NEW hundredC \in Nat
  PROVE  ~Exceeds(0, m, n, hundredC)
<1>1. hundredC * hundredC \in Nat /\ m + n \in Nat
  OBVIOUS
<1>2. hundredC * hundredC * (m + n) \in Nat
  BY <1>1
<1>3. hundredC * hundredC * (m + n) * m \in Nat
  BY <1>2
<1>4. hundredC * hundredC * (m + n) * m * n \in Nat
  BY <1>3
<1>5. 0 * 0 * 10000 = 0
  OBVIOUS
<1> QED
  BY <1>4, <1>5 DEF Exceeds
=============================================================================
