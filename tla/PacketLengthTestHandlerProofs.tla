-------------------- MODULE PacketLengthTestHandlerProofs --------------------
(* The counts of the packet length handler and of its section of the model *)
(* file, for every set of lengths and every word.                          *)
EXTENDS PacketLengthTestHandler, KolmogorovSmirnovProofs

(* Division determines the remainder.                                      *)
LEMMA RemainderUnique ==
  ASSUME NEW w \in Nat \ {0}, NEW q \in Nat, NEW r \in 0 .. w - 1
  PROVE  (w * q + r) % w = r
<1> DEFINE a == w * q + r
           p == a \div w
           s == a % w
<1>1. a \in Nat
  OBVIOUS
<1>2. p \in Int /\ s \in 0 .. w - 1 /\ a = w * p + s
  BY <1>1
<1> HIDE DEF p, s
<1>3. w * (p - q) = r - s
  BY <1>2
<1>4. CASE p - q >= 1
  <2>1. w * (p - q) >= w
    BY <1>4, <1>2
  <2> QED BY <2>1, <1>2, <1>3
<1>5. CASE p - q <= -1
  <2>1. w * (p - q) <= -w
    BY <1>5, <1>2
  <2> QED BY <2>1, <1>2, <1>3
<1>6. CASE p = q
  <2>1. r = s
    BY <1>3, <1>6, <1>2
  <2> QED BY <2>1 DEF s
<1> QED BY <1>2, <1>4, <1>5, <1>6

(* A counter that wraps counts modulo the word.                            *)
LEMMA CountsModulo ==
  ASSUME NEW w \in Nat \ {0, 1}, NEW n \in Nat
  PROVE  ((n % w) + 1) % w = (n + 1) % w
<1> DEFINE q == n \div w
           r == n % w
<1>1. q \in Nat /\ r \in 0 .. w - 1 /\ n = w * q + r
  OBVIOUS
<1> HIDE DEF q, r
<1>2. CASE r + 1 < w
  <2>1. n + 1 = w * q + (r + 1) /\ r + 1 \in 0 .. w - 1
    BY <1>1, <1>2
  <2>2. (n + 1) % w = r + 1
    BY <2>1, <1>1, RemainderUnique
  <2>3. (r + 1) % w = r + 1
    BY <1>1, <1>2
  <2> QED BY <2>2, <2>3 DEF r
<1>3. CASE r + 1 = w
  <2>1. n + 1 = w * (q + 1) + 0
    BY <1>1, <1>3
  <2>2. (n + 1) % w = 0
    BY <2>1, <1>1, RemainderUnique
  <2>3. w = w * 1 + 0
    OBVIOUS
  <2>4. (r + 1) % w = 0
    BY <2>3, <1>3, RemainderUnique
  <2> QED BY <2>2, <2>4 DEF r
<1> QED BY <1>1, <1>2, <1>3
(* One packet more, in the map and in the tally.                           *)
LEMMA IncrementTallies ==
  ASSUME NEW dist \in Counts, NEW sample \in [Length -> Nat], NEW len \in Length,
         Tallies(dist, sample)
  PROVE  /\ Increment(dist, len) \in Counts
         /\ Tallies(Increment(dist, len), [sample EXCEPT ![len] = @ + 1])
<1> DEFINE new == Increment(dist, len)
           more == [sample EXCEPT ![len] = @ + 1]
<1>1. /\ DOMAIN dist = {l \in Length : sample[l] > 0}
      /\ \A l \in DOMAIN dist : dist[l] = sample[l] % Word
  BY DEF Tallies
<1>2. DOMAIN new = DOMAIN dist \cup {len}
  BY DEF Increment
<1>3. /\ more \in [Length -> Nat]
      /\ more[len] = sample[len] + 1
      /\ \A l \in Length \ {len} : more[l] = sample[l]
  OBVIOUS
<1>4. DOMAIN new = {l \in Length : more[l] > 0}
  BY <1>1, <1>2, <1>3
<1>5. At(dist, len) = sample[len] % Word
  <2>1. CASE len \in DOMAIN dist
    BY <2>1, <1>1 DEF At
  <2>2. CASE len \notin DOMAIN dist
    <3>1. sample[len] = 0
      BY <2>2, <1>1
    <3>2. 0 % Word = 0
      BY ConstantsAssumption
    <3> QED BY <2>2, <3>1, <3>2 DEF At
  <2> QED BY <2>1, <2>2
<1>6. new[len] = more[len] % Word
  <2>1. new[len] = ((sample[len] % Word) + 1) % Word
    BY <1>5 DEF Increment
  <2> QED BY <2>1, <1>3, CountsModulo, ConstantsAssumption
<1>7. \A l \in DOMAIN new : new[l] = more[l] % Word
  <2> SUFFICES ASSUME NEW l \in DOMAIN new, l # len PROVE new[l] = more[l] % Word
    BY <1>6
  <2>1. l \in DOMAIN dist /\ new[l] = dist[l]
    BY <1>2 DEF Increment
  <2> QED BY <2>1, <1>1, <1>3
<1>8. new \in Counts
  <2>1. ASSUME NEW l \in DOMAIN new PROVE more[l] % Word \in 0 .. Word - 1
    <3>1. l \in Length
      BY <1>4
    <3>2. more[l] \in Nat
      BY <3>1, <1>3
    <3> HIDE DEF more
    <3> QED BY <3>2, ConstantsAssumption
  <2>2. new = [l \in DOMAIN new |-> new[l]]
    BY DEF Increment
  <2>3. new \in [DOMAIN new -> 0 .. Word - 1]
    BY <2>1, <2>2, <1>7
  <2>4. DOMAIN new \in SUBSET Length
    BY <1>4
  <2> QED BY <2>3, <2>4 DEF Counts
<1> QED BY <1>4, <1>7, <1>8 DEF Tallies

(* Tallies looks at the tally by its values only.                          *)
LEMMA TalliesSame ==
  ASSUME NEW dist, NEW sample, NEW other,
         \A len \in Length : sample[len] = other[len], Tallies(dist, sample)
  PROVE  Tallies(dist, other)
  BY DEF Tallies

-----------------------------------------------------------------------------
(* The curves that runTest compares are the cumulative distributions.      *)

LEMMA LengthsFinite == \A S \in SUBSET Length : IsFiniteSet(S) /\ S \subseteq Nat /\ 0 \notin S
<1>1. IsFiniteSet(Length) /\ Length \subseteq Nat /\ 0 \notin Length
  BY ConstantsAssumption
<1> QED
  BY <1>1, FS_Subset

LEMMA CountsAreSamples ==
  /\ \A dist \in Counts : IsSample(dist) /\ DOMAIN dist \subseteq Length
  /\ \A sample \in [Length -> Nat] : IsSample(sample) /\ DOMAIN sample = Length
<1>1. ASSUME NEW dist \in Counts PROVE IsSample(dist) /\ DOMAIN dist \subseteq Length
  <2>1. PICK lengths \in SUBSET Length : dist \in [lengths -> 0 .. Word - 1]
    BY DEF Counts
  <2>2. IsFiniteSet(lengths) /\ lengths \subseteq Nat
    BY LengthsFinite
  <2>3. Word \in Nat
    BY ConstantsAssumption
  <2> QED
    BY <2>1, <2>2, <2>3 DEF IsSample
<1>2. ASSUME NEW sample \in [Length -> Nat] PROVE IsSample(sample) /\ DOMAIN sample = Length
  BY ConstantsAssumption DEF IsSample
<1> QED
  BY <1>1, <1>2

(* As long as nothing wraps, a map that tallies a sample has its sums.     *)
LEMMA TalliedSums ==
  ASSUME NEW dist \in Counts, NEW sample \in [Length -> Nat],
         Tallies(dist, sample), Size(sample) < Word
  PROVE  Size(dist) = Size(sample) /\ \A i \in Nat : UpTo(dist, i) = UpTo(sample, i)
<1>1. IsSample(sample) /\ DOMAIN sample = Length /\ IsSample(dist)
  BY CountsAreSamples
<1>2. /\ DOMAIN dist = {len \in Length : sample[len] > 0}
      /\ \A len \in DOMAIN dist : dist[len] = sample[len]
  <2>1. ASSUME NEW len \in DOMAIN dist PROVE dist[len] = sample[len]
    <3>1. len \in Length /\ dist[len] = sample[len] % Word
      BY DEF Tallies
    <3>2. sample[len] <= Size(sample) /\ sample[len] \in Nat /\ Size(sample) \in Nat
      BY <1>1, <3>1, SumAtLeast, UpToBounds
    <3>3. sample[len] < Word /\ Word \in Nat
      BY <3>2, ConstantsAssumption
    <3> QED
      BY <3>1, <3>2, <3>3
  <2> QED
    BY <2>1 DEF Tallies
<1>3. ASSUME NEW S \in SUBSET Length
      PROVE  SumFunctionOnSet(dist, S \cap DOMAIN dist) = SumFunctionOnSet(sample, S)
  <2> DEFINE T == S \cap DOMAIN dist
  <2>1. IsFiniteSet(S) /\ IsFiniteSet(T) /\ T \in SUBSET S
    BY LengthsFinite
  <2>2. SumFunctionOnSet(dist, T) = SumFunctionOnSet(sample, T)
    BY <1>2, <2>1, SumSame
  <2>3. \A x \in S : sample[x] \in Nat
    OBVIOUS
  <2>4. \A x \in S \ T : sample[x] = 0
    BY <1>2, <2>3
  <2> HIDE DEF T
  <2>5. SumFunctionOnSet(sample, T) = SumFunctionOnSet(sample, S)
    BY <2>1, <2>3, <2>4, SumWithin
  <2> QED
    BY <2>2, <2>5 DEF T
<1>4. Size(dist) = Size(sample)
  <2>1. Length \cap DOMAIN dist = DOMAIN dist
    BY <1>2
  <2> QED
    BY <1>1, <1>3, <2>1 DEF Size, SumFunction
<1>5. ASSUME NEW i \in Nat PROVE UpTo(dist, i) = UpTo(sample, i)
  <2>1. {v \in Length : v <= i} \cap DOMAIN dist = {v \in DOMAIN dist : v <= i}
    BY <1>2
  <2>2. SumFunctionOnSet(dist, {v \in Length : v <= i} \cap DOMAIN dist)
          = SumFunctionOnSet(sample, {v \in Length : v <= i})
    BY <1>3
  <2> QED
    BY <1>1, <2>1, <2>2 DEF UpTo
<1> QED
  BY <1>4, <1>5

(* The next value of the cumulative distribution.                          *)
LEMMA UpToNext ==
  ASSUME NEW dist \in Counts, NEW i \in Nat
  PROVE  /\ At(dist, i) \in Nat
         /\ UpTo(dist, i) = At(dist, i) + (IF i = 0 THEN 0 ELSE UpTo(dist, i - 1))
<1>1. IsSample(dist) /\ DOMAIN dist \subseteq Length
  BY CountsAreSamples
<1>2. At(dist, i) \in Nat
  BY <1>1 DEF At, IsSample
<1> DEFINE below == {v \in DOMAIN dist : v <= i - 1}
<1>3. CASE i = 0
  <2>1. \A v \in DOMAIN dist : v \in Nat /\ v # 0
    BY <1>1, LengthsFinite
  <2>2. UpTo(dist, i) = 0
    BY <1>3, <2>1, UpToNone
  <2>3. At(dist, i) = 0
    BY <1>3, <2>1 DEF At
  <2> QED
    BY <1>2, <1>3, <2>2, <2>3
<1>4. CASE i # 0
  <2>1. \A v \in DOMAIN dist : v \in Nat
    BY <1>1 DEF IsSample
  <2>2. SumFunctionOnSet(dist, below) \in Nat /\ IsFiniteSet(below)
    BY <1>1, SampleSums
  <2>3. CASE i \in DOMAIN dist
    <3>1. {v \in DOMAIN dist : v <= i} = below \cup {i} /\ i \notin below
      BY <2>1, <2>3
    <3>2. \A x \in below \cup {i} : dist[x] \in Nat
      BY <1>1, <2>3 DEF IsSample
    <3> HIDE DEF below
    <3>3. SumFunctionOnSet(dist, below \cup {i}) = dist[i] + SumFunctionOnSet(dist, below)
      BY <2>2, <3>1, <3>2, SumAdd
    <3> QED
      BY <1>2, <1>4, <2>3, <3>1, <3>3 DEF UpTo, At, below
  <2>4. CASE i \notin DOMAIN dist
    <3>1. {v \in DOMAIN dist : v <= i} = below
      BY <2>1, <2>4
    <3>2. UpTo(dist, i) = SumFunctionOnSet(dist, below) /\ UpTo(dist, i - 1) = SumFunctionOnSet(dist, below)
      BY <3>1 DEF UpTo
    <3>3. At(dist, i) = 0
      BY <2>4 DEF At
    <3> HIDE DEF below
    <3> QED
      BY <1>4, <2>2, <3>2, <3>3
  <2> QED
    BY <1>2, <2>3, <2>4
<1> QED
  BY <1>3, <1>4

(* The loop that fills the cumulative vector fills it with the sums.       *)
LEMMA CumulIs ==
  ASSUME NEW dist \in Counts, NEW max \in Nat
  PROVE  \A i \in 0 .. max : CumulDist(dist, max)[i] = UpTo(dist, i)
<1> DEFINE Filled(f) ==
             f = [i \in 0 .. max |-> At(dist, i) + (IF i = 0 THEN 0 ELSE f[i - 1])]
           cumul == CHOOSE f : Filled(f)
           sums == [i \in 0 .. max |-> UpTo(dist, i)]
<1>1. CumulDist(dist, max) = cumul
  BY DEF CumulDist
<1>2. Filled(sums)
  <2>1. \A i \in 0 .. max : i # 0 => i - 1 \in 0 .. max
    OBVIOUS
  <2>2. ASSUME NEW i \in 0 .. max
        PROVE  UpTo(dist, i) = At(dist, i) + (IF i = 0 THEN 0 ELSE sums[i - 1])
    BY <2>1, UpToNext
  <2> QED
    BY <2>2
<1>3. Filled(cumul)
  BY <1>2
<1> HIDE DEF cumul
<1> DEFINE Wrong == {i \in 0 .. max : cumul[i] # UpTo(dist, i)}
<1>4. ASSUME NEW k \in Wrong PROVE FALSE
  <2>1. Wrong \subseteq Nat
    OBVIOUS
  <2>2. PICK low \in Wrong : \A n \in Wrong : low <= n
    <3> HIDE DEF Wrong
    <3> QED
      BY <1>4, <2>1, LeastElement
  <2>3. cumul[low] = At(dist, low) + (IF low = 0 THEN 0 ELSE cumul[low - 1])
    BY <1>3
  <2>4. low \in Nat /\ cumul[low] # UpTo(dist, low)
    OBVIOUS
  <2>5. low # 0 => low - 1 \in 0 .. max /\ low - 1 \notin Wrong
    <3>1. low # 0 => low - 1 \in 0 .. max /\ ~(low <= low - 1)
      OBVIOUS
    <3> QED
      BY <2>2, <3>1
  <2>6. low # 0 => cumul[low - 1] = UpTo(dist, low - 1)
    BY <2>5
  <2> QED
    BY <2>3, <2>4, <2>6, UpToNext
<1> QED
  BY <1>1, <1>4

LEMMA CurveIs ==
  ASSUME NEW dist \in Counts
  PROVE  /\ MaxValue(dist) \in Nat
         /\ SampleSize(dist) \in 0 .. Word - 1
         /\ \A i \in Nat : Curve(dist, MaxValue(dist))[i] \in Nat
         /\ Size(dist) < Word =>
              /\ SampleSize(dist) = Size(dist)
              /\ \A i \in Nat : Curve(dist, MaxValue(dist))[i] = UpTo(dist, i)
<1>1. IsSample(dist) /\ Size(dist) \in Nat /\ Word \in Nat \ {0}
  BY CountsAreSamples, UpToBounds, ConstantsAssumption
<1>2. MaxValue(dist) \in Nat /\ \A v \in DOMAIN dist : v <= MaxValue(dist)
  BY <1>1, MaxOfKeys DEF MaxValue
<1>3. SampleSize(dist) \in 0 .. Word - 1 /\ (Size(dist) < Word => SampleSize(dist) = Size(dist))
  BY <1>1 DEF SampleSize, Size
<1> DEFINE curve == Curve(dist, MaxValue(dist))
<1>4. ASSUME NEW i \in Nat
      PROVE  /\ i >= MaxValue(dist) => curve[i] = SampleSize(dist) /\ UpTo(dist, i) = Size(dist)
             /\ i < MaxValue(dist) => curve[i] = UpTo(dist, i)
             /\ UpTo(dist, i) \in Nat
  <2>1. ASSUME i >= MaxValue(dist) PROVE UpTo(dist, i) = Size(dist)
    <3>1. \A v \in DOMAIN dist : v <= i
      BY <1>1, <1>2, <2>1 DEF IsSample
    <3> QED
      BY <3>1, UpToAll
  <2>2. ASSUME i < MaxValue(dist) PROVE CumulDist(dist, MaxValue(dist))[i] = UpTo(dist, i)
    BY <1>2, <2>2, CumulIs
  <2>3. UpTo(dist, i) \in Nat
    BY <1>1, UpToBounds
  <2> QED
    BY <1>2, <2>1, <2>2, <2>3 DEF Curve
<1> HIDE DEF curve
<1>5. \A i \in Nat : curve[i] \in Nat /\ (Size(dist) < Word => curve[i] = UpTo(dist, i))
  BY <1>1, <1>2, <1>3, <1>4
<1> QED
  BY <1>2, <1>3, <1>5 DEF curve

-----------------------------------------------------------------------------
(* runTest.                                                                *)

(* Between two lengths the cumulative distribution of a sample is flat.    *)
LEMMA UpToFlat ==
  ASSUME NEW sample \in [Length -> Nat], NEW i \in Nat
  PROVE  \/ UpTo(sample, i) = 0 /\ \A v \in Length : ~(v <= i)
         \/ /\ \E v \in Length : v <= i
            /\ Max({v \in Length : v <= i}) \in Length
            /\ UpTo(sample, i) = UpTo(sample, Max({v \in Length : v <= i}))
<1>1. DOMAIN sample = Length
  OBVIOUS
<1>2. CASE \A v \in Length : ~(v <= i)
  BY <1>1, <1>2, UpToNone
<1>3. CASE \E v \in Length : v <= i
  <2> DEFINE below == {v \in Length : v <= i}
             top == Max(below)
  <2>1. IsFiniteSet(below) /\ below \subseteq Nat /\ below # {}
    BY <1>3, LengthsFinite
  <2>2. top \in below /\ \A n \in below : n <= top
    <3> HIDE DEF below
    <3> QED
      BY <2>1, MaxOfFinite
  <2>3. Length \subseteq Nat
    BY LengthsFinite
  <2>4. {v \in DOMAIN sample : v <= i} = {v \in DOMAIN sample : v <= top}
    <3>1. top \in Nat /\ top <= i
      BY <2>2, <2>3
    <3>2. \A v \in Length : v \in Nat /\ (v <= i => v <= top)
      BY <2>2, <2>3
    <3> HIDE DEF top
    <3>3. \A v \in Length : v <= i <=> v <= top
      BY <3>1, <3>2
    <3> QED
      BY <1>1, <3>3
  <2> QED
    BY <1>3, <2>2, <2>4 DEF UpTo
<1> QED
  BY <1>2, <1>3

(* Without a wrap, dStat_ is the statistic of the tallied samples.         *)
LEMMA DStatIs ==
  ASSUME Inv, mode = "analysis", captured,
         Size(learned) \in 1 .. Word - 1, Size(heard) \in 1 .. Word - 1
  PROVE  /\ DStat = Statistic(learned, heard)
         /\ SampleSize(modelDist) = Size(learned)
         /\ SampleSize(testDist) = Size(heard)
<1>1. /\ learned \in [Length -> Nat] /\ heard \in [Length -> Nat]
      /\ modelDist \in Counts /\ testDist \in Counts
      /\ Tallies(modelDist, learned) /\ Tallies(testDist, heard)
      /\ maxModel = MaxValue(modelDist) /\ maxTest = MaxValue(testDist)
  BY DEF Inv
<1>2. Size(learned) \in Nat \ {0} /\ Size(heard) \in Nat \ {0}
      /\ Size(learned) < Word /\ Size(heard) < Word
  BY ConstantsAssumption
<1>3. /\ Size(modelDist) = Size(learned) /\ \A i \in Nat : UpTo(modelDist, i) = UpTo(learned, i)
      /\ Size(testDist) = Size(heard) /\ \A i \in Nat : UpTo(testDist, i) = UpTo(heard, i)
  BY <1>1, <1>2, TalliedSums
<1>4. SampleSize(modelDist) = Size(learned) /\ SampleSize(testDist) = Size(heard)
  BY <1>1, <1>2, <1>3, CurveIs
<1>5. maxModel \in Nat /\ maxTest \in Nat /\ LastValue \in Nat
      /\ maxModel <= LastValue /\ maxTest <= LastValue
  BY <1>1, CurveIs DEF LastValue
<1>6. \A i \in Nat : /\ Curve(modelDist, maxModel)[i] = UpTo(learned, i)
                     /\ Curve(testDist, maxTest)[i] = UpTo(heard, i)
  BY <1>1, <1>2, <1>3, CurveIs
<1> DEFINE m == Size(learned)
           n == Size(heard)
           D(i) == Distance(UpTo(learned, i) * n, UpTo(heard, i) * m)
           S == {D(i) : i \in 0 .. LastValue}
           T == {0} \cup {D(v) : v \in Length}
<1>7. DStat = Max(S)
  <2>1. {Distance(Curve(modelDist, maxModel)[i] * SampleSize(testDist),
                  Curve(testDist, maxTest)[i] * SampleSize(modelDist)) : i \in 0 .. LastValue} = S
    BY <1>4, <1>5, <1>6
  <2> HIDE DEF S
  <2> QED
    BY <2>1 DEF DStat
<1>8. Statistic(learned, heard) = Max(T)
  <2>1. DOMAIN learned \cup DOMAIN heard = Length
    BY <1>1
  <2> QED
    BY <2>1 DEF Statistic
<1>9. IsSample(learned) /\ IsSample(heard)
  BY <1>1, CountsAreSamples
<1>10. \A i : D(i) \in 0 .. m * n
  <2> SUFFICES ASSUME NEW i PROVE D(i) \in 0 .. m * n
    OBVIOUS
  <2>1. UpTo(learned, i) \in 0 .. m /\ UpTo(heard, i) \in 0 .. n
    BY <1>9, UpToBounds
  <2> QED
    BY <1>2, <2>1, DistanceBound
<1>11. ASSUME NEW i \in Nat, i >= LastValue PROVE D(i) = 0
  <2>1. \A v \in DOMAIN modelDist : v <= i
    <3>1. IsSample(modelDist)
      BY <1>1, CountsAreSamples
    <3>2. \A v \in DOMAIN modelDist : v \in Nat /\ v <= maxModel
      BY <1>1, <3>1, MaxOfKeys DEF MaxValue, IsSample
    <3> QED
      BY <1>5, <1>11, <3>2
  <2>2. \A v \in DOMAIN testDist : v <= i
    <3>1. IsSample(testDist)
      BY <1>1, CountsAreSamples
    <3>2. \A v \in DOMAIN testDist : v \in Nat /\ v <= maxTest
      BY <1>1, <3>1, MaxOfKeys DEF MaxValue, IsSample
    <3> QED
      BY <1>5, <1>11, <3>2
  <2>3. UpTo(learned, i) = m /\ UpTo(heard, i) = n
    BY <1>3, <2>1, <2>2, UpToAll
  <2>4. m * n = n * m /\ m * n \in Int
    BY <1>2
  <2> QED
    BY <2>3, <2>4, DistanceSame
<1>12. m * n \in Nat
  BY <1>2
<1>13. S \subseteq 0 .. m * n /\ S # {}
  BY <1>5, <1>10
<1>14. T \subseteq 0 .. m * n /\ T # {}
  BY <1>10, <1>12
<1>15. \A s \in S : \E t \in T : s <= t
  <2> SUFFICES ASSUME NEW i \in 0 .. LastValue PROVE \E t \in T : D(i) <= t
    OBVIOUS
  <2>1. i \in Nat /\ D(i) \in Nat
    BY <1>5, <1>10
  <2>2. CASE \A v \in Length : ~(v <= i)
    <3>1. UpTo(learned, i) = 0 /\ UpTo(heard, i) = 0
      BY <1>1, <2>1, <2>2, UpToFlat
    <3>2. D(i) = 0
      BY <1>2, <3>1, DistanceSame
    <3> QED
      BY <3>2
  <2>3. CASE \E v \in Length : v <= i
    <3> DEFINE top == Max({v \in Length : v <= i})
    <3>1. top \in Length /\ UpTo(learned, i) = UpTo(learned, top) /\ UpTo(heard, i) = UpTo(heard, top)
      BY <1>1, <2>1, <2>3, UpToFlat
    <3>2. D(i) = D(top) /\ D(top) \in T
      BY <3>1
    <3> HIDE DEF D, T, top
    <3> QED
      BY <2>1, <3>2
  <2> QED
    BY <2>2, <2>3
<1>16. \A t \in T : \E s \in S : t <= s
  <2>1. ASSUME NEW t \in T, t = 0 PROVE \E s \in S : t <= s
    <3>1. D(0) \in S /\ D(0) \in Nat
      BY <1>5, <1>10
    <3> HIDE DEF D, S
    <3> QED
      BY <2>1, <3>1
  <2>2. ASSUME NEW v \in Length, D(v) # 0 PROVE \E s \in S : D(v) <= s
    <3>1. v \in Nat /\ D(v) \in Nat
      BY <1>10, LengthsFinite
    <3>2. v \in 0 .. LastValue
      BY <1>5, <1>11, <2>2, <3>1
    <3>3. D(v) \in S
      BY <3>2
    <3> HIDE DEF D, S
    <3> QED
      BY <3>1, <3>3
  <2> QED
    BY <2>1, <2>2
<1>17. Max(S) = Max(T)
  <2> HIDE DEF S, T
  <2> QED
    BY <1>12, <1>13, <1>14, <1>15, <1>16, MaxSame
<1> QED
  BY <1>4, <1>7, <1>8, <1>17

(* Equal maps have equal curves.                                           *)
LEMMA DStatOfSame ==
  ASSUME Inv, mode = "analysis", captured, modelDist = testDist
  PROVE  DStat = 0 /\ ~Abnormal
<1>1. /\ modelDist \in Counts /\ maxModel = MaxValue(modelDist) /\ maxTest = maxModel
  BY DEF Inv
<1>2. maxModel \in Nat /\ SampleSize(modelDist) \in Nat
      /\ \A i \in Nat : Curve(modelDist, maxModel)[i] \in Nat
  BY <1>1, CurveIs, ConstantsAssumption
<1>3. LastValue \in Nat
  BY <1>1, <1>2 DEF LastValue
<1> DEFINE S == {Distance(Curve(modelDist, maxModel)[i] * SampleSize(testDist),
                          Curve(testDist, maxTest)[i] * SampleSize(modelDist)) : i \in 0 .. LastValue}
<1>4. S = {0}
  <2>1. ASSUME NEW i \in 0 .. LastValue
        PROVE  Distance(Curve(modelDist, maxModel)[i] * SampleSize(testDist),
                        Curve(testDist, maxTest)[i] * SampleSize(modelDist)) = 0
    <3>1. i \in Nat
      BY <1>3
    <3>2. Curve(modelDist, maxModel)[i] * SampleSize(modelDist) \in Int
      BY <1>2, <3>1
    <3> QED
      BY <1>1, <3>2, DistanceSame
  <2> QED
    BY <1>3, <2>1
<1>5. DStat = 0
  <2>1. Max(S) \in S
    <3>1. S \subseteq Nat /\ S # {} /\ \A x \in S : x <= 0
      BY <1>4
    <3> HIDE DEF S
    <3> QED
      BY <3>1, MaxIs
  <2>2. Max(S) = 0
    BY <1>4, <2>1
  <2> QED
    BY <2>2 DEF DStat
<1>6. ~Exceeds(DStat, SampleSize(modelDist), SampleSize(testDist), HundredC)
  <2>1. HundredC \in Nat
    BY ConstantsAssumption
  <2> QED
    BY <1>2, <1>5, <2>1, ExceedsNothing
<1> QED
  BY <1>5, <1>6 DEF Abnormal

(* A sample without packets leaves its map empty.                          *)
LEMMA EmptyTally ==
  ASSUME NEW dist, NEW sample \in [Length -> Nat], Tallies(dist, sample), Size(sample) = 0
  PROVE  SampleSize(dist) = 0
<1>1. DOMAIN dist = {}
  <2> SUFFICES ASSUME NEW len \in Length, sample[len] > 0 PROVE FALSE
    BY DEF Tallies
  <2>1. IsSample(sample) /\ DOMAIN sample = Length
    BY CountsAreSamples
  <2>2. sample[len] <= 0 /\ sample[len] \in Nat
    BY <2>1, SumAtLeast
  <2> QED
    BY <2>2
<1>2. SumFunction(dist) = 0
  BY <1>1, SumEmpty DEF SumFunction
<1> QED
  BY <1>2, ConstantsAssumption DEF SampleSize

(* The same tally is the same map.                                         *)
LEMMA TallyUnique ==
  ASSUME NEW dist \in Counts, NEW other \in Counts, NEW sample,
         Tallies(dist, sample), Tallies(other, sample)
  PROVE  dist = other
<1>1. dist = [len \in DOMAIN dist |-> dist[len]] /\ other = [len \in DOMAIN other |-> other[len]]
  BY DEF Counts
<1>2. DOMAIN dist = DOMAIN other /\ \A len \in DOMAIN dist : dist[len] = other[len]
  BY DEF Tallies
<1> QED
  BY <1>1, <1>2

-----------------------------------------------------------------------------
LEMMA Initialised == Init => Inv
<1> SUFFICES ASSUME Init PROVE Inv
  OBVIOUS
<1>1. file \in Counts
  <2>1. file \in [{} -> 0 .. Word - 1]
    BY DEF Init, Empty
  <2> QED BY <2>1 DEF Counts
<1>2. heard \in [Length -> Nat] /\ learned \in [Length -> Nat] /\ \A len \in Length : learned[len] = 0
  BY DEF Init, Nothing
<1>3. Tallies(file, learned)
  BY <1>2 DEF Tallies, Init, Empty
<1> QED BY <1>1, <1>2, <1>3 DEF Inv, Init

LEMMA Preserved == Inv /\ [Next]_vars => Inv'
<1> SUFFICES ASSUME Inv, [Next]_vars PROVE Inv'
  OBVIOUS
<1> DEFINE Total == [len \in Length |-> learned[len] + heard[len]]
<1>1. ASSUME NEW type \in {"learning", "analysis"}, StartRun(type) PROVE Inv'
  <2>1. /\ file' = file /\ modelDist' = file /\ testDist' = Empty
        /\ heard' = Nothing /\ learned' = learned /\ mode' = type /\ ~captured'
    BY <1>1 DEF StartRun
  <2>2. heard' \in [Length -> Nat] /\ \A len \in Length : heard'[len] = 0
    BY <2>1 DEF Nothing
  <2>3. \A len \in Length : learned[len] = Total'[len]
    BY <2>1, <2>2 DEF Inv
  <2>4. Tallies(file, Total')
    BY <2>3, TalliesSame DEF Inv
  <2>5. testDist' \in Counts
    <3>1. testDist' \in [{} -> 0 .. Word - 1]
      BY <2>1 DEF Empty
    <3> QED BY <3>1 DEF Counts
  <2>6. Tallies(testDist', heard')
    BY <2>1, <2>2 DEF Tallies, Empty
  <2> QED BY <2>1, <2>2, <2>4, <2>5, <2>6 DEF Inv
<1>2. ASSUME NEW len \in Length, ComputePacket(len) PROVE Inv'
  <2>1. /\ file' = file /\ learned' = learned /\ mode' = mode /\ ~captured'
        /\ heard' = [heard EXCEPT ![len] = @ + 1]
    BY <1>2 DEF ComputePacket
  <2>2. heard' \in [Length -> Nat] /\ heard'[len] = heard[len] + 1
    BY <2>1 DEF Inv
  <2>3. CASE mode = "learning"
    <3>1. modelDist' = Increment(modelDist, len)
      BY <1>2, <2>3 DEF ComputePacket
    <3>2. modelDist \in Counts /\ Total \in [Length -> Nat] /\ Tallies(modelDist, Total)
      BY <2>3 DEF Inv
    <3>3. modelDist' \in Counts /\ Tallies(modelDist', [Total EXCEPT ![len] = @ + 1])
      <4> HIDE DEF Total
      <4> QED BY <3>1, <3>2, IncrementTallies
    <3>4. [Total EXCEPT ![len] = @ + 1] = Total'
      BY <2>1 DEF Inv
    <3>5. Tallies(modelDist', Total')
      BY <3>3, <3>4
    <3> QED BY <2>1, <2>2, <2>3, <3>3, <3>5 DEF Inv
  <2>4. CASE mode = "analysis"
    <3>1. modelDist' = modelDist /\ testDist' = Increment(testDist, len)
      BY <1>2, <2>4 DEF ComputePacket
    <3>2. testDist' \in Counts /\ Tallies(testDist', heard')
      BY <3>1, <2>1, <2>4, IncrementTallies DEF Inv
    <3> QED BY <2>1, <2>2, <2>4, <3>1, <3>2 DEF Inv
  <2> QED BY <2>3, <2>4, <1>2 DEF ComputePacket
<1>3. CASE InitCapture
  BY <1>3 DEF Inv, InitCapture
<1>4. CASE SaveDataToModel
  <2>1. /\ mode' = "idle" /\ file' = modelDist /\ learned' = Total /\ heard' = heard
        /\ mode = "learning"
    BY <1>4 DEF SaveDataToModel, DataToJson
  <2>2. modelDist \in Counts /\ Total \in [Length -> Nat] /\ Tallies(modelDist, Total)
    BY <2>1 DEF Inv
  <2> QED BY <2>1, <2>2 DEF Inv
<1>5. CASE RunTest
  BY <1>5 DEF Inv, RunTest
<1>6. CASE End
  BY <1>6 DEF Inv, End
<1>7. CASE UNCHANGED vars
  BY <1>7 DEF Inv, vars
<1> QED BY <1>1, <1>2, <1>3, <1>4, <1>5, <1>6, <1>7 DEF Next

(* What a report says is established by runTest, and stays.                *)
Reported == TestIsExact /\ EmptyIsNormal /\ LearnedIsNormal

LEMMA ReportEstablished == Inv /\ RunTest => Reported'
<1> SUFFICES ASSUME Inv, RunTest PROVE Reported'
  OBVIOUS
<1>1. /\ mode = "analysis" /\ captured
      /\ learned' = learned /\ heard' = heard /\ dStat' = DStat /\ abnormal' = Abnormal
  BY DEF RunTest
<1>2. /\ learned \in [Length -> Nat] /\ heard \in [Length -> Nat]
      /\ modelDist \in Counts /\ testDist \in Counts
      /\ Tallies(modelDist, learned) /\ Tallies(testDist, heard)
  BY <1>1 DEF Inv
<1>3. TestIsExact'
  <2> SUFFICES ASSUME Size(learned) \in 1 .. Word - 1, Size(heard) \in 1 .. Word - 1
               PROVE  /\ DStat = Statistic(learned, heard)
                      /\ Abnormal <=> Exceeds(Statistic(learned, heard), Size(learned),
                                              Size(heard), HundredC)
    BY <1>1 DEF TestIsExact
  <2>1. /\ DStat = Statistic(learned, heard)
        /\ SampleSize(modelDist) = Size(learned)
        /\ SampleSize(testDist) = Size(heard)
    BY <1>1, DStatIs
  <2>2. SampleSize(modelDist) > 0 /\ SampleSize(testDist) > 0
    BY <2>1
  <2> QED
    BY <2>1, <2>2 DEF Abnormal
<1>4. EmptyIsNormal'
  <2> SUFFICES ASSUME Size(learned) = 0 \/ Size(heard) = 0 PROVE ~Abnormal
    BY <1>1 DEF EmptyIsNormal
  <2>1. SampleSize(modelDist) = 0 \/ SampleSize(testDist) = 0
    BY <1>2, EmptyTally
  <2> QED
    BY <2>1 DEF Abnormal
<1>5. LearnedIsNormal'
  <2> SUFFICES ASSUME heard = learned PROVE DStat = 0 /\ ~Abnormal
    BY <1>1 DEF LearnedIsNormal
  <2>1. modelDist = testDist
    BY <1>2, TallyUnique
  <2> QED
    BY <1>1, <2>1, DStatOfSame
<1> QED
  BY <1>3, <1>4, <1>5 DEF Reported

LEMMA ReportKept == Inv /\ Reported /\ [Next]_vars => Reported'
<1> SUFFICES ASSUME Inv, Reported, [Next]_vars PROVE Reported'
  OBVIOUS
<1>1. CASE RunTest
  BY <1>1, ReportEstablished
<1>2. CASE UNCHANGED vars
  BY <1>2 DEF vars, Reported, TestIsExact, EmptyIsNormal, LearnedIsNormal
<1>3. CASE mode' # "report"
  BY <1>3 DEF Reported, TestIsExact, EmptyIsNormal, LearnedIsNormal
<1>4. ASSUME NEW type \in {"learning", "analysis"}, StartRun(type) PROVE mode' # "report"
  BY <1>4 DEF StartRun
<1>5. ASSUME NEW len \in Length, ComputePacket(len) PROVE mode' # "report"
  BY <1>5 DEF ComputePacket
<1>6. InitCapture \/ SaveDataToModel \/ End => mode' # "report"
  BY DEF InitCapture, SaveDataToModel, End
<1> QED
  BY <1>1, <1>2, <1>3, <1>4, <1>5, <1>6 DEF Next

-----------------------------------------------------------------------------
(* The tallies of the handler and of the file agree with the traffic.      *)
THEOREM Invariance == Spec => []Inv
  BY Initialised, Preserved, PTL DEF Spec

(* The file counts, modulo the word, every packet of the learning runs     *)
(* that were saved and no other.                                           *)
THEOREM FileCounts == Spec => []FileTallies
<1>1. Inv => FileTallies
  BY DEF Inv, FileTallies
<1> QED BY <1>1, Invariance, PTL

LEMMA Reports == Spec => []Reported
<1>1. Init => Reported
  BY DEF Init, Reported, TestIsExact, EmptyIsNormal, LearnedIsNormal
<1> QED
  BY <1>1, Invariance, ReportKept, PTL DEF Spec

(* runTest's statistic and verdict are those of the Kolmogorov-Smirnov test*)
(* of all the learned packets against all the tested ones, for every set of*)
(* lengths: its loops over the two maps, with their separate largest       *)
(* lengths, compute the textbook's definition, as long as no count wraps.  *)
THEOREM TestExact == Spec => []TestIsExact
<1>1. Reported => TestIsExact
  BY DEF Reported
<1> QED
  BY <1>1, Reports, PTL

(* An analysis without a packet, or of a model without one, never reports  *)
(* that the distributions differ: the division by zero in seuil_ is        *)
(* harmless.                                                               *)
THEOREM EmptyNormal == Spec => []EmptyIsNormal
<1>1. Reported => EmptyIsNormal
  BY DEF Reported
<1> QED
  BY <1>1, Reports, PTL

(* A capture that has each length as often as the learning runs had it is  *)
(* normal, even when the uint32_t counts and their sums have wrapped.      *)
THEOREM LearnedNormal == Spec => []LearnedIsNormal
<1>1. Reported => LearnedIsNormal
  BY DEF Reported
<1> QED
  BY <1>1, Reports, PTL
=============================================================================
