------------------ MODULE InterdepartTimeTestHandlerProofs ------------------
(* The counts of the interdeparture time handler and what its reports are  *)
(* worth, for every set of hosts and stamps and every width of the words.  *)
EXTENDS InterdepartTimeTestHandler, CumulSearch, KolmogorovSmirnovProofs

LEMMA Widths ==
  /\ Word \in Nat /\ Word > 1
  /\ HundredC \in Nat
  /\ Long \in Nat /\ Long > 0
  /\ MaxPackets \in Nat
  /\ IsFiniteSet(Gap)
  /\ Time \subseteq Gap
  /\ Host \subseteq Nat
<1>1. /\ Word \in Nat /\ Word > 1 /\ HundredC \in Nat
      /\ Long \in Nat /\ Long >= Word /\ MaxPackets \in Nat
  BY ConstantsAssumption, StatisticAssumption
<1>2. IsFiniteSet(Gap)
  BY <1>1, FS_Interval DEF Gap
<1> QED
  BY <1>1, <1>2, ConstantsAssumption DEF Gap

-----------------------------------------------------------------------------
(* The statistic of two maps of times to their counts.                     *)

IsTimes(d) == IsSample(d) /\ \A g \in DOMAIN d : d[g] > 0

LEMMA TopIs ==
  ASSUME NEW d, IsTimes(d)
  PROVE  /\ MaxTiming(d) \in Nat
         /\ \A g \in DOMAIN d : g \in Nat /\ g <= MaxTiming(d)
         /\ DOMAIN d # {} => MaxTiming(d) \in DOMAIN d
         /\ DOMAIN d = {} => MaxTiming(d) = 0
<1>1. /\ MaxTiming(d) \in {0} \cup DOMAIN d /\ MaxTiming(d) \in Nat
      /\ \A g \in DOMAIN d : g <= MaxTiming(d)
  BY MaxOfKeys DEF MaxTiming, IsTimes
<1>2. \A g \in DOMAIN d : g \in Nat
  BY DEF IsTimes, IsSample
<1>3. ASSUME NEW g \in DOMAIN d PROVE MaxTiming(d) \in DOMAIN d
  <2>1. MaxTiming(d) = 0 => g = 0
    BY <1>1, <1>2
  <2> QED
    BY <1>1, <2>1
<1> QED
  BY <1>1, <1>2, <1>3

LEMMA SizeIs ==
  ASSUME NEW d, IsTimes(d)
  PROVE  /\ Size(d) \in Nat
         /\ DOMAIN d # {} => Size(d) > 0
         /\ DOMAIN d = {} => Size(d) = 0
         /\ Weight(d) \in Nat /\ Weight(d) > 0
         /\ DOMAIN d # {} => Weight(d) = Size(d)
<1>1. Size(d) \in Nat
  BY UpToBounds DEF IsTimes
<1>2. ASSUME NEW g \in DOMAIN d PROVE Size(d) > 0
  <2>1. d[g] <= Size(d) /\ d[g] \in Nat /\ d[g] > 0
    BY SumAtLeast DEF IsTimes, IsSample
  <2> QED
    BY <1>1, <2>1
<1>3. DOMAIN d = {} => Size(d) = 0
  BY SumEmpty DEF Size, SumFunction
<1> QED
  BY <1>1, <1>2, <1>3 DEF Weight

LEMMA CurveBounds ==
  ASSUME NEW d, IsTimes(d), NEW v \in Nat
  PROVE  Curve(d, v) \in 0 .. Weight(d)
<1>1. Weight(d) \in Nat
  BY SizeIs
<1>2. CASE v >= MaxTiming(d)
  BY <1>1, <1>2 DEF Curve
<1>3. CASE ~(v >= MaxTiming(d))
  <2>1. DOMAIN d # {}
    BY <1>3, TopIs
  <2>2. Weight(d) = Size(d)
    BY <2>1, SizeIs
  <2>3. {t \in DOMAIN d : t < v} \in SUBSET DOMAIN d
    OBVIOUS
  <2>4. /\ SumFunctionOnSet(d, {t \in DOMAIN d : t < v}) \in Nat
        /\ SumFunctionOnSet(d, {t \in DOMAIN d : t < v}) <= Size(d)
    BY <2>3, SampleSums DEF IsTimes
  <2> QED
    BY <1>1, <1>3, <2>2, <2>4 DEF Curve
<1> QED
  BY <1>2, <1>3

(* Above a time, but not at the largest one, findValueInCumul finds the    *)
(* cumulative distribution at that time.                                   *)
LEMMA CurveAbove ==
  ASSUME NEW d, IsTimes(d), DOMAIN d # {}, NEW g \in Nat, g + 1 # MaxTiming(d)
  PROVE  Curve(d, g + 1) = UpTo(d, g)
<1>1. MaxTiming(d) \in Nat /\ \A t \in DOMAIN d : t \in Nat /\ t <= MaxTiming(d)
  BY TopIs
<1>2. CASE g + 1 > MaxTiming(d)
  <2>1. \A t \in DOMAIN d : t <= g
    BY <1>1, <1>2
  <2>2. UpTo(d, g) = Size(d)
    BY <2>1, UpToAll
  <2>3. Curve(d, g + 1) = Weight(d)
    BY <1>1, <1>2 DEF Curve
  <2> QED
    BY <2>2, <2>3, SizeIs
<1>3. CASE g + 1 < MaxTiming(d)
  <2>1. \A t \in DOMAIN d : t < g + 1 <=> t <= g
    BY <1>1
  <2>2. {t \in DOMAIN d : t < g + 1} = {t \in DOMAIN d : t <= g}
    BY <2>1
  <2> QED
    BY <1>1, <1>3, <2>2 DEF Curve, UpTo
<1> QED
  BY <1>1, <1>2, <1>3

(* At the largest time, and at what is no time of the sample, it finds the *)
(* cumulative distribution there.                                          *)
LEMMA CurveAt ==
  ASSUME NEW d, IsTimes(d), DOMAIN d # {}, NEW g \in Nat,
         g = MaxTiming(d) \/ g \notin DOMAIN d
  PROVE  Curve(d, g) = UpTo(d, g)
<1>1. MaxTiming(d) \in Nat /\ \A t \in DOMAIN d : t \in Nat /\ t <= MaxTiming(d)
  BY TopIs
<1>2. CASE g >= MaxTiming(d)
  <2>1. \A t \in DOMAIN d : t <= g
    BY <1>1, <1>2
  <2>2. UpTo(d, g) = Size(d)
    BY <2>1, UpToAll
  <2>3. Curve(d, g) = Weight(d)
    BY <1>2 DEF Curve
  <2> QED
    BY <2>2, <2>3, SizeIs
<1>3. CASE g < MaxTiming(d)
  <2>1. g \notin DOMAIN d
    BY <1>1, <1>3
  <2>2. \A t \in DOMAIN d : t < g <=> t <= g
    BY <1>1, <2>1
  <2>3. {t \in DOMAIN d : t < g} = {t \in DOMAIN d : t <= g}
    BY <2>2
  <2> QED
    BY <1>1, <1>3, <2>3 DEF Curve, UpTo
<1> QED
  BY <1>1, <1>2, <1>3

LEMMA CurveAtZero ==
  ASSUME NEW d, IsTimes(d), 0 # MaxTiming(d)
  PROVE  Curve(d, 0) = 0
<1>1. MaxTiming(d) \in Nat /\ \A t \in DOMAIN d : t \in Nat
  BY TopIs
<1>2. {t \in DOMAIN d : t < 0} = {}
  BY <1>1
<1> QED
  BY <1>1, <1>2, SumEmpty DEF Curve

(* The differences of the two curves at the values that are tried.         *)
Difference(one, other, v) ==
  Distance(Curve(one, v) * Weight(other), Curve(other, v) * Weight(one))

LEMMA TriedIs ==
  ASSUME NEW one, IsTimes(one), NEW other, IsTimes(other)
  PROVE  Tried(one, other) \subseteq Nat /\ 0 \in Tried(one, other)
<1>1. LowerEnds(one) \cup LowerEnds(other) \subseteq Nat
  BY TopIs DEF LowerEnds
<1>2. \A n \in Nat : n % Word \in Nat
  BY Widths
<1>3. 0 \in LowerEnds(one) /\ 0 % Word = 0
  BY Widths DEF LowerEnds
<1> QED
  BY <1>1, <1>2, <1>3 DEF Tried

LEMMA DifferenceBounds ==
  ASSUME NEW one, IsTimes(one), NEW other, IsTimes(other), NEW v \in Nat
  PROVE  Difference(one, other, v) \in 0 .. Weight(one) * Weight(other)
<1>1. Weight(one) \in Nat /\ Weight(other) \in Nat
  BY SizeIs
<1>2. Curve(one, v) \in 0 .. Weight(one) /\ Curve(other, v) \in 0 .. Weight(other)
  BY CurveBounds
<1> QED
  BY <1>1, <1>2, DistanceBound DEF Difference

(* dStat is the largest of these differences.                              *)
LEMMA DStatIs ==
  ASSUME NEW one, IsTimes(one), NEW other, IsTimes(other)
  PROVE  /\ DStat(one, other) \in Nat
         /\ \E v \in Tried(one, other) : DStat(one, other) = Difference(one, other, v)
         /\ \A v \in Tried(one, other) : Difference(one, other, v) <= DStat(one, other)
<1> DEFINE S == {Difference(one, other, v) : v \in Tried(one, other)}
<1>1. DStat(one, other) = Max(S)
  BY DEF DStat, Difference
<1>2. Weight(one) * Weight(other) \in Nat
  BY SizeIs
<1>3. \A v \in Tried(one, other) :
        Difference(one, other, v) \in 0 .. Weight(one) * Weight(other)
  BY TriedIs, DifferenceBounds
<1>4. \A n \in S : n \in Nat /\ n <= Weight(one) * Weight(other)
  BY <1>2, <1>3
<1>5. S # {}
  BY TriedIs
<1>6. Max(S) \in S /\ \A n \in S : n <= Max(S)
  <2> HIDE DEF S
  <2>1. S \subseteq Nat
    BY <1>4
  <2> QED
    BY <1>2, <1>4, <1>5, <2>1, MaxIs
<1>7. Max(S) \in Nat
  <2> HIDE DEF S
  <2> QED
    BY <1>4, <1>6
<1> QED
  BY <1>1, <1>6, <1>7

LEMMA DStatOfSame ==
  ASSUME NEW d, IsTimes(d)
  PROVE  DStat(d, d) = 0
<1>1. \A v \in Nat : Curve(d, v) * Weight(d) \in Int
  BY CurveBounds, SizeIs
<1>2. \A v \in Nat : Difference(d, d, v) = 0
  BY <1>1, DistanceSame DEF Difference
<1>3. PICK v \in Tried(d, d) : DStat(d, d) = Difference(d, d, v)
  BY DStatIs
<1> QED
  BY <1>2, <1>3, TriedIs

(* A test map without times has 1 for its curve from 0 on, where a model   *)
(* whose times are not all 0 still has 0.                                  *)
LEMMA DStatOfSilent ==
  ASSUME NEW one, IsTimes(one), MaxTiming(one) > 0,
         NEW other, IsTimes(other), DOMAIN other = {}
  PROVE  DStat(one, other) > 0
<1>1. DOMAIN one # {} /\ MaxTiming(one) # 0 /\ MaxTiming(other) = 0
  BY TopIs
<1>2. Curve(one, 0) = 0
  BY <1>1, CurveAtZero
<1>3. Weight(other) = 1
  BY DEF Weight
<1>4. Curve(other, 0) = Weight(other)
  BY <1>1 DEF Curve
<1>5. Weight(one) \in Nat /\ Weight(one) > 0
  BY SizeIs
<1>6. Difference(one, other, 0) = Weight(one)
  BY <1>2, <1>3, <1>4, <1>5 DEF Difference, Distance
<1>7. Difference(one, other, 0) <= DStat(one, other) /\ DStat(one, other) \in Nat
  BY DStatIs, TriedIs
<1> QED
  BY <1>5, <1>6, <1>7

(* When all the times fit a word, none is one below a largest time, and    *)
(* neither sample has the largest time of the other unless it is its own,  *)
(* then the values that are tried are enough to find the largest           *)
(* difference of the cumulative distributions, and find no larger one.     *)
LEMMA DStatIsStatistic ==
  ASSUME NEW one, IsTimes(one), DOMAIN one # {},
         NEW other, IsTimes(other), DOMAIN other # {},
         NEW keys, keys = DOMAIN one \cup DOMAIN other,
         \A g \in keys : g < Word,
         NEW tops, tops = {MaxTiming(one), MaxTiming(other)},
         \A g \in keys : g + 1 \notin tops,
         Cardinality(tops) = 1 \/ tops \cap DOMAIN one \cap DOMAIN other = {}
  PROVE  DStat(one, other) = Statistic(one, other)
<1> DEFINE D(v) == Distance(UpTo(one, v) * Size(other), UpTo(other, v) * Size(one))
           S == {Difference(one, other, v) : v \in Tried(one, other)}
           T == {0} \cup {D(v) : v \in keys}
           bound == Size(one) * Size(other)
<1>1. DStat(one, other) = Max(S)
  BY DEF DStat, Difference
<1>2. Statistic(one, other) = Max(T)
  BY DEF Statistic
<1>3. /\ Weight(one) = Size(one) /\ Size(one) \in Nat
      /\ Weight(other) = Size(other) /\ Size(other) \in Nat
  BY SizeIs
<1>4. /\ MaxTiming(one) \in DOMAIN one /\ MaxTiming(other) \in DOMAIN other
      /\ tops \subseteq keys /\ keys \subseteq Nat
  BY TopIs
<1>5. bound \in Nat
  BY <1>3
<1>6. \A v \in Nat : Difference(one, other, v) \in 0 .. bound
  BY <1>3, DifferenceBounds
<1>7. \A v : D(v) \in 0 .. bound
  <2> SUFFICES ASSUME NEW v PROVE D(v) \in 0 .. bound
    OBVIOUS
  <2>1. UpTo(one, v) \in 0 .. Size(one) /\ UpTo(other, v) \in 0 .. Size(other)
    BY UpToBounds DEF IsTimes
  <2> QED
    BY <1>3, <2>1, DistanceBound
<1>8. \A g \in keys : Difference(one, other, g + 1) = D(g)
  <2> SUFFICES ASSUME NEW g \in keys PROVE Difference(one, other, g + 1) = D(g)
    OBVIOUS
  <2>1. g \in Nat /\ g + 1 # MaxTiming(one) /\ g + 1 # MaxTiming(other)
    BY <1>4
  <2>2. Curve(one, g + 1) = UpTo(one, g) /\ Curve(other, g + 1) = UpTo(other, g)
    BY <2>1, CurveAbove
  <2> QED
    BY <1>3, <2>2 DEF Difference
<1>9. \A g \in tops : Difference(one, other, g) = D(g)
  <2> SUFFICES ASSUME NEW g \in tops PROVE Difference(one, other, g) = D(g)
    OBVIOUS
  <2>1. g \in Nat
    BY <1>4
  <2>2. /\ g = MaxTiming(one) \/ g \notin DOMAIN one
        /\ g = MaxTiming(other) \/ g \notin DOMAIN other
    <3>1. CASE Cardinality(tops) = 1
      <4>1. IsFiniteSet(tops)
        <5>1. IsFiniteSet({MaxTiming(one)})
          BY FS_Singleton
        <5>2. IsFiniteSet({MaxTiming(one)} \cup {MaxTiming(other)})
          BY <5>1, FS_AddElement
        <5>3. {MaxTiming(one)} \cup {MaxTiming(other)} = tops
          OBVIOUS
        <5> QED
          BY <5>2, <5>3
      <4>2. PICK x : tops = {x}
        BY <3>1, <4>1, FS_Singleton
      <4> QED
        BY <4>2
    <3>2. CASE tops \cap DOMAIN one \cap DOMAIN other = {}
      BY <1>4, <3>2
    <3> QED
      BY <3>1, <3>2
  <2>3. Curve(one, g) = UpTo(one, g) /\ Curve(other, g) = UpTo(other, g)
    BY <2>1, <2>2, CurveAt
  <2> QED
    BY <1>3, <2>3 DEF Difference
<1>10. 0 \notin tops => Difference(one, other, 0) = 0
  <2> SUFFICES ASSUME 0 \notin tops PROVE Difference(one, other, 0) = 0
    OBVIOUS
  <2>1. Curve(one, 0) = 0 /\ Curve(other, 0) = 0
    BY CurveAtZero
  <2> QED
    BY <1>3, <2>1, DistanceSame DEF Difference
(* Below a word, nothing is lost of the lower ends.                        *)
<1>11. Tried(one, other) = LowerEnds(one) \cup LowerEnds(other)
  <2>1. \A end \in LowerEnds(one) : end \in Nat /\ end < Word
    <3>1. \A g \in DOMAIN one \ {MaxTiming(one)} : g \in Nat /\ g + 1 <= MaxTiming(one)
      BY TopIs
    <3> QED
      BY <1>4, <3>1, Widths DEF LowerEnds
  <2>2. \A end \in LowerEnds(other) : end \in Nat /\ end < Word
    <3>1. \A g \in DOMAIN other \ {MaxTiming(other)} : g \in Nat /\ g + 1 <= MaxTiming(other)
      BY TopIs
    <3> QED
      BY <1>4, <3>1, Widths DEF LowerEnds
  <2>3. \A end \in LowerEnds(one) \cup LowerEnds(other) : end % Word = end
    BY <2>1, <2>2, Widths
  <2> QED
    BY <2>3 DEF Tried
<1>12. \A v \in Tried(one, other) : v = 0 \/ v \in tops \/ \E g \in keys : v = g + 1
  BY <1>11 DEF LowerEnds
<1>13. tops \subseteq Tried(one, other) /\ \A g \in keys \ tops : g + 1 \in Tried(one, other)
  BY <1>11 DEF LowerEnds
<1>14. \A s \in S : s \in T
  <2> SUFFICES ASSUME NEW v \in Tried(one, other) PROVE Difference(one, other, v) \in T
    OBVIOUS
  <2>1. CASE v \in tops
    <3>1. D(v) \in T
      BY <1>4, <2>1
    <3> QED
      BY <1>9, <2>1, <3>1
  <2>2. CASE v = 0 /\ v \notin tops
    BY <1>10, <2>2
  <2>3. CASE \E g \in keys : v = g + 1
    <3>1. PICK g \in keys : v = g + 1
      BY <2>3
    <3>2. D(g) \in T
      OBVIOUS
    <3> QED
      BY <1>8, <3>1, <3>2
  <2> QED
    BY <1>12, <2>1, <2>2, <2>3
<1>15. \A v \in keys : D(v) \in S
  <2> SUFFICES ASSUME NEW v \in keys PROVE D(v) \in S
    OBVIOUS
  <2>1. CASE v \in tops
    <3>1. Difference(one, other, v) \in S
      BY <1>13, <2>1
    <3> QED
      BY <1>9, <2>1, <3>1
  <2>2. CASE v \notin tops
    <3>1. Difference(one, other, v + 1) \in S
      BY <1>13, <2>2
    <3> QED
      BY <1>8, <3>1
  <2> QED
    BY <2>1, <2>2
<1>16. S \subseteq 0 .. bound /\ S # {}
  <2>1. \A v \in Tried(one, other) : Difference(one, other, v) \in 0 .. bound
    BY <1>6, TriedIs
  <2> HIDE DEF bound
  <2> QED
    BY <2>1, TriedIs
<1>17. T \subseteq 0 .. bound /\ T # {}
  <2> HIDE DEF bound, D
  <2> QED
    BY <1>5, <1>7
<1>18. \A s \in S : \E t \in T : s <= t
  <2> HIDE DEF S, T, bound
  <2>1. \A s \in S : s \in T /\ s <= s
    BY <1>14, <1>16
  <2> QED
    BY <2>1
<1>19. \A t \in T : \E s \in S : t <= s
  <2>1. PICK low \in S : TRUE
    BY <1>16
  <2>2. low \in 0 .. bound
    <3> HIDE DEF S
    <3> QED
      BY <1>16
  <2>3. \A v \in keys : D(v) \in S /\ D(v) <= D(v)
    <3> HIDE DEF D, S, bound
    <3>1. \A v \in keys : D(v) \in Int
      BY <1>7
    <3> QED
      BY <1>15, <3>1
  <2>4. \A t \in T : t = 0 \/ \E v \in keys : t = D(v)
    OBVIOUS
  <2> HIDE DEF D, S, T, bound
  <2>5. 0 <= low
    BY <2>2
  <2> QED
    BY <2>3, <2>4, <2>5
<1>20. Max(S) = Max(T)
  <2> HIDE DEF S, T, bound
  <2> QED
    BY <1>5, <1>16, <1>17, <1>18, <1>19, MaxSame
<1> QED
  BY <1>1, <1>2, <1>20

-----------------------------------------------------------------------------
(* The maps of the handler.                                                *)

LEMMA TimingIsTimes ==
  ASSUME NEW map, IsTiming(map), NEW h \in DOMAIN map
  PROVE  IsTimes(map[h]) /\ DOMAIN map[h] \subseteq Gap
<1>1. DOMAIN map[h] \subseteq Gap /\ \A g \in DOMAIN map[h] : map[h][g] \in 1 .. MaxPackets
  BY DEF IsTiming
<1>2. IsFiniteSet(DOMAIN map[h])
  BY <1>1, Widths, FS_Subset
<1>3. Gap \subseteq Nat
  BY Widths DEF Gap
<1>4. \A g \in DOMAIN map[h] : map[h][g] \in Nat /\ map[h][g] > 0
  BY <1>1, Widths
<1> QED
  BY <1>1, <1>2, <1>3, <1>4 DEF IsTimes, IsSample

LEMMA TimesInType ==
  ASSUME NEW map, IsTiming(map), NEW h
  PROVE  TimesIn(map, h) \in Nat
  BY TimingIsTimes, SizeIs DEF TimesIn

(* The neighbours of a list are as many as its pairs, and each adds one to *)
(* the count of one time.                                                  *)
LEMMA GapsOf ==
  ASSUME NEW list \in Seq(Time)
  PROVE  /\ IsFiniteSet(Neighbours(list))
         /\ Cardinality(Neighbours(list)) = Pairs(list)
         /\ Pairs(list) \in Nat /\ Pairs(list) <= Len(list)
         /\ \A i \in Neighbours(list) : Between(list, i) \in Gap
         /\ \A g : Occurs(list, g) \in Nat
         /\ \A i \in Neighbours(list) : Occurs(list, Between(list, i)) > 0
         /\ ~(Len(list) > 1) => Pairs(list) = 0
<1>1. Len(list) \in Nat /\ (list = <<>> <=> Len(list) = 0)
  OBVIOUS
<1>2. IsFiniteSet(Neighbours(list)) /\ Cardinality(Neighbours(list)) = Pairs(list)
  BY <1>1, FS_Interval DEF Neighbours, Pairs
<1>3. Pairs(list) \in Nat /\ Pairs(list) <= Len(list)
  BY <1>1 DEF Pairs
<1>4. ASSUME NEW i \in Neighbours(list) PROVE Between(list, i) \in Gap
  <2>1. i \in 1 .. Len(list) /\ i + 1 \in 1 .. Len(list)
    BY <1>1 DEF Neighbours
  <2>2. list[i] \in Time /\ list[i + 1] \in Time
    BY <2>1
  <2>3. list[i] \in Nat /\ list[i + 1] \in Nat
    <3>1. \A t \in Time : t \in Nat
      BY Widths DEF Gap
    <3> QED
      BY <2>2, <3>1
  <2>4. list[i + 1] - list[i] \in Int
    BY <2>3
  <2> QED
    BY <2>4, Widths DEF Between, Gap
<1>5. ASSUME NEW g
      PROVE  /\ Occurs(list, g) \in Nat
             /\ (\E i \in Neighbours(list) : Between(list, i) = g) => Occurs(list, g) > 0
  <2> DEFINE here == {i \in Neighbours(list) : Between(list, i) = g}
  <2>1. IsFiniteSet(here)
    BY <1>2, FS_Subset
  <2>2. Cardinality(here) \in Nat /\ (Cardinality(here) = 0 <=> here = {})
    BY <2>1, FS_CardinalityType, FS_EmptySet
  <2>3. Occurs(list, g) = Cardinality(here)
    BY DEF Occurs
  <2>4. (\E i \in Neighbours(list) : Between(list, i) = g) => here # {}
    OBVIOUS
  <2> HIDE DEF here
  <2> QED
    BY <2>2, <2>3, <2>4
<1>6. ~(Len(list) > 1) => Pairs(list) = 0
  <2>1. list # <<>> /\ ~(Len(list) > 1) => Len(list) - 1 = 0
    BY <1>1
  <2> QED
    BY <2>1 DEF Pairs
<1> QED
  BY <1>2, <1>3, <1>4, <1>5, <1>6

(* ComputeInterdeparture adds exactly the pairs of the capture.            *)
LEMMA WithTimesAdds ==
  ASSUME NEW map, IsTiming(map), timing \in [Host -> Seq(Time)],
         \A h \in Host : TimesIn(map, h) + Len(timing[h]) <= MaxPackets
  PROVE  /\ IsTiming(WithTimes(map))
         /\ \A h \in Host : TimesIn(WithTimes(map), h) = TimesIn(map, h) + Pairs(timing[h])
         /\ (\A h \in DOMAIN map : DOMAIN map[h] # {}) =>
              \A h \in DOMAIN WithTimes(map) : DOMAIN WithTimes(map)[h] # {}
<1> DEFINE new == WithTimes(map)
           gaps(h) == {Between(timing[h], i) : i \in Neighbours(timing[h])}
           keys(h) == KeysOf(map, h) \cup gaps(h)
<1>1. DOMAIN map \subseteq Host /\ \A h \in Host : timing[h] \in Seq(Time)
  BY DEF IsTiming
<1>2. DOMAIN new = DOMAIN map \cup {s \in Host : Len(timing[s]) > 1} /\ DOMAIN new \subseteq Host
  BY <1>1 DEF WithTimes
<1>3. ASSUME NEW h \in DOMAIN new
      PROVE  /\ DOMAIN new[h] = keys(h)
             /\ \A g \in keys(h) : new[h][g] = Count(map, h, g) + Occurs(timing[h], g)
  BY <1>2 DEF WithTimes
<1>4. ASSUME NEW h \in Host
      PROVE  /\ keys(h) \subseteq Gap
             /\ \A g \in keys(h) : /\ Count(map, h, g) \in Nat /\ Occurs(timing[h], g) \in Nat
                                   /\ Count(map, h, g) + Occurs(timing[h], g) > 0
  <2>1. timing[h] \in Seq(Time)
    OBVIOUS
  <2>2. gaps(h) \subseteq Gap /\ \A g \in gaps(h) : Occurs(timing[h], g) > 0
    BY <2>1, GapsOf
  <2>3. \A g : Occurs(timing[h], g) \in Nat
    BY <2>1, GapsOf
  <2>4. KeysOf(map, h) \subseteq Gap
        /\ \A g \in KeysOf(map, h) : Count(map, h, g) \in Nat /\ Count(map, h, g) > 0
    BY TimingIsTimes DEF KeysOf, Count, IsTimes, IsSample
  <2>5. \A g : g \notin KeysOf(map, h) => Count(map, h, g) = 0
    BY DEF KeysOf, Count
  <2> HIDE DEF gaps
  <2>6. ASSUME NEW g \in keys(h)
        PROVE  /\ Count(map, h, g) \in Nat /\ Occurs(timing[h], g) \in Nat
               /\ Count(map, h, g) + Occurs(timing[h], g) > 0
    <3>1. Count(map, h, g) \in Nat /\ Occurs(timing[h], g) \in Nat
      BY <2>3, <2>4, <2>5
    <3>2. Count(map, h, g) > 0 \/ Occurs(timing[h], g) > 0
      BY <2>2, <2>4
    <3> QED
      BY <3>1, <3>2
  <2> QED
    BY <2>2, <2>4, <2>6
<1>5. ASSUME NEW h \in DOMAIN new
      PROVE  Size(new[h]) = TimesIn(map, h) + Pairs(timing[h])
  <2> DEFINE K == keys(h)
             list == timing[h]
             counts == [g \in K |-> Count(map, h, g)]
             occurs == [g \in K |-> Occurs(list, g)]
             before == [i \in Neighbours(list) |-> Between(list, i)]
  <2>0. h \in Host /\ list \in Seq(Time)
    BY <1>1, <1>2
  <2>1. IsFiniteSet(K)
    BY <1>4, <2>0, Widths, FS_Subset
  <2>2. \A g \in K : /\ counts[g] \in Nat /\ occurs[g] \in Nat
                     /\ new[h][g] = counts[g] + occurs[g]
    BY <1>3, <1>4, <2>0
  <2>3. Size(new[h]) = SumFunctionOnSet(new[h], K)
    BY <1>3 DEF Size, SumFunction
  <2>4. SumFunctionOnSet(new[h], K) = SumFunctionOnSet(counts, K) + SumFunctionOnSet(occurs, K)
    <3> HIDE DEF K, counts, occurs, new
    <3> QED
      BY <2>1, <2>2, SumPlus
  <2>5. SumFunctionOnSet(occurs, K) = Pairs(list)
    <3>1. \A i \in Neighbours(list) : before[i] \in K
      OBVIOUS
    <3>2. ASSUME NEW g \in K, NEW F, \A i : i \in F <=> i \in Neighbours(list) /\ before[i] = g
          PROVE  occurs[g] = Cardinality(F)
      <4>1. F = {i \in Neighbours(list) : Between(list, i) = g}
        BY <3>2
      <4> QED
        BY <4>1 DEF Occurs
    <3>3. IsFiniteSet(Neighbours(list)) /\ Cardinality(Neighbours(list)) = Pairs(list)
      BY <2>0, GapsOf
    <3> HIDE DEF K, occurs, before, list
    <3> QED
      BY <2>1, <3>1, <3>2, <3>3, SumOfFibres
  <2>6. SumFunctionOnSet(counts, K) = TimesIn(map, h)
    <3> DEFINE old == KeysOf(map, h)
    <3>1. old \in SUBSET K /\ \A g \in K \ old : counts[g] = 0
      BY DEF KeysOf, Count
    <3>2. SumFunctionOnSet(counts, old) = SumFunctionOnSet(counts, K)
      <4> HIDE DEF K, old, counts
      <4> QED
        BY <2>1, <2>2, <3>1, SumWithin
    <3>3. IsFiniteSet(old)
      BY <2>1, <3>1, FS_Subset
    <3>4. CASE h \in DOMAIN map
      <4>1. old = DOMAIN map[h]
        BY <3>4 DEF KeysOf
      <4>2. \A g \in old : counts[g] = map[h][g]
        BY <3>4 DEF KeysOf, Count
      <4>3. SumFunctionOnSet(counts, old) = SumFunctionOnSet(map[h], old)
        <5> HIDE DEF old, counts
        <5> QED
          BY <3>3, <4>2, SumSame
      <4> QED
        BY <3>2, <3>4, <4>1, <4>3 DEF TimesIn, Size, SumFunction
    <3>5. CASE h \notin DOMAIN map
      <4>1. old = {}
        BY <3>5 DEF KeysOf
      <4>2. SumFunctionOnSet(counts, old) = 0
        BY <4>1, SumEmpty
      <4> QED
        BY <3>2, <3>5, <4>2 DEF TimesIn
    <3> QED
      BY <3>4, <3>5
  <2> QED
    BY <2>3, <2>4, <2>5, <2>6
<1>6. ASSUME NEW h \in Host
      PROVE  TimesIn(new, h) = TimesIn(map, h) + Pairs(timing[h])
  <2>1. CASE h \in DOMAIN new
    BY <1>5, <2>1 DEF TimesIn
  <2>2. CASE h \notin DOMAIN new
    <3>1. h \notin DOMAIN map /\ ~(Len(timing[h]) > 1) /\ Len(timing[h]) \in Nat
      BY <1>1, <1>2, <2>2
    <3>2. Pairs(timing[h]) = 0
      BY <1>1, <3>1, GapsOf
    <3>3. TimesIn(new, h) = 0 /\ TimesIn(map, h) = 0
      BY <2>2, <3>1 DEF TimesIn
    <3> QED
      BY <3>2, <3>3
  <2> QED
    BY <2>1, <2>2
<1>7. IsTiming(new)
  <2>1. ASSUME NEW h \in DOMAIN new
        PROVE  DOMAIN new[h] \subseteq Gap /\ \A g \in DOMAIN new[h] : new[h][g] \in 1 .. MaxPackets
    <3>0. h \in Host
      BY <1>2
    <3>1. DOMAIN new[h] = keys(h) /\ keys(h) \subseteq Gap
          /\ \A g \in keys(h) : new[h][g] \in Nat /\ new[h][g] > 0
      <4>1. DOMAIN new[h] = keys(h) /\ keys(h) \subseteq Gap
        BY <1>3, <1>4, <3>0
      <4>2. ASSUME NEW g \in keys(h) PROVE new[h][g] \in Nat /\ new[h][g] > 0
        <5>1. new[h][g] = Count(map, h, g) + Occurs(timing[h], g)
          BY <1>3
        <5>2. /\ Count(map, h, g) \in Nat /\ Occurs(timing[h], g) \in Nat
              /\ Count(map, h, g) + Occurs(timing[h], g) > 0
          BY <1>4, <3>0
        <5> QED
          BY <5>1, <5>2
      <4> QED
        BY <4>1, <4>2
    <3>2. IsSample(new[h])
      <4>1. IsFiniteSet(DOMAIN new[h]) /\ Gap \subseteq Nat
        BY <3>1, Widths, FS_Subset DEF Gap
      <4> QED
        BY <3>1, <4>1 DEF IsSample
    <3>3. Size(new[h]) <= MaxPackets
      <4>1. TimesIn(map, h) + Len(timing[h]) <= MaxPackets
        BY <3>0
      <4>2. Pairs(timing[h]) \in Nat /\ Pairs(timing[h]) <= Len(timing[h]) /\ Len(timing[h]) \in Nat
        BY <1>1, <3>0, GapsOf
      <4>3. TimesIn(map, h) \in Nat
        BY TimesInType
      <4> QED
        BY <1>5, <4>1, <4>2, <4>3, Widths
    <3>4. ASSUME NEW g \in DOMAIN new[h] PROVE new[h][g] \in 1 .. MaxPackets
      <4>1. new[h][g] <= Size(new[h]) /\ Size(new[h]) \in Nat
        BY <3>2, SumAtLeast, UpToBounds
      <4> QED
        BY <3>1, <3>3, <4>1, Widths
    <3> QED
      BY <3>1, <3>4
  <2> QED
    BY <1>2, <2>1 DEF IsTiming
<1>8. ASSUME \A h \in DOMAIN map : DOMAIN map[h] # {}, NEW h \in DOMAIN new
      PROVE  DOMAIN new[h] # {}
  <2>1. CASE h \in DOMAIN map
    BY <1>3, <1>8, <2>1 DEF KeysOf
  <2>2. CASE Len(timing[h]) > 1
    <3>1. 1 \in Neighbours(timing[h])
      <4>1. Len(timing[h]) \in Nat
        BY <1>1, <1>2
      <4> QED
        BY <2>2, <4>1 DEF Neighbours
    <3>2. Between(timing[h], 1) \in keys(h)
      BY <3>1
    <3> QED
      BY <1>3, <3>2
  <2> QED
    BY <1>2, <2>1, <2>2
<1> QED
  BY <1>6, <1>7, <1>8

-----------------------------------------------------------------------------
(* The invariant.                                                          *)

LEMMA EmptyIsTiming ==
  /\ DOMAIN Empty = {} /\ IsTiming(Empty) /\ IsTimes(Empty)
  /\ \A h : TimesIn(Empty, h) = 0
<1>1. DOMAIN Empty = {}
  BY DEF Empty
<1>2. IsTimes(Empty)
  BY <1>1, FS_EmptySet DEF IsTimes, IsSample
<1> QED
  BY <1>1, <1>2 DEF IsTiming, TimesIn

(* A verdict is a natural and a truth value.                               *)
LEMMA VerdictType ==
  ASSUME NEW one, IsTimes(one), NEW other, IsTimes(other)
  PROVE  DStat(one, other) \in Nat /\ Abnormal(one, other) \in BOOLEAN
<1>1. DStat(one, other) \in Nat
  BY DStatIs
<1>2. Abnormal(one, other) \in BOOLEAN
  <2>1. \A a, b, c, d : Exceeds(a, b, c, d) \in BOOLEAN
    BY DEF Exceeds
  <2>2. (Size(one) > 1 /\ DStat(one, other) > 0) \in BOOLEAN
    OBVIOUS
  <2> QED
    BY <2>1, <2>2, Zenon DEF Abnormal
<1> QED
  BY <1>1, <1>2

(* An address below 2^32 comes back as itself, with its times.             *)
LEMMA LoadedIs ==
  ASSUME IsTiming(file)
  PROVE  /\ DOMAIN Loaded = DOMAIN file
         /\ \A h \in DOMAIN file : Loaded[h] = file[h]
<1>1. \A h \in DOMAIN file : h \in Nat /\ h < Word
  <2>1. \A h \in Host : h \in Nat /\ h < Word
    BY ConstantsAssumption, Widths
  <2> QED
    BY <2>1 DEF IsTiming
<1>2. \A h \in DOMAIN file : Address(h) = h
  BY <1>1, Widths DEF Address
<1>3. {Address(t) : t \in DOMAIN file} = DOMAIN file
  BY <1>2
<1> QED
  BY <1>3 DEF Loaded

LEMMA Initialised == Init => Inv
<1> SUFFICES ASSUME Init PROVE Inv
  OBVIOUS
<1>1. /\ file = Empty /\ model = Empty /\ test = Empty /\ results = Empty
      /\ mode = "idle" /\ captured = FALSE /\ packets = 0
      /\ \A h \in Host : timing[h] = <<>> /\ learned[h] = 0
      /\ timing \in [Host -> Seq(Time)] /\ learned \in [Host -> Nat]
  BY DEF Init
<1>2. TypeOK
  <2>1. IsTiming(file) /\ IsTiming(model) /\ IsTiming(test) /\ DOMAIN results = {}
    BY <1>1, EmptyIsTiming
  <2>2. packets \in 0 .. MaxPackets
    BY <1>1, Widths
  <2> QED
    BY <1>1, <2>1, <2>2 DEF TypeOK
<1> QED
  BY <1>1, <1>2, EmptyIsTiming DEF Inv, GapsCounted

LEMMA StartRunPreserves ==
  ASSUME Inv, NEW type \in {"learning", "analysis"}, StartRun(type)
  PROVE  Inv'
<1>1. /\ mode' = type /\ captured' = FALSE /\ model' = Loaded /\ test' = Empty /\ results' = Empty
      /\ file' = file /\ packets' = packets /\ learned' = learned
      /\ timing' \in [Host -> Seq(Time)] /\ \A h \in Host : timing'[h] = <<>>
  BY DEF StartRun
<1>2. TypeOK /\ IsTiming(file)
  BY DEF Inv, TypeOK
<1>3. DOMAIN model' = DOMAIN file /\ \A h \in DOMAIN file : model'[h] = file[h]
  BY <1>1, <1>2, LoadedIs
<1>4. IsTiming(model')
  BY <1>2, <1>3 DEF IsTiming
<1>5. IsTiming(file') /\ IsTiming(test')
  BY <1>1, <1>2, EmptyIsTiming
<1>6. TypeOK'
  BY <1>1, <1>2, <1>4, <1>5, EmptyIsTiming DEF TypeOK
<1>7. \A h \in Host : TimesIn(model', h) = TimesIn(file, h)
  BY <1>3 DEF TimesIn
<1>8. GapsCounted'
  BY <1>1 DEF Inv, GapsCounted
<1>9. \A h \in DOMAIN model' : DOMAIN model'[h] # {}
  BY <1>3 DEF Inv
<1>10. \A h \in Host : learned'[h] <= packets' /\ learned'[h] + Len(timing'[h]) <= packets'
  <2> SUFFICES ASSUME NEW h \in Host
               PROVE  learned'[h] <= packets' /\ learned'[h] + Len(timing'[h]) <= packets'
    OBVIOUS
  <2>1. learned[h] \in Nat /\ learned[h] <= packets
    BY DEF Inv, TypeOK
  <2>2. Len(timing'[h]) = 0
    BY <1>1
  <2> QED
    BY <1>1, <2>1, <2>2
<1>11. \A h \in Host : TimesIn(model', h) = learned'[h] + 0
  BY <1>1, <1>7 DEF Inv, GapsCounted, TypeOK
<1>12. \A h \in DOMAIN file' : DOMAIN file'[h] # {}
  BY <1>1 DEF Inv
<1> QED
  BY <1>1, <1>6, <1>8, <1>9, <1>10, <1>11, <1>12, EmptyIsTiming DEF Inv

LEMMA ComputePacketPreserves ==
  ASSUME Inv, NEW src \in Host, NEW ts \in Time, ComputePacket(src, ts)
  PROVE  Inv'
<1>1. /\ mode \in {"learning", "analysis"} /\ captured = FALSE /\ packets < MaxPackets
      /\ packets' = packets + 1 /\ timing' = [timing EXCEPT ![src] = Append(@, ts)]
      /\ UNCHANGED <<file, mode, captured, model, test, results, learned>>
  BY DEF ComputePacket, Inv, TypeOK
<1>2. TypeOK /\ packets \in Nat /\ timing \in [Host -> Seq(Time)]
  BY DEF Inv, TypeOK
<1>3. /\ timing' \in [Host -> Seq(Time)]
      /\ \A h \in Host : Len(timing'[h]) <= Len(timing[h]) + 1
                         /\ Len(timing[h]) \in Nat /\ Len(timing'[h]) \in Nat
  <2>1. timing[src] \in Seq(Time) /\ Append(timing[src], ts) \in Seq(Time)
        /\ Len(Append(timing[src], ts)) = Len(timing[src]) + 1
    BY <1>2
  <2>2. timing' \in [Host -> Seq(Time)]
    BY <1>1, <1>2, <2>1
  <2>3. timing'[src] = Append(timing[src], ts) /\ \A h \in Host \ {src} : timing'[h] = timing[h]
    BY <1>1, <1>2
  <2>4. ASSUME NEW h \in Host PROVE Len(timing[h]) \in Nat /\ Len(timing'[h]) \in Nat
    BY <1>2, <2>2
  <2> QED
    BY <2>1, <2>2, <2>3, <2>4
<1>4. IsTiming(file') /\ IsTiming(model') /\ IsTiming(test')
  BY <1>1, <1>2 DEF TypeOK
<1>5. TypeOK'
  BY <1>1, <1>2, <1>3, <1>4, Widths DEF TypeOK
<1>6. GapsCounted'
  BY <1>1 DEF Inv, GapsCounted
<1>7. ASSUME NEW h \in Host
      PROVE  learned'[h] <= packets' /\ learned'[h] + Len(timing'[h]) <= packets'
  <2>1. learned[h] \in Nat /\ learned[h] <= packets /\ learned[h] + Len(timing[h]) <= packets
    BY <1>1 DEF Inv, TypeOK
  <2> QED
    BY <1>1, <1>2, <1>3, <2>1
<1>8. mode # "report"
  BY <1>1
<1> QED
  BY <1>1, <1>5, <1>6, <1>7, <1>8 DEF Inv

LEMMA InitCapturePreserves ==
  ASSUME Inv, InitCapture
  PROVE  Inv'
<1>1. /\ captured = FALSE /\ captured' = TRUE
      /\ UNCHANGED <<file, mode, timing, results, packets, learned>>
      /\ mode \in {"learning", "analysis"}
  BY DEF InitCapture, Inv, TypeOK
<1>2. TypeOK /\ packets \in 0 .. MaxPackets /\ timing \in [Host -> Seq(Time)]
      /\ IsTiming(file) /\ IsTiming(model) /\ IsTiming(test)
  BY DEF Inv, TypeOK
<1>3. GapsCounted'
  BY <1>1 DEF Inv, GapsCounted
<1>4. \A h \in Host : /\ learned[h] \in Nat /\ Len(timing[h]) \in Nat
                      /\ learned[h] <= packets /\ learned[h] + Len(timing[h]) <= packets
                      /\ learned[h] + Len(timing[h]) <= MaxPackets
  <2> SUFFICES ASSUME NEW h \in Host
               PROVE  /\ learned[h] \in Nat /\ Len(timing[h]) \in Nat
                      /\ learned[h] <= packets /\ learned[h] + Len(timing[h]) <= packets
                      /\ learned[h] + Len(timing[h]) <= MaxPackets
    OBVIOUS
  <2>1. learned[h] \in Nat /\ timing[h] \in Seq(Time)
    BY DEF Inv, TypeOK
  <2>2. learned[h] <= packets /\ learned[h] + Len(timing[h]) <= packets
    BY <1>1 DEF Inv
  <2> QED
    BY <1>2, <2>1, <2>2, Widths
<1>5. CASE mode = "learning"
  <2>1. model' = WithTimes(model) /\ test' = test
    BY <1>5 DEF InitCapture
  <2>2. \A h \in Host : TimesIn(model, h) = learned[h]
    <3>1. \A h \in Host : TimesIn(model, h) = learned[h] + 0
      BY <1>1, <1>5 DEF Inv
    <3> QED
      BY <1>4, <3>1
  <2>3. /\ IsTiming(model')
        /\ \A h \in Host : TimesIn(model', h) = learned[h] + Pairs(timing[h])
        /\ \A h \in DOMAIN model' : DOMAIN model'[h] # {}
    <3>1. \A h \in Host : TimesIn(model, h) + Len(timing[h]) <= MaxPackets
      BY <1>4, <2>2
    <3>2. \A h \in DOMAIN model : DOMAIN model[h] # {}
      BY DEF Inv
    <3> QED
      BY <1>2, <2>1, <2>2, <3>1, <3>2, WithTimesAdds
  <2>4. TypeOK'
    BY <1>1, <1>2, <2>1, <2>3 DEF TypeOK
  <2> QED
    BY <1>1, <1>3, <1>4, <1>5, <2>3, <2>4 DEF Inv
<1>6. CASE mode = "analysis"
  <2>1. test' = WithTimes(test) /\ model' = model
    BY <1>6 DEF InitCapture
  <2>2. \A h \in Host : TimesIn(test, h) = 0
    BY <1>1, <1>6 DEF Inv, TimesIn
  <2>3. IsTiming(test')
    <3>1. \A h \in Host : TimesIn(test, h) + Len(timing[h]) <= MaxPackets
      <4> SUFFICES ASSUME NEW h \in Host
                   PROVE  TimesIn(test, h) + Len(timing[h]) <= MaxPackets
        OBVIOUS
      <4>1. TimesIn(test, h) = 0
        BY <2>2
      <4> QED
        BY <1>4, <4>1, Widths
    <3> QED
      BY <1>2, <2>1, <3>1, WithTimesAdds
  <2>4. TypeOK'
    BY <1>1, <1>2, <2>1, <2>3 DEF TypeOK
  <2> QED
    BY <1>1, <1>3, <1>4, <1>6, <2>1, <2>4 DEF Inv
<1> QED
  BY <1>1, <1>5, <1>6

LEMMA SavePreserves ==
  ASSUME Inv, SaveDataToModel
  PROVE  Inv'
<1>1. /\ mode = "learning" /\ captured /\ mode' = "idle" /\ file' = model
      /\ learned' = [h \in Host |-> learned[h] + Pairs(timing[h])]
      /\ UNCHANGED <<captured, timing, model, test, results, packets>>
  BY DEF SaveDataToModel
<1>2. TypeOK
  BY DEF Inv
<1>3. ASSUME NEW h \in Host
      PROVE  /\ learned'[h] = learned[h] + Pairs(timing[h]) /\ learned'[h] \in Nat
             /\ learned'[h] <= packets /\ learned'[h] = TimesIn(model, h)
  <2>1. learned'[h] = learned[h] + Pairs(timing[h])
    BY <1>1
  <2>2. learned[h] \in Nat /\ timing[h] \in Seq(Time) /\ packets \in Nat
    BY <1>2, Widths DEF TypeOK
  <2>3. Pairs(timing[h]) \in Nat /\ Pairs(timing[h]) <= Len(timing[h]) /\ Len(timing[h]) \in Nat
    BY <2>2, GapsOf
  <2>4. learned[h] + Len(timing[h]) <= packets
    BY <1>1 DEF Inv
  <2>5. TimesIn(model, h) = learned[h] + Pairs(timing[h])
    BY <1>1 DEF Inv
  <2> QED
    BY <2>1, <2>2, <2>3, <2>4, <2>5
<1>4. TypeOK'
  <2>1. learned' \in [Host -> Nat]
    BY <1>1, <1>3
  <2>2. IsTiming(file') /\ IsTiming(model') /\ IsTiming(test')
    BY <1>1, <1>2 DEF TypeOK
  <2> QED
    BY <1>1, <1>2, <2>1, <2>2 DEF TypeOK
<1>5. GapsCounted'
  BY <1>1, <1>3 DEF GapsCounted
<1>6. \A h \in DOMAIN model : DOMAIN model[h] # {}
  BY DEF Inv
<1> QED
  BY <1>1, <1>3, <1>4, <1>5, <1>6 DEF Inv

LEMMA RunTestPreserves ==
  ASSUME Inv, RunTest
  PROVE  Inv'
<1>1. /\ mode' = "report"
      /\ DOMAIN results' = DOMAIN model
      /\ \A h \in DOMAIN model :
           results'[h] = [dStat |-> DStat(model[h], TestOf(h)),
                          abnormal |-> Abnormal(model[h], TestOf(h))]
      /\ DOMAIN test' = DOMAIN test \cup DOMAIN model
      /\ \A h \in DOMAIN test' : test'[h] = TestOf(h)
      /\ UNCHANGED <<file, captured, timing, model, packets, learned>>
  BY DEF RunTest
<1>2. TypeOK
  BY DEF Inv
<1>3. IsTiming(test')
  <2>1. \A h \in DOMAIN test' : test'[h] = Empty \/ (h \in DOMAIN test /\ test'[h] = test[h])
    BY <1>1 DEF TestOf
  <2> QED
    BY <1>1, <1>2, <2>1, EmptyIsTiming DEF TypeOK, IsTiming
<1>4. ASSUME NEW h \in DOMAIN model
      PROVE  /\ h \in DOMAIN test' /\ test'[h] = TestOf(h)
             /\ results'[h].dStat = DStat(model[h], TestOf(h))
             /\ results'[h].abnormal = Abnormal(model[h], TestOf(h))
             /\ results'[h].dStat \in Nat /\ results'[h].abnormal \in BOOLEAN
  <2>1. h \in DOMAIN test' /\ test'[h] = TestOf(h)
    BY <1>1
  <2>2. IsTimes(model[h]) /\ IsTimes(test'[h])
    BY <1>2, <1>3, <2>1, TimingIsTimes DEF TypeOK
  <2>3. DStat(model[h], TestOf(h)) \in Nat /\ Abnormal(model[h], TestOf(h)) \in BOOLEAN
    BY <2>1, <2>2, VerdictType
  <2> QED
    BY <1>1, <2>1, <2>3
<1>5. TypeOK'
  <2>1. IsTiming(file') /\ IsTiming(model')
    BY <1>1, <1>2 DEF TypeOK
  <2> QED
    BY <1>1, <1>2, <1>3, <1>4, <2>1 DEF TypeOK
<1>6. GapsCounted'
  BY <1>1 DEF Inv, GapsCounted
<1>7. \A h \in DOMAIN results' :
        /\ h \in DOMAIN model' \cap DOMAIN test'
        /\ results'[h].dStat = DStat(model'[h], test'[h])
        /\ results'[h].abnormal = Abnormal(model'[h], test'[h])
  BY <1>1, <1>4
<1> QED
  BY <1>1, <1>5, <1>6, <1>7 DEF Inv

LEMMA Preserved == Inv /\ [Next]_vars => Inv'
<1> SUFFICES ASSUME Inv, [Next]_vars PROVE Inv'
  OBVIOUS
<1>1. ASSUME NEW type \in {"learning", "analysis"}, StartRun(type) PROVE Inv'
  BY <1>1, StartRunPreserves
<1>2. ASSUME NEW src \in Host, NEW ts \in Time, ComputePacket(src, ts) PROVE Inv'
  BY <1>2, ComputePacketPreserves
<1>3. CASE InitCapture
  BY <1>3, InitCapturePreserves
<1>4. CASE SaveDataToModel
  BY <1>4, SavePreserves
<1>5. CASE RunTest
  BY <1>5, RunTestPreserves
<1>6. CASE End
  <2>1. /\ mode' = "idle"
        /\ UNCHANGED <<file, captured, timing, model, test, results, packets, learned>>
    BY <1>6 DEF End
  <2>2. TypeOK' /\ GapsCounted'
    BY <2>1 DEF Inv, TypeOK, IsTiming, GapsCounted
  <2> QED
    BY <2>1, <2>2 DEF Inv
<1>7. CASE UNCHANGED vars
  <2>1. TypeOK' /\ GapsCounted'
    BY <1>7 DEF vars, Inv, TypeOK, IsTiming, GapsCounted
  <2> QED
    BY <1>7, <2>1 DEF Inv, vars
<1> QED
  BY <1>1, <1>2, <1>3, <1>4, <1>5, <1>6, <1>7 DEF Next

-----------------------------------------------------------------------------
(* The theorems.                                                           *)

(* The maps of the handler and of its section of the file, the counters    *)
(* and the reports agree: computeInterdeparture, the save and the load     *)
(* together keep every time once, and runTest reports on the two maps.     *)
THEOREM Invariance == Spec => []Inv
  BY Initialised, Preserved, PTL DEF Spec

(* Every variable has its type: the subtraction of two stamps stays in a   *)
(* uint64_t, and no count of times outgrows the packets.                   *)
THEOREM TypeCorrect == Spec => []TypeOK
<1>1. Inv => TypeOK
  BY DEF Inv
<1> QED
  BY <1>1, Invariance, PTL

(* The model file has one time for each pair of neighbours in the captures *)
(* of the learning runs that were saved, host by host: merging a capture   *)
(* into the loaded model loses none and invents none.                      *)
THEOREM GapsAreCounted == Spec => []GapsCounted
<1>1. Inv => GapsCounted
  BY DEF Inv
<1> QED
  BY <1>1, Invariance, PTL

(* What a report compares: two maps of times, the model's with a time.     *)
LEMMA ReportedIs ==
  ASSUME Inv, NEW h \in Reported
  PROVE  /\ IsTimes(model[h]) /\ DOMAIN model[h] # {} /\ IsTimes(test[h])
         /\ results[h].dStat = DStat(model[h], test[h])
         /\ results[h].abnormal = Abnormal(model[h], test[h])
<1>1. mode = "report" /\ h \in DOMAIN results
  BY DEF Reported
<1>2. /\ h \in DOMAIN model /\ h \in DOMAIN test
      /\ results[h].dStat = DStat(model[h], test[h])
      /\ results[h].abnormal = Abnormal(model[h], test[h])
  BY <1>1 DEF Inv
<1>3. IsTimes(model[h]) /\ IsTimes(test[h])
  BY <1>2, TimingIsTimes DEF Inv, TypeOK
<1> QED
  BY <1>2, <1>3 DEF Inv

(* runTest looks at the two curves only at the lower ends of its ranges,   *)
(* cut to a uint32_t, and takes the last range of a vector to begin at its *)
(* largest time.  For samples that keep their distance from those largest  *)
(* times, its statistic and its verdict are nevertheless those of the      *)
(* Kolmogorov-Smirnov test, whatever the samples.                          *)
THEOREM SpacedExact == Spec => []SpacedIsExact
<1>1. Inv => SpacedIsExact
  <2> SUFFICES ASSUME Inv, NEW h \in Reported, Tested(h), Short(h), Spaced(h)
               PROVE  IsExact(h)
    BY DEF SpacedIsExact
  <2>1. /\ IsTimes(model[h]) /\ DOMAIN model[h] # {} /\ IsTimes(test[h])
        /\ results[h].dStat = DStat(model[h], test[h])
        /\ results[h].abnormal = Abnormal(model[h], test[h])
    BY ReportedIs
  <2>2. DOMAIN test[h] # {}
    BY DEF Tested
  <2> DEFINE keys == DOMAIN model[h] \cup DOMAIN test[h]
             tops == {MaxTiming(model[h]), MaxTiming(test[h])}
  <2>3. \A g \in keys : g < Word
    BY DEF Short
  <2>4. /\ \A g \in keys : g + 1 \notin tops
        /\ Cardinality(tops) = 1 \/ tops \cap DOMAIN model[h] \cap DOMAIN test[h] = {}
    BY DEF Spaced
  <2>5. DStat(model[h], test[h]) = Statistic(model[h], test[h])
    BY <2>1, <2>2, <2>3, <2>4, DStatIsStatistic
  <2>6. Size(test[h]) \in Nat /\ Size(test[h]) > 0
    BY <2>1, <2>2, SizeIs
  <2> QED
    BY <2>1, <2>5, <2>6 DEF IsExact, Abnormal
<1> QED
  BY <1>1, Invariance, PTL

(* A host whose times are exactly those of its model has a statistic of 0  *)
(* and is normal, whatever runTest's search and its cuts do to the times.  *)
THEOREM SameNormal == Spec => []SameIsNormal
<1>1. Inv => SameIsNormal
  <2> SUFFICES ASSUME Inv, NEW h \in Reported, model[h] = test[h]
               PROVE  results[h].dStat = 0 /\ ~results[h].abnormal
    BY DEF SameIsNormal
  <2>1. /\ IsTimes(model[h]) /\ DOMAIN model[h] # {} /\ IsTimes(test[h])
        /\ results[h].dStat = DStat(model[h], test[h])
        /\ results[h].abnormal = Abnormal(model[h], test[h])
    BY ReportedIs
  <2>2. DStat(model[h], test[h]) = 0
    BY <2>1, DStatOfSame
  <2>3. Size(model[h]) \in Nat /\ Size(test[h]) \in Nat /\ Size(test[h]) > 0
    BY <2>1, SizeIs
  <2>4. ~Abnormal(model[h], test[h])
    BY <2>2, <2>3, ExceedsNothing, Widths DEF Abnormal
  <2> QED
    BY <2>1, <2>2, <2>4
<1> QED
  BY <1>1, Invariance, PTL

(* A host that falls silent is abnormal: runTest's threshold of an empty   *)
(* sample is 0, and its statistic is not, unless the host had one time     *)
(* only or all its times were 0.                                           *)
THEOREM SilentAbnormal == Spec => []SilentIsAbnormal
<1>1. Inv => SilentIsAbnormal
  <2> SUFFICES ASSUME Inv, NEW h \in Reported, ~Tested(h), Size(model[h]) > 1,
                      MaxTiming(model[h]) > 0
               PROVE  results[h].abnormal
    BY DEF SilentIsAbnormal
  <2>1. /\ IsTimes(model[h]) /\ IsTimes(test[h])
        /\ results[h].abnormal = Abnormal(model[h], test[h])
    BY ReportedIs
  <2>2. DOMAIN test[h] = {} /\ Size(test[h]) = 0
    BY <2>1, SizeIs DEF Tested
  <2>3. DStat(model[h], test[h]) > 0
    BY <2>1, <2>2, DStatOfSilent
  <2> QED
    BY <2>1, <2>2, <2>3 DEF Abnormal
<1> QED
  BY <1>1, Invariance, PTL

-----------------------------------------------------------------------------
(* The search of a cumulative distribution stays inside the vector and     *)
(* never gives up, for every map and every value below its largest key.    *)

USE DEF Span, Following

(* A range of the vector is a range.                                       *)
LEMMA Element ==
  ASSUME NEW S, NEW s \in Seq(S), NEW i \in 1 .. Len(s)
  PROVE  s[i] \in S
  OBVIOUS

LEMMA SearchInitialised == SearchInit => SearchInv
<1> SUFFICES ASSUME SearchInit PROVE SearchInv
  OBVIOUS
<1>1. PICK times \in SUBSET Timing : dist \in [times -> KeyCount]
  BY DEF SearchInit
<1>2. /\ DOMAIN dist \subseteq Timing
      /\ \A t \in DOMAIN dist : dist[t] \in Nat \ {0}
  BY <1>1, SearchAssumption
<1>3. maxTiming \in Nat /\ IsMaxTiming(maxTiming)
  BY SearchAssumption DEF SearchInit
<1>4. SearchTypeOK
  BY <1>2, <1>3 DEF SearchInit, SearchTypeOK
<1>5. Contiguous
  BY DEF SearchInit, Contiguous
<1>6. Building
  <2>1. pc = "build" /\ done = {} /\ cumul = <<>> /\ lastTiming = 0
    BY DEF SearchInit
  <2>2. ASSUME NEW t \in DOMAIN dist PROVE t >= 0
    <3>1. t \in Timing /\ Timing \subseteq Nat
      BY <1>2, SearchAssumption
    <3>2. t \in Nat
      BY <3>1
    <3> QED BY <3>2
  <2> QED BY <2>1, <2>2 DEF Building
<1>7. Searching /\ NeverFails /\ FewProbes
  <2>1. pc = "build"
    BY DEF SearchInit
  <2> QED BY <2>1 DEF Searching, NeverFails, FewProbes, Closed
<1> QED BY <1>3, <1>4, <1>5, <1>6, <1>7 DEF SearchInv

(* The middle lies between the ends of what is left.                       *)
LEMMA MidBetween ==
  ASSUME SearchTypeOK, min <= max
  PROVE  mid \in Nat /\ min <= mid /\ mid <= max /\ (min < max => mid < max)
  BY DEF SearchTypeOK, mid

(* A search with its invariant has a range to look at and has not passed   *)
(* the value.                                                              *)
LEMMA SearchAlive ==
  ASSUME SearchInv, pc = "search"
  PROVE  min <= max /\ mid < Len(cumul)
<1>1. /\ SearchTypeOK /\ Contiguous /\ cumul # <<>>
      /\ cumul[Len(cumul)].hi = maxTiming /\ value < maxTiming
      /\ min <= max + 1 /\ max <= Len(cumul) /\ min < Len(cumul)
      /\ min > 0 => cumul[min].hi < value
      /\ max < Len(cumul) => max + 1 < Len(cumul) /\ cumul[max + 2].lo > value
  BY DEF SearchInv, Searching, Closed
<1>2. Len(cumul) \in Nat /\ min \in Nat /\ max \in Nat /\ value \in Nat /\ maxTiming \in Nat
  BY <1>1 DEF SearchTypeOK
<1>3. min <= max
  <2> SUFFICES ASSUME min = max + 1 PROVE FALSE
    BY <1>1, <1>2
  <2>1. min \in 1 .. Len(cumul) - 1 /\ cumul[min].hi < value /\ cumul[min + 1].lo > value
    BY <1>1, <1>2
  <2>2. cumul[min].hi \in Nat
    <3>1. min \in 1 .. Len(cumul) /\ cumul \in Seq([lo : Nat, hi : Nat, below : Nat])
      BY <2>1, <1>1, <1>2 DEF SearchTypeOK
    <3>2. cumul[min] \in [lo : Nat, hi : Nat, below : Nat]
      BY <3>1, Element
    <3> QED BY <3>2
  <2>3. cumul[min + 1].lo = cumul[min].hi \/ cumul[min + 1].lo = cumul[min].hi + 1
    BY <2>1, <1>1 DEF Contiguous
  <2> QED BY <2>1, <2>2, <2>3, <1>2
<1>4. mid \in Nat /\ min <= mid /\ mid <= max /\ (min < max => mid < max)
  BY <1>1, <1>3, MidBetween
<1> QED BY <1>1, <1>2, <1>3, <1>4

LEMMA SearchPreserved == SearchInv /\ [SearchNext]_searchVars => SearchInv'
<1> SUFFICES ASSUME SearchInv, [SearchNext]_searchVars PROVE SearchInv'
  OBVIOUS
<1>0. SearchTypeOK /\ IsMaxTiming(maxTiming) /\ Contiguous /\ Building /\ Searching /\ NeverFails /\ FewProbes
  BY DEF SearchInv
<1>1. ASSUME NEW t \in DOMAIN dist \ done, PushRange(t) PROVE SearchInv'
  <2>1. /\ pc = "build" /\ pc' = "build"
        /\ \A u \in DOMAIN dist \ done : t <= u
        /\ cumul' = Append(cumul, [lo |-> lastTiming, hi |-> t, below |-> newSum])
        /\ newSum' = newSum + dist[t] /\ lastTiming' = t + 1 /\ done' = done \cup {t}
        /\ UNCHANGED <<dist, maxTiming, value, min, max, probes>>
    BY <1>1 DEF PushRange, mapVars
  <2>2. t \in Nat /\ t >= lastTiming /\ lastTiming \in Nat /\ newSum \in Nat /\ dist[t] \in Nat
    BY <1>0, <2>1, SearchAssumption DEF SearchTypeOK, Building
  <2>3. /\ cumul' \in Seq([lo : Nat, hi : Nat, below : Nat])
        /\ Len(cumul') = Len(cumul) + 1
        /\ \A i \in 1 .. Len(cumul) : cumul'[i] = cumul[i]
        /\ cumul'[Len(cumul) + 1] = [lo |-> lastTiming, hi |-> t, below |-> newSum]
        /\ Len(cumul) \in Nat
    BY <1>0, <2>1, <2>2 DEF SearchTypeOK
  <2>4. SearchTypeOK'
    <3>1. newSum' \in Nat /\ lastTiming' \in Nat /\ done' \subseteq DOMAIN dist'
      BY <2>1, <2>2, <1>0 DEF SearchTypeOK
    <3> QED BY <1>0, <2>1, <2>3, <3>1 DEF SearchTypeOK
  <2>5. Contiguous'
    <3>1. cumul'[1].lo = 0
      <4>1. CASE cumul = <<>>
        <5>1. Len(cumul) = 0 /\ lastTiming = 0
          BY <4>1, <1>0, <2>1 DEF Building
        <5> QED BY <5>1, <2>3
      <4>2. CASE cumul # <<>>
        <5>1. Len(cumul) >= 1
          BY <4>2, <1>0 DEF SearchTypeOK
        <5> QED BY <5>1, <2>3, <4>2, <1>0 DEF Contiguous
      <4> QED BY <4>1, <4>2
    <3>2. ASSUME NEW i \in 1 .. Len(cumul') - 1 PROVE cumul'[i + 1].lo = cumul'[i].hi + 1
      <4>1. CASE i < Len(cumul)
        <5>1. cumul'[i + 1] = cumul[i + 1] /\ cumul'[i] = cumul[i]
          <6>1. Len(cumul') = Len(cumul) + 1 /\ Len(cumul) \in Nat
            BY <2>3
          <6>2. i \in Nat /\ i >= 1
            BY <6>1
          <6>3. i \in 1 .. Len(cumul) /\ i + 1 \in 1 .. Len(cumul)
            BY <4>1, <6>1, <6>2
          <6> QED BY <6>3, <2>3
        <5>2. ~Closed
          BY <2>1 DEF Closed
        <5>3. i \in 1 .. Len(cumul) - 1
          BY <4>1, <2>3
        <5>4. cumul[i + 1].lo = cumul[i].hi + 1
          BY <5>2, <5>3, <1>0 DEF Contiguous
        <5> QED BY ONLY <5>1, <5>4
      <4>2. CASE i = Len(cumul)
        <5>1. lastTiming = cumul[Len(cumul)].hi + 1
          BY <4>2, <1>0, <2>1, <2>3 DEF Building
        <5> QED BY <4>2, <5>1, <2>3
      <4> QED BY <4>1, <4>2, <2>3
    <3> QED BY <3>1, <3>2, <2>1 DEF Contiguous, Closed
  <2>6. Building'
    <3>1. \A u \in done' : u < lastTiming'
      <4> SUFFICES ASSUME NEW u \in done' PROVE u < t + 1
        BY <2>1
      <4>1. CASE u = t
        BY <4>1, <2>2
      <4>2. CASE u \in done
        <5>1. u \in Nat /\ u < lastTiming
          BY <4>2, <2>1, <1>0, SearchAssumption DEF Building, SearchTypeOK
        <5> QED BY <5>1, <2>2
      <4> QED BY <4>1, <4>2, <2>1
    <3>2. \A u \in DOMAIN dist \ done' : u >= t + 1
      <4> SUFFICES ASSUME NEW u \in DOMAIN dist \ done' PROVE u >= t + 1
        OBVIOUS
      <4>1. u \in Nat /\ u # t /\ u \in DOMAIN dist \ done
        BY <2>1, <1>0, SearchAssumption DEF SearchTypeOK
      <4> QED BY <4>1, <2>1, <2>2
    <3>3. cumul' # <<>> /\ cumul'[Len(cumul')].hi = t
      BY <2>3
    <3> QED BY <2>1, <3>1, <3>2, <3>3 DEF Building
  <2> QED BY <1>0, <2>1, <2>4, <2>5, <2>6 DEF SearchInv, Searching, NeverFails, FewProbes, IsMaxTiming, Closed
<1>2. CASE PushLast
  <2>1. /\ pc = "build" /\ pc' = "idle" /\ done = DOMAIN dist
        /\ cumul' = Append(cumul, [lo |-> maxTiming, hi |-> maxTiming, below |-> newSum])
        /\ UNCHANGED <<dist, maxTiming, done, newSum, lastTiming, value, min, max, probes>>
    BY <1>2 DEF PushLast, mapVars
  <2>2. /\ cumul' \in Seq([lo : Nat, hi : Nat, below : Nat])
        /\ Len(cumul') = Len(cumul) + 1
        /\ \A i \in 1 .. Len(cumul) : cumul'[i] = cumul[i]
        /\ cumul'[Len(cumul) + 1] = [lo |-> maxTiming, hi |-> maxTiming, below |-> newSum]
        /\ Len(cumul) \in Nat
    BY <1>0, <2>1 DEF SearchTypeOK
  <2>3. SearchTypeOK'
    BY <1>0, <2>1, <2>2 DEF SearchTypeOK
  <2>4. IF cumul = <<>> THEN maxTiming = 0 ELSE maxTiming = cumul[Len(cumul)].hi
    <3>1. CASE done = {}
      BY <3>1, <2>1, <1>0 DEF Building, IsMaxTiming
    <3>2. CASE done # {}
      <4>1. /\ cumul # <<>> /\ cumul[Len(cumul)].hi \in done
            /\ lastTiming = cumul[Len(cumul)].hi + 1
            /\ \A t \in done : t < lastTiming
        BY <3>2, <2>1, <1>0 DEF Building
      <4>2. maxTiming \in done /\ \A t \in done : t <= maxTiming
        BY <3>2, <2>1, <1>0 DEF IsMaxTiming
      <4>3. cumul[Len(cumul)].hi \in Nat /\ maxTiming \in Nat
        BY <4>1, <2>1, <1>0, SearchAssumption DEF SearchTypeOK
      <4> QED BY <4>1, <4>2, <4>3
    <3> QED BY <3>1, <3>2
  <2>5. Contiguous'
    <3>1. cumul'[1].lo = 0
      <4>1. CASE cumul = <<>>
        <5>1. Len(cumul) = 0
          BY <4>1
        <5> QED BY <4>1, <5>1, <2>2, <2>4
      <4>2. CASE cumul # <<>>
        <5>1. Len(cumul) >= 1
          BY <4>2, <1>0 DEF SearchTypeOK
        <5> QED BY <5>1, <2>2, <4>2, <1>0 DEF Contiguous
      <4> QED BY <4>1, <4>2
    <3>2. ASSUME NEW i \in 1 .. Len(cumul') - 1
          PROVE  cumul'[i + 1].lo = IF i + 1 = Len(cumul') THEN cumul'[i].hi ELSE cumul'[i].hi + 1
      <4>1. CASE i < Len(cumul)
        <5>1. cumul'[i + 1] = cumul[i + 1] /\ cumul'[i] = cumul[i]
          <6>1. Len(cumul') = Len(cumul) + 1 /\ Len(cumul) \in Nat
            BY <2>2
          <6>2. i \in Nat /\ i >= 1
            BY <6>1
          <6>3. i \in 1 .. Len(cumul) /\ i + 1 \in 1 .. Len(cumul)
            BY <4>1, <6>1, <6>2
          <6> QED BY <6>3, <2>2
        <5> QED BY <4>1, <5>1, <2>1, <2>2, <1>0 DEF Contiguous, Closed
      <4>2. CASE i = Len(cumul)
        <5>1. cumul # <<>>
          BY <4>2, <2>2
        <5> QED BY <4>2, <5>1, <2>2, <2>4
      <4> QED BY <4>1, <4>2, <2>2
    <3> QED BY <3>1, <3>2, <2>1 DEF Contiguous, Closed
  <2>6. Building'
    BY <2>1 DEF Building
  <2>7. Searching'
    <3>1. cumul'[Len(cumul')] = [lo |-> maxTiming, hi |-> maxTiming, below |-> newSum]
      BY <2>2
    <3>2. Len(cumul') # 0 /\ maxTiming' = maxTiming
      BY <2>1, <2>2
    <3>3. cumul' # <<>>
      BY <3>2
    <3> QED BY <2>1, <3>1, <3>2, <3>3 DEF Searching, Closed
  <2> QED BY <1>0, <2>1, <2>3, <2>5, <2>6, <2>7 DEF SearchInv, NeverFails, FewProbes, IsMaxTiming
<1>3. ASSUME NEW v \in Timing, Find(v) PROVE SearchInv'
  <2>1. /\ pc \in {"idle", "found"} /\ pc' = "search" /\ value' = v /\ v < maxTiming
        /\ min' = 0 /\ max' = Len(cumul) /\ probes' = 0
        /\ UNCHANGED <<dist, maxTiming, done, cumul, newSum, lastTiming>>
    BY <1>3 DEF Find, Asked, mapVars, loopVars
  <2>2. Len(cumul) \in Nat /\ v \in Nat
    BY <1>0, SearchAssumption DEF SearchTypeOK
  <2>3. SearchTypeOK'
    BY <1>0, <2>1, <2>2 DEF SearchTypeOK
  <2>4. cumul # <<>> /\ Len(cumul) > 0
    BY <1>0, <2>1 DEF Searching, Closed, SearchTypeOK
  <2>5. Searching'
    BY <1>0, <2>1, <2>2, <2>4 DEF Searching, Closed
  <2>6. Contiguous' /\ Building' /\ IsMaxTiming(maxTiming)'
    BY <1>0, <2>1 DEF Contiguous, Building, IsMaxTiming, Closed
  <2> QED BY <2>1, <2>2, <2>3, <2>5, <2>6 DEF SearchInv, NeverFails, FewProbes
<1>4. CASE Probe
  <2>1. /\ pc = "search" /\ pc' = Outcome /\ probes' = probes + 1
        /\ max' = IF Outcome = "search" /\ Probed.lo > value THEN mid - 1 ELSE max
        /\ min' = IF Outcome = "search" /\ Probed.lo <= value THEN mid + 1 ELSE min
        /\ UNCHANGED <<dist, maxTiming, done, cumul, newSum, lastTiming, value>>
    BY <1>4 DEF Probe, Above, mapVars, loopVars
  <2>2. min <= max /\ mid < Len(cumul)
    BY <2>1, SearchAlive
  <2>3. mid \in Nat /\ min <= mid /\ mid <= max /\ (min < max => mid < max)
    BY <1>0, <2>2, MidBetween
  <2>4. /\ min \in Nat /\ max \in Nat /\ value \in Nat /\ Len(cumul) \in Nat /\ probes \in Nat
        /\ Probed \in [lo : Nat, hi : Nat, below : Nat]
        /\ maxTiming \in Nat
    <3>1. mid + 1 \in 1 .. Len(cumul) /\ cumul \in Seq([lo : Nat, hi : Nat, below : Nat])
      BY <1>0, <2>2, <2>3 DEF SearchTypeOK
    <3>2. Probed \in [lo : Nat, hi : Nat, below : Nat]
      BY <3>1, Element DEF Probed
    <3> QED BY <3>2, <1>0 DEF SearchTypeOK
  <2>5. /\ value < maxTiming /\ cumul # <<>>
        /\ cumul[Len(cumul)].lo = maxTiming /\ cumul[Len(cumul)].hi = maxTiming
        /\ max <= Len(cumul) /\ min < Len(cumul)
        /\ probes + max <= Len(cumul) + min
        /\ min > 0 => cumul[min].hi < value
        /\ max < Len(cumul) => max + 1 < Len(cumul) /\ cumul[max + 2].lo > value
    BY <1>0, <2>1 DEF Searching, Closed
  <2>6. Probed.lo > value => mid > 0
    BY <1>0, <2>3, <2>4, <2>5 DEF Contiguous, Probed
  <2>7. Outcome = IF Probed.lo > value \/ Probed.hi < value THEN "search" ELSE "found"
    BY <2>2, <2>3, <2>4, <2>6 DEF Outcome
  <2>8. Contiguous' /\ Building' /\ IsMaxTiming(maxTiming)'
    BY <1>0, <2>1, <2>7 DEF Contiguous, Building, IsMaxTiming, Closed
  <2>9. CASE Probed.lo > value
    <3>1. pc' = "search" /\ max' = mid - 1 /\ min' = min
      BY <2>1, <2>4, <2>7, <2>9
    <3>2. max' \in Nat /\ min' <= max' + 1 /\ max' < Len(cumul) /\ max' + 1 < Len(cumul)
      BY <3>1, <2>2, <2>3, <2>4, <2>6, <2>9
    <3>3. cumul[max' + 2].lo > value
      BY <3>1, <2>3, <2>9 DEF Probed
    <3>4. probes' + max' <= Len(cumul) + min' /\ probes' \in Nat
      BY <3>1, <2>1, <2>3, <2>4, <2>5
    <3>5. SearchTypeOK'
      BY <1>0, <2>1, <3>1, <3>2, <3>4 DEF SearchTypeOK
    <3>6. Searching'
      BY <2>1, <2>5, <3>1, <3>2, <3>3, <3>4 DEF Searching, Closed
    <3>7. FewProbes'
      BY <2>1, <2>4, <3>1, <3>2, <3>4 DEF FewProbes
    <3> QED BY <2>8, <3>1, <3>5, <3>6, <3>7 DEF SearchInv, NeverFails
  <2>10. CASE Probed.lo <= value /\ Probed.hi < value
    <3>1. pc' = "search" /\ max' = max /\ min' = mid + 1
      BY <2>1, <2>4, <2>7, <2>10
    <3>2. min' \in Nat /\ min' <= max' + 1 /\ min' > 0 /\ cumul[min'].hi < value
      BY <3>1, <2>3, <2>4, <2>10 DEF Probed
    <3>3. min' < Len(cumul)
      <4>1. mid + 1 # Len(cumul)
        BY <2>4, <2>5, <2>10 DEF Probed
      <4> QED BY <4>1, <3>1, <2>2, <2>3, <2>4
    <3>4. probes' + max' <= Len(cumul) + min' /\ probes' \in Nat
      BY <3>1, <2>1, <2>3, <2>4, <2>5
    <3>5. SearchTypeOK'
      BY <1>0, <2>1, <3>1, <3>2, <3>4 DEF SearchTypeOK
    <3>6. Searching'
      BY <2>1, <2>5, <3>1, <3>2, <3>3, <3>4 DEF Searching, Closed
    <3>7. FewProbes'
      BY <2>1, <2>4, <3>1, <3>2, <3>4 DEF FewProbes
    <3> QED BY <2>8, <3>1, <3>5, <3>6, <3>7 DEF SearchInv, NeverFails
  <2>11. CASE Probed.lo <= value /\ Probed.hi >= value
    <3>1. pc' = "found" /\ max' = max /\ min' = min
      BY <2>1, <2>4, <2>7, <2>11
    <3>2. SearchTypeOK'
      BY <1>0, <2>1, <3>1 DEF SearchTypeOK
    <3>3. Searching'
      BY <2>1, <2>5, <3>1 DEF Searching, Closed
    <3>4. FewProbes'
      BY <2>1, <2>2, <2>4, <2>5, <3>1 DEF FewProbes
    <3> QED BY <2>8, <3>1, <3>2, <3>3, <3>4 DEF SearchInv, NeverFails
  <2> QED BY <2>4, <2>9, <2>10, <2>11
<1>5. CASE UNCHANGED searchVars
  <2>1. /\ UNCHANGED <<pc, dist, maxTiming, done, cumul, newSum, lastTiming>>
        /\ UNCHANGED <<value, min, max, probes>>
    BY <1>5 DEF searchVars
  <2> QED BY <2>1 DEF SearchInv, SearchTypeOK, IsMaxTiming, Contiguous, Building, Searching, NeverFails,
                     FewProbes, Closed
<1> QED BY <1>1, <1>2, <1>3, <1>4, <1>5 DEF SearchNext

-----------------------------------------------------------------------------
(* The weights.                                                            *)

LEMMA DistIsSample ==
  ASSUME SearchTypeOK
  PROVE  IsSample(dist) /\ \A S \in SUBSET DOMAIN dist : IsFiniteSet(S)
<1>1. IsFiniteSet(Timing) /\ Timing \subseteq Nat
  BY SearchAssumption
<1>2. DOMAIN dist \subseteq Timing /\ \A t \in DOMAIN dist : dist[t] \in Nat
  BY DEF SearchTypeOK
<1>3. \A S \in SUBSET DOMAIN dist : IsFiniteSet(S)
  BY <1>1, <1>2, FS_Subset
<1> QED
  BY <1>1, <1>2, <1>3 DEF IsSample

LEMMA WeighedInitially == SearchInit => Weighed
  BY SumEmpty DEF SearchInit, Weighed, Closed

LEMMA WeighedPreserved == SearchInv /\ Weighed /\ [SearchNext]_searchVars => Weighed'
<1> SUFFICES ASSUME SearchInv, Weighed, [SearchNext]_searchVars PROVE Weighed'
  OBVIOUS
<1> USE DEF Closed
<1>0. /\ SearchTypeOK /\ Building /\ newSum = SumFunctionOnSet(dist, done)
      /\ \A i \in 1 .. (IF Closed THEN Len(cumul) - 1 ELSE Len(cumul)) :
           /\ cumul[i].below = SumFunctionOnSet(dist, {t \in DOMAIN dist : t < cumul[i].lo})
           /\ \A t \in DOMAIN dist : t < cumul[i].lo \/ cumul[i].hi <= t
  BY DEF SearchInv, Weighed
<1>1. ASSUME NEW k \in DOMAIN dist \ done, PushRange(k) PROVE Weighed'
  <2>1. /\ pc = "build" /\ pc' = "build" /\ dist' = dist
        /\ \A u \in DOMAIN dist \ done : k <= u
        /\ cumul' = Append(cumul, [lo |-> lastTiming, hi |-> k, below |-> newSum])
        /\ newSum' = newSum + dist[k] /\ done' = done \cup {k}
    BY <1>1 DEF PushRange, mapVars
  <2>2. /\ Len(cumul') = Len(cumul) + 1 /\ Len(cumul) \in Nat
        /\ \A i \in 1 .. Len(cumul) : cumul'[i] = cumul[i]
        /\ cumul'[Len(cumul) + 1] = [lo |-> lastTiming, hi |-> k, below |-> newSum]
    BY <1>0, <2>1 DEF SearchTypeOK
  <2>3. done \subseteq DOMAIN dist /\ \A t \in DOMAIN dist : t \in Nat /\ dist[t] \in Nat
    BY <1>0, SearchAssumption DEF SearchTypeOK
  <2>4. newSum' = SumFunctionOnSet(dist', done')
    <3>1. IsFiniteSet(done) /\ \A t \in done \cup {k} : dist[t] \in Nat
      BY <1>0, <2>3, DistIsSample
    <3>2. SumFunctionOnSet(dist, done \cup {k}) = dist[k] + SumFunctionOnSet(dist, done)
      BY <3>1, SumAdd
    <3>3. SumFunctionOnSet(dist, done) \in Nat
      BY <3>1, SumNat
    <3> QED
      BY <1>0, <2>1, <2>3, <3>2, <3>3
  <2>5. done = {t \in DOMAIN dist : t < lastTiming}
    <3>1. /\ lastTiming \in Nat /\ \A t \in done : t < lastTiming
          /\ \A t \in DOMAIN dist \ done : t >= lastTiming
      BY <1>0, <2>1 DEF Building, SearchTypeOK
    <3> QED
      BY <2>3, <3>1
  <2>6. \A t \in DOMAIN dist : t < lastTiming \/ k <= t
    BY <2>1, <2>5
  <2>7. ASSUME NEW i \in 1 .. Len(cumul')
        PROVE  /\ cumul'[i].below = SumFunctionOnSet(dist, {t \in DOMAIN dist : t < cumul'[i].lo})
               /\ \A t \in DOMAIN dist : t < cumul'[i].lo \/ cumul'[i].hi <= t
    <3>1. CASE i = Len(cumul) + 1
      <4>1. /\ cumul'[i].lo = lastTiming /\ cumul'[i].hi = k /\ cumul'[i].below = newSum
        BY <2>2, <3>1
      <4>2. newSum = SumFunctionOnSet(dist, {t \in DOMAIN dist : t < lastTiming})
        BY <1>0, <2>5
      <4> QED
        BY <2>6, <4>1, <4>2
    <3>2. CASE i # Len(cumul) + 1
      <4>1. i \in 1 .. Len(cumul)
        BY <2>2, <3>2
      <4>2. cumul'[i] = cumul[i]
        BY <2>2, <4>1
      <4> QED
        BY <1>0, <2>1, <4>1, <4>2
    <3> QED
      BY <3>1, <3>2
  <2> QED
    BY <2>1, <2>4, <2>7 DEF Weighed
<1>2. CASE PushLast
  <2>1. /\ pc = "build" /\ pc' = "idle" /\ UNCHANGED <<dist, newSum, done>>
        /\ cumul' = Append(cumul, [lo |-> maxTiming, hi |-> maxTiming, below |-> newSum])
    BY <1>2 DEF PushLast, mapVars
  <2>2. /\ Len(cumul') = Len(cumul) + 1 /\ Len(cumul) \in Nat
        /\ \A i \in 1 .. Len(cumul) : cumul'[i] = cumul[i]
    BY <1>0, <2>1 DEF SearchTypeOK
  <2>3. ASSUME NEW i \in 1 .. Len(cumul') - 1
        PROVE  /\ cumul'[i].below = SumFunctionOnSet(dist, {t \in DOMAIN dist : t < cumul'[i].lo})
               /\ \A t \in DOMAIN dist : t < cumul'[i].lo \/ cumul'[i].hi <= t
    <3>1. i \in 1 .. Len(cumul) /\ cumul'[i] = cumul[i]
      BY <2>2
    <3> QED
      BY <1>0, <2>1, <3>1
  <2> QED
    BY <1>0, <2>1, <2>3 DEF Weighed
<1>3. ASSUME NEW v \in Timing, Find(v) PROVE Weighed'
  <2>1. Closed /\ Closed' /\ UNCHANGED <<dist, done, cumul, newSum>>
    BY <1>3 DEF Find, mapVars, loopVars
  <2> QED
    BY <2>1 DEF Weighed
<1>4. CASE Probe
  <2>1. Closed /\ Closed' /\ UNCHANGED <<dist, done, cumul, newSum>>
    BY <1>4 DEF Probe, Outcome, mapVars, loopVars
  <2> QED
    BY <2>1 DEF Weighed
<1>5. CASE UNCHANGED searchVars
  BY <1>5 DEF searchVars, Weighed
<1> QED
  BY <1>1, <1>2, <1>3, <1>4, <1>5 DEF SearchNext

(* computeMaxTiming has found the largest key.                             *)
LEMMA LongestIs ==
  ASSUME SearchTypeOK, IsMaxTiming(maxTiming), maxTiming > 0
  PROVE  MaxTiming(dist) = maxTiming
<1>1. IsSample(dist) /\ DOMAIN dist \subseteq Nat
  BY DistIsSample DEF IsSample
<1>2. maxTiming \in DOMAIN dist /\ \A t \in DOMAIN dist : t <= maxTiming
  BY DEF IsMaxTiming
<1>3. /\ MaxTiming(dist) \in {0} \cup DOMAIN dist
      /\ MaxTiming(dist) \in Nat
      /\ \A t \in DOMAIN dist : t <= MaxTiming(dist)
  BY <1>1, MaxOfKeys DEF MaxTiming
<1> QED
  BY <1>1, <1>2, <1>3

(* The range a search ends in has no key below the value but those below   *)
(* the range.                                                              *)
LEMMA FoundPreserved == SearchInv /\ Weighed /\ FindsCurve /\ [SearchNext]_searchVars => FindsCurve'
<1> SUFFICES ASSUME SearchInv, Weighed, FindsCurve, [SearchNext]_searchVars, pc' = "found"
             PROVE  Probed'.below = Curve(dist', value')
  BY DEF FindsCurve
<1>1. CASE Probe
  <2>1. /\ pc = "search" /\ Outcome = "found" /\ max' = max /\ min' = min
        /\ UNCHANGED <<dist, cumul, value>>
    BY <1>1 DEF Probe, mapVars, loopVars
  <2>2. Probed' = Probed
    BY <2>1 DEF Probed, mid
  <2>3. min <= max /\ mid < Len(cumul)
    BY <2>1, SearchAlive
  <2>4. SearchTypeOK /\ Len(cumul) \in Nat /\ mid \in Nat
    BY <2>3, MidBetween DEF SearchInv, SearchTypeOK
  <2>5. ~(Probed.lo > value) /\ ~(Probed.hi < value)
    BY <2>1 DEF Outcome
  <2>6. /\ value < maxTiming /\ cumul[Len(cumul)].lo = maxTiming
        /\ IsMaxTiming(maxTiming)
    BY <2>1 DEF SearchInv, Searching, Closed
  <2>7. /\ Probed \in [lo : Nat, hi : Nat, below : Nat] /\ value \in Nat /\ maxTiming \in Nat
        /\ DOMAIN dist \subseteq Nat
    <3>1. mid + 1 \in 1 .. Len(cumul) /\ cumul \in Seq([lo : Nat, hi : Nat, below : Nat])
      BY <2>3, <2>4 DEF SearchTypeOK
    <3>2. Probed \in [lo : Nat, hi : Nat, below : Nat]
      BY <3>1, Element DEF Probed
    <3>3. DOMAIN dist \subseteq Nat
      BY <2>4, DistIsSample DEF IsSample
    <3> QED
      BY <2>4, <3>2, <3>3 DEF SearchTypeOK
  <2>8. mid + 1 \in 1 .. Len(cumul) - 1
    <3>1. mid + 1 # Len(cumul)
      BY <2>5, <2>6, <2>7 DEF Probed
    <3> QED
      BY <2>3, <2>4, <3>1
  <2>9. /\ Probed.below = SumFunctionOnSet(dist, {t \in DOMAIN dist : t < Probed.lo})
        /\ \A t \in DOMAIN dist : t < Probed.lo \/ Probed.hi <= t
    BY <2>1, <2>8 DEF Weighed, Closed, Probed
  <2>10. {t \in DOMAIN dist : t < Probed.lo} = {t \in DOMAIN dist : t < value}
    <3>1. Probed.lo \in Nat /\ Probed.hi \in Nat /\ Probed.lo <= value /\ value <= Probed.hi
      BY <2>5, <2>7
    <3>2. ASSUME NEW t \in DOMAIN dist PROVE t < Probed.lo <=> t < value
      BY <2>7, <2>9, <3>1
    <3> QED
      BY <3>2
  <2>11. MaxTiming(dist) = maxTiming
    BY <2>4, <2>6, <2>7, LongestIs
  <2>12. Curve(dist, value) = SumFunctionOnSet(dist, {t \in DOMAIN dist : t < value})
    BY <2>6, <2>7, <2>11 DEF Curve
  <2> QED
    BY <2>1, <2>2, <2>9, <2>10, <2>12
<1>2. ASSUME NEW v \in Timing, Find(v) PROVE FALSE
  BY <1>2 DEF Find
<1>3. ASSUME NEW k \in DOMAIN dist \ done, PushRange(k) PROVE FALSE
  BY <1>3 DEF PushRange
<1>4. CASE PushLast
  BY <1>4 DEF PushLast
<1>5. CASE UNCHANGED searchVars
  <2>1. pc = "found" /\ UNCHANGED <<dist, value, cumul, min, max>>
    BY <1>5 DEF searchVars
  <2>2. Probed' = Probed
    BY <2>1 DEF Probed, mid
  <2> QED
    BY <2>1, <2>2 DEF FindsCurve
<1> QED
  BY <1>1, <1>2, <1>3, <1>4, <1>5 DEF SearchNext

(* The invariant of the construction and of the search.                    *)
THEOREM SearchInvariance == SearchSpec => []SearchInv
  BY SearchInitialised, SearchPreserved, PTL DEF SearchSpec

(* findValueInCumul never reads outside the vector, its max never wraps,   *)
(* and it never reaches assert(false), for any map.                        *)
THEOREM SearchIsSafe == SearchSpec => []NeverFails
<1>1. SearchInv => NeverFails
  BY DEF SearchInv
<1> QED BY <1>1, SearchInvariance, PTL

(* What runTest puts in the ranges: below each of them lie the elements of *)
(* the keys that the loop had summed when it pushed it, and no others.     *)
THEOREM RangesAreWeighed == SearchSpec => []Weighed
  BY WeighedInitially, WeighedPreserved, SearchInvariance, PTL DEF SearchSpec

(* What findValueInCumul finds is the cumulative distribution, as the      *)
(* statistic of InterdepartStatistic defines it, at the value asked for.   *)
THEOREM SearchFindsCurve == SearchSpec => []FindsCurve
<1>1. SearchInit => FindsCurve
  BY DEF SearchInit, FindsCurve
<1> QED
  BY <1>1, FoundPreserved, SearchInvariance, RangesAreWeighed, PTL DEF SearchSpec

(* It probes at most once more than there are ranges.                      *)
THEOREM SearchIsShort == SearchSpec => []FewProbes
<1>1. SearchInv => FewProbes
  BY DEF SearchInv
<1> QED BY <1>1, SearchInvariance, PTL
=============================================================================
