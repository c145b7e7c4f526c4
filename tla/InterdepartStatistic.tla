------------------------- MODULE InterdepartStatistic -------------------------
(* What InterdepartTimeTestHandler::runTest computes for one host, from the*)
(* two maps of that host's interdeparture times to their counts.           *)
EXTENDS KolmogorovSmirnov

CONSTANTS
  Word,       \* 2^32
  HundredC    \* 100 cAlpha

ASSUME StatisticAssumption ==
  /\ Word \in Nat \ {0, 1}
  /\ HundredC \in {122, 123, 136, 148, 163, 173, 195}

(* computeMaxTiming.                                                       *)
MaxTiming(dist) == Max({0} \cup DOMAIN dist)

(* findValueInCumul: the weight of what is below value, and 1 from the     *)
(* largest time on.  An empty sample has 1 everywhere.                     *)
Weight(dist) == IF DOMAIN dist = {} THEN 1 ELSE Size(dist)
Curve(dist, value) ==
  IF value >= MaxTiming(dist)
    THEN Weight(dist)
    ELSE SumFunctionOnSet(dist, {t \in DOMAIN dist : t < value})

(* The lower ends of the cumulative vector's ranges, which the loop tries  *)
(* as a uint32_t.                                                          *)
LowerEnds(dist) == {0, MaxTiming(dist)} \cup {t + 1 : t \in DOMAIN dist \ {MaxTiming(dist)}}
Tried_Model(model, test) == {end % Word : end \in LowerEnds(model)}
Tried(model, test) == {end % Word : end \in LowerEnds(model) \cup LowerEnds(test)}

DStat_Mixed(model, test) ==
  Max({Distance(Curve(model, v) * Weight(test), UpTo(test, v) * Weight(model)) :
         v \in Tried(model, test)})
DStat(model, test) ==
  Max({Distance(Curve(model, v) * Weight(test), Curve(test, v) * Weight(model)) :
         v \in Tried(model, test)})

(* seuil.  Without a test sample nTest is DBL_MAX: times two or more it is *)
(* infinite and the threshold is 0, times one it cancels out and the       *)
(* threshold is cAlpha, which is above 1.                                  *)
Abnormal_NoSpecialCase(model, test) ==
  /\ Size(test) > 0
  /\ Exceeds(DStat(model, test), Size(model), Size(test), HundredC)
Abnormal(model, test) ==
  IF Size(test) = 0
    THEN Size(model) > 1 /\ DStat(model, test) > 0
    ELSE Exceeds(DStat(model, test), Size(model), Size(test), HundredC)
=============================================================================
