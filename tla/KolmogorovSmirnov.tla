-------------------------- MODULE KolmogorovSmirnov --------------------------
(* The two-sample Kolmogorov-Smirnov test the report describes, by its     *)
(* definition: what the handlers' loops are checked against.  A sample is  *)
(* a function from the values it contains to how often it contains them.   *)
(*                                                                         *)
(* The statistic is a fraction of the two sizes' product, and is kept as   *)
(* its numerator; the roundings of double are left out.                    *)
EXTENDS Integers, FiniteSetsExt, Functions

Size(sample) == SumFunction(sample)

UpTo(sample, value) == SumFunctionOnSet(sample, {v \in DOMAIN sample : v <= value})

Distance(a, b) == IF a >= b THEN a - b ELSE b - a

(* The largest difference of the two cumulative distributions.             *)
Statistic(one, other) ==
  Max({0} \cup {Distance(UpTo(one, v) * Size(other), UpTo(other, v) * Size(one)) :
                  v \in DOMAIN one \cup DOMAIN other})

(* s / (m n) > c sqrt((m + n) / (m n)), where c has two decimals.          *)
Exceeds(s, m, n, hundredC) == s * s * 10000 > hundredC * hundredC * (m + n) * m * n
=============================================================================
