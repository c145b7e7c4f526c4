----------------------------- MODULE CumulSearch -----------------------------
(* How InterdepartTimeTestHandler::runTest looks up a cumulative           *)
(* distribution: it cuts the times from 0 to the largest into ranges, one  *)
(* for each key of the map, and findValueInCumul searches them by halving. *)
(*                                                                         *)
(* The weights are counts, not fractions of the number of elements.        *)
EXTENDS InterdepartStatistic, Sequences

CONSTANTS
  Timing,   \* the times that are keys of the map, and those looked up
  KeyCount  \* the counts of a key

ASSUME SearchAssumption ==
  /\ Timing \subseteq Nat
  /\ IsFiniteSet(Timing)
  /\ KeyCount \subseteq Nat \ {0}

VARIABLES
  pc,          \* "build", "idle", "search" or "found"; "out" of the vector,
               \* or "assert" where the search has given up
  dist,        \* the map
  maxTiming,   \* computeMaxTiming
  done,        \* the keys the loop has been at
  cumul,       \* the ranges: their ends and what is below them
  newSum,
  lastTiming,
  value,       \* findValueInCumul: argument and local variables
  min,
  max,
  probes       \* history: how often the loop of the search has been entered

searchVars == <<pc, dist, maxTiming, done, cumul, newSum, lastTiming, value, min, max, probes>>
mapVars == <<dist, maxTiming>>
loopVars == <<done, cumul, newSum, lastTiming>>

Span(lo, hi, below) == [lo |-> lo, hi |-> hi, below |-> below]

SearchTypeOK ==
  /\ pc \in {"build", "idle", "search", "found", "out", "assert"}
  /\ DOMAIN dist \subseteq Timing
  /\ \A t \in DOMAIN dist : dist[t] \in Nat \ {0}
  /\ maxTiming \in Nat
  /\ done \subseteq DOMAIN dist
  /\ cumul \in Seq([lo : Nat, hi : Nat, below : Nat])
  /\ newSum \in Nat
  /\ lastTiming \in Nat
  /\ value \in Nat
  /\ min \in Nat
  /\ max \in Nat
  /\ probes \in Nat

(* The largest key, or 0 when there is none.                               *)
IsMaxTiming(m) ==
  IF DOMAIN dist = {} THEN m = 0 ELSE m \in DOMAIN dist /\ \A t \in DOMAIN dist : t <= m

SearchInit ==
  /\ pc = "build"
  /\ dist \in UNION {[times -> KeyCount] : times \in SUBSET Timing}
  /\ maxTiming \in Timing \cup {0}
  /\ IsMaxTiming(maxTiming)
  /\ done = {}
  /\ cumul = <<>>
  /\ newSum = 0
  /\ lastTiming = 0
  /\ value = 0
  /\ min = 0
  /\ max = 0
  /\ probes = 0

-----------------------------------------------------------------------------
(* The loop that fills the vector, in the order of the keys.               *)

Following_Touching(t) == t
Following(t) == t + 1

PushRange(t) ==
  /\ pc = "build"
  /\ \A u \in DOMAIN dist \ done : t <= u
  /\ cumul' = Append(cumul, Span(lastTiming, t, newSum))
  /\ newSum' = newSum + dist[t]
  /\ lastTiming' = Following(t)
  /\ done' = done \cup {t}
  /\ UNCHANGED <<pc, mapVars, value, min, max, probes>>

PushLast ==
  /\ pc = "build"
  /\ done = DOMAIN dist
  /\ cumul' = Append(cumul, Span(maxTiming, maxTiming, newSum))
  /\ pc' = "idle"
  /\ UNCHANGED <<mapVars, done, newSum, lastTiming, value, min, max, probes>>

-----------------------------------------------------------------------------
(* findValueInCumul.  The caller knows the answer from maxTiming on.       *)

Asked_Any(v) == TRUE
Asked(v) == v < maxTiming

Find(v) ==
  /\ pc \in {"idle", "found"}
  /\ Asked(v)
  /\ pc' = "search"
  /\ value' = v
  /\ min' = 0
  /\ max' = Len(cumul)
  /\ probes' = 0
  /\ UNCHANGED <<mapVars, loopVars>>

mid == min + (max - min) \div 2
Probed == cumul[mid + 1]

(* Where a probe leads.  With mid = 0 the unsigned max would become the    *)
(* largest word, and the next mid would be far outside.                    *)
Outcome ==
  IF max < min THEN "assert"
  ELSE IF mid >= Len(cumul) THEN "out"
  ELSE IF Probed.lo > value THEN (IF mid = 0 THEN "out" ELSE "search")
  ELSE IF Probed.hi < value THEN "search"
  ELSE "found"

Above == mid + 1

Probe ==
  /\ pc = "search"
  /\ pc' = Outcome
  /\ probes' = probes + 1
  /\ max' = IF Outcome = "search" /\ Probed.lo > value THEN mid - 1 ELSE max
  /\ min' = IF Outcome = "search" /\ Probed.lo <= value THEN Above ELSE min
  /\ UNCHANGED <<mapVars, loopVars, value>>

SearchNext ==
  \/ \E t \in DOMAIN dist \ done : PushRange(t)
  \/ PushLast
  \/ \E v \in Timing : Find(v)
  \/ Probe

SearchSpec == SearchInit /\ [][SearchNext]_searchVars
FairSearchSpec == SearchSpec /\ WF_searchVars(Probe)

-----------------------------------------------------------------------------
(* Properties.                                                             *)

(* No search reads outside the vector or reaches assert(false).            *)
NeverFails == pc \notin {"out", "assert"}

(* What is found is the weight of everything below the value.              *)
FindsCurve == pc = "found" => Probed.below = Curve(dist, value)

(* Every probe that does not end the search leaves fewer ranges: it takes  *)
(* at most one probe more than there are ranges.                           *)
FewProbes == pc \in {"search", "found"} => probes <= Len(cumul) + 1

(* A search that is scheduled ends, and with an answer.                    *)
SearchEnds == pc = "search" ~> pc = "found"

(* The ranges follow each other without a gap; the last one repeats the    *)
(* end of the one before it.                                               *)
Closed == pc # "build"
Contiguous ==
  /\ cumul # <<>> => cumul[1].lo = 0
  /\ \A i \in 1 .. Len(cumul) - 1 :
       cumul[i + 1].lo = IF Closed /\ i + 1 = Len(cumul) THEN cumul[i].hi ELSE cumul[i].hi + 1

(* The inductive invariant: the ranges, and what a search has excluded.    *)
Building ==
  pc = "build" =>
    /\ \A t \in done : t < lastTiming
    /\ \A t \in DOMAIN dist \ done : t >= lastTiming
    /\ IF done = {} THEN cumul = <<>> /\ lastTiming = 0
                    ELSE /\ cumul # <<>>
                         /\ lastTiming = cumul[Len(cumul)].hi + 1
                         /\ cumul[Len(cumul)].hi \in done

Searching ==
  /\ Closed => /\ cumul # <<>>
               /\ cumul[Len(cumul)].lo = maxTiming
               /\ cumul[Len(cumul)].hi = maxTiming
  /\ pc = "search" =>
       /\ value < maxTiming
       /\ min <= max + 1
       /\ probes + max <= Len(cumul) + min
       /\ max <= Len(cumul)
       /\ min < Len(cumul)
       /\ min > 0 => cumul[min].hi < value
       /\ max < Len(cumul) => max + 1 < Len(cumul) /\ cumul[max + 2].lo > value

(* Every range carries the weight of the keys below it, and no key is in it*)
(* before its end; of the last one, which repeats an end, only the search  *)
(* takes care.                                                             *)
Weighed ==
  /\ newSum = SumFunctionOnSet(dist, done)
  /\ \A i \in 1 .. (IF Closed THEN Len(cumul) - 1 ELSE Len(cumul)) :
       /\ cumul[i].below = SumFunctionOnSet(dist, {t \in DOMAIN dist : t < cumul[i].lo})
       /\ \A t \in DOMAIN dist : t < cumul[i].lo \/ cumul[i].hi <= t

SearchInv ==
  /\ SearchTypeOK
  /\ IsMaxTiming(maxTiming)
  /\ Contiguous
  /\ Building
  /\ Searching
  /\ NeverFails
  /\ FewProbes
=============================================================================
