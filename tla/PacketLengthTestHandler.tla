----------------------- MODULE PacketLengthTestHandler -----------------------
(* The packet length feature: how many packets of each length the model    *)
(* and the tested capture have, and whether the two distributions differ.  *)
(*                                                                         *)
(* A map<uint32_t, uint32_t> is a function from its keys; its counts wrap. *)
(* The statistic dStat_ is kept as the numerator over both sample sizes.   *)
EXTENDS KolmogorovSmirnov

CONSTANTS
  Length,      \* the lengths of packets
  Word,        \* 2^32
  HundredC,    \* 100 cAlpha_, one of setCAlpha's
  MaxPackets   \* bound: packets of all the captures

ASSUME ConstantsAssumption ==
  /\ Length \subseteq Nat \ {0}
  /\ IsFiniteSet(Length)
  /\ Word \in Nat \ {0, 1}
  /\ HundredC \in {122, 123, 136, 148, 163, 173, 195}
  /\ MaxPackets \in Nat

VARIABLES
  file,       \* the PACKET_LENGHT section of model.json
  mode,       \* "idle" between runs, "report" once runTest is done
  captured,   \* initCapture has run
  modelDist,  \* modelDist_, testDist_
  testDist,
  maxModel,   \* maxModelSize_, maxTestSize_
  maxTest,
  dStat,      \* dStat_, as a numerator
  abnormal,   \* getTestResult: "does not match"
  packets,    \* packets so far
  heard,      \* history: how often this run's capture had each length
  learned     \* history: the same for the learning runs that were saved

vars == <<file, mode, captured, modelDist, testDist, maxModel, maxTest, dStat,
          abnormal, packets, heard, learned>>

Counts == UNION {[lengths -> 0 .. Word - 1] : lengths \in SUBSET Length}

TypeOK ==
  /\ file \in Counts
  /\ mode \in {"idle", "learning", "analysis", "report"}
  /\ captured \in BOOLEAN
  /\ modelDist \in Counts
  /\ testDist \in Counts
  /\ maxModel \in Nat
  /\ maxTest \in Nat
  /\ dStat \in Nat
  /\ abnormal \in BOOLEAN
  /\ packets \in 0 .. MaxPackets
  /\ heard \in [Length -> Nat]
  /\ learned \in [Length -> Nat]

Empty == [len \in {} |-> 0]
Nothing == [len \in Length |-> 0]

Init ==
  /\ file = Empty
  /\ mode = "idle"
  /\ captured = FALSE
  /\ modelDist = Empty
  /\ testDist = Empty
  /\ maxModel = 0
  /\ maxTest = 0
  /\ dStat = 0
  /\ abnormal = FALSE
  /\ packets = 0
  /\ heard = Nothing
  /\ learned = Nothing

-----------------------------------------------------------------------------
(* A run of the program, as this handler sees it.                          *)

(* operator[]: a key that is not there counts 0.                           *)
At(dist, len) == IF len \in DOMAIN dist THEN dist[len] ELSE 0

Increment(dist, len) ==
  [l \in DOMAIN dist \cup {len} |->
     IF l = len THEN (At(dist, len) + 1) % Word ELSE dist[l]]

(* The constructor, and JsonToData on an empty map.                        *)
StartRun(type) ==
  /\ mode = "idle"
  /\ mode' = type
  /\ captured' = FALSE
  /\ modelDist' = file
  /\ testDist' = Empty
  /\ maxModel' = 0
  /\ maxTest' = 0
  /\ dStat' = 0
  /\ abnormal' = FALSE
  /\ heard' = Nothing
  /\ UNCHANGED <<file, packets, learned>>

ComputePacket(len) ==
  /\ ~captured
  /\ packets < MaxPackets
  /\ packets' = packets + 1
  /\ \/ /\ mode = "learning"
        /\ modelDist' = Increment(modelDist, len)
        /\ UNCHANGED testDist
     \/ /\ mode = "analysis"
        /\ testDist' = Increment(testDist, len)
        /\ UNCHANGED modelDist
  /\ heard' = [heard EXCEPT ![len] = @ + 1]
  /\ UNCHANGED <<file, mode, captured, maxModel, maxTest, dStat, abnormal, learned>>

(* computeModelMaxValue, computeTestMaxValue.                              *)
MaxValue(dist) == Max({0} \cup DOMAIN dist)

InitCapture ==
  /\ mode \in {"learning", "analysis"}
  /\ ~captured
  /\ captured' = TRUE
  /\ maxModel' = MaxValue(modelDist)
  /\ maxTest' = MaxValue(testDist)
  /\ UNCHANGED <<file, mode, modelDist, testDist, dStat, abnormal, packets, heard, learned>>

DataToJson_Capture == RestrictDomain(modelDist, LAMBDA len : heard[len] > 0)
DataToJson == modelDist

SaveDataToModel ==
  /\ mode = "learning"
  /\ captured
  /\ mode' = "idle"
  /\ file' = DataToJson
  /\ learned' = [len \in Length |-> learned[len] + heard[len]]
  /\ UNCHANGED <<captured, modelDist, testDist, maxModel, maxTest, dStat, abnormal,
                 packets, heard>>

-----------------------------------------------------------------------------
(* runTest.                                                                *)

(* getModelSampleSize, getTestSampleSize: the sum is a uint32_t.           *)
SampleSize(dist) == SumFunction(dist) % Word

(* The loops that fill modelCumulDist_ and testCumulDist_.                 *)
CumulDist(dist, max) ==
  LET cumul[i \in 0 .. max] == At(dist, i) + (IF i = 0 THEN 0 ELSE cumul[i - 1])
  IN  cumul

(* modelValue and testValue at i, with 1 from the largest length on.       *)
Curve_BeforeMax(dist, max) ==
  [i \in Nat |-> IF i + 1 >= max THEN SampleSize(dist) ELSE CumulDist(dist, max)[i]]
Curve(dist, max) ==
  [i \in Nat |-> IF i >= max THEN SampleSize(dist) ELSE CumulDist(dist, max)[i]]

LastValue == IF maxModel > maxTest THEN maxModel ELSE maxTest

DStat ==
  Max({Distance(Curve(modelDist, maxModel)[i] * SampleSize(testDist),
                Curve(testDist, maxTest)[i] * SampleSize(modelDist)) : i \in 0 .. LastValue})

(* An empty sample makes seuil_ infinite or not a number: dStat_ never is  *)
(* greater.                                                                *)
Abnormal_EmptyToo ==
  \/ SampleSize(testDist) = 0
  \/ Exceeds(DStat, SampleSize(modelDist), SampleSize(testDist), HundredC)
Abnormal ==
  /\ SampleSize(modelDist) > 0
  /\ SampleSize(testDist) > 0
  /\ Exceeds(DStat, SampleSize(modelDist), SampleSize(testDist), HundredC)

(* The lookups of the loops add keys that count 0 and erase them again.    *)
WithoutZeros(dist) == RestrictValues(dist, LAMBDA count : count > 0)

RunTest ==
  /\ mode = "analysis"
  /\ captured
  /\ mode' = "report"
  /\ dStat' = DStat
  /\ abnormal' = Abnormal
  /\ modelDist' = WithoutZeros(modelDist)
  /\ testDist' = WithoutZeros(testDist)
  /\ UNCHANGED <<file, captured, maxModel, maxTest, packets, heard, learned>>

(* The run ends: after the report, or before it has saved or tested.       *)
End ==
  /\ mode # "idle"
  /\ mode' = "idle"
  /\ UNCHANGED <<file, captured, modelDist, testDist, maxModel, maxTest, dStat, abnormal,
                 packets, heard, learned>>

Next ==
  \/ \E type \in {"learning", "analysis"} : StartRun(type)
  \/ \E len \in Length : ComputePacket(len)
  \/ InitCapture
  \/ SaveDataToModel
  \/ RunTest
  \/ End

Spec == Init /\ [][Next]_vars

-----------------------------------------------------------------------------
(* Properties.                                                             *)

(* dist counts, modulo the word, the packets of sample.                    *)
Tallies(dist, sample) ==
  /\ DOMAIN dist = {len \in Length : sample[len] > 0}
  /\ \A len \in DOMAIN dist : dist[len] = sample[len] % Word

(* The inductive invariant: the file tallies the saved learning runs, and  *)
(* a run's maps tally what it has loaded and what it has heard; once the   *)
(* capture is over the largest lengths are those of the maps.              *)
Inv ==
  /\ file \in Counts
  /\ mode \in {"idle", "learning", "analysis", "report"}
  /\ heard \in [Length -> Nat]
  /\ learned \in [Length -> Nat]
  /\ Tallies(file, learned)
  /\ mode = "learning" =>
       /\ modelDist \in Counts
       /\ Tallies(modelDist, [len \in Length |-> learned[len] + heard[len]])
  /\ mode = "analysis" =>
       /\ modelDist = file
       /\ testDist \in Counts
       /\ Tallies(testDist, heard)
       /\ captured => maxModel = MaxValue(modelDist) /\ maxTest = MaxValue(testDist)

(* The model file tallies the packets of all the learning runs that were   *)
(* saved: a run that ended before that has left nothing.                   *)
FileTallies == Tallies(file, learned)

(* The verdict is the Kolmogorov-Smirnov test of everything that has been  *)
(* learned against everything in the capture, as long as the counts fit.   *)
TestIsExact ==
  /\ mode = "report"
  /\ Size(learned) \in 1 .. Word - 1
  /\ Size(heard) \in 1 .. Word - 1
  => /\ dStat = Statistic(learned, heard)
     /\ abnormal <=> Exceeds(Statistic(learned, heard), Size(learned), Size(heard), HundredC)

(* An analysis without a packet, or of a model without one, reports that   *)
(* the distributions match.                                                *)
EmptyIsNormal ==
  mode = "report" /\ (Size(learned) = 0 \/ Size(heard) = 0) => ~abnormal

(* The traffic the model was learned from is never abnormal, even when the *)
(* counts have wrapped.                                                    *)
LearnedIsNormal ==
  mode = "report" /\ heard = learned => dStat = 0 /\ ~abnormal
=============================================================================
