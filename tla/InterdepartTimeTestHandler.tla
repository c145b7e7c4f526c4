--------------------- MODULE InterdepartTimeTestHandler ---------------------
(* The interdeparture time feature: the times between two packets of a     *)
(* source.  Learning runs add the times of their capture to the model,     *)
(* analysis runs compare those of their capture with it, host by host.     *)
(*                                                                         *)
(* The maps are functions from their keys; the file holds the same maps as *)
(* decimal text.  packetTiming_ is a list for each source that was heard.  *)
EXTENDS InterdepartStatistic, Sequences

CONSTANTS
  Host,        \* the addresses of the sources
  Time,        \* time stamps, in microseconds
  Long,        \* 2^64
  MaxPackets   \* bound: packets of all the captures

ASSUME ConstantsAssumption ==
  /\ Host \subseteq 0 .. Word - 1
  /\ Long \in Nat
  /\ Long >= Word
  /\ Time \subseteq 0 .. Long - 1
  /\ MaxPackets \in 0 .. Word - 1    \* no count wraps

VARIABLES
  file,      \* the INTERDEPARTURE_TIME section of model.json
  mode,      \* "idle" between runs, "report" once runTest is done
  captured,  \* initCapture has run
  timing,    \* packetTiming_
  model,     \* interdepTiming_
  test,      \* testInterdepTiming_
  results,   \* dStats_: the hosts and their verdicts
  packets,   \* packets so far
  learned    \* history: interdeparture times in the saved learning runs

vars == <<file, mode, captured, timing, model, test, results, packets, learned>>

Gap == 0 .. Long - 1
IsTiming(map) ==
  /\ DOMAIN map \subseteq Host
  /\ \A h \in DOMAIN map :
       /\ DOMAIN map[h] \subseteq Gap
       /\ \A g \in DOMAIN map[h] : map[h][g] \in 1 .. MaxPackets

TypeOK ==
  /\ IsTiming(file)
  /\ mode \in {"idle", "learning", "analysis", "report"}
  /\ captured \in BOOLEAN
  /\ timing \in [Host -> Seq(Time)]
  /\ IsTiming(model)
  /\ IsTiming(test)
  /\ \A h \in DOMAIN results :
       results[h].dStat \in Nat /\ results[h].abnormal \in BOOLEAN
  /\ packets \in 0 .. MaxPackets
  /\ learned \in [Host -> Nat]

Empty == [h \in {} |-> 0]

Init ==
  /\ file = Empty
  /\ mode = "idle"
  /\ captured = FALSE
  /\ timing = [h \in Host |-> <<>>]
  /\ model = Empty
  /\ test = Empty
  /\ results = Empty
  /\ packets = 0
  /\ learned = [h \in Host |-> 0]

-----------------------------------------------------------------------------
(* A run of the program, as this handler sees it.                          *)

(* atoi of the address, as an int and then as a uint32_t.                  *)
Address(text) == text % Word
Loaded == [h \in {Address(t) : t \in DOMAIN file} |-> file[h]]

StartRun(type) ==
  /\ mode = "idle"
  /\ mode' = type
  /\ captured' = FALSE
  /\ timing' = [h \in Host |-> <<>>]
  /\ model' = Loaded
  /\ test' = Empty
  /\ results' = Empty
  /\ UNCHANGED <<file, packets, learned>>

ComputePacket(src, ts) ==
  /\ mode \in {"learning", "analysis"}
  /\ ~captured
  /\ packets < MaxPackets
  /\ packets' = packets + 1
  /\ timing' = [timing EXCEPT ![src] = Append(@, ts)]
  /\ UNCHANGED <<file, mode, captured, model, test, results, learned>>

(* Between neighbours of one list, in uint64_t: a stamp that is before its *)
(* predecessor's wraps.                                                    *)
Between_Signed(list, i) == list[i + 1] - list[i]
Between(list, i) == (list[i + 1] - list[i]) % Long
Neighbours(list) == 1 .. Len(list) - 1
Pairs(list) == IF list = <<>> THEN 0 ELSE Len(list) - 1

Count(map, host, gap) ==
  IF host \in DOMAIN map /\ gap \in DOMAIN map[host] THEN map[host][gap] ELSE 0

Occurs(list, gap) == Cardinality({i \in Neighbours(list) : Between(list, i) = gap})

KeysOf(map, host) == IF host \in DOMAIN map THEN DOMAIN map[host] ELSE {}

(* ComputeInterdeparture.                                                  *)
WithTimes_Replaced(map) ==
  [h \in DOMAIN map \cup {s \in Host : Len(timing[s]) > 1} |->
     IF Len(timing[h]) > 1
       THEN [g \in {Between(timing[h], i) : i \in Neighbours(timing[h])} |-> Occurs(timing[h], g)]
       ELSE map[h]]
WithTimes(map) ==
  [h \in DOMAIN map \cup {s \in Host : Len(timing[s]) > 1} |->
     [g \in KeysOf(map, h) \cup {Between(timing[h], i) : i \in Neighbours(timing[h])} |->
        Count(map, h, g) + Occurs(timing[h], g)]]

InitCapture ==
  /\ ~captured
  /\ captured' = TRUE
  /\ \/ /\ mode = "learning"
        /\ model' = WithTimes(model)
        /\ UNCHANGED test
     \/ /\ mode = "analysis"
        /\ test' = WithTimes(test)
        /\ UNCHANGED model
  /\ UNCHANGED <<file, mode, timing, results, packets, learned>>

SaveDataToModel ==
  /\ mode = "learning"
  /\ captured
  /\ mode' = "idle"
  /\ file' = model
  /\ learned' = [h \in Host |-> learned[h] + Pairs(timing[h])]
  /\ UNCHANGED <<captured, timing, model, test, results, packets>>

(* operator[] gives a host that has no time in the test an empty map.      *)
TestOf(host) == IF host \in DOMAIN test THEN test[host] ELSE Empty

RunTest ==
  /\ mode = "analysis"
  /\ captured
  /\ mode' = "report"
  /\ results' = [h \in DOMAIN model |->
                   [dStat |-> DStat(model[h], TestOf(h)),
                    abnormal |-> Abnormal(model[h], TestOf(h))]]
  /\ test' = [h \in DOMAIN test \cup DOMAIN model |-> TestOf(h)]
  /\ UNCHANGED <<file, captured, timing, model, packets, learned>>

(* The run ends: after the report, or before it has saved or tested.       *)
End ==
  /\ mode # "idle"
  /\ mode' = "idle"
  /\ UNCHANGED <<file, captured, timing, model, test, results, packets, learned>>

Next ==
  \/ \E type \in {"learning", "analysis"} : StartRun(type)
  \/ \E src \in Host, ts \in Time : ComputePacket(src, ts)
  \/ InitCapture
  \/ SaveDataToModel
  \/ RunTest
  \/ End

Spec == Init /\ [][Next]_vars

-----------------------------------------------------------------------------
(* Properties.                                                             *)

(* How many times of a host a map has.                                     *)
TimesIn(map, host) == IF host \in DOMAIN map THEN Size(map[host]) ELSE 0

(* The file has as many times of a source as its saved captures have pairs *)
(* of neighbours: none is lost in a later run, and none spans two captures.*)
GapsCounted == \A h \in Host : learned[h] = TimesIn(file, h)

(* The inductive invariant: a run has the file's times and, once a learning*)
(* capture is over, one more for each pair of neighbours; no host of the   *)
(* model is without a time; there are not more times than packets; and a   *)
(* report is that of the two maps.                                         *)
Inv ==
  /\ TypeOK
  /\ GapsCounted
  /\ \A h \in DOMAIN file : DOMAIN file[h] # {}
  /\ \A h \in DOMAIN model : DOMAIN model[h] # {}
  /\ \A h \in Host :
       /\ learned[h] <= packets
       /\ mode \in {"learning", "analysis"} => learned[h] + Len(timing[h]) <= packets
       /\ mode = "learning" =>
            TimesIn(model, h) = learned[h] + (IF captured THEN Pairs(timing[h]) ELSE 0)
  /\ mode = "analysis" /\ ~captured => DOMAIN test = {}
  /\ mode = "report" =>
       \A h \in DOMAIN results :
         /\ h \in DOMAIN model \cap DOMAIN test
         /\ results[h].dStat = DStat(model[h], test[h])
         /\ results[h].abnormal = Abnormal(model[h], test[h])

Reported == IF mode = "report" THEN DOMAIN results ELSE {}
Tested(h) == DOMAIN test[h] # {}

(* The reported value is the Kolmogorov-Smirnov statistic, and the verdict *)
(* the test's.                                                             *)
IsExact(h) ==
  /\ results[h].dStat = Statistic(model[h], test[h])
  /\ results[h].abnormal <=>
       Exceeds(Statistic(model[h], test[h]), Size(model[h]), Size(test[h]), HundredC)

Short(h) == \A g \in DOMAIN model[h] \cup DOMAIN test[h] : g < Word

(* No time is one below the largest of either sample, or the largest of    *)
(* the other one only.                                                     *)
Spaced(h) ==
  LET tops == {MaxTiming(model[h]), MaxTiming(test[h])}
  IN  /\ \A g \in DOMAIN model[h] \cup DOMAIN test[h] : g + 1 \notin tops
      /\ Cardinality(tops) = 1 \/ tops \cap DOMAIN model[h] \cap DOMAIN test[h] = {}

(* The statistic is exact for times that fit a word and keep their distance*)
(* from the largest ones.                                                  *)
SpacedIsExact == \A h \in Reported : Tested(h) /\ Short(h) /\ Spaced(h) => IsExact(h)

(* A host whose times are those of its model is normal, whatever they are: *)
(* out of order, neighbours, or longer than a word.                        *)
SameIsNormal ==
  \A h \in Reported : model[h] = test[h] => results[h].dStat = 0 /\ ~results[h].abnormal

(* A host that had two times or more, not all 0, and has none in the       *)
(* capture is abnormal, whatever the critical value.                       *)
SilentIsAbnormal ==
  \A h \in Reported :
    ~Tested(h) /\ Size(model[h]) > 1 /\ MaxTiming(model[h]) > 0 => results[h].abnormal

(* The report says of its column DStat that it is the largest difference   *)
(* between the cumulative distributions.                                   *)
DStatIsLargest == \A h \in Reported : Tested(h) => IsExact(h)
=============================================================================
