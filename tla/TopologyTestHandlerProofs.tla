---------------------- MODULE TopologyTestHandlerProofs ----------------------
(* The theorems about TopologyTestHandler, for every word and long size    *)
(* and every set of hosts.                                                 *)
EXTENDS TopologyTestHandler, TLAPS

(* atoi keeps the words whose high bit is clear and makes of every other   *)
(* key that reaches the file a key no packet has.                          *)
LEMMA AtoiIs ==
  ASSUME NEW n \in Key, n < Word \/ n >= Long - HalfWord
  PROVE  /\ Atoi(n) \in Key
         /\ n < HalfWord => Atoi(n) = n
         /\ n >= HalfWord => Atoi(n) >= Word /\ Atoi(n) >= Long - HalfWord
<1> USE WidthsAssumption DEF Word, Long, Key
<1>1. CASE n < Word
  <2>1. LowWord(n) = n
    <3>1. n % Word = n
      BY <1>1
    <3> QED
      BY <1>1, <3>1 DEF LowWord
  <2> QED
    BY <1>1, <2>1 DEF Atoi, SignExtend
<1>2. CASE n >= Long - HalfWord
  <2>1. n >= HalfLong
    BY <1>2
  <2>2. LowWord(n) = Word - 1
    BY <2>1 DEF LowWord
  <2> QED
    BY <1>2, <2>1, <2>2 DEF Atoi, SignExtend
<1> QED
  BY <1>1, <1>2

LEMMA HostsAreKeys ==
  /\ Host \subseteq Key /\ Interaction \subseteq Key \X Address
  /\ \A p \in Interaction : p[1] < Word
<1>1. Address \subseteq Key /\ Host \subseteq Address
  BY WidthsAssumption DEF Address, Key, Word, Long
<1>2. \A a \in Host : a < Word
  BY <1>1, WidthsAssumption DEF Address, Word
<1> QED
  BY <1>1, <1>2 DEF Interaction

LEMMA InitInv == Init => Inv
<1> SUFFICES ASSUME Init PROVE Inv
  OBVIOUS
<1>1. TypeOK
  BY WidthsAssumption DEF Init, TypeOK
<1>2. KeyShape /\ FileInv /\ ModelInv /\ ReportInv
  BY DEF Init, KeyShape, FileInv, LowIsRemembered, ModelInv, ReportInv
<1> QED
  BY <1>1, <1>2 DEF Inv

LEMMA LoadedIs ==
  ASSUME TypeOK, KeyShape, FileInv
  PROVE  /\ Loaded \subseteq Key \X Address
         /\ \A p \in Loaded : p[1] < Word \/ p[1] >= Long - HalfWord
         /\ \A p \in Loaded : p[1] < Word => p \in learned /\ Low(p)
         /\ \A p \in learned : Low(p) => p \in Loaded
<1> USE WidthsAssumption
<1>1. ASSUME NEW q \in file
      PROVE  /\ <<Atoi(q[1]), q[2]>> \in Key \X Address
             /\ Atoi(q[1]) < Word => q[1] < HalfWord /\ <<Atoi(q[1]), q[2]>> = q
             /\ q[1] < HalfWord => <<Atoi(q[1]), q[2]>> = q
             /\ Atoi(q[1]) < Word \/ Atoi(q[1]) >= Long - HalfWord
  <2>1. q[1] \in Key /\ q[2] \in Address /\ q = <<q[1], q[2]>>
    BY DEF TypeOK
  <2>2. q[1] < Word \/ q[1] >= Long - HalfWord
    BY DEF KeyShape
  <2>3. /\ Atoi(q[1]) \in Key
        /\ q[1] < HalfWord => Atoi(q[1]) = q[1]
        /\ q[1] >= HalfWord => Atoi(q[1]) >= Word /\ Atoi(q[1]) >= Long - HalfWord
    BY <2>1, <2>2, AtoiIs
  <2>4. q[1] < HalfWord \/ q[1] >= HalfWord
    BY <2>1 DEF Key, Long
  <2> QED
    BY <2>1, <2>3, <2>4 DEF Key, Word, Long
<1>2. \A p \in Loaded : \E q \in file : p = <<Atoi(q[1]), q[2]>>
  BY DEF Loaded
<1>3. Loaded \subseteq Key \X Address
  BY <1>1, <1>2
<1>4. \A p \in Loaded : p[1] < Word \/ p[1] >= Long - HalfWord
  BY <1>1, <1>2
<1>5. ASSUME NEW p \in Loaded, p[1] < Word PROVE p \in learned /\ Low(p)
  <2>1. PICK q \in file : p = <<Atoi(q[1]), q[2]>>
    BY <1>2
  <2>2. p = q /\ q[1] < HalfWord
    BY <1>1, <1>5, <2>1
  <2>3. q[1] < Word
    BY <1>5, <2>2
  <2> QED
    BY <2>2, <2>3 DEF FileInv, Low
<1>6. ASSUME NEW p \in learned, Low(p) PROVE p \in Loaded
  <2>1. p \in file
    BY <1>6 DEF FileInv, LowIsRemembered
  <2>2. <<Atoi(p[1]), p[2]>> = p
    BY <1>1, <1>6, <2>1 DEF Low
  <2> QED
    BY <2>1, <2>2 DEF Loaded
<1> QED
  BY <1>3, <1>4, <1>5, <1>6

LEMMA NextInv == Inv /\ [Next]_vars => Inv'
<1> SUFFICES ASSUME Inv, [Next]_vars PROVE Inv'
  OBVIOUS
<1> USE DEF Inv
<1>1. ASSUME NEW type \in {"learning", "analysis"}, StartRun(type) PROVE Inv'
  <2>1. TypeOK'
    BY <1>1, LoadedIs DEF StartRun, TypeOK
  <2>2. KeyShape'
    BY <1>1, LoadedIs DEF StartRun, KeyShape
  <2>3. FileInv'
    BY <1>1 DEF StartRun, FileInv, LowIsRemembered
  <2>4. ModelInv'
    <3>1. \A p \in Loaded : Low(p) \/ p[1] >= Word
      BY LoadedIs, WidthsAssumption DEF Key, Word, Long, TypeOK
    <3> QED
      BY <1>1, <3>1, LoadedIs DEF StartRun, ModelInv
  <2>5. ReportInv'
    BY <1>1 DEF StartRun, ReportInv
  <2> QED
    BY <2>1, <2>2, <2>3, <2>4, <2>5
<1>2. ASSUME NEW src \in Host, NEW dst \in Host, ComputePacket(src, dst) PROVE Inv'
  <2>0. <<src, dst>> \in Interaction /\ <<src, dst>> \in Key \X Address
        /\ <<src, dst>>[1] < Word
    BY HostsAreKeys DEF Interaction
  <2>1. TypeOK'
    BY <1>2, <2>0, WidthsAssumption DEF ComputePacket, TypeOK
  <2>2. KeyShape'
    BY <1>2, <2>0 DEF ComputePacket, KeyShape
  <2>3. FileInv'
    BY <1>2 DEF ComputePacket, FileInv, LowIsRemembered
  <2>4. ModelInv'
    BY <1>2 DEF ComputePacket, ModelInv
  <2>5. ReportInv'
    BY <1>2 DEF ComputePacket, ReportInv
  <2> QED
    BY <2>1, <2>2, <2>3, <2>4, <2>5
<1>3. CASE SaveDataToModel
  <2>1. TypeOK'
    BY <1>3 DEF SaveDataToModel, DataToJson, TypeOK
  <2>2. KeyShape'
    BY <1>3 DEF SaveDataToModel, DataToJson, KeyShape
  <2>3. FileInv'
    BY <1>3 DEF SaveDataToModel, DataToJson, FileInv, ModelInv, LowIsRemembered
  <2> QED
    BY <1>3, <2>1, <2>2, <2>3 DEF SaveDataToModel, ModelInv, ReportInv
<1>4. CASE RunTest
  <2>1. TypeOK'
    BY <1>4 DEF RunTest, TypeOK
  <2>2. KeyShape' /\ FileInv'
    BY <1>4 DEF RunTest, KeyShape, FileInv, LowIsRemembered
  <2>3. ModelInv' /\ ReportInv'
    BY <1>4 DEF RunTest, ModelInv, ReportInv
  <2> QED
    BY <2>1, <2>2, <2>3
<1>5. CASE End
  BY <1>5 DEF End, TypeOK, KeyShape, FileInv, LowIsRemembered, ModelInv, ReportInv
<1>6. CASE UNCHANGED vars
  BY <1>6 DEF vars, TypeOK, KeyShape, FileInv, LowIsRemembered, ModelInv, ReportInv
<1> QED
  BY <1>1, <1>2, <1>3, <1>4, <1>5, <1>6 DEF Next

(* What the file, the model and the report of the topology handler owe to  *)
(* the interactions it has learned, over any sequence of runs.             *)
THEOREM Invariance == Spec => []Inv
  BY InitInv, NextInv, PTL DEF Spec

(* Every variable always has its type.                                     *)
THEOREM TypeCorrect == Spec => []TypeOK
<1>1. Inv => TypeOK
  BY DEF Inv
<1> QED
  BY <1>1, Invariance, PTL

(* Whatever the round trips of the sources through decimal text and atoi   *)
(* have made of the keys, the report of runTest is the interactions of the *)
(* capture that were not learned and those with a high source.             *)
THEOREM NewOrHighReported == Spec => []NewOrHighIsReported
<1>1. Inv => NewOrHighIsReported
  <2> SUFFICES ASSUME Inv, mode = "report", NEW p \in testTopology
               PROVE  p \in modelTopology <=> p \in learned /\ Low(p)
    BY DEF NewOrHighIsReported, Inv, ReportInv
  <2>1. p[1] < Word /\ p[1] \in Nat /\ heard = {} /\ p \in Interaction
    BY HostsAreKeys, WidthsAssumption DEF Inv, TypeOK, ModelInv, Key, Word, Long
  <2>2. ASSUME p \in modelTopology PROVE p \in learned /\ Low(p)
    BY <2>1, <2>2, WidthsAssumption DEF Inv, ModelInv, Word
  <2>3. ASSUME p \in learned, Low(p) PROVE p \in modelTopology
    BY <2>3 DEF Inv, ModelInv
  <2> QED
    BY <2>2, <2>3
<1> QED
  BY <1>1, Invariance, PTL

(* The file keeps every learned interaction with a low source.             *)
THEOREM LowRemembered == Spec => []LowIsRemembered
<1>1. Inv => LowIsRemembered
  BY DEF Inv, FileInv
<1> QED
  BY <1>1, Invariance, PTL
=============================================================================
