------------------------- MODULE TopologyTestHandler -------------------------
(* The topology feature: which source has been seen talking to which       *)
(* destination.  Learning runs add interactions to the model, analysis     *)
(* runs report the interactions the model does not have.                   *)
(*                                                                         *)
(* A map<uint64_t, set<uint64_t>> is the set of its <<source, destination>>*)
(* pairs.  A packet's addresses are 32-bit words (s_addr); the maps hold   *)
(* 64-bit keys, and the file holds their decimal text.  JsonToData reads a *)
(* source back with atoi and a destination with asLargestUInt.             *)
EXTENDS Integers

CONSTANTS
  Host,        \* the addresses on the network
  HalfWord,    \* 2^31
  HalfLong,    \* 2^63
  MaxPackets   \* bound: packets of all the captures

Word == 2 * HalfWord
Long == 2 * HalfLong
Address == 0 .. Word - 1
Key == 0 .. Long - 1
Interaction == Host \X Host

ASSUME WidthsAssumption ==
  /\ HalfWord \in Nat \ {0}
  /\ HalfLong \in Nat
  /\ HalfLong >= Word
  /\ (HalfLong - 1) % Word = Word - 1     \* LONG_MAX has all its bits set
  /\ Host \subseteq Address
  /\ MaxPackets \in Nat

VARIABLES
  file,           \* the TOPOLOGY section of model.json
  mode,           \* "idle" between runs, "report" once runTest is done
  modelTopology,  \* modelTopology_
  testTopology,   \* testTopology_
  unknown,        \* unknownInteractions_
  packets,        \* packets so far
  heard,          \* history: interactions of this learning run
  learned         \* history: interactions of the learning runs that were saved

vars == <<file, mode, modelTopology, testTopology, unknown, packets, heard, learned>>

TypeOK ==
  /\ file \subseteq Key \X Address
  /\ mode \in {"idle", "learning", "analysis", "report"}
  /\ modelTopology \subseteq Key \X Address
  /\ testTopology \subseteq Interaction
  /\ unknown \subseteq Interaction
  /\ packets \in 0 .. MaxPackets
  /\ heard \subseteq Interaction
  /\ learned \subseteq Interaction

Init ==
  /\ file = {}
  /\ mode = "idle"
  /\ modelTopology = {}
  /\ testTopology = {}
  /\ unknown = {}
  /\ packets = 0
  /\ heard = {}
  /\ learned = {}

(* strtol stops at LONG_MAX, and atoi keeps the low word of what it gives. *)
LowWord(n) == (IF n >= HalfLong THEN HalfLong - 1 ELSE n) % Word

(* From int to uint64_t: a word with the high bit is negative.             *)
SignExtend(word) == IF word >= HalfWord THEN word + (Long - Word) ELSE word

Atoi(n) == SignExtend(LowWord(n))

(* JsonToData.                                                             *)
Loaded_LastOfEachSource ==
  {<<Atoi(p[1]), p[2]>> : p \in {q \in file : \A r \in file : r[1] = q[1] => r[2] <= q[2]}}
Loaded == {<<Atoi(p[1]), p[2]>> : p \in file}

StartRun(type) ==
  /\ mode = "idle"
  /\ mode' = type
  /\ modelTopology' = Loaded
  /\ testTopology' = {}
  /\ unknown' = {}
  /\ heard' = {}
  /\ UNCHANGED <<file, packets, learned>>

ComputePacket_Both(src, dst) ==
  /\ mode \in {"learning", "analysis"}
  /\ packets < MaxPackets
  /\ packets' = packets + 1
  /\ modelTopology' = modelTopology \cup {<<src, dst>>}
  /\ testTopology' = testTopology \cup {<<src, dst>>}
  /\ heard' = IF mode = "learning" THEN heard \cup {<<src, dst>>} ELSE heard
  /\ UNCHANGED <<file, mode, unknown, learned>>
ComputePacket(src, dst) ==
  /\ packets < MaxPackets
  /\ packets' = packets + 1
  /\ \/ /\ mode = "learning"
        /\ modelTopology' = modelTopology \cup {<<src, dst>>}
        /\ heard' = heard \cup {<<src, dst>>}
        /\ UNCHANGED testTopology
     \/ /\ mode = "analysis"
        /\ testTopology' = testTopology \cup {<<src, dst>>}
        /\ UNCHANGED <<modelTopology, heard>>
  /\ UNCHANGED <<file, mode, unknown, learned>>

(* DataToJson: the decimal text of every key.                              *)
DataToJson_ThisRun == heard
DataToJson == modelTopology

SaveDataToModel ==
  /\ mode = "learning"
  /\ mode' = "idle"
  /\ file' = DataToJson
  /\ learned' = learned \cup heard
  /\ UNCHANGED <<modelTopology, testTopology, unknown, packets, heard>>

RunTest ==
  /\ mode = "analysis"
  /\ mode' = "report"
  /\ unknown' = testTopology \ modelTopology
  /\ UNCHANGED <<file, modelTopology, testTopology, packets, heard, learned>>

(* The run ends: after the report, or before it has saved or tested.       *)
End ==
  /\ mode # "idle"
  /\ mode' = "idle"
  /\ UNCHANGED <<file, modelTopology, testTopology, unknown, packets, heard, learned>>

Next ==
  \/ \E type \in {"learning", "analysis"} : StartRun(type)
  \/ \E src, dst \in Host : ComputePacket(src, dst)
  \/ SaveDataToModel
  \/ RunTest
  \/ End

Spec == Init /\ [][Next]_vars

-----------------------------------------------------------------------------
(* Properties.                                                             *)

Low(p) == p[1] < HalfWord

(* Reported are the interactions of the capture that no saved learning run *)
(* has seen and, whether one has or not, all those whose source's high bit *)
(* is set (on a little-endian machine the last byte of the address is 128  *)
(* or more): what atoi makes of such a key in the file matches no packet.  *)
NewOrHighIsReported ==
  mode = "report" => unknown = {p \in testTopology : p \notin learned \/ ~Low(p)}

(* report.tex: "Those are the interaction that our tool has not encountered*)
(* in the model distribution".                                             *)
ReportIsExact == mode = "report" => unknown = testTopology \ learned

(* Saving never drops what earlier runs have learned.                      *)
LowIsRemembered == \A p \in learned : Low(p) => p \in file

-----------------------------------------------------------------------------
(* The inductive invariant.                                                *)

(* Keys are words, or words with the high bit sign-extended.               *)
KeyShape == \A p \in file \cup modelTopology : p[1] < Word \/ p[1] >= Long - HalfWord

FileInv ==
  /\ \A p \in file : p[1] < Word => p \in learned
  /\ LowIsRemembered

ModelInv ==
  mode # "idle" =>
    /\ \A p \in modelTopology : p[1] < Word => p \in learned \cup heard
    /\ \A p \in learned \cup heard : Low(p) => p \in modelTopology
    /\ mode # "learning" =>
         heard = {} /\ \A p \in modelTopology : Low(p) \/ p[1] >= Word

ReportInv == mode = "report" => unknown = testTopology \ modelTopology

Inv == TypeOK /\ KeyShape /\ FileInv /\ ModelInv /\ ReportInv
=============================================================================
