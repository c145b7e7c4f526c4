------------------------- MODULE PcapAnalyzerProofs -------------------------
(* The theorems about PcapAnalyzer, for every set of captures and command  *)
(* lines, any number of handlers and all bounds.                           *)
EXTENDS PcapAnalyzer, TLAPS

-----------------------------------------------------------------------------
(* Bags.                                                                   *)

LEMMA PlusIs ==
  ASSUME NEW bag \in Bag, NEW c \in Capture
  PROVE  /\ Plus(bag, c) \in Bag
         /\ \A d \in Capture : Plus(bag, c)[d] = bag[d] + (IF d = c THEN 1 ELSE 0)
BY DEF Plus, Bag

LEMMA Sum2Is ==
  ASSUME NEW a \in Bag, NEW b \in Bag
  PROVE  Sum2(a, b) \in Bag /\ Sum2(EmptyBag, b) = b
<1>1. Sum2(a, b) \in Bag
  BY DEF Sum2, Bag
<1>2. \A d \in Capture : Sum2(EmptyBag, b)[d] = b[d]
  BY DEF Sum2, Bag, EmptyBag
<1>3. Sum2(EmptyBag, b) = b
  BY <1>2 DEF Sum2, Bag
<1> QED
  BY <1>1, <1>3

LEMMA EmptyIs == EmptyBag \in Bag /\ NoSections \in [Feature -> Bag]
BY DEF EmptyBag, NoSections, Bag

-----------------------------------------------------------------------------
(* Every variable has its type.                                            *)

LEMMA Bounds ==
  /\ NumHandlers \in Nat /\ NumHandlers >= 1 /\ MaxFaults \in Nat
  /\ 1 \in 1 .. NumHandlers + 1 /\ 0 \in 0 .. MaxFaults
BY ConstantsAssumption

LEMMA FileIs ==
  ASSUME NEW kind \in FileKind
  PROVE  File(kind) \in [kind : FileKind, doc : [Feature -> Bag], garbled : SUBSET Feature]
BY EmptyIs DEF File

LEMMA DocumentIs ==
  ASSUME NEW doc \in [Feature -> Bag], NEW garbled \in SUBSET Feature
  PROVE  Document(doc, garbled) \in
           [kind : FileKind, doc : [Feature -> Bag], garbled : SUBSET Feature]
BY DEF Document, FileKind

LEMMA InitTypeOK == Init => TypeOK
<1> SUFFICES ASSUME Init PROVE TypeOK
  OBVIOUS
<1>1. disk \in [kind : FileKind, doc : [Feature -> Bag], garbled : SUBSET Feature]
  BY FileIs DEF Init, FileKind
<1> QED
  BY <1>1, Bounds, EmptyIs DEF Init, TypeOK, Location, Ending

LEMMA NextTypeOK == TypeOK /\ ControlInv /\ [Next]_vars => TypeOK'
<1> SUFFICES ASSUME TypeOK, ControlInv, [Next]_vars PROVE TypeOK'
  OBVIOUS
<1> USE Bounds DEF TypeOK, Exit, Goto, process
<1>1. ASSUME NEW args \in CommandLine, BadCommandLine(args) PROVE TypeOK'
  BY <1>1 DEF BadCommandLine, Ending
<1>2. ASSUME NEW args \in CommandLine, NEW c \in Capture, StartRun(args, c) PROVE TypeOK'
  <2>1. args.seconds \in Nat
    BY ConstantsAssumption DEF Arguments
  <2>2. attempts' \in Bag
    BY <1>2, PlusIs DEF StartRun
  <2>3. mode' \in {"learning", "analysis"} /\ duration' \in Nat /\ live' \in BOOLEAN
    BY <1>2, <2>1 DEF StartRun
  <2>4. /\ pc' \in Location /\ cap' \in Capture /\ handle' = "none" /\ outcome' \in Ending
        /\ mem' = NoSections /\ test' = NoSections /\ buffer' = NoSections
        /\ next' = 1 /\ ~isOpen' /\ ~dirty' /\ isOpen' \in BOOLEAN /\ dirty' \in BOOLEAN
        /\ UNCHANGED <<disk, faults>>
    BY <1>2 DEF StartRun, Location, Ending
  <2> QED
    BY <2>2, <2>3, <2>4, EmptyIs
<1>3. CASE CheckModelExists
  BY <1>3 DEF CheckModelExists, Location, Ending
<1>4. CASE OpenSource
  BY <1>4 DEF OpenSource, Location, Ending
<1>5. CASE OpenModel
  BY <1>5 DEF OpenModel, LoadFailed, Location, Ending
<1>6. CASE LoadSection
  <2>1. next \in Feature
    BY <1>6 DEF LoadSection, Feature
  <2>2. Loading \in [Feature -> Bag]
    BY <2>1, Sum2Is DEF Loading
  <2>3. next' \in 1 .. NumHandlers + 1 /\ mem' \in [Feature -> Bag]
    BY <1>6, <2>1, <2>2 DEF LoadSection, Advance, LoadFailed, Feature
  <2> QED
    BY <1>6, <2>3 DEF LoadSection, LoadFailed, Location, Ending
<1>7. CASE Loaded
  BY <1>7 DEF Loaded, Location
<1>8. CASE Absorb
  BY <1>8, PlusIs DEF Absorb, Location
<1>9. CASE NullHandle
  BY <1>9 DEF NullHandle, Location, Ending
<1>10. CASE ReopenModel
  BY <1>10 DEF ReopenModel, FirstSaved, Location, Ending
<1>11. CASE SeekToBeginning
  BY <1>11 DEF SeekToBeginning, Flush, Document, FileKind, Location
<1>12. CASE MergeSection
  <2>1. next \in Feature
    BY <1>12 DEF MergeSection, ControlInv, Feature
  <2>2. next' \in 1 .. NumHandlers + 1
    BY <1>12, <2>1 DEF MergeSection, Advance, Feature
  <2>3. Merged \in [Feature -> Bag]
    BY <2>1 DEF Merged
  <2>4. buffer' \in [Feature -> Bag]
    BY <1>12, <2>3 DEF MergeSection
  <2> QED
    BY <1>12, <2>2, <2>4 DEF MergeSection, Location
<1>13. CASE SaveDone
  BY <1>13 DEF SaveDone, Location
<1>14. CASE RunTests
  BY <1>14 DEF RunTests, Location
<1>15. CASE CloseModel
  BY <1>15 DEF CloseModel, Flush, Document, FileKind, Location, Ending
<1>16. CASE Kill \/ WriteFails
  <2>1. Interrupted => disk' \in [kind : FileKind, doc : [Feature -> Bag],
                                  garbled : SUBSET Feature]
    <3>1. CASE Flush
      BY <3>1, DocumentIs DEF Flush
    <3>2. CASE disk' = File("torn")
      BY <3>2, FileIs DEF FileKind
    <3>3. ASSUME NEW cut \in SUBSET {f \in Feature : f >= next - 1},
                 disk' = Document(buffer, disk.garbled \cup cut)
          PROVE  disk' \in [kind : FileKind, doc : [Feature -> Bag],
                            garbled : SUBSET Feature]
      BY <3>3, DocumentIs
    <3>4. CASE disk' \in {File("blank"), File("bare"), File("other")}
      BY <3>4, FileIs DEF FileKind
    <3> QED
      BY <3>1, <3>2, <3>3, <3>4 DEF Interrupted
  <2>2. faults' \in 0 .. MaxFaults
    BY <1>16 DEF Kill, WriteFails, Fault
  <2>3. Interrupted /\ UNCHANGED <<attempts, process>> /\ dirty' = FALSE
        /\ pc' = "idle" /\ outcome' \in {"killed", "error", "terminate"}
    BY <1>16 DEF Kill, WriteFails, Fault
  <2> QED
    BY <2>1, <2>2, <2>3 DEF Location, Ending
<1>17. CASE CreateModel \/ RemoveModel
  BY <1>17, EmptyIs DEF CreateModel, RemoveModel, File, FileKind
<1>18. CASE UNCHANGED vars
  BY <1>18 DEF vars
<1> QED
  BY <1>1, <1>2, <1>3, <1>4, <1>5, <1>6, <1>7, <1>8, <1>9, <1>10, <1>11, <1>12,
     <1>13, <1>14, <1>15, <1>16, <1>17, <1>18
  DEF Next, Program, Environment, ComputeDistribution, CaptureBreaks


-----------------------------------------------------------------------------
(* The place in main() agrees with the mode and the file.                  *)

LEMMA NextControl ==
  TypeOK /\ MemoryInv /\ ControlInv /\ [Next]_vars => ControlInv'
<1> SUFFICES ASSUME TypeOK, MemoryInv, ControlInv, [Next]_vars PROVE ControlInv'
  OBVIOUS
<1> USE Bounds DEF ControlInv, Saving, Exit, Goto, process
<1>1. ASSUME NEW args \in CommandLine, BadCommandLine(args) PROVE ControlInv'
  BY <1>1 DEF BadCommandLine
<1>2. ASSUME NEW args \in CommandLine, NEW c \in Capture, StartRun(args, c)
      PROVE  ControlInv'
  BY <1>2 DEF StartRun
<1>3. CASE CheckModelExists \/ OpenSource \/ NullHandle
  BY <1>3 DEF CheckModelExists, OpenSource, NullHandle
<1>4. CASE OpenModel
  <2>1. pc' = "load" => next' = 1
    BY <1>4 DEF OpenModel, LoadFailed, MemoryInv
  <2> QED
    BY <1>4, <2>1 DEF OpenModel, LoadFailed
<1>5. CASE LoadSection
  BY <1>5 DEF LoadSection, LoadFailed, Parses
<1>6. CASE Loaded
  BY <1>6 DEF Loaded, TypeOK
<1>7. CASE Absorb
  BY <1>7 DEF Absorb, TypeOK
<1>8. CASE ReopenModel
  BY <1>8 DEF ReopenModel, FirstSaved
<1>9. CASE SeekToBeginning
  BY <1>9 DEF SeekToBeginning, Flush, Document
<1>10. CASE MergeSection
  BY <1>10 DEF MergeSection, GivesUp, TypeOK
<1>11. CASE SaveDone
  BY <1>11 DEF SaveDone, TypeOK
<1>12. CASE RunTests
  BY <1>12 DEF RunTests
<1>13. CASE CloseModel \/ Kill \/ WriteFails
  BY <1>13 DEF CloseModel, Kill, WriteFails
<1>14. CASE CreateModel \/ RemoveModel
  BY <1>14 DEF CreateModel, RemoveModel
<1>15. CASE UNCHANGED vars
  BY <1>15 DEF vars
<1> QED
  BY <1>1, <1>2, <1>3, <1>4, <1>5, <1>6, <1>7, <1>8, <1>9, <1>10, <1>11, <1>12,
     <1>13, <1>14, <1>15
  DEF Next, Program, Environment, ComputeDistribution, CaptureBreaks

-----------------------------------------------------------------------------
(* The file and the write that is not yet flushed.                         *)

LEMMA FlushedIs ==
  ASSUME TypeOK
  PROVE  Flushed \in [Feature -> Bag]
BY DEF TypeOK, Flushed

(* What a write that is still in the buffer adds to the file.              *)
LEMMA FlushedAdds ==
  ASSUME TypeOK, FileInv, NEW f \in Feature, NEW c \in Capture
  PROVE  Flushed[f][c] = disk.doc[f][c] + (IF dirty /\ f = next - 1 /\ c = cap THEN 1 ELSE 0)
<1>1. CASE ~dirty
  BY <1>1 DEF Flushed, TypeOK, Bag
<1>2. CASE dirty
  <2>1. disk.doc \in [Feature -> Bag] /\ cap \in Capture /\ disk.doc[f] \in Bag
    BY DEF TypeOK
  <2>2. Flushed[f] = IF f = next - 1 THEN Plus(disk.doc[f], cap) ELSE disk.doc[f]
    BY <1>2, <2>1 DEF Flushed, FileInv
  <2> QED
    BY <1>2, <2>1, <2>2, PlusIs DEF Bag
<1> QED
  BY <1>1, <1>2

(* Flushing is invisible to what counts as in the file.                    *)
LEMMA FlushKeeps ==
  ASSUME TypeOK, FileInv, Flush, dirty' = FALSE
  PROVE  /\ Flushed' = Flushed
         /\ disk'.kind = IF dirty THEN "doc" ELSE disk.kind
BY DEF Flush, Flushed, Document

LEMMA NextFile ==
  TypeOK /\ FileInv /\ ControlInv /\ MemoryInv /\ [Next]_vars => FileInv'
<1> SUFFICES ASSUME TypeOK, FileInv, ControlInv, MemoryInv, [Next]_vars PROVE FileInv'
  OBVIOUS
<1> USE DEF Exit, Goto, process
<1>1. ASSUME NEW args \in CommandLine, BadCommandLine(args) PROVE FileInv'
  BY <1>1 DEF BadCommandLine, FileInv, Saving
<1>2. ASSUME NEW args \in CommandLine, NEW c \in Capture, StartRun(args, c)
      PROVE  FileInv'
  BY <1>2 DEF StartRun, FileInv, Saving
<1>3. CASE CheckModelExists \/ OpenSource \/ OpenModel \/ LoadSection \/ Loaded
           \/ Absorb \/ NullHandle \/ ReopenModel \/ RunTests
  <2>1. disk' = disk /\ ~Saving
    BY <1>3 DEF CheckModelExists, OpenSource, OpenModel, LoadSection, LoadFailed, Loaded,
                Absorb, NullHandle, ReopenModel, RunTests, Saving
  <2>2. ~dirty /\ ~dirty'
    BY <1>3, <2>1
    DEF CheckModelExists, OpenSource, OpenModel, LoadSection, LoadFailed, Loaded,
        Absorb, NullHandle, ReopenModel, RunTests, FileInv
  <2> QED
    BY <2>1, <2>2 DEF FileInv
<1>4. CASE SeekToBeginning
  BY <1>4 DEF SeekToBeginning, Flush, Document, FileInv
<1>5. CASE MergeSection
  <2>1. ~dirty /\ Flushed = disk.doc /\ Saving /\ next \in Feature /\ disk' = disk
    BY <1>5, Bounds DEF MergeSection, FileInv, Flushed, ControlInv, Saving, TypeOK, Feature
  <2>2. CASE GivesUp
    BY <1>5, <2>1, <2>2 DEF MergeSection, FileInv
  <2>3. CASE ~GivesUp
    <3>1. mem[next] = Plus(disk.doc[next], cap)
      BY <2>1, <2>3 DEF MemoryInv, GivesUp, Feature
    <3>2. buffer' = [disk.doc EXCEPT ![next] = Plus(disk.doc[next], cap)]
      BY <1>5, <2>3, <3>1 DEF MergeSection, Merged
    <3>3. next' = next + 1 /\ next' - 1 = next /\ next' > 1
      BY <1>5, <2>1, Bounds DEF MergeSection, Advance, Feature
    <3> QED
      BY <1>5, <2>1, <2>3, <3>2, <3>3 DEF MergeSection, GivesUp, FileInv, Saving
  <2> QED
    BY <2>2, <2>3
<1>6. CASE SaveDone
  BY <1>6 DEF SaveDone, FileInv, Saving
<1>7. CASE CloseModel
  BY <1>7 DEF CloseModel, Flush, Document, FileInv
<1>8. CASE Kill \/ WriteFails
  <2>1. Interrupted /\ dirty' = FALSE
    BY <1>8 DEF Kill, WriteFails, Fault
  <2> QED
    BY <2>1 DEF Interrupted, Flush, File, Document, FileInv
<1>9. CASE CreateModel \/ RemoveModel
  BY <1>9 DEF CreateModel, RemoveModel, File, FileInv, Saving
<1>10. CASE UNCHANGED vars
  BY <1>10 DEF vars, FileInv, Saving
<1> QED
  BY <1>1, <1>2, <1>3, <1>4, <1>5, <1>6, <1>7, <1>8, <1>9, <1>10
  DEF Next, Program, Environment, ComputeDistribution, CaptureBreaks

-----------------------------------------------------------------------------
(* What the handlers hold follows from what the file holds.                *)

LEMMA NextMemory ==
  TypeOK /\ FileInv /\ ControlInv /\ MemoryInv /\ [Next]_vars => MemoryInv'
<1> SUFFICES ASSUME TypeOK, FileInv, ControlInv, MemoryInv, [Next]_vars PROVE MemoryInv'
  OBVIOUS
<1> USE DEF Exit, Goto, process
<1>1. pc' = "idle" => MemoryInv'
  BY DEF MemoryInv, Saving
<1>2. ASSUME NEW args \in CommandLine, NEW c \in Capture, StartRun(args, c)
      PROVE  MemoryInv'
  BY <1>2 DEF StartRun, MemoryInv, Saving
<1>3. CASE CheckModelExists \/ OpenSource
  BY <1>1, <1>3 DEF CheckModelExists, OpenSource, MemoryInv, Saving
<1>4. CASE OpenModel
  <2>1. mem = NoSections /\ next = 1 /\ test = NoSections
    BY <1>4 DEF OpenModel, MemoryInv
  <2>2. CASE disk.kind = "absent"
    BY <1>1, <1>4, <2>1, <2>2 DEF OpenModel, LoadFailed, FileInv, MemoryInv, Saving
  <2>3. CASE disk.kind # "absent"
    <3>1. \A f \in Feature : mem[f] = EmptyBag /\ ~(f < next)
      BY <2>1, Bounds DEF NoSections, Feature
    <3> QED
      BY <1>4, <2>1, <2>3, <3>1 DEF OpenModel, MemoryInv, Saving
  <2> QED
    BY <2>2, <2>3
<1>5. CASE LoadSection
  <2>1. next \in Feature /\ mem[next] = EmptyBag /\ test = NoSections
    BY <1>5 DEF LoadSection, MemoryInv, Feature, TypeOK
  <2>2. CASE ~Parses(disk.kind)
    <3>1. disk.kind \notin {"doc", "bare"} /\ next = 1
      BY <1>5, <2>1, <2>2, Bounds DEF LoadSection, ControlInv, Feature, Parses
    <3>2. \A f \in Feature : mem[f] = EmptyBag
      BY <1>5, <3>1 DEF LoadSection, MemoryInv, Feature
    <3>3. mem = disk.doc
      BY <3>1, <3>2 DEF TypeOK, FileInv, NoSections
    <3>4. disk.garbled = {}
      BY <3>1 DEF FileInv
    <3> QED
      BY <1>1, <1>5, <2>1, <3>1, <3>3, <3>4 DEF LoadSection, LoadFailed, MemoryInv, Saving
  <2>3. CASE disk.kind \in {"doc", "bare"} /\ pc' = "load"
    <3>1. disk.doc[next] \in Bag
      BY <2>1 DEF TypeOK
    <3>2. Loading = [mem EXCEPT ![next] = disk.doc[next]]
      BY <2>1, <3>1, Sum2Is DEF Loading
    <3>3. mem' = [mem EXCEPT ![next] = disk.doc[next]] /\ next' = next + 1
          /\ UNCHANGED <<disk, test>>
      BY <1>5, <2>3, <3>2 DEF LoadSection, Advance, Parses
    <3>4. \A f \in Feature : mem'[f] = IF f < next' THEN disk'.doc[f] ELSE EmptyBag
      BY <1>5, <2>1, <3>3, Bounds DEF LoadSection, MemoryInv, TypeOK, Feature
    <3> QED
      BY <2>1, <2>3, <3>3, <3>4 DEF MemoryInv, Saving
  <2>4. CASE pc' = "idle"
    BY <1>1, <2>4
  <2>5. \/ ~Parses(disk.kind)
        \/ disk.kind \in {"doc", "bare"} /\ pc' = "load"
        \/ pc' = "idle"
    BY <1>5 DEF LoadSection
  <2> QED
    BY <2>2, <2>3, <2>4, <2>5
<1>6. CASE Loaded
  <2>1. \A f \in Feature : mem[f] = disk.doc[f]
    <3> SUFFICES ASSUME NEW f \in Feature PROVE mem[f] = disk.doc[f]
      OBVIOUS
    <3>1. f < next
      BY <1>6, Bounds DEF Loaded, Feature, TypeOK
    <3> QED
      BY <1>6, <3>1 DEF Loaded, MemoryInv
  <2>2. mem = disk.doc
    BY <2>1 DEF TypeOK
  <2> QED
    BY <1>6, <2>2 DEF Loaded, MemoryInv, Saving
<1>7. CASE Absorb
  <2>1. mem = disk.doc /\ test = NoSections
    BY <1>7 DEF Absorb, MemoryInv
  <2>2. CASE mode = "learning"
    BY <1>7, <2>1, <2>2 DEF Absorb, MemoryInv, Saving
  <2>3. CASE mode # "learning"
    <3>1. test' = [f \in Feature |-> Plus(EmptyBag, cap)]
      BY <1>7, <2>1, <2>3 DEF Absorb, NoSections
    <3> QED
      BY <1>7, <2>1, <2>3, <3>1 DEF Absorb, MemoryInv, Saving
  <2> QED
    BY <2>2, <2>3
<1>8. CASE ReopenModel
  <2>1. Flushed' = disk.doc
    BY <1>8 DEF ReopenModel, FileInv, Saving, Flushed
  <2>2. CASE pc' = "idle"
    BY <1>1, <2>2
  <2>3. CASE pc' = "save"
    <3>1. next' = 1 /\ UNCHANGED <<mem, cap>> /\ pc = "reopen"
      BY <1>8, <2>3 DEF ReopenModel, FirstSaved
    <3>2. \A f \in Feature : ~(f < next')
      BY <3>1, Bounds DEF Feature
    <3>3. \A f \in Feature : mem'[f] = Plus(Flushed'[f], cap')
      BY <2>1, <3>1 DEF MemoryInv
    <3> QED
      BY <2>3, <3>2, <3>3 DEF MemoryInv
  <2> QED
    BY <1>8, <2>2, <2>3 DEF ReopenModel
<1>9. CASE SeekToBeginning
  <2>1. Flushed' = Flushed /\ (disk'.kind # "torn" => disk.kind # "torn")
    BY <1>9, FlushKeeps DEF SeekToBeginning, FileInv
  <2>2. Saving /\ pc' = "merge" /\ UNCHANGED <<mem, next, cap, mode>>
    BY <1>9 DEF SeekToBeginning, Saving, ControlInv
  <2> QED
    BY <2>1, <2>2 DEF MemoryInv, Saving
<1>10. CASE MergeSection
  <2>1. ~dirty /\ Flushed = disk.doc /\ Saving /\ next \in Feature
    BY <1>10, Bounds DEF MergeSection, FileInv, Flushed, ControlInv, Saving, TypeOK, Feature
  <2>2. pc' = "save" /\ UNCHANGED <<disk, mem, cap, mode>> /\ next' = next + 1
    BY <1>10 DEF MergeSection, Advance
  <2>3. CASE disk.kind # "torn"
    <3>1. Flushed' = [disk.doc EXCEPT ![next] = mem[next]]
      BY <1>10, <2>3 DEF MergeSection, GivesUp, Merged, Flushed
    <3>2. \A f \in Feature :
            mem'[f] = IF f < next' THEN Flushed'[f] ELSE Plus(Flushed'[f], cap')
      BY <2>1, <2>2, <2>3, <3>1, Bounds DEF MemoryInv, TypeOK, Feature
    <3> QED
      BY <2>2, <3>2 DEF MemoryInv
  <2>4. CASE disk.kind = "torn"
    BY <2>2, <2>4 DEF MemoryInv
  <2> QED
    BY <2>3, <2>4
<1>11. CASE SaveDone
  BY <1>11 DEF SaveDone, MemoryInv, Saving, ControlInv, Flushed
<1>12. CASE RunTests
  BY <1>12 DEF RunTests, MemoryInv, Saving, ControlInv
<1>13. CASE NullHandle \/ CloseModel \/ Kill \/ WriteFails
  BY <1>1, <1>13 DEF NullHandle, CloseModel, Kill, WriteFails
<1>14. ASSUME \/ \E args \in CommandLine : BadCommandLine(args)
              \/ CreateModel \/ RemoveModel
       PROVE  MemoryInv'
  BY <1>1, <1>14 DEF BadCommandLine, CreateModel, RemoveModel
<1>15. CASE UNCHANGED vars
  BY <1>15 DEF vars, MemoryInv, Saving, Flushed
<1> QED
  BY <1>2, <1>3, <1>4, <1>5, <1>6, <1>7, <1>8, <1>9, <1>10, <1>11, <1>12, <1>13,
     <1>14, <1>15
  DEF Next, Program, Environment, ComputeDistribution, CaptureBreaks

-----------------------------------------------------------------------------
(* Counting.  Most steps neither touch the file nor save a section.        *)

Quiet ==
  /\ UNCHANGED <<disk, cap, attempts, faults>>
  /\ ~dirty /\ ~dirty'
  /\ ~Saving /\ (Saving' => next' = 1)
  /\ Learning' => Learning

LEMMA QuietSteps ==
  ASSUME TypeOK, FileInv, ControlInv,
         \/ \E args \in CommandLine : BadCommandLine(args)
         \/ CheckModelExists \/ OpenSource \/ OpenModel \/ LoadSection \/ Loaded
         \/ Absorb \/ NullHandle \/ ReopenModel \/ RunTests
         \/ CloseModel /\ mode = "analysis"
  PROVE  Quiet
<1> USE DEF Exit, Goto, process, Saving, Learning
<1>1. CASE \E args \in CommandLine : BadCommandLine(args)
  BY <1>1 DEF BadCommandLine, FileInv, Quiet
<1>2. CASE CheckModelExists \/ OpenSource \/ OpenModel
  BY <1>2 DEF CheckModelExists, OpenSource, OpenModel, LoadFailed, FileInv, Quiet
<1>3. CASE LoadSection \/ Loaded
  BY <1>3 DEF LoadSection, LoadFailed, Loaded, FileInv, Quiet
<1>4. CASE Absorb \/ NullHandle
  BY <1>4 DEF Absorb, NullHandle, FileInv, Quiet
<1>5. CASE ReopenModel
  BY <1>5 DEF ReopenModel, FirstSaved, FileInv, Quiet
<1>6. CASE RunTests
  BY <1>6 DEF RunTests, ControlInv, FileInv, Quiet
<1>7. CASE CloseModel /\ mode = "analysis"
  BY <1>7 DEF CloseModel, Flush, FileInv, Quiet
<1> QED
  BY <1>1, <1>2, <1>3, <1>4, <1>5, <1>6, <1>7

LEMMA QuietCounts ==
  ASSUME TypeOK, CountInv, DriftInv, Quiet
  PROVE  CountInv' /\ DriftInv'
<1>1. Flushed' = disk.doc /\ Flushed = disk.doc
  BY DEF Quiet, Flushed
<1>2. \A f \in Feature : ~Written(f) /\ ~Written(f)'
  BY Bounds DEF Quiet, Written, Saving, Feature
<1>3. \A f \in Feature, c \in Capture :
        /\ Mine(f, c) = 0 /\ Mine(f, c)' = 0
        /\ Pending(f, c)' <= Pending(f, c)
        /\ Pending(f, c) \in {0, 1} /\ Pending(f, c)' \in {0, 1}
  BY <1>2 DEF Mine, Pending, Quiet
<1>4. \A f \in Feature, c \in Capture : disk.doc[f][c] \in Nat /\ attempts[c] \in Nat
  BY DEF TypeOK, Bag
<1>5. CountInv'
  BY <1>1, <1>3, <1>4 DEF CountInv, Quiet
<1>6. DriftInv'
  BY <1>1, <1>3, <1>4 DEF DriftInv, Quiet
<1> QED
  BY <1>5, <1>6

(* A process that is gone has written what had reached the file.           *)
Ends ==
  /\ pc' = "idle"
  /\ dirty' = FALSE
  /\ UNCHANGED <<cap, attempts>>
  /\ \/ disk'.doc = Flushed /\ disk'.kind # "torn" /\ disk.kind # "torn"
     \/ disk'.doc = disk.doc /\ (disk'.kind = "torn" <=> disk.kind = "torn")
     \/ disk'.doc = NoSections /\ disk'.kind = "torn"
  /\ \/ faults' = faults + 1
     \/ faults' = faults /\ Flush /\ Saving /\ next = NumHandlers + 1

LEMMA EndSteps ==
  ASSUME TypeOK, FileInv, ControlInv,
         \/ Kill \/ WriteFails
         \/ CloseModel /\ mode = "learning"
  PROVE  Ends
<1> USE DEF Exit, process
<1>1. CASE Kill \/ WriteFails
  <2>1. /\ pc' = "idle" /\ dirty' = FALSE /\ UNCHANGED <<cap, attempts>>
        /\ faults' = faults + 1 /\ Interrupted
    BY <1>1 DEF Kill, WriteFails, Fault
  <2>2. Interrupted => \/ disk'.doc = Flushed /\ disk'.kind # "torn" /\ disk.kind # "torn"
                       \/ disk'.doc = disk.doc /\ (disk'.kind = "torn" <=> disk.kind = "torn")
                       \/ disk'.doc = NoSections /\ disk'.kind = "torn"
    BY DEF Interrupted, Flush, Flushed, Document, File, FileInv
  <2> QED
    BY <2>1, <2>2 DEF Ends
<1>2. CASE CloseModel /\ mode = "learning"
  <2>1. /\ pc' = "idle" /\ dirty' = FALSE /\ UNCHANGED <<cap, attempts, faults>>
        /\ Flush /\ Saving /\ next = NumHandlers + 1
    BY <1>2 DEF CloseModel, ControlInv, Saving
  <2>2. \/ disk'.doc = Flushed /\ disk'.kind # "torn" /\ disk.kind # "torn"
        \/ disk' = disk
    BY <2>1 DEF Flush, Flushed, Document, FileInv
  <2> QED
    BY <2>1, <2>2 DEF Ends
<1> QED
  BY <1>1, <1>2

LEMMA EndCounts ==
  ASSUME TypeOK, TypeOK', FileInv, CountInv, DriftInv, Ends
  PROVE  CountInv' /\ DriftInv'
<1> DEFINE Late(f, c) == IF dirty /\ f = next - 1 /\ c = cap THEN 1 ELSE 0
<1>1. Flushed' = disk'.doc
  BY DEF Ends, Flushed
<1>2. \A f \in Feature, c \in Capture :
        Mine(f, c)' = 0 /\ Pending(f, c)' = 0 /\ disk'.doc[f][c] \in Nat
  BY DEF TypeOK, Bag, Ends, Mine, Pending, Written, Saving, Learning
<1>3. \A f \in Feature, c \in Capture :
        /\ disk.doc[f][c] \in Nat /\ Flushed[f][c] \in Nat /\ attempts[c] \in Nat
        /\ Pending(f, c) \in {0, 1} /\ Mine(f, c) \in {0, 1} /\ Late(f, c) \in {0, 1}
        /\ Late(f, c) <= Mine(f, c)
        /\ Flushed[f][c] = disk.doc[f][c] + Late(f, c)
  <2> SUFFICES ASSUME NEW f \in Feature, NEW c \in Capture
               PROVE  /\ disk.doc[f][c] \in Nat /\ Flushed[f][c] \in Nat
                      /\ attempts[c] \in Nat
                      /\ Pending(f, c) \in {0, 1} /\ Mine(f, c) \in {0, 1}
                      /\ Late(f, c) \in {0, 1} /\ Late(f, c) <= Mine(f, c)
                      /\ Flushed[f][c] = disk.doc[f][c] + Late(f, c)
    OBVIOUS
  <2>1. disk.doc[f][c] \in Nat /\ Flushed[f][c] \in Nat /\ attempts[c] \in Nat
    BY FlushedIs DEF TypeOK, Bag
  <2>2. Flushed[f][c] = disk.doc[f][c] + Late(f, c)
    BY FlushedAdds
  <2>3. Late(f, c) <= Mine(f, c)
    BY Bounds DEF FileInv, Mine, Written, TypeOK, Feature
  <2> QED
    BY <2>1, <2>2, <2>3 DEF Pending, Mine
<1>4. CountInv'
  <2> SUFFICES ASSUME NEW f \in Feature, NEW c \in Capture
               PROVE  disk'.doc[f][c] <= attempts[c]
    BY <1>1, <1>2, <1>3 DEF CountInv, Ends
  <2>1. Flushed[f][c] <= attempts[c] /\ disk.doc[f][c] <= attempts[c]
    BY <1>3 DEF CountInv
  <2>2. NoSections[f][c] = 0
    BY DEF NoSections, EmptyBag
  <2> QED
    BY <2>1, <2>2, <1>3 DEF Ends
<1>5. DriftInv'
  <2> SUFFICES ASSUME disk'.kind # "torn", NEW f \in Feature, NEW g \in Feature,
                      NEW c \in Capture, f < g
               PROVE  /\ disk'.doc[f][c] >= disk'.doc[g][c]
                      /\ disk'.doc[f][c] <= disk'.doc[g][c] + faults'
    BY <1>1, <1>2 DEF DriftInv
  <2>1. /\ disk.kind # "torn" /\ faults \in Nat /\ faults' \in Nat /\ faults <= faults'
        /\ disk'.doc = Flushed \/ disk'.doc = disk.doc
    BY Bounds DEF Ends, TypeOK
  <2>2. /\ Flushed[f][c] - Mine(f, c) >= Flushed[g][c] - Mine(g, c)
        /\ Flushed[f][c] - Mine(f, c) <= Flushed[g][c] - Mine(g, c) + faults
    BY <2>1 DEF DriftInv
  <2>3. /\ Mine(f, c) >= Mine(g, c)
        /\ Late(f, c) = 1 => Mine(g, c) = 0 /\ Late(g, c) = 0
        /\ Mine(g, c) = 1 => Mine(f, c) = 1
    BY Bounds DEF Mine, Written, Feature, TypeOK
  <2>4. CASE faults' = faults + 1
    <3>1. Mine(f, c) - Late(f, c) >= Mine(g, c) - Late(g, c)
      BY <1>3, <2>3
    <3>2. CASE disk'.doc = Flushed
      BY <1>3, <2>1, <2>2, <2>3, <2>4, <3>2
    <3>3. CASE disk'.doc = disk.doc
      BY <1>3, <2>1, <2>2, <2>3, <2>4, <3>1, <3>3
    <3> QED
      BY <2>1, <3>2, <3>3
  <2>5. CASE faults' = faults /\ Flush /\ Saving /\ next = NumHandlers + 1
    <3>1. Mine(f, c) = Mine(g, c)
      BY <2>5, Bounds DEF Mine, Written, Feature
    <3>2. disk'.doc = Flushed
      BY <2>5 DEF Flush, Flushed, Document
    <3> QED
      BY <1>3, <2>1, <2>2, <2>5, <3>1, <3>2
  <2> QED
    BY <2>4, <2>5 DEF Ends
<1> QED
  BY <1>4, <1>5

(* A learning run enters the count before it has written anything.         *)
LEMMA StartCounts ==
  ASSUME TypeOK, FileInv, CountInv, DriftInv,
         NEW args \in CommandLine, NEW c \in Capture, StartRun(args, c)
  PROVE  CountInv' /\ DriftInv'
<1>1. /\ Flushed' = disk.doc /\ Flushed = disk.doc /\ disk' = disk /\ faults' = faults
      /\ pc = "idle" /\ ~Saving /\ ~Saving' /\ cap' = c
      /\ mode' = "learning" => attempts' = Plus(attempts, c)
      /\ mode' # "learning" => attempts' = attempts
  BY DEF StartRun, FileInv, Flushed, Saving
<1>2. \A f \in Feature, d \in Capture :
        /\ Mine(f, d) = 0 /\ Mine(f, d)' = 0
        /\ Pending(f, d) = 0 /\ disk.doc[f][d] \in Nat /\ attempts[d] \in Nat
        /\ Pending(f, d)' = IF mode' = "learning" /\ d = c THEN 1 ELSE 0
        /\ attempts'[d] = attempts[d] + (IF mode' = "learning" /\ d = c THEN 1 ELSE 0)
  <2>1. \A f \in Feature, d \in Capture :
          /\ Mine(f, d) = 0 /\ Mine(f, d)' = 0 /\ Pending(f, d) = 0
          /\ Pending(f, d)' = IF mode' = "learning" /\ d = c THEN 1 ELSE 0
    BY <1>1 DEF Mine, Pending, Written, Learning, StartRun
  <2>2. \A f \in Feature, d \in Capture : disk.doc[f][d] \in Nat /\ attempts[d] \in Nat
    BY DEF TypeOK, Bag
  <2>3. \A d \in Capture :
          attempts'[d] = attempts[d] + (IF mode' = "learning" /\ d = c THEN 1 ELSE 0)
    BY <1>1, <2>2, PlusIs DEF TypeOK, Bag
  <2> QED
    BY <2>1, <2>2, <2>3
<1>3. CountInv'
  BY <1>1, <1>2 DEF CountInv
<1>4. DriftInv'
  BY <1>1, <1>2 DEF DriftInv
<1> QED
  BY <1>3, <1>4

(* The document a handler writes has one more of the run's capture in the  *)
(* handler's section, which was still pending.                             *)
LEMMA MergeCounts ==
  ASSUME TypeOK, TypeOK', FileInv, FileInv', ControlInv, CountInv, DriftInv, MergeSection
  PROVE  CountInv' /\ DriftInv'
<1>1. /\ ~dirty /\ Saving /\ Saving' /\ next \in Feature /\ next' = next + 1
      /\ pc = "merge" /\ pc' = "save" /\ mode = "learning"
      /\ UNCHANGED <<disk, cap, mode, attempts, faults>>
  BY Bounds DEF MergeSection, Advance, FileInv, ControlInv, Saving, TypeOK, Feature
<1> DEFINE New(f, c) == IF f = next /\ c = cap THEN 1 ELSE 0
<1>2. \A f \in Feature, c \in Capture :
        /\ Flushed[f][c] \in Nat /\ Flushed'[f][c] \in Nat /\ attempts[c] \in Nat
        /\ Flushed'[f][c] = Flushed[f][c] + (IF disk.kind = "torn" THEN 0 ELSE New(f, c))
  <2> SUFFICES ASSUME NEW f \in Feature, NEW c \in Capture
               PROVE  /\ Flushed[f][c] \in Nat /\ Flushed'[f][c] \in Nat
                      /\ attempts[c] \in Nat
                      /\ Flushed'[f][c] = Flushed[f][c] + (IF disk.kind = "torn" THEN 0
                                                                          ELSE New(f, c))
    OBVIOUS
  <2>1. disk.doc[f][c] \in Nat /\ attempts[c] \in Nat /\ Flushed[f][c] = disk.doc[f][c]
    BY <1>1 DEF Flushed, TypeOK, Bag
  <2>2. dirty' <=> disk.kind # "torn"
    BY <1>1 DEF MergeSection, GivesUp, TypeOK
  <2>3. Flushed'[f][c] = disk'.doc[f][c] + (IF dirty' /\ f = next' - 1 /\ c = cap'
                                             THEN 1 ELSE 0)
    <3>1. CASE ~dirty'
      BY <1>1, <2>1, <3>1 DEF Flushed
    <3>2. CASE dirty'
      <4>1. disk.doc \in [Feature -> Bag] /\ cap \in Capture /\ disk.doc[f] \in Bag
        BY DEF TypeOK
      <4>2. buffer' = [disk.doc EXCEPT ![next] = Plus(disk.doc[next], cap)]
        BY <1>1, <3>2 DEF FileInv, Feature
      <4>3. Flushed'[f] = IF f = next THEN Plus(disk.doc[f], cap) ELSE disk.doc[f]
        BY <3>2, <4>1, <4>2 DEF Flushed
      <4>4. next' - 1 = next
        BY <1>1 DEF Feature
      <4> QED
        BY <1>1, <3>2, <4>1, <4>3, <4>4, PlusIs DEF Bag
    <3> QED
      BY <3>1, <3>2
  <2>4. next' - 1 = next
    BY <1>1 DEF Feature
  <2>5. Flushed'[f][c] = disk.doc[f][c] + (IF disk.kind = "torn" THEN 0 ELSE New(f, c))
    BY <1>1, <2>2, <2>3, <2>4
  <2> QED
    BY <2>1, <2>5
<1>3. \A f \in Feature, c \in Capture :
        /\ Mine(f, c) \in {0, 1} /\ Mine(f, c)' = Mine(f, c) + New(f, c)
        /\ Pending(f, c) \in {0, 1} /\ Pending(f, c)' = Pending(f, c) - New(f, c)
  BY <1>1 DEF Mine, Pending, Written, Learning, Saving, Feature
<1>4. CountInv'
  BY <1>1, <1>2, <1>3 DEF CountInv
<1>5. DriftInv'
  <2> SUFFICES ASSUME disk.kind # "torn", NEW f \in Feature, NEW g \in Feature,
                      NEW c \in Capture, f < g
               PROVE  Flushed'[f][c] - Mine(f, c)' = Flushed[f][c] - Mine(f, c)
                      /\ Flushed'[g][c] - Mine(g, c)' = Flushed[g][c] - Mine(g, c)
    BY <1>1 DEF DriftInv
  <2> QED
    BY <1>2, <1>3
<1> QED
  BY <1>4, <1>5

LEMMA OtherCounts ==
  ASSUME TypeOK, FileInv, CountInv, DriftInv,
         SeekToBeginning \/ SaveDone \/ CreateModel \/ RemoveModel \/ UNCHANGED vars
  PROVE  CountInv' /\ DriftInv'
<1>1. CASE SeekToBeginning \/ SaveDone \/ UNCHANGED vars
  <2>1. /\ Flushed' = Flushed
        /\ disk'.kind # "torn" => disk.kind # "torn"
        /\ UNCHANGED <<cap, mode, next, attempts, faults>>
        /\ Saving' = Saving /\ Learning' = Learning
    <3>1. CASE SeekToBeginning
      BY <3>1, FlushKeeps DEF SeekToBeginning, process, FileInv, Saving, Learning
    <3>2. CASE SaveDone
      BY <3>2 DEF SaveDone, Goto, process, Flushed, Saving, Learning
    <3>3. CASE UNCHANGED vars
      BY <3>3 DEF vars, process, Flushed, Saving, Learning
    <3> QED
      BY <1>1, <3>1, <3>2, <3>3
  <2>2. \A f \in Feature, c \in Capture :
          Mine(f, c)' = Mine(f, c) /\ Pending(f, c)' = Pending(f, c)
    BY <2>1 DEF Mine, Pending, Written
  <2> QED
    BY <2>1, <2>2 DEF CountInv, DriftInv
<1>2. CASE CreateModel \/ RemoveModel
  <2>1. /\ Flushed' = NoSections /\ ~Saving' /\ ~Learning' /\ ~Learning
        /\ attempts' = attempts /\ faults' = faults
    BY <1>2 DEF CreateModel, RemoveModel, FileInv, File, Flushed, Saving, Learning
  <2>2. \A f \in Feature, c \in Capture :
          /\ Mine(f, c)' = 0 /\ Pending(f, c)' = 0 /\ Flushed'[f][c] = 0
          /\ attempts[c] \in Nat /\ faults \in Nat
    BY <2>1, Bounds DEF Mine, Pending, Written, NoSections, EmptyBag, TypeOK, Bag
  <2> QED
    BY <2>1, <2>2 DEF CountInv, DriftInv
<1> QED
  BY <1>1, <1>2

LEMMA NextCounts ==
  ASSUME TypeOK, TypeOK', FileInv, FileInv', ControlInv, CountInv, DriftInv, [Next]_vars
  PROVE  CountInv' /\ DriftInv'
<1>1. mode = "learning" \/ mode = "analysis"
  BY DEF TypeOK
<1>2. Quiet \/ Ends \/ MergeSection
      \/ (\E args \in CommandLine, c \in Capture : StartRun(args, c))
      \/ SeekToBeginning \/ SaveDone \/ CreateModel \/ RemoveModel \/ UNCHANGED vars
  BY <1>1, QuietSteps, EndSteps
  DEF Next, Program, Environment, ComputeDistribution, CaptureBreaks
<1> QED
  BY <1>2, QuietCounts, EndCounts, StartCounts, MergeCounts, OtherCounts

-----------------------------------------------------------------------------
(* The theorems.                                                           *)

LEMMA InitInv == Init => Inv
<1> SUFFICES ASSUME Init PROVE Inv
  OBVIOUS
<1>1. /\ disk.doc = NoSections /\ disk.garbled = {} /\ ~dirty /\ Flushed = disk.doc
      /\ ~Saving /\ ~Learning /\ pc = "idle" /\ attempts = EmptyBag /\ faults = 0
  BY DEF Init, File, Flushed, Saving, Learning
<1>2. \A f \in Feature, c \in Capture :
        Flushed[f][c] = 0 /\ Mine(f, c) = 0 /\ Pending(f, c) = 0 /\ attempts[c] = 0
  <2>1. \A f \in Feature, c \in Capture : NoSections[f][c] = 0 /\ EmptyBag[c] = 0
    BY DEF NoSections, EmptyBag
  <2> QED
    BY <1>1, <2>1 DEF Mine, Pending, Written
<1>3. FileInv /\ MemoryInv
  BY <1>1 DEF FileInv, MemoryInv
<1>4. ControlInv
  BY <1>1 DEF ControlInv
<1>5. CountInv /\ DriftInv
  BY <1>1, <1>2 DEF CountInv, DriftInv
<1> QED
  BY <1>3, <1>4, <1>5, InitTypeOK DEF Inv

LEMMA NextInv == Inv /\ [Next]_vars => Inv'
BY NextTypeOK, NextControl, NextFile, NextMemory, NextCounts DEF Inv

(* The invariant the other theorems rest on: where main() stands, what the *)
(* handlers hold and what the file holds always agree.                     *)
THEOREM Invariance == Spec => []Inv
BY InitInv, NextInv, PTL DEF Spec

(* Every variable always has its type.                                     *)
THEOREM TypeCorrect == Spec => []TypeOK
<1>1. Inv => TypeOK
  BY DEF Inv
<1> QED
  BY <1>1, Invariance, PTL

(* Saving the model never counts a learning run twice, through any number  *)
(* of kills, failed writes and further runs.                               *)
THEOREM CountsOnce == Spec => []NeverOvercounted
<1>1. Inv => NeverOvercounted
  <2> SUFFICES ASSUME Inv, NEW f \in Feature, NEW c \in Capture
               PROVE  disk.doc[f][c] <= attempts[c]
    BY DEF NeverOvercounted
  <2>1. Flushed[f][c] = disk.doc[f][c] + (IF dirty /\ f = next - 1 /\ c = cap THEN 1 ELSE 0)
    BY FlushedAdds DEF Inv
  <2>2. Flushed[f][c] + Pending(f, c) <= attempts[c] /\ Pending(f, c) \in {0, 1}
    BY DEF Inv, CountInv, Pending
  <2>3. disk.doc[f][c] \in Nat /\ attempts[c] \in Nat
    BY DEF Inv, TypeOK, Bag
  <2> QED
    BY <2>1, <2>2, <2>3
<1> QED
  BY <1>1, Invariance, PTL

(* A section never knows of a run that the section of an earlier handler   *)
(* does not know of.                                                       *)
THEOREM HandlerOrder == Spec => []SavedInHandlerOrder
<1>1. Inv => SavedInHandlerOrder
  <2> SUFFICES ASSUME Inv, NEW f \in Feature, NEW g \in Feature, NEW c \in Capture, f < g
               PROVE  disk.doc[f][c] >= disk.doc[g][c]
    BY DEF SavedInHandlerOrder
  <2>1. /\ disk.doc[f][c] \in Nat /\ disk.doc[g][c] \in Nat
        /\ next \in 1 .. NumHandlers + 1
    BY DEF Inv, TypeOK, Bag
  <2>2. CASE disk.kind = "torn"
    BY <2>2 DEF Inv, FileInv, NoSections, EmptyBag
  <2>3. CASE disk.kind # "torn"
    <3>1. Flushed[f][c] - Mine(f, c) >= Flushed[g][c] - Mine(g, c)
      BY <2>3 DEF Inv, DriftInv
    <3>2. /\ Flushed[f][c] = disk.doc[f][c]
                               + (IF dirty /\ f = next - 1 /\ c = cap THEN 1 ELSE 0)
          /\ Flushed[g][c] = disk.doc[g][c]
                               + (IF dirty /\ g = next - 1 /\ c = cap THEN 1 ELSE 0)
      BY FlushedAdds DEF Inv
    <3>3. CASE dirty
      BY <2>1, <3>1, <3>2, <3>3 DEF Inv, FileInv, Mine, Written, Feature
    <3>4. CASE ~dirty
      BY <2>1, <3>1, <3>2, <3>4 DEF Mine, Written, Feature
    <3> QED
      BY <3>3, <3>4
  <2> QED
    BY <2>2, <2>3
<1> QED
  BY <1>1, Invariance, PTL

(* Between runs two sections are apart by interrupted runs only.           *)
THEOREM Drift == Spec => []SectionsDriftByFaults
<1>1. Inv => SectionsDriftByFaults
  <2> SUFFICES ASSUME Inv, pc = "idle", NEW f \in Feature, NEW g \in Feature,
                      NEW c \in Capture
               PROVE  disk.doc[f][c] - disk.doc[g][c] <= faults
    BY DEF SectionsDriftByFaults
  <2>1. disk.doc[f][c] \in Nat /\ disk.doc[g][c] \in Nat /\ faults \in Nat
    BY Bounds DEF Inv, TypeOK, Bag
  <2>2. Flushed = disk.doc /\ Mine(f, c) = 0 /\ Mine(g, c) = 0
    BY DEF Inv, FileInv, Flushed, Saving, Mine, Written
  <2>3. CASE disk.kind = "torn"
    BY <2>1, <2>3 DEF Inv, FileInv, NoSections, EmptyBag
  <2>4. CASE disk.kind # "torn"
    <3>1. f < g \/ g < f \/ f = g
      BY DEF Feature
    <3> QED
      BY <2>1, <2>2, <2>4, <3>1 DEF Inv, DriftInv
  <2> QED
    BY <2>3, <2>4
<1> QED
  BY <1>1, Invariance, PTL

(* Analysis compares its capture alone with the whole model.               *)
THEOREM WholeModel == Spec => []TestsSeeWholeModel
<1>1. Inv => TestsSeeWholeModel
  BY DEF Inv, TestsSeeWholeModel, MemoryInv, ControlInv, Parses
<1> QED
  BY <1>1, Invariance, PTL

(* A learning run that ends well has put the model it loaded and its       *)
(* capture in the file, unless the file was torn.                          *)
THEOREM SavesWhole == Spec => NormalExitSavesUnlessTorn
<1>1. Inv /\ [Next]_vars =>
        [pc = "close" /\ outcome' = "ok" /\ mode = "learning" /\ disk.kind # "torn"
           => disk'.kind = "doc" /\ disk'.doc = mem]_vars
  <2> SUFFICES ASSUME Inv, Next, pc = "close", outcome' = "ok", mode = "learning",
                      disk.kind # "torn"
               PROVE  disk'.kind = "doc" /\ disk'.doc = mem
    OBVIOUS
  <2>1. CloseModel
    BY DEF Next, Program, Environment, BadCommandLine, StartRun, CheckModelExists,
       OpenSource, OpenModel, LoadSection, Loaded, ComputeDistribution, CaptureBreaks,
       Absorb, NullHandle, ReopenModel, SeekToBeginning, MergeSection, SaveDone, RunTests,
       Kill, WriteFails, CreateModel, RemoveModel, Exit
  <2>2. Flush /\ dirty' = FALSE
    BY <2>1 DEF CloseModel, Exit
  <2>3. Saving /\ next = NumHandlers + 1 /\ (disk.kind = "doc" \/ dirty)
    BY Bounds DEF Inv, ControlInv, Saving
  <2>4. \A f \in Feature : mem[f] = Flushed[f]
    BY <2>3, Bounds DEF Inv, MemoryInv, Feature
  <2>5. mem = Flushed
    BY <2>4, FlushedIs DEF Inv, TypeOK
  <2> QED
    BY <2>2, <2>3, <2>5 DEF Flush, Flushed, Document
<1> QED
  BY <1>1, Invariance, PTL DEF Spec, NormalExitSavesUnlessTorn

(* How a step changes the file.                                            *)
LEMMA DiskSteps ==
  ASSUME Inv, [Next]_vars
  PROVE  \/ disk' = disk
         \/ /\ dirty /\ mode = "learning" /\ pc \in {"save", "close"}
            /\ \/ disk' = Document(buffer, disk.garbled)
               \/ disk' = File("torn")
               \/ disk.kind # "doc" /\ disk' \in {File("blank"), File("bare"), File("other")}
               \/ /\ disk.kind # "empty"
                  /\ \E cut \in SUBSET {f \in Feature : f >= next - 1} :
                       disk' = Document(buffer, disk.garbled \cup cut)
         \/ pc = "idle" /\ disk' \in {File("empty"), File("absent")}
<1>1. dirty => mode = "learning" /\ pc \in {"save", "close"}
  BY DEF Inv, FileInv, Saving
<1>2. CASE SeekToBeginning \/ CloseModel
  BY <1>1, <1>2 DEF SeekToBeginning, CloseModel, Flush
<1>3. CASE Kill \/ WriteFails
  <2>1. Interrupted
    BY <1>3 DEF Kill, WriteFails, Fault
  <2> QED
    BY <1>1, <2>1 DEF Interrupted, Flush
<1>4. CASE CreateModel \/ RemoveModel
  BY <1>4 DEF CreateModel, RemoveModel
<1>5. CASE MergeSection \/ SaveDone \/ UNCHANGED vars
  BY <1>5 DEF MergeSection, SaveDone, vars
<1>6. ASSUME NEW args \in CommandLine, NEW c \in Capture, StartRun(args, c)
      PROVE  disk' = disk
  BY <1>6 DEF StartRun
<1>7. ASSUME \/ \E args \in CommandLine : BadCommandLine(args)
             \/ CheckModelExists \/ OpenSource \/ OpenModel \/ LoadSection \/ Loaded
             \/ Absorb \/ NullHandle \/ ReopenModel \/ RunTests
      PROVE  disk' = disk
  BY <1>7, QuietSteps DEF Inv, Quiet
<1> QED
  BY <1>2, <1>3, <1>4, <1>5, <1>6, <1>7
  DEF Next, Program, Environment, ComputeDistribution, CaptureBreaks

(* Nothing but a learning run with its capture changes the file.           *)
THEOREM OnlyLearning == Spec => OnlyLearningWrites
<1>1. Inv /\ [Next]_vars =>
        [disk' # disk => pc = "idle" \/ (mode = "learning" /\ pc \in {"save", "close"})]_vars
  BY DiskSteps
<1> QED
  BY <1>1, Invariance, PTL DEF Spec, OnlyLearningWrites

(* No run writes to a torn file.                                           *)
THEOREM TornKept == Spec => TornIsKept
<1>1. Inv /\ [Next]_vars => [disk.kind = "torn" /\ disk' # disk => pc = "idle"]_vars
  BY DiskSteps DEF Inv, FileInv
<1> QED
  BY <1>1, Invariance, PTL DEF Spec, TornIsKept

-----------------------------------------------------------------------------
(* The program implements the store.                                       *)

LEMMA NothingIs == Store!Nothing = NoSections /\ Store!Section = Feature
BY DEF Store!Nothing, Store!Section, NoSections, EmptyBag, Feature

LEMMA InitStore == Init => Store!Init
<1> SUFFICES ASSUME Init PROVE Store!Init
  OBVIOUS
<1>1. disk.doc = NoSections /\ disk.garbled = {} /\ disk.kind \in FileKind \ {"doc", "torn"}
  BY DEF Init, File
<1>2. Status = "none"
  BY <1>1 DEF Status
<1> QED
  BY <1>1, <1>2, NothingIs DEF Store!Init

LEMMA NextStore == Inv /\ [Next]_vars => [Store!Next]_(Store!store)
<1> SUFFICES ASSUME Inv, [Next]_vars PROVE [Store!Next]_(Store!store)
  OBVIOUS
<1>1. \A k : disk.kind = k =>
        Status = IF k = "doc" THEN "model" ELSE IF k = "torn" THEN "damaged" ELSE "none"
  BY DEF Status
<1>2. Status' = IF disk'.kind = "doc" THEN "model"
                ELSE IF disk'.kind = "torn" THEN "damaged" ELSE "none"
  BY DEF Status
<1>3. CASE disk' = disk
  BY <1>3, <1>1, <1>2 DEF Store!store
<1>4. CASE dirty
  <2> DEFINE s == next - 1
  <2>1. /\ s \in Store!Section /\ cap \in Capture /\ disk.kind # "torn"
        /\ buffer = [disk.doc EXCEPT ![s] = Plus(disk.doc[s], cap)]
        /\ disk.doc \in [Feature -> Bag]
    BY <1>4, Bounds DEF Inv, TypeOK, FileInv, Store!Section
  <2>2. buffer = [disk.doc EXCEPT ![s][cap] = @ + 1]
    BY <2>1 DEF Plus
  <2>3. ASSUME NEW lost, disk' = Document(buffer, lost)
        PROVE  Store!Absorb(s, cap) /\ disk'.garbled = lost
    BY <1>1, <1>2, <2>1, <2>2, <2>3 DEF Store!Absorb, Document
  <2>4. CASE disk' = Document(buffer, disk.garbled)
    BY <2>1, <2>3, <2>4 DEF Store!Next, Store!Save
  <2>5. CASE disk' = File("torn")
    BY <1>1, <1>2, <2>1, <2>5, NothingIs DEF Store!Next, Store!Damage, Store!Clear, File
  <2>6. ASSUME NEW cut \in SUBSET {f \in Feature : f >= next - 1},
               disk' = Document(buffer, disk.garbled \cup cut)
        PROVE  Store!Next
    <3>1. Store!Absorb(s, cap) /\ disk'.garbled = disk.garbled \cup cut
      BY <2>3, <2>6
    <3>2. cut \in SUBSET {t \in Store!Section : t >= s}
      BY DEF Store!Section, Feature
    <3>3. Store!CutShort(s, cap)
      BY <3>1, <3>2 DEF Store!CutShort
    <3> QED
      BY <2>1, <3>3 DEF Store!Next
  <2>7. CASE disk.kind # "doc" /\ disk' \in {File("blank"), File("bare"), File("other")}
    BY <1>1, <1>2, <2>1, <2>7, NothingIs DEF Store!store, Inv, FileInv, File
  <2> QED
    BY <1>3, <2>4, <2>5, <2>6, <2>7, <1>4, DiskSteps DEF Inv, FileInv, Saving
<1>5. CASE disk' \in {File("empty"), File("absent")}
  BY <1>2, <1>5, NothingIs DEF Store!Next, Store!Remove, Store!Clear, File
<1> QED
  BY <1>3, <1>4, <1>5, DiskSteps

(* What the handlers do to model.json together is what the store promises: *)
(* one section at a time absorbs the capture of the run, whole or cut      *)
(* short.                                                                  *)
THEOREM Implements == Spec => ImplementsStore
BY InitStore, NextStore, Invariance, PTL DEF Spec, ImplementsStore, Store!Spec

(* A model that can be read forgets nothing, whatever is interrupted.      *)
THEOREM Remembers == Spec => SectionsLearn
<1> DEFINE Grows == Status = "model" /\ Status' = "model" =>
                      \A s \in Store!Section, c \in Capture :
                        (disk.doc)'[s][c] # disk.doc[s][c] =>
                          /\ (disk.doc)'[s][c] = disk.doc[s][c] + 1
                          /\ \A t \in Store!Section, d \in Capture :
                               (disk.doc)'[t][d] # disk.doc[t][d] => t = s /\ d = c
<1>1. Inv /\ [Next]_vars => [Grows]_(Store!store)
  <2> SUFFICES ASSUME Inv, Store!Next PROVE Grows
    BY NextStore
  <2>1. disk.doc \in [Feature -> Bag] /\ Store!Section = Feature
    BY NothingIs DEF Inv, TypeOK
  <2>2. CASE Store!Damage \/ Store!Remove
    BY <2>2 DEF Store!Damage, Store!Remove, Store!Clear
  <2>3. ASSUME NEW s \in Feature, NEW c \in Capture, Store!Absorb(s, c)
        PROVE  Grows
    <3>1. disk'.doc = [disk.doc EXCEPT ![s][c] = @ + 1]
      BY <2>3 DEF Store!Absorb
    <3>2. \A t \in Feature, d \in Capture :
            disk'.doc[t][d] = disk.doc[t][d] + (IF t = s /\ d = c THEN 1 ELSE 0)
      BY <2>1, <3>1 DEF Bag
    <3>3. \A t \in Feature, d \in Capture : disk.doc[t][d] \in Nat
      BY <2>1 DEF Bag
    <3> QED
      BY <2>1, <3>2, <3>3
  <2> QED
    BY <2>1, <2>2, <2>3 DEF Store!Next, Store!Save, Store!CutShort
<1> QED
  BY <1>1, Invariance, PTL DEF Spec, SectionsLearn, Store!Learns
=============================================================================
