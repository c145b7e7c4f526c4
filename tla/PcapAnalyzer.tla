---------------------------- MODULE PcapAnalyzer ----------------------------
(***************************************************************************)
(* One directory, one model.json, and a sequence of runs of pcap_analyzer  *)
(* in it: main() drives a TestHandlerContainer through the model load, the *)
(* capture and either the save of the model (learning) or the tests        *)
(* (analysis).  Every handler keeps its own section of the one model file  *)
(* and saves it by reading the whole file, replacing its section and       *)
(* writing the whole file back in place.                                   *)
(*                                                                         *)
(* A section is abstracted to the number of learning runs on each capture  *)
(* it has absorbed; the handlers' own data are the subject of the modules  *)
(* named after them.  A run may be killed, and a write may fail, at any    *)
(* point (MaxFaults bounds how often).                                     *)
(***************************************************************************)
EXTENDS Integers

CONSTANTS
  Capture,      \* the traffic a run can be given: a capture file or a live session
  NumHandlers,  \* length of the container's handler list (3 in main)
  CommandLine,  \* the command lines an operator types
  MaxAttempts,  \* bound: learning runs per capture
  MaxFaults     \* bound: kills and failed writes

Option == {"-h", "-l", "-a", "-c", "-f", "-o", "-d"}

(* bare is the option that ends argv, so that getCmdOption returns NULL    *)
(* for it; seconds is what atoi makes of the value of -d.                  *)
Arguments ==
  {args \in [flags : SUBSET Option, bare : Option \cup {"none"}, seconds : Nat] :
     args.bare \in args.flags \cup {"none"}}

ASSUME ConstantsAssumption ==
  /\ NumHandlers \in Nat \ {0}
  /\ CommandLine \subseteq Arguments
  /\ MaxAttempts \in Nat
  /\ MaxFaults \in Nat

Feature == 1 .. NumHandlers            \* handlers in list order
Bag == [Capture -> Nat]
EmptyBag == [c \in Capture |-> 0]
NoSections == [f \in Feature |-> EmptyBag]
Plus(bag, c) == [bag EXCEPT ![c] = @ + 1]
Sum2(a, b) == [c \in Capture |-> a[c] + b[c]]

VARIABLES
  disk,      \* model.json: its kind, its sections, the sections whose text is garbled
  pc,        \* where main() stands; "idle" between two runs
  mode,      \* typeOfData
  live,      \* isLive
  duration,  \* seconds of a live capture
  cap,       \* the capture of this run
  handle,    \* captureHandler: "none", "null" or "ready"
  mem,       \* the handlers' model distributions
  test,      \* the handlers' test distributions
  next,      \* position of the iterator over handlers_
  isOpen,    \* modelFile has an open file
  buffer,    \* the document last written to modelFile ...
  dirty,     \* ... and not yet flushed to the disk
  outcome,   \* how the last run ended
  attempts,  \* learning runs started on each capture
  faults     \* kills and failed writes so far

process == <<mode, live, duration, cap, handle, mem, test, next, isOpen, buffer>>
vars == <<disk, pc, process, dirty, outcome, attempts, faults>>

(* Of the texts that do not parse, "blank" ones are without a model (a     *)
(* newline, say) and "torn" ones, left by an interrupted write, have one   *)
(* before the error.  Of those that do, "doc" has a model, "bare" is null  *)
(* or an object without one, and "other" has no place for one: a number or *)
(* an array, as the root or as its "model".                                *)
FileKind == {"absent", "empty", "blank", "bare", "other", "doc", "torn"}
Parses(kind) == kind \in {"bare", "other", "doc"}
Location == {"idle", "exists", "source", "open", "load", "capture", "reopen",
             "save", "merge", "tests", "close"}
Ending == {"none", "ok", "error", "terminate", "segv", "killed"}

File(kind) == [kind |-> kind, doc |-> NoSections, garbled |-> {}]
Document(doc, garbled) == [kind |-> "doc", doc |-> doc, garbled |-> garbled]

TypeOK ==
  /\ disk \in [kind : FileKind, doc : [Feature -> Bag], garbled : SUBSET Feature]
  /\ pc \in Location
  /\ mode \in {"learning", "analysis"}
  /\ live \in BOOLEAN
  /\ duration \in Nat
  /\ cap \in Capture
  /\ handle \in {"none", "null", "ready"}
  /\ mem \in [Feature -> Bag]
  /\ test \in [Feature -> Bag]
  /\ next \in 1 .. NumHandlers + 1
  /\ isOpen \in BOOLEAN
  /\ buffer \in [Feature -> Bag]
  /\ dirty \in BOOLEAN
  /\ outcome \in Ending
  /\ attempts \in Bag
  /\ faults \in 0 .. MaxFaults

Init ==
  /\ disk \in {File(kind) : kind \in FileKind \ {"doc", "torn"}}
  /\ pc = "idle"
  /\ mode = "learning"
  /\ live = FALSE
  /\ duration = 10
  /\ cap \in Capture
  /\ handle = "none"
  /\ mem = NoSections
  /\ test = NoSections
  /\ next = 1
  /\ isOpen = FALSE
  /\ buffer = NoSections
  /\ dirty = FALSE
  /\ outcome = "none"
  /\ attempts = EmptyBag
  /\ faults = 0

(* The process is gone; what it had not flushed is lost with it.           *)
Exit(ending) ==
  /\ pc' = "idle"
  /\ outcome' = ending
  /\ dirty' = FALSE
  /\ UNCHANGED process

Goto(location) ==
  /\ pc' = location
  /\ UNCHANGED <<outcome, dirty>>

-----------------------------------------------------------------------------
(* The command line (pcap_analyzer.c, main).                               *)

ModeError(args) == \/ "-h" \in args.flags
                   \/ ("-l" \in args.flags) = ("-a" \in args.flags)
SourceError(args) == ("-f" \in args.flags) = ("-o" \in args.flags)
NoCriticalValue(args) == "-a" \in args.flags /\ args.bare = "-c"
NoSourceValue(args) == \/ args.bare \in {"-f", "-o"}
                       \/ args.bare = "-d" /\ "-o" \in args.flags

(* atof and atoi of NULL, or a string made from NULL, end the process; the *)
(* critical value is read before the sources are compared.                 *)
MissingValue(args) ==
  /\ ~ModeError(args)
  /\ NoCriticalValue(args) \/ (~SourceError(args) /\ NoSourceValue(args))

Rejected(args) ==
  ModeError(args) \/ (SourceError(args) /\ ~NoCriticalValue(args))

BadCommandLine(args) ==
  /\ pc = "idle"
  /\ \/ Rejected(args) /\ outcome' = "error"
     \/ MissingValue(args) /\ outcome' \in {"segv", "terminate"}
  /\ UNCHANGED <<disk, pc, process, dirty, attempts, faults>>

StartRun(args, c) ==
  /\ pc = "idle"
  /\ ~Rejected(args) /\ ~MissingValue(args)
  /\ pc' = "exists"
  /\ mode' = IF "-l" \in args.flags THEN "learning" ELSE "analysis"
  /\ live' = ("-o" \in args.flags)
  /\ duration' = IF "-d" \in args.flags /\ "-o" \in args.flags THEN args.seconds ELSE 10
  /\ cap' = c
  /\ handle' = "none"
  /\ mem' = NoSections
  /\ test' = NoSections
  /\ next' = 1
  /\ isOpen' = FALSE
  /\ buffer' = NoSections
  /\ dirty' = FALSE
  /\ outcome' = "none"
  /\ IF mode' = "learning"
       THEN attempts[c] < MaxAttempts /\ attempts' = Plus(attempts, c)
       ELSE UNCHANGED attempts
  /\ UNCHANGED <<disk, faults>>

-----------------------------------------------------------------------------
(* Up to the capture.                                                      *)

CheckModelExists ==
  /\ pc = "exists"
  /\ IF mode = "analysis" /\ disk.kind = "absent"
       THEN Exit("error")
       ELSE Goto("source") /\ UNCHANGED process
  /\ UNCHANGED <<disk, attempts, faults>>

(* pcap_open_live's result is not checked, pcap_fopen_offline's is.        *)
OpenSource ==
  /\ pc = "source"
  /\ \/ Exit("error")
     \/ /\ handle' \in IF live THEN {"ready", "null"} ELSE {"ready"}
        /\ Goto("open")
        /\ UNCHANGED <<mode, live, duration, cap, mem, test, next, isOpen, buffer>>
  /\ UNCHANGED <<disk, attempts, faults>>

(* The iterator over handlers_.                                            *)
Advance == next' = next + 1

(* The handler of ios_base::failure around the load.                       *)
LoadFailed_Ignored == Goto("capture") /\ UNCHANGED process
LoadFailed_Retried == IF mode = "analysis" THEN Exit("error")
                                           ELSE Goto("open") /\ UNCHANGED process
LoadFailed == IF mode = "analysis" THEN Exit("error")
                                   ELSE Goto("capture") /\ UNCHANGED process

(* Setting the exception mask throws when the open before it has failed.   *)
OpenModel ==
  /\ pc = "open"
  /\ IF disk.kind = "absent"
       THEN LoadFailed
       ELSE /\ isOpen' = TRUE
            /\ Goto("load")
            /\ UNCHANGED <<mode, live, duration, cap, handle, mem, test, next, buffer>>
  /\ UNCHANGED <<disk, attempts, faults>>

(* loadDataFromModel of handler next: the section is added to the data the *)
(* handler has.  A text without a model has empty sections.  operator[]    *)
(* aborts where no model can be, and a garbled section may make the JSON   *)
(* conversions throw what nobody catches.                                  *)
Loading == [mem EXCEPT ![next] = Sum2(@, disk.doc[next])]

LoadSection ==
  /\ pc = "load"
  /\ next <= NumHandlers
  /\ \/ ~Parses(disk.kind) /\ LoadFailed
     \/ /\ disk.kind \in {"doc", "bare"}
        /\ mem' = Loading
        /\ Advance
        /\ Goto("load")
        /\ UNCHANGED <<mode, live, duration, cap, handle, test, isOpen, buffer>>
     \/ (disk.kind = "other" \/ next \in disk.garbled) /\ Exit("terminate")
  /\ UNCHANGED <<disk, attempts, faults>>

Loaded ==
  /\ pc = "load"
  /\ next > NumHandlers
  /\ Goto("capture")
  /\ UNCHANGED <<disk, process, attempts, faults>>

(* pcap_loop has returned and initCapture has run: each handler has        *)
(* absorbed the capture, on the side typeOfData chooses.                   *)
Absorb ==
  /\ pc = "capture"
  /\ handle = "ready"
  /\ IF mode = "learning"
       THEN /\ mem' = [f \in Feature |-> Plus(mem[f], cap)]
            /\ UNCHANGED test
            /\ Goto("reopen")
       ELSE /\ test' = [f \in Feature |-> Plus(test[f], cap)]
            /\ UNCHANGED mem
            /\ Goto("tests")
  /\ UNCHANGED <<disk, mode, live, duration, cap, handle, next, isOpen, buffer,
                 attempts, faults>>

(* A live capture ends when the alarm fires, and alarm(0) sets none.       *)
ComputeDistribution == (live => duration > 0) /\ Absorb

(* pcap_loop returns an error and its result is not looked at.             *)
CaptureBreaks == live /\ Absorb

NullHandle ==
  /\ pc = "capture"
  /\ handle = "null"
  /\ Exit("segv")
  /\ UNCHANGED <<disk, attempts, faults>>

-----------------------------------------------------------------------------
(* Learning: the save of the model, one handler after the other.           *)

FirstSaved_Skipped == 2
FirstSaved == 1

(* close() of a stream with no open file sets failbit, which throws, and   *)
(* no try block is active.                                                 *)
ReopenModel ==
  /\ pc = "reopen"
  /\ IF isOpen
       THEN /\ next' = FirstSaved
            /\ Goto("save")
            /\ UNCHANGED <<mode, live, duration, cap, handle, mem, test, isOpen, buffer>>
       ELSE Exit("terminate")
  /\ UNCHANGED <<disk, attempts, faults>>

Flushed == IF dirty THEN buffer ELSE disk.doc
Flush == disk' = IF dirty THEN Document(buffer, disk.garbled) ELSE disk

(* saveDataToModel of handler next, to the seek to the beginning: it       *)
(* flushes what the previous handler has written.                          *)
SeekToBeginning_Unflushed ==
  /\ pc = "save"
  /\ next <= NumHandlers
  /\ pc' = "merge"
  /\ UNCHANGED <<disk, dirty, process, outcome, attempts, faults>>
SeekToBeginning ==
  /\ pc = "save"
  /\ next <= NumHandlers
  /\ Flush
  /\ dirty' = FALSE
  /\ pc' = "merge"
  /\ UNCHANGED <<process, outcome, attempts, faults>>

(* A text that does not parse but has a model makes it return early.       *)
GivesUp_Never == FALSE
GivesUp == disk.kind = "torn"

(* The document just read, with the handler's section replaced.            *)
Merged_Added == [disk.doc EXCEPT ![next] = Sum2(@, mem[next])]
Merged_AllSections == mem
Merged == [disk.doc EXCEPT ![next] = mem[next]]

(* The rest of it: read the file, replace the section, write the document. *)
(* (Without a place for a model it would abort, but the load did before.)  *)
MergeSection ==
  /\ pc = "merge"
  /\ pc' = "save"
  /\ Advance
  /\ IF GivesUp
       THEN UNCHANGED <<buffer, dirty>>
       ELSE /\ buffer' = Merged
            /\ dirty' = TRUE
  /\ UNCHANGED <<disk, mode, live, duration, cap, handle, mem, test, isOpen,
                 outcome, attempts, faults>>

(* "Done learning from this capture."                                      *)
SaveDone ==
  /\ pc = "save"
  /\ next > NumHandlers
  /\ Goto("close")
  /\ UNCHANGED <<disk, process, attempts, faults>>

(* Analysis: runTests and printTestsResults.                               *)
RunTests ==
  /\ pc = "tests"
  /\ Goto("close")
  /\ UNCHANGED <<disk, process, attempts, faults>>

CloseModel_Unflushed ==
  /\ pc = "close"
  /\ Exit("ok")
  /\ UNCHANGED <<disk, attempts, faults>>
CloseModel ==
  /\ pc = "close"
  /\ Flush
  /\ Exit("ok")
  /\ UNCHANGED <<attempts, faults>>

-----------------------------------------------------------------------------
(* Faults.  The stream's buffer reaches the disk in blocks, in place and   *)
(* without truncation: an interrupted write leaves the old text, the new   *)
(* one, or a new prefix before an old suffix (JsonDocument has the bytes). *)
(* Such a mixture mostly does not parse; when it does, sections from the   *)
(* one being replaced on may be garbled.  Over a text without a model the  *)
(* prefix may be too short to have one, and the mixture may parse or not.  *)
Interrupted ==
  \/ UNCHANGED disk
  \/ /\ dirty
     /\ \/ Flush
        \/ disk' = File("torn")
        \/ disk.kind # "doc" /\ disk' = File("blank")
        \/ disk.kind \in {"blank", "bare"} /\ disk' \in {File("bare"), File("other")}
        \/ /\ disk.kind # "empty"
           /\ \E cut \in SUBSET {f \in Feature : f >= next - 1} :
                disk' = Document(buffer, disk.garbled \cup cut)

Fault ==
  /\ faults < MaxFaults
  /\ faults' = faults + 1
  /\ Interrupted
  /\ UNCHANGED attempts

Kill == pc # "idle" /\ Fault /\ Exit("killed")

(* badbit throws: inside the try block around saveModel, and outside any   *)
(* at the last close.                                                      *)
WriteFails ==
  /\ dirty
  /\ Fault
  /\ \/ pc = "save" /\ Exit("error")
     \/ pc = "close" /\ Exit("terminate")

(* The operator, between runs: touch model.json, rm model.json.            *)
CreateModel ==
  /\ pc = "idle" /\ disk.kind = "absent"
  /\ disk' = File("empty")
  /\ UNCHANGED <<pc, process, dirty, outcome, attempts, faults>>

RemoveModel ==
  /\ pc = "idle" /\ disk.kind # "absent"
  /\ disk' = File("absent")
  /\ UNCHANGED <<pc, process, dirty, outcome, attempts, faults>>

-----------------------------------------------------------------------------
(* The steps the scheduled process takes by itself.                        *)
Program ==
  \/ CheckModelExists \/ OpenSource \/ OpenModel \/ LoadSection \/ Loaded
  \/ ComputeDistribution \/ NullHandle \/ ReopenModel
  \/ SeekToBeginning \/ MergeSection \/ SaveDone \/ RunTests \/ CloseModel

Environment ==
  \/ \E args \in CommandLine : BadCommandLine(args) \/ \E c \in Capture : StartRun(args, c)
  \/ CaptureBreaks \/ Kill \/ WriteFails \/ CreateModel \/ RemoveModel

Next == Program \/ Environment

Spec == Init /\ [][Next]_vars

(* A running process is scheduled; nothing but the capture blocks it.      *)
FairSpec == Spec /\ WF_vars(Program)
-----------------------------------------------------------------------------
(* Properties.  A garbled section is one an interrupted write has mixed:   *)
(* nothing is promised of it.                                              *)

Sound(f) == f \notin disk.garbled

(* A section never holds a capture more often than learning runs on it     *)
(* were started, through kills, failed writes and runs done again: loading *)
(* and saving a section (loadDataFromModel, saveDataToModel) counts what   *)
(* it holds once.                                                          *)
NeverOvercounted ==
  \A f \in Feature, c \in Capture : Sound(f) => disk.doc[f][c] <= attempts[c]

(* saveModel saves in the order of handlers_, so a later handler's section *)
(* never knows of a run that an earlier one's does not.                    *)
SavedInHandlerOrder ==
  \A f, g \in Feature, c \in Capture :
    f < g /\ Sound(f) /\ Sound(g) => disk.doc[f][c] >= disk.doc[g][c]

(* Between runs two sections differ by no more runs than were interrupted: *)
(* without a fault all the features of the model describe the same traffic,*)
(* although each is saved by a read and a write of its own.                *)
SectionsDriftByFaults ==
  pc = "idle" =>
    \A f, g \in Feature, c \in Capture :
      Sound(f) /\ Sound(g) => disk.doc[f][c] - disk.doc[g][c] <= faults

(* The tests compare this run's capture alone with everything the file     *)
(* holds: no analysis reaches runTests with a part of the model, with its  *)
(* own packets in it or after a text that does not parse.  (One that parses*)
(* and has no model loads as an empty one, although line 138 says that an  *)
(* analysis needs a model.)                                                *)
TestsSeeWholeModel ==
  pc = "tests" => /\ Parses(disk.kind)
                  /\ mem = disk.doc
                  /\ test = [f \in Feature |-> Plus(EmptyBag, cap)]

(* Nothing changes the file but a learning run that has its capture; an    *)
(* analysis leaves it alone however it ends.                               *)
OnlyLearningWrites ==
  [][disk' # disk => pc = "idle" \/ (mode = "learning" /\ pc \in {"save", "close"})]_vars

(* A run that ends well leaves in the file what its handlers hold: the     *)
(* model it loaded and its capture.  The code keeps this for a file it can *)
(* parse.                                                                  *)
NormalExitSavesUnlessTorn ==
  [][pc = "close" /\ outcome' = "ok" /\ mode = "learning" /\ disk.kind # "torn"
       => disk'.kind = "doc" /\ disk'.doc = mem]_vars

(* report.tex: "The DataToJson method is to save the model to the model    *)
(* file after a learning session".                                         *)
NormalExitSaves ==
  [][pc = "close" /\ outcome' = "ok" /\ mode = "learning"
       => disk'.kind = "doc" /\ disk'.doc = mem]_vars

(* No run writes to a file with a model that does not parse: the early     *)
(* return of saveDataToModel keeps it for the operator.                    *)
TornIsKept == [][disk.kind = "torn" /\ disk' # disk => pc = "idle"]_vars

(* pcap_analyzer.c, line 135: "Model file does not seems to exist or is    *)
(* empty. Creating one...".  An undisturbed learning run that has read its *)
(* capture leaves a model.                                                 *)
MissingModelIsCreated ==
  [][pc = "reopen" /\ pc' = "idle" => disk'.kind = "doc" \/ outcome' = "killed"]_vars

(* Every run ends, whatever file and capture it is given, but a live       *)
(* session of no seconds: the usage has -d as the duration of a live       *)
(* capture, and alarm(0) sets no alarm.                                    *)
HasNoAlarm == pc = "capture" /\ live /\ duration = 0
EveryRunEnds == pc # "idle" ~> pc = "idle" \/ HasNoAlarm

(* What the program makes of model.json, as its operator sees it.          *)
Status == CASE disk.kind = "doc"  -> "model"
            [] disk.kind = "torn" -> "damaged"
            [] OTHER              -> "none"

Store == INSTANCE ModelStore WITH
           NumSections <- NumHandlers, known <- disk.doc, lost <- disk.garbled,
           status <- Status

(* The reads and writes of the whole file by the handlers, one after the   *)
(* other, amount to one section absorbing this run's capture at a time.    *)
ImplementsStore == Store!Spec

(* A model the program can read never forgets a capture, whatever is       *)
(* interrupted, and learns of one in one section at a time.                *)
SectionsLearn == Store!Learns

-----------------------------------------------------------------------------
(* Why the safety properties hold: an inductive invariant.                 *)

Learning == mode = "learning" /\ pc # "idle"

(* The run is past the reopening of the file, so that the handlers before  *)
(* next have written their sections.                                       *)
Saving == mode = "learning" /\ pc \in {"save", "merge", "close"}

Written(f) == Saving /\ f < next
Mine(f, c) == IF Written(f) /\ c = cap THEN 1 ELSE 0
Pending(f, c) == IF Learning /\ ~Written(f) /\ c = cap THEN 1 ELSE 0

(* The file, and what stands between a write and its flush.                *)
FileInv ==
  /\ disk.kind # "doc" => disk.doc = NoSections /\ disk.garbled = {}
  /\ dirty => /\ Saving /\ pc # "merge"
              /\ disk.kind # "torn"
              /\ next > 1
              /\ buffer = [disk.doc EXCEPT ![next - 1] = Plus(disk.doc[next - 1], cap)]

(* The place in main() and the iterator over the handlers.                 *)
ControlInv ==
  /\ pc \in {"reopen", "save", "merge"} => mode = "learning"
  /\ pc = "tests" => mode = "analysis"
  /\ pc = "load" /\ next > 1 => disk.kind \in {"doc", "bare"}
  /\ mode = "analysis" /\ pc \in {"capture", "tests"} => disk.kind \in {"doc", "bare"}
  /\ pc \in {"capture", "reopen", "save", "merge", "tests", "close"} => disk.kind # "other"
  /\ pc = "merge" => next <= NumHandlers
  /\ pc = "close" /\ mode = "learning" => next = NumHandlers + 1
  /\ Saving /\ next > 1 => disk.kind \in {"doc", "torn"} \/ dirty

(* What the handlers hold, against what is in the file.                    *)
MemoryInv ==
  /\ pc \in {"exists", "source", "open"} => mem = NoSections /\ next = 1
  /\ pc = "load" =>
       \A f \in Feature : mem[f] = IF f < next THEN disk.doc[f] ELSE EmptyBag
  /\ pc = "capture" => mem = disk.doc
  /\ pc = "reopen" => \A f \in Feature : mem[f] = Plus(disk.doc[f], cap)
  /\ Saving /\ disk.kind # "torn" =>
       \A f \in Feature : mem[f] = IF f < next THEN Flushed[f] ELSE Plus(Flushed[f], cap)
  /\ pc \in {"exists", "source", "open", "load", "capture"} => test = NoSections
  /\ pc = "tests" => mem = disk.doc /\ test = [f \in Feature |-> Plus(EmptyBag, cap)]

(* Every learning run counts at most once in every section.                *)
CountInv ==
  \A f \in Feature, c \in Capture : Flushed[f][c] + Pending(f, c) <= attempts[c]

(* Take away what this run has written: the sections are in order, and as  *)
(* far apart as runs were interrupted.                                     *)
DriftInv ==
  disk.kind # "torn" =>
    \A f, g \in Feature, c \in Capture : f < g =>
      /\ Flushed[f][c] - Mine(f, c) >= Flushed[g][c] - Mine(g, c)
      /\ Flushed[f][c] - Mine(f, c) <= Flushed[g][c] - Mine(g, c) + faults

Inv == TypeOK /\ FileInv /\ ControlInv /\ MemoryInv /\ CountInv /\ DriftInv
=============================================================================
