---------------------------- MODULE SharedModel ----------------------------
(***************************************************************************)
(* Several instances of pcap_analyzer learn in one directory at the same   *)
(* time: the steps of PcapAnalyzer that touch model.json, for processes    *)
(* that share the file and no lock.  A process has a FILE buffer of its    *)
(* own, which reaches the disk as a whole (the document fits into it) at   *)
(* the next seek or at the close; a process may be killed anywhere.        *)
(*                                                                         *)
(* As in PcapAnalyzer, a section is the number of times it has absorbed    *)
(* each run; here every process learns once.                               *)
(***************************************************************************)
EXTENDS Integers, FiniteSets

CONSTANTS
  Process,      \* the runs
  NumHandlers,  \* length of handlers_
  MaxFaults     \* bound: kills

ASSUME SharedAssumption == NumHandlers \in Nat \ {0} /\ MaxFaults \in Nat

Feature == 1 .. NumHandlers
EmptyBag == [p \in Process |-> 0]
NoSections == [f \in Feature |-> EmptyBag]
Bag == [Process -> Nat]
Plus(bag, p) == [bag EXCEPT ![p] = @ + 1]
Sum2(a, b) == [p \in Process |-> a[p] + b[p]]

VARIABLES
  disk,     \* model.json; an empty file has no section
  pc,       \* where each process stands
  next,     \* its iterator over handlers_
  mem,      \* its handlers' distributions
  buffer,   \* what it has written last ...
  dirty,    \* ... and whether that is still to be flushed
  met,      \* history: the processes that ran while it did
  last,     \* history: the process that finished last
  faults

processes == <<pc, next, mem, buffer, dirty>>
history == <<met, last>>
vars == <<disk, processes, history, faults>>

Location == {"start", "load", "capture", "save", "merge", "close", "finished", "killed"}
Running(p) == pc[p] \notin {"start", "finished", "killed"}

TypeOK ==
  /\ disk \in [Feature -> Bag]
  /\ pc \in [Process -> Location]
  /\ next \in [Process -> 1 .. NumHandlers + 1]
  /\ mem \in [Process -> [Feature -> Bag]]
  /\ buffer \in [Process -> [Feature -> Bag]]
  /\ dirty \in [Process -> BOOLEAN]
  /\ met \in [Process -> SUBSET Process]
  /\ last \in SUBSET Process
  /\ faults \in 0 .. MaxFaults

Init ==
  /\ disk = NoSections
  /\ pc = [p \in Process |-> "start"]
  /\ next = [p \in Process |-> 1]
  /\ mem = [p \in Process |-> NoSections]
  /\ buffer = [p \in Process |-> NoSections]
  /\ dirty = [p \in Process |-> FALSE]
  /\ met = [p \in Process |-> {}]
  /\ last = {}
  /\ faults = 0

Goto(p, location) == pc' = [pc EXCEPT ![p] = location]
Advance(p) == next' = [next EXCEPT ![p] = @ + 1]
Restart(p) == next' = [next EXCEPT ![p] = 1]

(* The handlers are built and the file is opened for reading.              *)
Start(p) ==
  /\ pc[p] = "start"
  /\ Goto(p, "load")
  /\ met' = [q \in Process |->
               IF q = p THEN {r \in Process : Running(r)}
               ELSE met[q] \cup (IF Running(q) THEN {p} ELSE {})]
  /\ UNCHANGED <<disk, next, mem, buffer, dirty, last, faults>>

(* loadDataFromModel of one handler reads the file anew.                   *)
Loading_Twice(p) == Sum2(disk[next[p]], disk[next[p]])
Loading(p) == Sum2(mem[p][next[p]], disk[next[p]])

LoadSection(p) ==
  /\ pc[p] = "load" /\ next[p] <= NumHandlers
  /\ mem' = [mem EXCEPT ![p][next[p]] = Loading(p)]
  /\ Advance(p)
  /\ UNCHANGED <<disk, pc, buffer, dirty, history, faults>>

Loaded(p) ==
  /\ pc[p] = "load" /\ next[p] > NumHandlers
  /\ Goto(p, "capture")
  /\ UNCHANGED <<disk, next, mem, buffer, dirty, history, faults>>

(* computeDistribution, and the reopening of the file.                     *)
ComputeDistribution(p) ==
  /\ pc[p] = "capture"
  /\ mem' = [mem EXCEPT ![p] = [f \in Feature |-> Plus(@[f], p)]]
  /\ Goto(p, "save")
  /\ Restart(p)
  /\ UNCHANGED <<disk, buffer, dirty, history, faults>>

Flush(p) ==
  /\ disk' = IF dirty[p] THEN buffer[p] ELSE disk
  /\ dirty' = [dirty EXCEPT ![p] = FALSE]

(* saveDataToModel of one handler: the seek flushes what the one before it *)
(* has written ...                                                         *)
SeekToBeginning(p) ==
  /\ pc[p] = "save" /\ next[p] <= NumHandlers
  /\ Flush(p)
  /\ Goto(p, "merge")
  /\ UNCHANGED <<next, mem, buffer, history, faults>>

(* ... and the whole document is read and written with one new section.    *)
Merged_OnlyThis(p) == [NoSections EXCEPT ![next[p]] = mem[p][next[p]]]
Merged(p) == [disk EXCEPT ![next[p]] = mem[p][next[p]]]

MergeSection(p) ==
  /\ pc[p] = "merge"
  /\ buffer' = [buffer EXCEPT ![p] = Merged(p)]
  /\ dirty' = [dirty EXCEPT ![p] = TRUE]
  /\ Advance(p)
  /\ Goto(p, "save")
  /\ UNCHANGED <<disk, mem, history, faults>>

SaveDone(p) ==
  /\ pc[p] = "save" /\ next[p] > NumHandlers
  /\ Goto(p, "close")
  /\ UNCHANGED <<disk, next, mem, buffer, dirty, history, faults>>

CloseModel_Unflushed(p) ==
  /\ pc[p] = "close"
  /\ Goto(p, "finished")
  /\ last' = {p}
  /\ UNCHANGED <<disk, next, mem, buffer, dirty, met, faults>>
CloseModel(p) ==
  /\ pc[p] = "close"
  /\ Flush(p)
  /\ Goto(p, "finished")
  /\ last' = {p}
  /\ UNCHANGED <<next, mem, buffer, met, faults>>

Kill(p) ==
  /\ Running(p)
  /\ faults < MaxFaults
  /\ faults' = faults + 1
  /\ Goto(p, "killed")
  /\ UNCHANGED <<disk, next, mem, buffer, dirty, history>>

Next ==
  \E p \in Process :
    \/ Start(p) \/ LoadSection(p) \/ Loaded(p) \/ ComputeDistribution(p)
    \/ SeekToBeginning(p) \/ MergeSection(p) \/ SaveDone(p) \/ CloseModel(p)
    \/ Kill(p)

Spec == Init /\ [][Next]_vars
-----------------------------------------------------------------------------
(* Properties.                                                             *)

(* However the saves interleave, saveDataToModel never writes a run into a *)
(* section twice, although every process writes back what the others have  *)
(* learned.                                                                *)
CountedOnce == \A f \in Feature, p \in Process : disk[f][p] <= 1

(* A run that no other overlaps is in every section, and later ones that   *)
(* do overlap each other do not take it out again.                         *)
AloneIsKept ==
  \A p \in Process : pc[p] = "finished" /\ met[p] = {} => \A f \in Feature : disk[f][p] = 1

(* Of runs that overlap any may be lost, the one that finishes last        *)
(* included, and the sections that remain need not be of the same runs; yet*)
(* once a run has finished the first section is never without one, and when*)
(* nobody was killed and nobody is about to write, the last section is not *)
(* without the run that finished last.                                     *)
Saving(p) == pc[p] \in {"save", "merge", "close"}
SomeoneIsKept ==
  last # {} =>
    /\ \E p \in Process : disk[1][p] = 1
    /\ faults = 0 /\ (\A p \in Process : ~Saving(p)) =>
         \A p \in last : disk[NumHandlers][p] = 1
-----------------------------------------------------------------------------
(* Why CountedOnce and AloneIsKept hold: an inductive invariant.           *)

Learned(p) == pc[p] \notin {"start", "load", "capture"}

ControlInv ==
  \A p \in Process :
    /\ pc[p] = "start" => next[p] = 1
    /\ pc[p] = "merge" => next[p] <= NumHandlers
    /\ pc[p] = "close" => next[p] = NumHandlers + 1
    /\ pc[p] = "merge" \/ ~Learned(p) => ~dirty[p]

(* Nobody knows of a run that has not read its capture, and nobody has     *)
(* absorbed another run twice.                                             *)
OnceInv ==
  /\ \A f \in Feature, p \in Process :
       /\ disk[f][p] <= 1
       /\ \A q \in Process : mem[q][f][p] <= 1 /\ buffer[q][f][p] <= 1
       /\ ~Learned(p) => /\ disk[f][p] = 0
                         /\ \A q \in Process : mem[q][f][p] = 0 /\ buffer[q][f][p] = 0
  /\ \A q \in Process, f \in Feature :
       pc[q] \in {"start", "load"} /\ f >= next[q] => mem[q][f] = EmptyBag

(* What q holds of the run p, if it has loaded the section.                *)
Keeps(q, p) ==
  \A f \in Feature :
    /\ mem[q][f][p] = 1 \/ (pc[q] = "load" /\ f >= next[q])
    /\ dirty[q] => buffer[q][f][p] = 1

(* A run that meets no other has the file for itself and finds in it what  *)
(* it has saved; once it has finished every process that runs has it from  *)
(* there.                                                                  *)
HasOwn(p) == Saving(p) => \A f \in Feature : mem[p][f][p] = 1
RunsAlone(p) == met[p] = {} /\ Running(p) => \A q \in Process \ {p} : ~Running(q)
HasSaved(p) ==
  met[p] = {} /\ Saving(p) => \A f \in Feature : f < next[p] =>
    IF dirty[p] THEN buffer[p][f][p] = 1 ELSE disk[f][p] = 1
IsPassedOn(p) ==
  met[p] = {} /\ pc[p] = "finished" =>
    /\ \A f \in Feature : disk[f][p] = 1
    /\ \A q \in Process : Running(q) => Keeps(q, p)

KeptInv == \A p \in Process : HasOwn(p) /\ RunsAlone(p) /\ HasSaved(p) /\ IsPassedOn(p)

(* What a run is about to bring to the disk has somebody in its first      *)
(* section, where the disk has somebody once a run has come past it, and,  *)
(* after its last merge, itself in the last one.                           *)
Someone(bag) == \E p \in Process : bag[p] = 1
BringsSomeone(p) ==
  /\ dirty[p] => Someone(buffer[p][1])
  /\ Saving(p) /\ next[p] > 1 /\ ~dirty[p] => Someone(disk[1])
BringsItself(p) ==
  pc[p] \in {"save", "close"} /\ next[p] > NumHandlers =>
    dirty[p] /\ buffer[p][NumHandlers][p] = 1

WrittenInv == SomeoneIsKept /\ \A p \in Process : BringsSomeone(p) /\ BringsItself(p)

SharedInv == TypeOK /\ ControlInv /\ OnceInv /\ KeptInv /\ WrittenInv
=============================================================================
