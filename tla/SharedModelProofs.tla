------------------------- MODULE SharedModelProofs -------------------------
(* The theorems about SharedModel, for every set of processes, any number  *)
(* of handlers and of kills.                                               *)
EXTENDS SharedModel, TLAPS

LEMMA Bounds == NumHandlers \in Nat /\ NumHandlers >= 1 /\ MaxFaults \in Nat
BY SharedAssumption

LEMMA Sections ==
  /\ EmptyBag \in Bag /\ NoSections \in [Feature -> Bag]
  /\ \A p \in Process : EmptyBag[p] = 0
BY DEF EmptyBag, NoSections, Bag

LEMMA Sum2Is ==
  ASSUME NEW a \in Bag, NEW b \in Bag
  PROVE  Sum2(a, b) \in Bag /\ \A p \in Process : Sum2(a, b)[p] = a[p] + b[p]
BY DEF Sum2, Bag

LEMMA PlusIs ==
  ASSUME NEW bag \in Bag, NEW q \in Process
  PROVE  /\ Plus(bag, q) \in Bag
         /\ \A p \in Process : Plus(bag, q)[p] = bag[p] + (IF p = q THEN 1 ELSE 0)
BY DEF Plus, Bag

(* What the reading of a capture makes of a process's sections.            *)
LEMMA ComputedIs ==
  ASSUME TypeOK, NEW p \in Process, ComputeDistribution(p)
  PROVE  /\ mem' \in [Process -> [Feature -> Bag]]
         /\ \A q \in Process, f \in Feature, r \in Process :
              mem'[q][f][r] = mem[q][f][r] + (IF q = p /\ r = p THEN 1 ELSE 0)
<1> DEFINE new == [f \in Feature |-> Plus(mem[p][f], p)]
<1>1. mem' = [mem EXCEPT ![p] = new]
  BY DEF ComputeDistribution, TypeOK
<1>2. \A f \in Feature : mem[p][f] \in Bag
  BY DEF TypeOK
<1>3. new \in [Feature -> Bag]
  BY <1>2, PlusIs
<1>4. mem' \in [Process -> [Feature -> Bag]]
  BY <1>1, <1>3 DEF TypeOK
<1>5. ASSUME NEW q \in Process, NEW f \in Feature, NEW r \in Process
      PROVE  mem'[q][f][r] = mem[q][f][r] + (IF q = p /\ r = p THEN 1 ELSE 0)
  <2>1. mem[q][f][r] \in Nat
    BY DEF TypeOK, Bag
  <2>2. CASE q = p
    <3>1. mem'[q][f] = Plus(mem[p][f], p)
      BY <1>1, <2>2 DEF TypeOK
    <3> QED
      BY <3>1, <2>1, <1>2, <2>2, PlusIs
  <2>3. CASE q # p
    BY <1>1, <2>1, <2>3 DEF TypeOK
  <2> QED
    BY <2>2, <2>3
<1> QED
  BY <1>4, <1>5

(* What the loading of a section makes of them.                            *)
LEMMA LoadedIs ==
  ASSUME TypeOK, OnceInv, NEW p \in Process, LoadSection(p)
  PROVE  /\ next[p] \in Feature
         /\ mem' = [mem EXCEPT ![p][next[p]] = disk[next[p]]]
<1>1. next[p] \in Feature
  BY Bounds DEF LoadSection, TypeOK, Feature
<1>2. mem[p][next[p]] = EmptyBag
  BY <1>1 DEF OnceInv, LoadSection, TypeOK, Feature
<1>3. Sum2(EmptyBag, disk[next[p]]) = disk[next[p]]
  <2>1. disk[next[p]] \in Bag
    BY <1>1 DEF TypeOK
  <2>2. \A r \in Process : Sum2(EmptyBag, disk[next[p]])[r] = disk[next[p]][r]
    BY <2>1, Sections, Sum2Is DEF Bag
  <2> QED
    BY <2>1, <2>2 DEF Sum2, Bag
<1> QED
  BY <1>1, <1>2, <1>3 DEF LoadSection, Loading

-----------------------------------------------------------------------------
(* The types and the places.                                               *)

LEMMA InitInv == Init => SharedInv
<1> SUFFICES ASSUME Init PROVE SharedInv
  OBVIOUS
<1> USE Bounds, Sections
<1>1. TypeOK
  BY DEF Init, TypeOK, Location
<1>2. ControlInv
  BY DEF Init, ControlInv
<1>3. OnceInv
  BY DEF Init, OnceInv, NoSections, Learned
<1>4. KeptInv
  BY DEF Init, KeptInv, HasOwn, RunsAlone, HasSaved, IsPassedOn, Saving, Running
<1>5. WrittenInv
  BY DEF Init, WrittenInv, SomeoneIsKept, BringsSomeone, BringsItself, Saving
<1> QED
  BY <1>1, <1>2, <1>3, <1>4, <1>5 DEF SharedInv

LEMMA TypesStay == TypeOK /\ ControlInv /\ OnceInv /\ [Next]_vars => TypeOK'
<1> SUFFICES ASSUME TypeOK, ControlInv, OnceInv, [Next]_vars PROVE TypeOK'
  OBVIOUS
<1> USE Bounds DEF Goto, Advance, Restart, Location, history
<1>1. ASSUME NEW p \in Process, Start(p) PROVE TypeOK'
  <2>1. {r \in Process : Running(r)} \in SUBSET Process
    OBVIOUS
  <2>2. \A q \in Process : met[q] \cup (IF Running(q) THEN {p} ELSE {}) \in SUBSET Process
    BY DEF TypeOK
  <2>3. met' \in [Process -> SUBSET Process]
    BY <1>1, <2>1, <2>2 DEF Start
  <2>4. last' = last /\ faults' = faults /\ disk' = disk /\ next' = next /\ mem' = mem
          /\ buffer' = buffer /\ dirty' = dirty /\ pc' = [pc EXCEPT ![p] = "load"]
    BY <1>1 DEF Start
  <2> QED
    BY <2>3, <2>4 DEF TypeOK
<1>2. ASSUME NEW p \in Process, LoadSection(p) PROVE TypeOK'
  <2>1. next[p] \in Feature /\ mem' = [mem EXCEPT ![p][next[p]] = disk[next[p]]]
    BY <1>2, LoadedIs
  <2>2. mem' \in [Process -> [Feature -> Bag]]
    BY <2>1 DEF TypeOK
  <2>3. next' \in [Process -> 1 .. NumHandlers + 1]
    BY <1>2, <2>1 DEF LoadSection, TypeOK, Feature
  <2> QED
    BY <1>2, <2>2, <2>3 DEF LoadSection, TypeOK
<1>3. ASSUME NEW p \in Process, Loaded(p) PROVE TypeOK'
  BY <1>3 DEF Loaded, TypeOK
<1>4. ASSUME NEW p \in Process, ComputeDistribution(p) PROVE TypeOK'
  <2>1. mem' \in [Process -> [Feature -> Bag]]
    BY <1>4, ComputedIs
  <2> QED
    BY <1>4, <2>1 DEF ComputeDistribution, TypeOK
<1>5. ASSUME NEW p \in Process, SeekToBeginning(p) PROVE TypeOK'
  BY <1>5 DEF SeekToBeginning, Flush, TypeOK
<1>6. ASSUME NEW p \in Process, MergeSection(p) PROVE TypeOK'
  BY <1>6 DEF MergeSection, Merged, ControlInv, TypeOK, Feature
<1>7. ASSUME NEW p \in Process, SaveDone(p) PROVE TypeOK'
  BY <1>7 DEF SaveDone, TypeOK
<1>8. ASSUME NEW p \in Process, CloseModel(p) PROVE TypeOK'
  BY <1>8 DEF CloseModel, Flush, TypeOK
<1>9. ASSUME NEW p \in Process, Kill(p) PROVE TypeOK'
  BY <1>9 DEF Kill, TypeOK
<1>10. ASSUME UNCHANGED vars PROVE TypeOK'
  BY <1>10 DEF vars, processes, TypeOK
<1> QED
  BY <1>1, <1>2, <1>3, <1>4, <1>5, <1>6, <1>7, <1>8, <1>9, <1>10 DEF Next

LEMMA PlacesStay == TypeOK /\ ControlInv /\ [Next]_vars => ControlInv'
<1> SUFFICES ASSUME TypeOK, ControlInv, [Next]_vars PROVE ControlInv'
  OBVIOUS
<1> USE Bounds DEF Goto, Advance, Restart, history, ControlInv, TypeOK, Learned
<1>1. ASSUME NEW p \in Process, Start(p) PROVE ControlInv'
  BY <1>1 DEF Start
<1>2. ASSUME NEW p \in Process, LoadSection(p) PROVE ControlInv'
  BY <1>2 DEF LoadSection
<1>3. ASSUME NEW p \in Process, Loaded(p) PROVE ControlInv'
  BY <1>3 DEF Loaded
<1>4. ASSUME NEW p \in Process, ComputeDistribution(p) PROVE ControlInv'
  BY <1>4 DEF ComputeDistribution
<1>5. ASSUME NEW p \in Process, SeekToBeginning(p) PROVE ControlInv'
  BY <1>5 DEF SeekToBeginning, Flush
<1>6. ASSUME NEW p \in Process, MergeSection(p) PROVE ControlInv'
  BY <1>6 DEF MergeSection
<1>7. ASSUME NEW p \in Process, SaveDone(p) PROVE ControlInv'
  BY <1>7 DEF SaveDone
<1>8. ASSUME NEW p \in Process, CloseModel(p) PROVE ControlInv'
  BY <1>8 DEF CloseModel, Flush
<1>9. ASSUME NEW p \in Process, Kill(p) PROVE ControlInv'
  BY <1>9 DEF Kill
<1>10. ASSUME UNCHANGED vars PROVE ControlInv'
  BY <1>10 DEF vars, processes
<1> QED
  BY <1>1, <1>2, <1>3, <1>4, <1>5, <1>6, <1>7, <1>8, <1>9, <1>10 DEF Next

-----------------------------------------------------------------------------
(* No run is counted twice.                                                *)

LEMMA OnceStays == TypeOK /\ ControlInv /\ OnceInv /\ [Next]_vars => OnceInv'
<1> SUFFICES ASSUME TypeOK, ControlInv, OnceInv, [Next]_vars PROVE OnceInv'
  OBVIOUS
<1> USE Bounds DEF Goto, Advance, Restart, history, Learned
<1> DEFINE Once(d, m, b, f, p) ==
             /\ d[f][p] <= 1
             /\ \A q \in Process : m[q][f][p] <= 1 /\ b[q][f][p] <= 1
           Unknown(d, m, b, f, p) ==
             /\ d[f][p] = 0
             /\ \A q \in Process : m[q][f][p] = 0 /\ b[q][f][p] = 0
<1>1. ASSUME NEW p \in Process, Start(p) PROVE OnceInv'
  BY <1>1 DEF Start, OnceInv, ControlInv, TypeOK
<1>2. ASSUME NEW p \in Process, LoadSection(p) PROVE OnceInv'
  <2>1. next[p] \in Feature /\ mem' = [mem EXCEPT ![p][next[p]] = disk[next[p]]]
    BY <1>2, LoadedIs
  <2>2. \A q \in Process, f \in Feature, r \in Process :
          mem'[q][f][r] = mem[q][f][r] \/ mem'[q][f][r] = disk[f][r]
    BY <2>1 DEF TypeOK
  <2>3. UNCHANGED <<disk, buffer, pc>> /\ next' = [next EXCEPT ![p] = next[p] + 1]
    BY <1>2 DEF LoadSection
  <2>4. ASSUME NEW f \in Feature, NEW r \in Process
        PROVE  Once(disk', mem', buffer', f, r)
                 /\ (~Learned(r)' => Unknown(disk', mem', buffer', f, r))
    BY <2>2, <2>3 DEF OnceInv
  <2>5. ASSUME NEW q \in Process, NEW f \in Feature, pc'[q] \in {"start", "load"}, f >= next'[q]
        PROVE  mem'[q][f] = EmptyBag
    <3>1. f >= next[q] /\ (q = p => f # next[p])
      BY <2>3, <2>5 DEF TypeOK, Feature
    <3>2. mem'[q][f] = mem[q][f]
      BY <2>1, <3>1 DEF TypeOK
    <3> QED
      BY <2>3, <2>5, <3>1, <3>2 DEF OnceInv
  <2> QED
    BY <2>4, <2>5 DEF OnceInv
<1>3. ASSUME NEW p \in Process, Loaded(p) PROVE OnceInv'
  BY <1>3 DEF Loaded, OnceInv, TypeOK
<1>4. ASSUME NEW p \in Process, ComputeDistribution(p) PROVE OnceInv'
  <2>1. \A q \in Process, f \in Feature, r \in Process :
          mem'[q][f][r] = mem[q][f][r] + (IF q = p /\ r = p THEN 1 ELSE 0)
    BY <1>4, ComputedIs
  <2>2. \A q \in Process \ {p} : mem'[q] = mem[q]
    BY <1>4 DEF ComputeDistribution, TypeOK
  <2>3. UNCHANGED <<disk, buffer>> /\ pc' = [pc EXCEPT ![p] = "save"]
          /\ next' = [next EXCEPT ![p] = 1] /\ pc[p] = "capture"
    BY <1>4 DEF ComputeDistribution
  <2>4. ASSUME NEW f \in Feature, NEW r \in Process
        PROVE  Once(disk', mem', buffer', f, r)
                 /\ (~Learned(r)' => Unknown(disk', mem', buffer', f, r))
    <3>1. \A q \in Process : mem[q][f][r] \in Nat
      BY DEF TypeOK, Bag
    <3>2. CASE r = p
      <4>1. ~Learned(p) /\ Learned(p)'
        BY <2>3 DEF TypeOK
      <4>2. Unknown(disk, mem, buffer, f, p)
        BY <4>1 DEF OnceInv
      <4>3. \A q \in Process : mem'[q][f][p] \in {0, 1}
        BY <2>1, <4>2
      <4> QED
        BY <2>3, <3>2, <4>1, <4>2, <4>3
    <3>3. CASE r # p
      <4>1. \A q \in Process : mem'[q][f][r] = mem[q][f][r]
        BY <2>1, <3>1, <3>3
      <4>2. Learned(r)' <=> Learned(r)
        BY <2>3, <3>3 DEF TypeOK
      <4>3. Once(disk, mem, buffer, f, r) /\ (~Learned(r) => Unknown(disk, mem, buffer, f, r))
        BY DEF OnceInv
      <4> QED
        BY <2>3, <4>1, <4>2, <4>3
    <3> QED
      BY <3>2, <3>3
  <2>5. ASSUME NEW q \in Process, NEW f \in Feature, pc'[q] \in {"start", "load"}, f >= next'[q]
        PROVE  mem'[q][f] = EmptyBag
    BY <2>2, <2>3, <2>5 DEF OnceInv, TypeOK
  <2> QED
    BY <2>4, <2>5 DEF OnceInv
<1>5. ASSUME NEW p \in Process, Flush(p), UNCHANGED <<next, mem, buffer>>,
             pc' = [pc EXCEPT ![p] = "merge"] \/ pc' = [pc EXCEPT ![p] = "finished"],
             Learned(p)
      PROVE  OnceInv'
  BY <1>5 DEF Flush, OnceInv, TypeOK
<1>6. ASSUME NEW p \in Process, SeekToBeginning(p) PROVE OnceInv'
  BY <1>5, <1>6 DEF SeekToBeginning
<1>7. ASSUME NEW p \in Process, MergeSection(p) PROVE OnceInv'
  <2>1. next[p] \in Feature
    BY <1>7 DEF MergeSection, ControlInv, TypeOK, Feature
  <2>2. \A q \in Process, f \in Feature, r \in Process :
          \/ buffer'[q][f][r] = buffer[q][f][r]
          \/ buffer'[q][f][r] = mem[p][f][r]
          \/ buffer'[q][f][r] = disk[f][r]
    BY <1>7, <2>1 DEF MergeSection, Merged, TypeOK
  <2>3. UNCHANGED <<disk, mem>> /\ next' = [next EXCEPT ![p] = next[p] + 1]
          /\ pc' = [pc EXCEPT ![p] = "save"] /\ pc[p] = "merge"
    BY <1>7 DEF MergeSection
  <2>4. ASSUME NEW f \in Feature, NEW r \in Process
        PROVE  Once(disk', mem', buffer', f, r)
                 /\ (~Learned(r)' => Unknown(disk', mem', buffer', f, r))
    <3>1. Once(disk, mem, buffer, f, r) /\ (~Learned(r) => Unknown(disk, mem, buffer, f, r))
      BY DEF OnceInv
    <3>2. Learned(r)' <=> Learned(r)
      BY <2>3 DEF TypeOK
    <3> QED
      BY <2>2, <2>3, <3>1, <3>2
  <2>5. ASSUME NEW q \in Process, NEW f \in Feature, pc'[q] \in {"start", "load"}, f >= next'[q]
        PROVE  mem'[q][f] = EmptyBag
    BY <2>3, <2>5 DEF OnceInv, TypeOK
  <2> QED
    BY <2>4, <2>5 DEF OnceInv
<1>8. ASSUME NEW p \in Process, SaveDone(p) PROVE OnceInv'
  BY <1>8 DEF SaveDone, OnceInv, TypeOK
<1>9. ASSUME NEW p \in Process, CloseModel(p) PROVE OnceInv'
  BY <1>5, <1>9 DEF CloseModel
<1>10. ASSUME NEW p \in Process, Kill(p) PROVE OnceInv'
  BY <1>10 DEF Kill, OnceInv, TypeOK
<1>11. ASSUME UNCHANGED vars PROVE OnceInv'
  BY <1>11 DEF vars, processes, OnceInv
<1> QED
  BY <1>1, <1>2, <1>3, <1>4, <1>6, <1>7, <1>8, <1>9, <1>10, <1>11 DEF Next

-----------------------------------------------------------------------------
(* A run that meets no other is kept.                                      *)

(* Steps after which every run that was at work still is, or is killed,    *)
(* and that touch neither the sections nor the iterators.                  *)
LEMMA KeptByControl ==
  ASSUME TypeOK, KeptInv, NEW q \in Process, NEW location \in Location,
         pc' = [pc EXCEPT ![q] = location],
         UNCHANGED <<disk, next, mem, buffer, dirty, met>>,
         \/ pc[q] = "load" /\ location = "capture" /\ next[q] > NumHandlers
         \/ pc[q] = "save" /\ location = "close"
         \/ Running(q) /\ location = "killed"
  PROVE  KeptInv'
<1> USE Bounds DEF TypeOK, Running, Saving, Feature
<1> SUFFICES ASSUME NEW p \in Process
             PROVE  (HasOwn(p) /\ RunsAlone(p) /\ HasSaved(p) /\ IsPassedOn(p))'
  BY DEF KeptInv
<1>1. HasOwn(p) /\ RunsAlone(p) /\ HasSaved(p) /\ IsPassedOn(p)
  BY DEF KeptInv
<1>2. \A r \in Process : Running(r)' => Running(r)
  OBVIOUS
<1>3. HasOwn(p)'
  BY <1>1 DEF HasOwn
<1>4. RunsAlone(p)'
  BY <1>1 DEF RunsAlone
<1>5. HasSaved(p)'
  BY <1>1 DEF HasSaved
<1>6. IsPassedOn(p)'
  BY <1>1 DEF IsPassedOn, Keeps
<1> QED
  BY <1>3, <1>4, <1>5, <1>6

LEMMA KeptByStart ==
  ASSUME TypeOK, ControlInv, KeptInv, NEW q \in Process, Start(q)
  PROVE  KeptInv'
<1> USE Bounds DEF TypeOK, Running, Saving, Feature
<1> SUFFICES ASSUME NEW p \in Process
             PROVE  (HasOwn(p) /\ RunsAlone(p) /\ HasSaved(p) /\ IsPassedOn(p))'
  BY DEF KeptInv
<1>1. HasOwn(p) /\ RunsAlone(p) /\ HasSaved(p) /\ IsPassedOn(p)
  BY DEF KeptInv
<1>2. UNCHANGED <<disk, next, mem, buffer, dirty>> /\ pc' = [pc EXCEPT ![q] = "load"]
        /\ pc[q] = "start"
  BY DEF Start, Goto
<1>3. met'[p] = (IF p = q THEN {r \in Process : Running(r)}
                 ELSE met[p] \cup (IF Running(p) THEN {q} ELSE {}))
  BY DEF Start
<1>4. HasOwn(p)'
  BY <1>1, <1>2 DEF HasOwn
<1>5. RunsAlone(p)'
  <2>1. CASE p = q
    BY <1>2, <1>3, <2>1 DEF RunsAlone
  <2>2. CASE p # q
    BY <1>2, <1>3, <2>2 DEF RunsAlone
  <2> QED
    BY <2>1, <2>2
<1>6. HasSaved(p)'
  BY <1>1, <1>2, <1>3 DEF HasSaved
<1>7. IsPassedOn(p)'
  <2> SUFFICES ASSUME met'[p] = {}, pc'[p] = "finished"
               PROVE  /\ \A f \in Feature : disk'[f][p] = 1
                      /\ \A r \in Process : Running(r)' => Keeps(r, p)'
    BY DEF IsPassedOn
  <2>1. met[p] = {} /\ pc[p] = "finished"
    BY <1>2, <1>3
  <2>2. /\ \A f \in Feature : disk[f][p] = 1
        /\ \A r \in Process : Running(r) => Keeps(r, p)
    BY <1>1, <2>1 DEF IsPassedOn
  <2>3. ASSUME NEW r \in Process, Running(r)' PROVE Keeps(r, p)'
    <3>1. CASE r = q
      <4>1. next[q] = 1 /\ ~dirty[q]
        BY <1>2 DEF ControlInv, Learned
      <4> QED
        BY <1>2, <3>1, <4>1 DEF Keeps
    <3>2. CASE r # q
      <4>1. Keeps(r, p) /\ pc'[r] = pc[r]
        BY <1>2, <2>2, <2>3, <3>2
      <4> QED
        BY <1>2, <4>1 DEF Keeps
    <3> QED
      BY <3>1, <3>2
  <2> QED
    BY <1>2, <2>2, <2>3
<1> QED
  BY <1>4, <1>5, <1>6, <1>7

LEMMA KeptByLoad ==
  ASSUME TypeOK, OnceInv, KeptInv, NEW q \in Process, LoadSection(q)
  PROVE  KeptInv'
<1> USE Bounds DEF TypeOK, Running, Saving, Feature
<1> SUFFICES ASSUME NEW p \in Process
             PROVE  (HasOwn(p) /\ RunsAlone(p) /\ HasSaved(p) /\ IsPassedOn(p))'
  BY DEF KeptInv
<1>1. HasOwn(p) /\ RunsAlone(p) /\ HasSaved(p) /\ IsPassedOn(p)
  BY DEF KeptInv
<1>2. next[q] \in Feature /\ mem' = [mem EXCEPT ![q][next[q]] = disk[next[q]]]
  BY LoadedIs
<1>3. UNCHANGED <<disk, pc, buffer, dirty, met>> /\ pc[q] = "load"
        /\ next' = [next EXCEPT ![q] = next[q] + 1]
  BY DEF LoadSection, Advance, history
<1>4. \A r \in Process \ {q} : mem'[r] = mem[r] /\ next'[r] = next[r]
  BY <1>2, <1>3
<1>5. HasOwn(p)'
  BY <1>1, <1>3, <1>4 DEF HasOwn
<1>6. RunsAlone(p)'
  BY <1>1, <1>3 DEF RunsAlone
<1>7. HasSaved(p)'
  BY <1>1, <1>3, <1>4 DEF HasSaved
<1>8. IsPassedOn(p)'
  <2> SUFFICES ASSUME met[p] = {}, pc[p] = "finished", NEW r \in Process, Running(r)
               PROVE  Keeps(r, p)'
    BY <1>1, <1>3 DEF IsPassedOn
  <2>1. Keeps(r, p) /\ \A f \in Feature : disk[f][p] = 1
    BY <1>1 DEF IsPassedOn
  <2>2. CASE r = q
    <3>1. ASSUME NEW f \in Feature
          PROVE  mem'[q][f][p] = 1 \/ f >= next'[q]
      <4>1. CASE f = next[q]
        BY <1>2, <2>1, <4>1
      <4>2. CASE f # next[q]
        BY <1>2, <1>3, <2>1, <2>2, <4>2 DEF Keeps
      <4> QED
        BY <4>1, <4>2
    <3> QED
      BY <1>3, <2>1, <2>2, <3>1 DEF Keeps
  <2>3. CASE r # q
    BY <1>3, <1>4, <2>1, <2>3 DEF Keeps
  <2> QED
    BY <2>2, <2>3
<1> QED
  BY <1>5, <1>6, <1>7, <1>8

LEMMA KeptByComputing ==
  ASSUME TypeOK, OnceInv, KeptInv, NEW q \in Process, ComputeDistribution(q)
  PROVE  KeptInv'
<1> USE Bounds DEF TypeOK, Running, Saving, Feature
<1> SUFFICES ASSUME NEW p \in Process
             PROVE  (HasOwn(p) /\ RunsAlone(p) /\ HasSaved(p) /\ IsPassedOn(p))'
  BY DEF KeptInv
<1>1. HasOwn(p) /\ RunsAlone(p) /\ HasSaved(p) /\ IsPassedOn(p)
  BY DEF KeptInv
<1>2. UNCHANGED <<disk, buffer, dirty, met>> /\ pc' = [pc EXCEPT ![q] = "save"]
        /\ next' = [next EXCEPT ![q] = 1] /\ pc[q] = "capture"
  BY DEF ComputeDistribution, Goto, Restart, history
<1>3. \A r, s \in Process, f \in Feature :
        mem'[r][f][s] = mem[r][f][s] + (IF r = q /\ s = q THEN 1 ELSE 0)
  BY ComputedIs
<1>4. \A r, s \in Process, f \in Feature : mem[r][f][s] \in Nat
  BY DEF Bag
<1>5. HasOwn(p)'
  <2>1. CASE p = q
    <3>1. \A f \in Feature : mem[q][f][q] = 0
      BY <1>2 DEF OnceInv, Learned
    <3>2. \A f \in Feature : mem'[p][f][p] = 1
      <4> SUFFICES ASSUME NEW f \in Feature PROVE mem'[q][f][q] = 1
        BY <2>1
      <4>1. mem'[q][f][q] = mem[q][f][q] + 1
        BY <1>3
      <4> QED
        BY <3>1, <4>1
    <3> QED
      BY <3>2 DEF HasOwn
  <2>2. CASE p # q
    <3>1. \A f \in Feature : mem'[p][f][p] = mem[p][f][p]
      BY <1>3, <1>4, <2>2
    <3>2. pc'[p] = pc[p]
      BY <1>2, <2>2
    <3> QED
      BY <1>1, <3>1, <3>2 DEF HasOwn
  <2> QED
    BY <2>1, <2>2
<1>6. RunsAlone(p)'
  BY <1>1, <1>2 DEF RunsAlone
<1>7. HasSaved(p)'
  BY <1>1, <1>2 DEF HasSaved
<1>8. IsPassedOn(p)'
  <2>1. pc'[p] = "finished" => p # q /\ pc[p] = "finished"
    BY <1>2
  <2>2. p # q => \A r \in Process, f \in Feature : mem'[r][f][p] = mem[r][f][p]
    BY <1>3, <1>4
  <2> QED
    BY <1>1, <1>2, <2>1, <2>2 DEF IsPassedOn, Keeps
<1> QED
  BY <1>5, <1>6, <1>7, <1>8

(* The seek and the close: what a process has written reaches the disk.    *)
LEMMA KeptByFlush ==
  ASSUME TypeOK, ControlInv, KeptInv, NEW q \in Process, Flush(q),
         UNCHANGED <<next, mem, buffer, met>>,
         \/ pc[q] = "save" /\ pc' = [pc EXCEPT ![q] = "merge"]
         \/ pc[q] = "close" /\ pc' = [pc EXCEPT ![q] = "finished"]
  PROVE  KeptInv'
<1> USE Bounds DEF TypeOK, Running, Saving, Feature
<1> SUFFICES ASSUME NEW p \in Process
             PROVE  (HasOwn(p) /\ RunsAlone(p) /\ HasSaved(p) /\ IsPassedOn(p))'
  BY DEF KeptInv
<1>1. HasOwn(p) /\ RunsAlone(p) /\ HasSaved(p) /\ IsPassedOn(p)
  BY DEF KeptInv
<1>2. disk' = (IF dirty[q] THEN buffer[q] ELSE disk) /\ dirty' = [dirty EXCEPT ![q] = FALSE]
  BY DEF Flush
<1>3. Running(q) /\ \A r \in Process : Running(r)' => Running(r)
  OBVIOUS
<1>4. HasOwn(p)'
  BY <1>1 DEF HasOwn
<1>5. RunsAlone(p)'
  BY <1>1, <1>3 DEF RunsAlone
<1>6. HasSaved(p)'
  <2>1. CASE p = q
    BY <1>1, <1>2, <2>1 DEF HasSaved
  <2>2. CASE p # q
    BY <1>1, <1>3, <2>2 DEF HasSaved, RunsAlone
  <2> QED
    BY <2>1, <2>2
<1>7. IsPassedOn(p)'
  <2> SUFFICES ASSUME met[p] = {}, pc'[p] = "finished"
               PROVE  /\ \A f \in Feature : disk'[f][p] = 1
                      /\ \A r \in Process : Running(r)' => Keeps(r, p)'
    BY DEF IsPassedOn
  <2>1. CASE p = q
    <3>1. pc[q] = "close" /\ next[q] = NumHandlers + 1
      BY <2>1 DEF ControlInv
    <3>2. \A f \in Feature : disk'[f][p] = 1
      BY <1>1, <1>2, <2>1, <3>1 DEF HasSaved
    <3>3. \A r \in Process : ~Running(r)'
      BY <1>1, <2>1, <3>1 DEF RunsAlone
    <3> QED
      BY <3>2, <3>3
  <2>2. CASE p # q
    <3>1. pc[p] = "finished"
      BY <2>2
    <3>2. /\ \A f \in Feature : disk[f][p] = 1
          /\ \A r \in Process : Running(r) => Keeps(r, p)
      BY <1>1, <3>1 DEF IsPassedOn
    <3>3. \A f \in Feature : disk'[f][p] = 1
      BY <1>2, <1>3, <3>2 DEF Keeps
    <3>4. ASSUME NEW r \in Process, Running(r)' PROVE Keeps(r, p)'
      <4>1. Keeps(r, p) /\ (pc'[r] = "load" <=> pc[r] = "load") /\ (dirty'[r] => dirty[r])
        BY <1>2, <1>3, <3>2, <3>4
      <4> QED
        BY <4>1 DEF Keeps
    <3> QED
      BY <3>3, <3>4
  <2> QED
    BY <2>1, <2>2
<1> QED
  BY <1>4, <1>5, <1>6, <1>7

LEMMA KeptByMerge ==
  ASSUME TypeOK, ControlInv, KeptInv, NEW q \in Process, MergeSection(q)
  PROVE  KeptInv'
<1> USE Bounds DEF TypeOK, Running, Saving, Feature
<1> SUFFICES ASSUME NEW p \in Process
             PROVE  (HasOwn(p) /\ RunsAlone(p) /\ HasSaved(p) /\ IsPassedOn(p))'
  BY DEF KeptInv
<1>1. HasOwn(p) /\ RunsAlone(p) /\ HasSaved(p) /\ IsPassedOn(p)
  BY DEF KeptInv
<1>2. UNCHANGED <<disk, mem, met>> /\ pc' = [pc EXCEPT ![q] = "save"] /\ pc[q] = "merge"
        /\ next' = [next EXCEPT ![q] = next[q] + 1] /\ dirty' = [dirty EXCEPT ![q] = TRUE]
  BY DEF MergeSection, Goto, Advance, history
<1>3. next[q] \in Feature /\ ~dirty[q]
  BY <1>2 DEF ControlInv
<1>4. \A f \in Feature : buffer'[q][f] = (IF f = next[q] THEN mem[q][f] ELSE disk[f])
  BY <1>3 DEF MergeSection, Merged
<1>5. \A r \in Process \ {q} : buffer'[r] = buffer[r]
  BY DEF MergeSection
<1>6. HasOwn(p)'
  BY <1>1, <1>2 DEF HasOwn
<1>7. RunsAlone(p)'
  BY <1>1, <1>2 DEF RunsAlone
<1>8. HasSaved(p)'
  <2>1. CASE p = q
    <3> SUFFICES ASSUME met[q] = {}, NEW f \in Feature, f < next[q] + 1
                 PROVE  buffer'[q][f][q] = 1
      BY <1>2, <2>1 DEF HasSaved
    <3>1. CASE f = next[q]
      BY <1>1, <1>2, <1>4, <2>1, <3>1 DEF HasOwn
    <3>2. CASE f # next[q]
      BY <1>1, <1>2, <1>3, <1>4, <2>1, <3>2 DEF HasSaved
    <3> QED
      BY <3>1, <3>2
  <2>2. CASE p # q
    BY <1>1, <1>2, <1>5, <2>2 DEF HasSaved
  <2> QED
    BY <2>1, <2>2
<1>9. IsPassedOn(p)'
  <2> SUFFICES ASSUME met[p] = {}, pc[p] = "finished", NEW r \in Process, Running(r)
               PROVE  Keeps(r, p)'
    BY <1>1, <1>2 DEF IsPassedOn
  <2>1. Keeps(r, p) /\ \A f \in Feature : disk[f][p] = 1
    BY <1>1 DEF IsPassedOn
  <2>2. CASE r = q
    BY <1>2, <1>4, <2>1, <2>2 DEF Keeps
  <2>3. CASE r # q
    BY <1>2, <1>5, <2>1, <2>3 DEF Keeps
  <2> QED
    BY <2>2, <2>3
<1> QED
  BY <1>6, <1>7, <1>8, <1>9

LEMMA KeptStays == TypeOK /\ ControlInv /\ OnceInv /\ KeptInv /\ [Next]_vars => KeptInv'
<1> SUFFICES ASSUME TypeOK, ControlInv, OnceInv, KeptInv, [Next]_vars PROVE KeptInv'
  OBVIOUS
<1> USE DEF Goto, history, Location
<1>1. ASSUME NEW q \in Process, Start(q) PROVE KeptInv'
  BY <1>1, KeptByStart
<1>2. ASSUME NEW q \in Process, LoadSection(q) PROVE KeptInv'
  BY <1>2, KeptByLoad
<1>3. ASSUME NEW q \in Process, Loaded(q) PROVE KeptInv'
  BY <1>3, KeptByControl DEF Loaded
<1>4. ASSUME NEW q \in Process, ComputeDistribution(q) PROVE KeptInv'
  BY <1>4, KeptByComputing
<1>5. ASSUME NEW q \in Process, SeekToBeginning(q) PROVE KeptInv'
  BY <1>5, KeptByFlush DEF SeekToBeginning
<1>6. ASSUME NEW q \in Process, MergeSection(q) PROVE KeptInv'
  BY <1>6, KeptByMerge
<1>7. ASSUME NEW q \in Process, SaveDone(q) PROVE KeptInv'
  BY <1>7, KeptByControl DEF SaveDone
<1>8. ASSUME NEW q \in Process, CloseModel(q) PROVE KeptInv'
  BY <1>8, KeptByFlush DEF CloseModel
<1>9. ASSUME NEW q \in Process, Kill(q) PROVE KeptInv'
  BY <1>9, KeptByControl DEF Kill
<1>10. ASSUME UNCHANGED vars PROVE KeptInv'
  BY <1>10 DEF vars, processes, KeptInv, HasOwn, RunsAlone, HasSaved, IsPassedOn,
               Keeps, Saving, Running
<1> QED
  BY <1>1, <1>2, <1>3, <1>4, <1>5, <1>6, <1>7, <1>8, <1>9, <1>10 DEF Next

-----------------------------------------------------------------------------
(* Somebody is kept.                                                       *)

(* Steps that write nothing, neither to the disk nor to a buffer, and after*)
(* which no run saves that did not, but one with everything before it.     *)
LEMMA WrittenByOthers ==
  ASSUME TypeOK, WrittenInv, NEW q \in Process, NEW location \in Location,
         pc' = [pc EXCEPT ![q] = location],
         UNCHANGED <<disk, buffer, dirty, last>>, faults' \in Nat,
         \A p \in Process \ {q} : next'[p] = next[p],
         \/ location \in {"load", "capture"} /\ ~Saving(q) /\ faults' = faults
         \/ location = "save" /\ next'[q] = 1 /\ faults' = faults
         \/ location = "close" /\ Saving(q) /\ pc[q] = "save" /\ next'[q] = next[q]
              /\ next[q] > NumHandlers /\ faults' = faults
         \/ location = "killed" /\ faults' > 0
  PROVE  WrittenInv'
<1> USE Bounds DEF TypeOK
<1>1. \A p \in Process \ {q} : pc'[p] = pc[p] /\ next'[p] = next[p]
  OBVIOUS
<1>2. pc'[q] = location
  OBVIOUS
<1>3. ASSUME NEW p \in Process PROVE BringsSomeone(p)' /\ BringsItself(p)'
  <2>1. BringsSomeone(p) /\ BringsItself(p)
    BY DEF WrittenInv
  <2>2. CASE p # q
    BY <1>1, <2>1, <2>2 DEF BringsSomeone, BringsItself, Someone, Saving
  <2>3. CASE p = q
    BY <1>2, <2>1, <2>3 DEF BringsSomeone, BringsItself, Someone, Saving
  <2> QED
    BY <2>2, <2>3
<1>4. SomeoneIsKept'
  <2>1. SomeoneIsKept
    BY DEF WrittenInv
  <2>2. faults' = 0 /\ (\A p \in Process : ~Saving(p)') =>
          faults = 0 /\ \A p \in Process : ~Saving(p)
    BY <1>1, <1>2 DEF Saving
  <2> QED
    BY <2>1, <2>2 DEF SomeoneIsKept
<1> QED
  BY <1>3, <1>4 DEF WrittenInv

(* The seek and the close.  The disk does not lose the somebody it had, and*)
(* the run that finishes has brought itself.                               *)
LEMMA WrittenByFlush ==
  ASSUME TypeOK, ControlInv, WrittenInv, NEW q \in Process, Flush(q),
         UNCHANGED <<next, buffer, faults>>,
         \/ /\ pc[q] = "save" /\ pc' = [pc EXCEPT ![q] = "merge"]
            /\ next[q] <= NumHandlers /\ last' = last
         \/ pc[q] = "close" /\ pc' = [pc EXCEPT ![q] = "finished"] /\ last' = {q}
  PROVE  WrittenInv'
<1> USE Bounds DEF TypeOK
<1>1. \A p \in Process \ {q} : pc'[p] = pc[p] /\ dirty'[p] = dirty[p]
  BY DEF Flush
<1>2. dirty'[q] = FALSE /\ disk' = IF dirty[q] THEN buffer[q] ELSE disk
  BY DEF Flush
<1>3. \A p \in Process : BringsSomeone(p) /\ BringsItself(p)
  BY DEF WrittenInv
<1>4. Someone(disk[1]) => Someone(disk'[1])
  BY <1>2, <1>3 DEF BringsSomeone
<1>5. next[q] > 1 => Someone(disk'[1])
  BY <1>2, <1>3 DEF BringsSomeone, Saving
<1>6. ASSUME NEW p \in Process PROVE BringsSomeone(p)' /\ BringsItself(p)'
  <2>1. CASE p # q
    BY <1>1, <1>3, <1>4, <2>1 DEF BringsSomeone, BringsItself, Someone, Saving
  <2>2. CASE p = q
    <3>1. BringsSomeone(p)'
      BY <1>2, <1>5, <2>2 DEF BringsSomeone, Someone
    <3>2. BringsItself(p)'
      BY <2>2 DEF BringsItself
    <3> QED
      BY <3>1, <3>2
  <2> QED
    BY <2>1, <2>2
<1>7. SomeoneIsKept'
  <2>1. CASE pc'[q] = "merge"
    <3>1. Saving(q)' /\ last' = last
      BY <2>1 DEF Saving
    <3> QED
      BY <1>4, <3>1 DEF WrittenInv, SomeoneIsKept, Someone
  <2>2. CASE pc'[q] = "finished"
    <3>1. pc[q] = "close" /\ last' = {q} /\ next[q] = NumHandlers + 1
      BY <2>2 DEF ControlInv
    <3>2. dirty[q] /\ buffer[q][NumHandlers][q] = 1
      BY <1>3, <3>1 DEF BringsItself
    <3>3. disk'[NumHandlers][q] = 1
      BY <1>2, <3>2
    <3>4. Someone(disk'[1])
      BY <1>5, <3>1
    <3> QED
      BY <3>1, <3>3, <3>4 DEF SomeoneIsKept, Someone
  <2> QED
    BY <2>1, <2>2
<1> QED
  BY <1>6, <1>7 DEF WrittenInv

(* A merge writes the run itself into the section.                         *)
LEMMA WrittenByMerge ==
  ASSUME TypeOK, ControlInv, KeptInv, WrittenInv, NEW q \in Process, MergeSection(q)
  PROVE  WrittenInv'
<1> USE Bounds DEF TypeOK
<1>1. /\ pc[q] = "merge" /\ next[q] \in Feature /\ ~dirty[q]
      /\ UNCHANGED <<disk, last, faults>>
  BY DEF MergeSection, ControlInv, Feature, history
<1>2. /\ next' = [next EXCEPT ![q] = next[q] + 1]
      /\ dirty' = [dirty EXCEPT ![q] = TRUE]
      /\ buffer' = [buffer EXCEPT ![q] = [disk EXCEPT ![next[q]] = mem[q][next[q]]]]
      /\ pc' = [pc EXCEPT ![q] = "save"]
  BY DEF MergeSection, Advance, Goto, Merged
<1>3. mem[q][next[q]][q] = 1
  BY <1>1 DEF KeptInv, HasOwn, Saving
<1>4. /\ buffer'[q][next[q]][q] = 1
      /\ \A f \in Feature \ {next[q]} : buffer'[q][f] = disk[f]
  BY <1>1, <1>2, <1>3
<1>5. ASSUME NEW p \in Process PROVE BringsSomeone(p)' /\ BringsItself(p)'
  <2>1. BringsSomeone(p) /\ BringsItself(p)
    BY DEF WrittenInv
  <2>2. CASE p # q
    <3>1. /\ pc'[p] = pc[p] /\ next'[p] = next[p] /\ dirty'[p] = dirty[p]
          /\ buffer'[p] = buffer[p] /\ disk' = disk
      BY <1>1, <1>2, <2>2
    <3> QED
      BY <2>1, <3>1 DEF BringsSomeone, BringsItself, Someone, Saving
  <2>3. CASE p = q
    <3>1. dirty'[q] = TRUE /\ next'[q] = next[q] + 1
      BY <1>2
    <3>2. Someone(buffer'[q][1])
      <4>1. CASE next[q] = 1
        BY <1>4, <4>1 DEF Someone
      <4>2. CASE next[q] > 1
        <5>1. Someone(disk[1])
          BY <1>1, <2>1, <2>3, <4>2 DEF BringsSomeone, Saving
        <5>2. 1 \in Feature \ {next[q]}
          BY <4>2 DEF Feature
        <5> QED
          BY <1>4, <5>1, <5>2
      <4> QED
        BY <1>1, <4>1, <4>2 DEF Feature
    <3>3. next'[q] > NumHandlers => buffer'[q][NumHandlers][q] = 1
      <4>1. next'[q] > NumHandlers => next[q] = NumHandlers
        BY <1>1, <3>1 DEF Feature
      <4> QED
        BY <1>4, <4>1
    <3> QED
      BY <2>3, <3>1, <3>2, <3>3 DEF BringsSomeone, BringsItself, Someone
  <2> QED
    BY <2>2, <2>3
<1>6. SomeoneIsKept'
  <2>1. Saving(q)'
    BY <1>2 DEF Saving
  <2> QED
    BY <1>1, <2>1 DEF WrittenInv, SomeoneIsKept
<1> QED
  BY <1>5, <1>6 DEF WrittenInv

LEMMA WrittenStays == TypeOK /\ ControlInv /\ KeptInv /\ WrittenInv /\ [Next]_vars => WrittenInv'
<1> SUFFICES ASSUME TypeOK, ControlInv, KeptInv, WrittenInv, [Next]_vars PROVE WrittenInv'
  OBVIOUS
<1> USE Bounds DEF Goto, history, Location
<1>0. faults \in Nat
  BY DEF TypeOK
<1>1. ASSUME NEW q \in Process, Start(q) PROVE WrittenInv'
  BY <1>0, <1>1, WrittenByOthers DEF Start, Saving
<1>2. ASSUME NEW q \in Process, LoadSection(q) PROVE WrittenInv'
  <2>1. pc' = [pc EXCEPT ![q] = "load"]
    BY <1>2 DEF LoadSection, TypeOK
  <2>2. \A p \in Process \ {q} : next'[p] = next[p]
    BY <1>2 DEF LoadSection, Advance, TypeOK
  <2> QED
    BY <1>0, <1>2, <2>1, <2>2, WrittenByOthers DEF LoadSection, Saving
<1>3. ASSUME NEW q \in Process, Loaded(q) PROVE WrittenInv'
  BY <1>0, <1>3, WrittenByOthers DEF Loaded, Saving
<1>4. ASSUME NEW q \in Process, ComputeDistribution(q) PROVE WrittenInv'
  <2>1. next'[q] = 1 /\ \A p \in Process \ {q} : next'[p] = next[p]
    BY <1>4 DEF ComputeDistribution, Restart, TypeOK
  <2> QED
    BY <1>0, <1>4, <2>1, WrittenByOthers DEF ComputeDistribution
<1>5. ASSUME NEW q \in Process, SeekToBeginning(q) PROVE WrittenInv'
  BY <1>5, WrittenByFlush DEF SeekToBeginning
<1>6. ASSUME NEW q \in Process, MergeSection(q) PROVE WrittenInv'
  BY <1>6, WrittenByMerge
<1>7. ASSUME NEW q \in Process, SaveDone(q) PROVE WrittenInv'
  BY <1>0, <1>7, WrittenByOthers DEF SaveDone, Saving
<1>8. ASSUME NEW q \in Process, CloseModel(q) PROVE WrittenInv'
  BY <1>8, WrittenByFlush DEF CloseModel
<1>9. ASSUME NEW q \in Process, Kill(q) PROVE WrittenInv'
  <2>1. faults' \in Nat /\ faults' > 0
    BY <1>0, <1>9 DEF Kill
  <2> QED
    BY <1>9, <2>1, WrittenByOthers DEF Kill
<1>10. ASSUME UNCHANGED vars PROVE WrittenInv'
  BY <1>10 DEF vars, processes, WrittenInv, SomeoneIsKept, BringsSomeone, BringsItself,
               Someone, Saving
<1> QED
  BY <1>1, <1>2, <1>3, <1>4, <1>5, <1>6, <1>7, <1>8, <1>9, <1>10 DEF Next

-----------------------------------------------------------------------------
(* The theorems.                                                           *)

(* The strengthening of the three below is an invariant of the instances that*)
(* share model.json.                                                       *)
THEOREM Invariance == Spec => []SharedInv
<1>1. SharedInv /\ [Next]_vars => SharedInv'
  BY TypesStay, PlacesStay, OnceStays, KeptStays, WrittenStays DEF SharedInv
<1> QED
  BY InitInv, <1>1, PTL DEF Spec

(* However many instances load, merge and write one model.json, and        *)
(* wherever they are killed, saveDataToModel never counts a run twice in a *)
(* section.                                                                *)
THEOREM Once == Spec => []CountedOnce
<1>1. SharedInv => CountedOnce
  BY DEF SharedInv, OnceInv, CountedOnce
<1> QED
  BY Invariance, <1>1, PTL

(* A run of pcap_analyzer that no other overlaps is in every section of    *)
(* model.json for good, whatever the later ones do to each other.          *)
THEOREM AloneKept == Spec => []AloneIsKept
<1>1. SharedInv => AloneIsKept
  BY DEF SharedInv, KeptInv, IsPassedOn, AloneIsKept
<1> QED
  BY Invariance, <1>1, PTL

(* Of instances of pcap_analyzer that overlap any may be lost, but once one*)
(* has finished the first section of model.json is never without a run, and*)
(* if none was killed and none is saving the last section is not without   *)
(* the run that finished last.                                             *)
THEOREM SomeoneKept == Spec => []SomeoneIsKept
<1>1. SharedInv => SomeoneIsKept
  BY DEF SharedInv, WrittenInv
<1> QED
  BY Invariance, <1>1, PTL
=============================================================================
