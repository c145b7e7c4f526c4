----------------------------- MODULE ModelStore -----------------------------
(* What model.json promises to the operator of pcap_analyzer.  It is a     *)
(* tally, per section, of the captures learned.  The program reads the     *)
(* whole file, changes one section and writes the whole file back, yet the *)
(* file only ever changes by one section absorbing one capture, whole or   *)
(* cut short by an interruption.                                           *)
EXTENDS Integers

CONSTANTS
  Capture,
  NumSections   \* sections, in the order they stand in the file

Section == 1 .. NumSections
Nothing == [s \in Section |-> [c \in Capture |-> 0]]

VARIABLES
  known,   \* how often each section has absorbed each capture
  lost,    \* sections whose text an interruption has mixed up
  status   \* "none": no model in the file; "damaged": a model nobody can read

store == <<known, lost, status>>

Init == known = Nothing /\ lost = {} /\ status = "none"

(* Section s absorbs capture c.                                            *)
Absorb(s, c) ==
  /\ status # "damaged"
  /\ known' = [known EXCEPT ![s][c] = @ + 1]
  /\ status' = "model"

Save(s, c) == Absorb(s, c) /\ UNCHANGED lost

(* A save cut short: what stands before s in the file is intact.           *)
CutShort(s, c) ==
  /\ Absorb(s, c)
  /\ \E cut \in SUBSET {t \in Section : t >= s} : lost' = lost \cup cut

Clear(to) == known' = Nothing /\ lost' = {} /\ status' = to

Damage == status # "damaged" /\ Clear("damaged")

Remove == Clear("none")

Next ==
  \/ \E s \in Section, c \in Capture : Save(s, c) \/ CutShort(s, c)
  \/ Damage
  \/ Remove

Spec == Init /\ [][Next]_store

(* While there is a model, what a section knows is not forgotten, and a    *)
(* step tells one section about one capture.                               *)
Learns ==
  [][status = "model" /\ status' = "model" =>
       \A s \in Section, c \in Capture :
         known'[s][c] # known[s][c] =>
           /\ known'[s][c] = known[s][c] + 1
           /\ \A t \in Section, d \in Capture :
                known'[t][d] # known[t][d] => t = s /\ d = c]_store
=============================================================================
