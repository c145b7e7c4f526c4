------------------------ MODULE TestHandlerContainer ------------------------
(* TestHandlerContainer::computeDistribution: the capture.  libpcap calls  *)
(* containerCallback for every packet, which passes it to every handler.   *)
(* The signal handler is the other thread of control: the alarm of a live  *)
(* capture strikes between any two steps of main's and asks libpcap to end *)
(* the loop.                                                               *)
(*                                                                         *)
(* A packet is its position in the capture; all the callback looks at is   *)
(* whether ether_type says that it is an IP packet.  The container has one *)
(* capture, the one main adds.                                             *)
EXTENDS Integers, Sequences

CONSTANTS
  NumHandlers,   \* length of handlers_
  Durations,     \* what -d gives to live captures
  MaxPackets     \* bound: packets of a capture

ASSUME ConstantsAssumption ==
  /\ NumHandlers \in Nat \ {0}
  /\ Durations \subseteq Nat
  /\ MaxPackets \in Nat

Handler == 1 .. NumHandlers

VARIABLES
  pc,        \* where computeDistribution stands
  isLive,    \* its arguments
  duration,
  timer,     \* of alarm(): "off", "running" or "expired"
  current,   \* current_capture has been set
  broken,    \* break_loop of the pcap_t
  traffic,   \* the packets of the capture so far: is it an IP packet?
  read,      \* how many of them libpcap has taken
  it,        \* containerCallback's iterator
  computed,  \* the packets each handler has computed
  ready      \* how many handlers' initCapture has run

handlers == <<it, computed, ready>>
vars == <<pc, isLive, duration, timer, current, broken, traffic, read, handlers>>

TypeOK ==
  /\ pc \in {"start", "select", "loop", "callback", "init", "done", "crashed"}
  /\ isLive \in BOOLEAN
  /\ duration \in Durations
  /\ timer \in {"off", "running", "expired"}
  /\ current \in BOOLEAN
  /\ broken \in BOOLEAN
  /\ traffic \in Seq(BOOLEAN)
  /\ read \in 0 .. Len(traffic)
  /\ it \in 1 .. NumHandlers + 1
  /\ computed \in [Handler -> Seq(Nat)]
  /\ ready \in 0 .. NumHandlers

(* A file has all its packets; a session's arrive while it lasts.          *)
Captures == UNION {[1 .. n -> BOOLEAN] : n \in 0 .. MaxPackets}

Init ==
  /\ pc = "start"
  /\ isLive \in BOOLEAN
  /\ duration \in Durations
  /\ timer = "off"
  /\ current = FALSE
  /\ broken = FALSE
  /\ traffic \in Captures
  /\ isLive => traffic = <<>>
  /\ read = 0
  /\ it = 1
  /\ computed = [f \in Handler |-> <<>>]
  /\ ready = 0

-----------------------------------------------------------------------------
(* main's thread of control.                                               *)

(* alarm(0) leaves the timer off.                                          *)
SetAlarm_Always == IF duration > 0 THEN "running" ELSE "off"
SetAlarm_Never == "off"
SetAlarm == IF isLive /\ duration > 0 THEN "running" ELSE "off"

Start ==
  /\ pc = "start"
  /\ pc' = "select"
  /\ timer' = SetAlarm
  /\ UNCHANGED <<isLive, duration, current, broken, traffic, read, handlers>>

SelectCapture ==
  /\ pc = "select"
  /\ pc' = "loop"
  /\ current' = TRUE
  /\ UNCHANGED <<isLive, duration, timer, broken, traffic, read, handlers>>

(* pcap_loop looks at break_loop before it takes a packet.                 *)
TakePacket ==
  /\ pc = "loop"
  /\ ~broken
  /\ read < Len(traffic)
  /\ read' = read + 1
  /\ it' = 1
  /\ pc' = "callback"
  /\ UNCHANGED <<isLive, duration, timer, current, broken, traffic, computed, ready>>

(* The packet, in the eyes of one handler.                                 *)
Computed_All(f) == [computed EXCEPT ![f] = Append(@, read)]
Computed(f) ==
  IF traffic[read] THEN [computed EXCEPT ![f] = Append(@, read)] ELSE computed

CallHandler_UntilBreak ==
  /\ pc = "callback"
  /\ it <= NumHandlers
  /\ it' = IF broken THEN NumHandlers + 1 ELSE it + 1
  /\ computed' = IF broken THEN computed ELSE Computed(it)
  /\ UNCHANGED <<pc, isLive, duration, timer, current, broken, traffic, read, ready>>
CallHandler ==
  /\ pc = "callback"
  /\ it <= NumHandlers
  /\ it' = it + 1
  /\ computed' = Computed(it)
  /\ UNCHANGED <<pc, isLive, duration, timer, current, broken, traffic, read, ready>>

CallbackReturns ==
  /\ pc = "callback"
  /\ it > NumHandlers
  /\ pc' = "loop"
  /\ UNCHANGED <<isLive, duration, timer, current, broken, traffic, read, handlers>>

(* At the end of the file, or because of break_loop, which is then reset.  *)
LoopReturns ==
  /\ pc = "loop"
  /\ broken \/ (~isLive /\ read = Len(traffic))
  /\ pc' = "init"
  /\ broken' = FALSE
  /\ UNCHANGED <<isLive, duration, timer, current, traffic, read, handlers>>

(* initCapture of one handler after the other.                             *)
InitCapture ==
  /\ pc = "init"
  /\ ready < NumHandlers
  /\ ready' = ready + 1
  /\ UNCHANGED <<pc, isLive, duration, timer, current, broken, traffic, read, it, computed>>

Return ==
  /\ pc = "init"
  /\ ready = NumHandlers
  /\ pc' = "done"
  /\ UNCHANGED <<isLive, duration, timer, current, broken, traffic, read, handlers>>

-----------------------------------------------------------------------------
(* The network, libpcap's errors and the timer.                            *)

Arrives(ip) ==
  /\ isLive
  /\ Len(traffic) < MaxPackets
  /\ traffic' = Append(traffic, ip)
  /\ UNCHANGED <<pc, isLive, duration, timer, current, broken, read, handlers>>

(* pcap_loop returns -1; nobody looks at its result.                       *)
LoopFails ==
  /\ pc = "loop"
  /\ pc' = "init"
  /\ UNCHANGED <<isLive, duration, timer, current, broken, traffic, read, handlers>>

(* alarm_handler.  Before the loop, its pcap_t is a null pointer.          *)
Break == IF current
           THEN broken' = TRUE /\ UNCHANGED pc
           ELSE pc' = "crashed" /\ UNCHANGED broken

Alarm ==
  /\ timer = "running"
  /\ pc \notin {"done", "crashed"}
  /\ timer' = "expired"
  /\ Break
  /\ UNCHANGED <<isLive, duration, current, traffic, read, handlers>>

-----------------------------------------------------------------------------
Program ==
  \/ Start \/ SelectCapture \/ TakePacket \/ CallHandler \/ CallbackReturns
  \/ LoopReturns \/ InitCapture \/ Return

Next ==
  \/ Program
  \/ \E ip \in BOOLEAN : Arrives(ip)
  \/ LoopFails
  \/ Alarm

Spec == Init /\ [][Next]_vars

(* The process is scheduled, and a running timer expires.                  *)
FairSpec == Spec /\ WF_vars(Program) /\ WF_vars(Alarm)

-----------------------------------------------------------------------------
(* Properties.                                                             *)

(* Of the first n packets of seq, list holds those that are IP packets: all*)
(* of them, each once and in their order.                                  *)
IPPackets(list, n, seq) ==
  /\ \A i, j \in DOMAIN list : i < j => list[i] < list[j]
  /\ {list[i] : i \in DOMAIN list} = {m \in 1 .. n : seq[m]}

HasComputed(f, n) == IPPackets(computed[f], n, traffic)

(* When the capture is over, all the features describe the same traffic:   *)
(* every handler has computed exactly the IP packets that libpcap took,    *)
(* wherever in the callback the alarm has struck.                          *)
SameTraffic ==
  pc \in {"loop", "init", "done"} => \A f \in Handler : HasComputed(f, read)

(* The inductive invariant: during a callback the handlers from the        *)
(* iterator on are the current packet behind, nothing is computed before   *)
(* the loop or after it, and only a live capture can be broken.            *)
Inv ==
  /\ TypeOK
  /\ \A f \in Handler :
       HasComputed(f, IF pc = "callback" /\ f >= it THEN read - 1 ELSE read)
  /\ pc = "callback" => read > 0
  /\ pc \in {"start", "select", "crashed"} => read = 0
  /\ current <=> pc \notin {"start", "select", "crashed"}
  /\ ready > 0 => pc \in {"init", "done"}
  /\ ~isLive => timer = "off" /\ ~broken

(* The capture of a file is cut by nothing but an error of libpcap: the    *)
(* alarm is for live captures only.                                        *)
FileReadWhole ==
  [][~isLive /\ pc = "loop" /\ pc' = "init" => LoopFails \/ read = Len(traffic)]_vars

(* Every capture ends: that of a file, and that of a session of one second *)
(* or more, even when no packet ever arrives or new ones always do.        *)
CaptureEnds == (isLive /\ duration = 0) \/ <>(pc \in {"done", "crashed"})
=============================================================================
