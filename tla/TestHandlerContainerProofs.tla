--------------------- MODULE TestHandlerContainerProofs ---------------------
(* All handlers see the same traffic, for any number of handlers, any      *)
(* capture and any moment of the alarm.                                    *)
EXTENDS TestHandlerContainer, TLAPS

USE DEF Handler

(* What an append of a new, later packet does to a handler's packets.      *)
LEMMA AppendsPacket ==
  ASSUME NEW s \in Seq(Nat), NEW n \in Nat, NEW t \in Seq(BOOLEAN), n + 1 <= Len(t),
         IPPackets(s, n, t),
         NEW r, r = IF t[n + 1] THEN Append(s, n + 1) ELSE s
  PROVE  r \in Seq(Nat) /\ IPPackets(r, n + 1, t)
<1>0. /\ \A i, j \in DOMAIN s : i < j => s[i] < s[j]
      /\ {s[i] : i \in DOMAIN s} = {m \in 1 .. n : t[m]}
  BY DEF IPPackets
<1>1. CASE t[n + 1]
  <2>1. /\ r \in Seq(Nat)
        /\ Len(r) = Len(s) + 1
        /\ \A i \in 1 .. Len(s) : r[i] = s[i]
        /\ r[Len(s) + 1] = n + 1
    BY <1>1
  <2>2. \A i \in 1 .. Len(s) : s[i] \in 1 .. n
    BY <1>0
  <2> DEFINE Old == {s[i] : i \in DOMAIN s}
             New == {r[i] : i \in DOMAIN r}
  <2>3. DOMAIN r = 1 .. Len(s) + 1 /\ DOMAIN s = 1 .. Len(s) /\ Len(s) \in Nat
    BY <2>1
  <2>4. ASSUME NEW x PROVE x \in New <=> x \in Old \/ x = n + 1
    <3>1. ASSUME NEW i \in DOMAIN r, x = r[i] PROVE x \in Old \/ x = n + 1
      BY <3>1, <2>1, <2>3
    <3>2. ASSUME NEW i \in DOMAIN s, x = s[i] PROVE x = r[i] /\ i \in DOMAIN r
      BY <3>2, <2>1, <2>3
    <3>3. ASSUME x = n + 1 PROVE x = r[Len(s) + 1] /\ Len(s) + 1 \in DOMAIN r
      BY <3>3, <2>1, <2>3
    <3> QED BY <3>1, <3>2, <3>3
  <2>5. ASSUME NEW x
        PROVE  x \in {m \in 1 .. n + 1 : t[m]} <=> x \in {m \in 1 .. n : t[m]} \/ x = n + 1
    BY <1>1
  <2>6. New = {m \in 1 .. n + 1 : t[m]}
    <3> HIDE DEF New, Old
    <3>1. Old = {m \in 1 .. n : t[m]}
      BY <1>0 DEF Old
    <3> QED BY <3>1, <2>4, <2>5
  <2> QED BY <1>0, <2>1, <2>2, <2>3, <2>6 DEF IPPackets
<1>2. CASE ~t[n + 1]
  BY <1>0, <1>2 DEF IPPackets
<1> QED BY <1>1, <1>2

LEMMA Initialised == Init => Inv
<1> SUFFICES ASSUME Init PROVE Inv
  OBVIOUS
<1>1. traffic \in Seq(BOOLEAN) /\ Len(traffic) \in Nat
  BY ConstantsAssumption DEF Init, Captures
<1>2. TypeOK
  <2>1. computed \in [Handler -> Seq(Nat)]
    BY DEF Init
  <2>2. it \in 1 .. NumHandlers + 1 /\ ready \in 0 .. NumHandlers /\ read \in 0 .. Len(traffic)
    BY <1>1, ConstantsAssumption DEF Init
  <2> QED BY <1>1, <2>1, <2>2 DEF Init, TypeOK
<1>3. ASSUME NEW f \in Handler PROVE HasComputed(f, 0)
  <2>1. computed[f] = <<>>
    BY DEF Init
  <2> QED BY <2>1 DEF HasComputed, IPPackets
<1>4. pc = "start" /\ read = 0 /\ ready = 0
  BY DEF Init
<1>5. /\ current <=> pc \notin {"start", "select", "crashed"}
      /\ ~isLive => timer = "off" /\ ~broken
  BY DEF Init
<1> QED BY <1>2, <1>3, <1>4, <1>5 DEF Inv

LEMMA Preserved == Inv /\ [Next]_vars => Inv'
<1> SUFFICES ASSUME Inv, [Next]_vars PROVE Inv'
  OBVIOUS
<1> USE ConstantsAssumption
<1> DEFINE Seen(f) == IF pc = "callback" /\ f >= it THEN read - 1 ELSE read
<1>0. /\ TypeOK
      /\ \A f \in Handler : Seen(f) \in 0 .. read /\ HasComputed(f, Seen(f))
  BY DEF Inv, TypeOK
<1>a. ASSUME UNCHANGED <<computed, traffic>>, \A f \in Handler : Seen(f)' = Seen(f)
      PROVE  \A f \in Handler : HasComputed(f, Seen(f))'
  <2> SUFFICES ASSUME NEW f \in Handler PROVE HasComputed(f, Seen(f))'
    OBVIOUS
  <2>1. HasComputed(f, Seen(f))
    BY <1>0
  <2> QED BY <1>a, <2>1 DEF HasComputed
<1>1. CASE Start
  <2>1. TypeOK'
    BY <1>0, <1>1 DEF TypeOK, Start, SetAlarm, handlers
  <2>2. \A f \in Handler : Seen(f)' = Seen(f)
    BY <1>1 DEF Start, handlers
  <2> QED BY <2>1, <2>2, <1>a, <1>1 DEF Inv, Start, SetAlarm, handlers
<1>2. CASE SelectCapture
  <2>1. TypeOK'
    BY <1>0, <1>2 DEF TypeOK, SelectCapture, handlers
  <2>2. \A f \in Handler : Seen(f)' = Seen(f)
    BY <1>2 DEF SelectCapture, handlers
  <2> QED BY <2>1, <2>2, <1>a, <1>2 DEF Inv, SelectCapture, handlers
<1>3. CASE TakePacket
  <2>1. TypeOK'
    BY <1>0, <1>3 DEF TypeOK, TakePacket
  <2>2. \A f \in Handler : Seen(f)' = Seen(f)
    BY <1>0, <1>3 DEF TypeOK, TakePacket
  <2> QED BY <2>1, <2>2, <1>a, <1>0, <1>3 DEF Inv, TypeOK, TakePacket
<1>4. CASE CallHandler
  <2>1. PICK n \in Nat : n + 1 = read /\ n + 1 <= Len(traffic)
    <3>1. read > 0 /\ read \in 0 .. Len(traffic)
      BY <1>4 DEF Inv, TypeOK, CallHandler
    <3> QED BY <3>1
  <2>2. it \in Handler /\ traffic \in Seq(BOOLEAN) /\ computed \in [Handler -> Seq(Nat)]
    BY <1>0, <1>4 DEF TypeOK, CallHandler
  <2>3. HasComputed(it, n)
    BY <1>0, <1>4, <2>1, <2>2 DEF CallHandler
  <2>4. computed'[it] = IF traffic[n + 1] THEN Append(computed[it], n + 1) ELSE computed[it]
    BY <1>4, <2>1, <2>2 DEF CallHandler, Computed
  <2>5. computed[it] \in Seq(Nat)
    BY <2>2
  <2>6. computed'[it] \in Seq(Nat) /\ IPPackets(computed'[it], read, traffic)
    <3>1. IPPackets(computed[it], n, traffic)
      BY <2>3 DEF HasComputed
    <3> QED BY <2>1, <2>2, <2>4, <2>5, <3>1, AppendsPacket
  <2>7. \A f \in Handler : f # it => computed'[f] = computed[f]
    BY <1>4, <2>2 DEF CallHandler, Computed
  <2>8. computed' \in [Handler -> Seq(Nat)]
    <3>1. computed' = [computed EXCEPT ![it] = computed'[it]]
      BY <1>4, <2>2 DEF CallHandler, Computed
    <3> QED BY <3>1, <2>2, <2>6
  <2>9. TypeOK'
    BY <1>0, <1>4, <2>8 DEF TypeOK, CallHandler
  <2>10. ASSUME NEW f \in Handler PROVE HasComputed(f, Seen(f))'
    <3>1. Seen(f)' = IF f > it THEN read - 1 ELSE read
      BY <1>4, <1>0 DEF TypeOK, CallHandler
    <3>2. CASE f = it
      <4>1. Seen(f)' = read /\ traffic' = traffic
        BY <3>1, <3>2, <1>4 DEF CallHandler
      <4> QED BY <4>1, <3>2, <2>6 DEF HasComputed
    <3>3. CASE f # it
      <4>1. Seen(f)' = Seen(f) /\ traffic' = traffic /\ computed'[f] = computed[f]
        BY <3>1, <3>3, <1>0, <1>4, <2>7 DEF TypeOK, CallHandler
      <4> QED BY <4>1, <1>0 DEF HasComputed
    <3> QED BY <3>2, <3>3
  <2> QED BY <2>9, <2>10, <1>4 DEF Inv, CallHandler
<1>5. CASE CallbackReturns
  <2>1. TypeOK'
    BY <1>0, <1>5 DEF TypeOK, CallbackReturns, handlers
  <2>2. \A f \in Handler : Seen(f)' = Seen(f)
    BY <1>0, <1>5 DEF TypeOK, CallbackReturns, handlers
  <2> QED BY <2>1, <2>2, <1>a, <1>5 DEF Inv, CallbackReturns, handlers
<1>6. CASE LoopReturns
  <2>1. TypeOK'
    BY <1>0, <1>6 DEF TypeOK, LoopReturns, handlers
  <2>2. \A f \in Handler : Seen(f)' = Seen(f)
    BY <1>6 DEF LoopReturns, handlers
  <2> QED BY <2>1, <2>2, <1>a, <1>6 DEF Inv, LoopReturns, handlers
<1>7. CASE InitCapture
  <2>1. TypeOK'
    BY <1>0, <1>7 DEF TypeOK, InitCapture
  <2>2. \A f \in Handler : Seen(f)' = Seen(f)
    BY <1>7 DEF InitCapture
  <2> QED BY <2>1, <2>2, <1>a, <1>7 DEF Inv, InitCapture
<1>8. CASE Return
  <2>1. TypeOK'
    BY <1>0, <1>8 DEF TypeOK, Return, handlers
  <2>2. \A f \in Handler : Seen(f)' = Seen(f)
    BY <1>8 DEF Return, handlers
  <2> QED BY <2>1, <2>2, <1>a, <1>8 DEF Inv, Return, handlers
<1>9. ASSUME NEW ip \in BOOLEAN, Arrives(ip) PROVE Inv'
  <2>1. traffic' = Append(traffic, ip) /\ UNCHANGED <<pc, read, it, computed, ready>>
    BY <1>9 DEF Arrives, handlers
  <2>2. /\ traffic' \in Seq(BOOLEAN) /\ Len(traffic') = Len(traffic) + 1
        /\ \A m \in 1 .. Len(traffic) : traffic'[m] = traffic[m]
        /\ Len(traffic) \in Nat
    BY <2>1, <1>0 DEF TypeOK
  <2>3. read' \in 0 .. Len(traffic')
    BY <2>1, <2>2, <1>0 DEF TypeOK
  <2>4. TypeOK'
    BY <1>0, <1>9, <2>2, <2>3 DEF TypeOK, Arrives, handlers
  <2>5. ASSUME NEW f \in Handler PROVE HasComputed(f, Seen(f))'
    <3>1. HasComputed(f, Seen(f)) /\ Seen(f) \in 0 .. read /\ Seen(f)' = Seen(f)
      BY <1>0, <2>1
    <3>2. {m \in 1 .. Seen(f) : traffic'[m]} = {m \in 1 .. Seen(f) : traffic[m]}
      <4>1. read \in 0 .. Len(traffic)
        BY <1>0 DEF TypeOK
      <4>2. \A m \in 1 .. Seen(f) : m \in 1 .. Len(traffic)
        BY <3>1, <4>1, <2>2
      <4> HIDE DEF Seen
      <4> QED BY <4>2, <2>2
    <3> QED BY <3>1, <3>2, <2>1 DEF HasComputed, IPPackets
  <2> QED BY <2>4, <2>5, <1>9 DEF Inv, Arrives, handlers
<1>10. CASE LoopFails
  <2>1. TypeOK'
    BY <1>0, <1>10 DEF TypeOK, LoopFails, handlers
  <2>2. \A f \in Handler : Seen(f)' = Seen(f)
    BY <1>10 DEF LoopFails, handlers
  <2> QED BY <2>1, <2>2, <1>a, <1>10 DEF Inv, LoopFails, handlers
<1>11. CASE Alarm
  <2>1. TypeOK'
    BY <1>0, <1>11 DEF TypeOK, Alarm, Break, handlers
  <2>2. pc' = pc \/ (pc \in {"start", "select"} /\ pc' = "crashed")
    BY <1>11 DEF Alarm, Break, Inv, TypeOK
  <2>3. \A f \in Handler : Seen(f)' = Seen(f)
    BY <1>11, <2>2 DEF Alarm, handlers
  <2>4. \A f \in Handler : HasComputed(f, Seen(f))'
    BY <2>3, <1>a, <1>11 DEF Alarm, handlers
  <2> QED BY <2>1, <2>2, <2>4, <1>11 DEF Inv, TypeOK, Alarm, Break, handlers
<1>12. CASE UNCHANGED vars
  <2>1. TypeOK'
    BY <1>0, <1>12 DEF TypeOK, vars, handlers
  <2>2. \A f \in Handler : Seen(f)' = Seen(f)
    BY <1>12 DEF vars, handlers
  <2> QED BY <2>1, <2>2, <1>a, <1>12 DEF Inv, vars, handlers
<1> QED
  BY <1>1, <1>2, <1>3, <1>4, <1>5, <1>6, <1>7, <1>8, <1>9, <1>10, <1>11, <1>12
  DEF Next, Program

(* The invariant holds of every capture.                                   *)
THEOREM Invariance == Spec => []Inv
  BY Initialised, Preserved, PTL DEF Spec

(* Type correctness.                                                       *)
THEOREM TypeCorrect == Spec => []TypeOK
<1>1. Inv => TypeOK
  BY DEF Inv
<1> QED BY <1>1, Invariance, PTL

(* After the capture every handler has computed exactly the IP packets     *)
(* that libpcap took, wherever the alarm has interrupted the callback.     *)
THEOREM AllSeeTheSame == Spec => []SameTraffic
<1>1. Inv => SameTraffic
  BY DEF Inv, SameTraffic
<1> QED BY <1>1, Invariance, PTL

(* No alarm cuts the capture of a file short.                              *)
THEOREM FilesReadWhole == Spec => FileReadWhole
<1>1. Inv /\ [Next]_vars =>
        [~isLive /\ pc = "loop" /\ pc' = "init" => LoopFails \/ read = Len(traffic)]_vars
  BY DEF Inv, Next, Program, Start, SelectCapture, TakePacket, CallHandler,
         CallbackReturns, LoopReturns, InitCapture, Return, Arrives, Alarm, Break,
         handlers, vars
<1> QED BY <1>1, Invariance, PTL DEF Spec, FileReadWhole
=============================================================================
