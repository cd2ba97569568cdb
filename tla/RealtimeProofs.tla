--------------------------- MODULE RealtimeProofs ---------------------------
(***************************************************************************)
(* Theorems about what keeps an open page up to date.  MessagePush, in the *)
(* server: the throttle loses no frame, doubles none, and keeps its        *)
(* distance, for any keys, timers and windows, and so it implements the    *)
(* safety part of LatestDelivery.  In the page, for any sessions and any   *)
(* bounds: HomeLinks loses sight of no socket, and DevServers shows what   *)
(* runs.                                                                   *)
(***************************************************************************)
EXTENDS MCHome, MessagePush, SequenceTheorems, TLAPS

-----------------------------------------------------------------------------
(* The throttle: types *)

LEMMA InitType == Init => TypeOK
<1> SUFFICES ASSUME Init PROVE TypeOK
  OBVIOUS
<1> USE WindowAssumption
<1>1. channel \in Seq(Key \X Frame)
  BY DEF Init
<1>2. lag \in [Key -> 0 .. MaxLag \cup {Idle}]
  BY DEF Init, Idle
<1>3. age \in [Key -> 0 .. Old]
  BY DEF Init, Old
<1>4. timer \in [Timer -> [state : {"free", "armed", "fired", "sending"},
                           key : Key, left : 0 .. Old]]
  BY DEF Init, FreeTimer, Old
<1>5. redis \in BOOLEAN /\ connected \in BOOLEAN /\ missed \in BOOLEAN
  BY DEF Init
<1>6. /\ frame \in [Key -> Frame \cup {NoFrame}]
      /\ pending \in [Key -> Frame \cup {NoFrame}]
      /\ flushTimer \in [Key -> Timer \cup {NoTimer}]
      /\ hand \in [Sender -> Frame \cup {NoFrame}]
      /\ sent \in [Key -> SUBSET Frame]
  BY DEF Init
<1>7. QED
  BY <1>1, <1>2, <1>3, <1>4, <1>5, <1>6 DEF TypeOK

\* The key of a sender is a key, and a frame it sends is a frame.
LEMMA SenderType ==
    ASSUME TypeOK, NEW s \in Sender
    PROVE  KeyOf(s) \in Key /\ (hand[s] # NoFrame => hand[s] \in Frame)
  BY DEF TypeOK, KeyOf, Sender

\* A sender that is done frees its timer, if it is one.
LEMMA DoneType ==
    ASSUME TypeOK, NEW s \in Sender, Done(s)
    PROVE  /\ hand' \in [Sender -> Frame \cup {NoFrame}]
           /\ timer' \in [Timer -> [state : {"free", "armed", "fired", "sending"},
                                    key : Key, left : 0 .. Old]]
  BY WindowAssumption DEF TypeOK, Done, FreeTimer, Sender, Old

LEMMA SendType ==
    ASSUME TypeOK, NEW s \in Sender, Send(s)
    PROVE  TypeOK'
<1> USE DEF throttleVars, redisVars
<1>1. /\ KeyOf(s) \in Key /\ hand[s] \in Frame
      /\ hand' \in [Sender -> Frame \cup {NoFrame}]
      /\ timer' \in [Timer -> [state : {"free", "armed", "fired", "sending"},
                               key : Key, left : 0 .. Old]]
      /\ UNCHANGED <<frame, throttleVars, redis, connected>>
  BY SenderType, DoneType DEF Send, SendDirect, Publish, PublishFails
<1>2. Published(s) \in Seq(Key \X Frame)
  BY <1>1, AppendProperties DEF Published, TypeOK
<1>3. channel' \in Seq(Key \X Frame)
  BY <1>2 DEF Send, SendDirect, Publish, PublishFails, TypeOK
<1>4. sent' \in [Key -> SUBSET Frame]
  <2>1. sent' = sent \/ ToHub(KeyOf(s), hand[s])
    BY DEF Send, SendDirect, Publish, PublishFails, Degraded
  <2>2. sent \in [Key -> SUBSET Frame]
    BY DEF TypeOK
  <2>3. QED
    BY <1>1, <2>1, <2>2 DEF ToHub
<1>5. missed' \in BOOLEAN
  BY DEF Send, SendDirect, Publish, PublishFails, TypeOK
<1>6. QED
  BY <1>1, <1>3, <1>4, <1>5 DEF TypeOK

LEMMA NextType == TypeOK /\ [Next]_vars => TypeOK'
<1> SUFFICES ASSUME TypeOK, [Next]_vars PROVE TypeOK'
  OBVIOUS
<1> USE WindowAssumption, TimerAssumption DEF throttleVars, redisVars
<1> DEFINE Timers == [Timer -> [state : {"free", "armed", "fired", "sending"},
                                key : Key, left : 0 .. Old]]
<1>1. CASE Tick
  <2>1. age' \in [Key -> 0 .. Old]
    BY <1>1 DEF Tick, TypeOK, Old
  <2>2. lag' \in [Key -> 0 .. MaxLag \cup {Idle}]
    <3>1. ASSUME NEW k \in Key
          PROVE  (IF lag[k] = Idle THEN Idle ELSE lag[k] + 1) \in 0 .. MaxLag \cup {Idle}
      <4>1. lag[k] \in 0 .. MaxLag \cup {Idle} /\ lag[k] < MaxLag
        BY <1>1 DEF Tick, TypeOK
      <4>2. QED
        BY <4>1 DEF Idle
    <3>2. QED
      BY <1>1, <3>1 DEF Tick
  <2>3. timer' \in Timers
    <3>1. ASSUME NEW t \in Timer
          PROVE  [timer[t] EXCEPT !.left = IF @ > 0 THEN @ - 1 ELSE 0]
                   \in [state : {"free", "armed", "fired", "sending"},
                        key : Key, left : 0 .. Old]
      <4>1. timer[t] \in [state : {"free", "armed", "fired", "sending"},
                          key : Key, left : 0 .. Old]
        BY DEF TypeOK
      <4>2. QED
        BY <4>1 DEF Old
    <3>2. QED
      BY <1>1, <3>1 DEF Tick
  <2>4. QED
    BY <1>1, <2>1, <2>2, <2>3 DEF Tick, TypeOK
<1>2. ASSUME NEW k \in Key, Call(k) PROVE TypeOK'
  <2>1. frame' \in [Key -> Frame \cup {NoFrame}]
    <3>1. frame[k] + 1 \in Frame
      <4>1. frame[k] \in Frame \cup {NoFrame} /\ frame[k] < MaxFrames
        BY <1>2 DEF Call, TypeOK
      <4>2. QED
        BY <4>1 DEF Frame, NoFrame
    <3>2. QED
      BY <1>2, <3>1 DEF Call, TypeOK
  <2>2. lag' \in [Key -> 0 .. MaxLag \cup {Idle}]
    BY <1>2 DEF Call, TypeOK
  <2>3. QED
    BY <1>2, <2>1, <2>2 DEF Call, TypeOK
<1>3. ASSUME NEW k \in Key, SendAtOnce(k) PROVE TypeOK'
  <2>1. timer' \in Timers
    BY <1>3 DEF SendAtOnce, Stopped, FreeTimer, TypeOK, Old
  <2>2. lag[k] \in 0 .. MaxLag /\ lag[k] \in 0 .. Old
    BY <1>3 DEF SendAtOnce, TypeOK, Old, Idle
  <2>3. age' \in [Key -> 0 .. Old] /\ lag' \in [Key -> 0 .. MaxLag \cup {Idle}]
    BY <1>3, <2>2 DEF SendAtOnce, TypeOK
  <2>4. /\ flushTimer' \in [Key -> Timer \cup {NoTimer}]
        /\ pending' \in [Key -> Frame \cup {NoFrame}]
        /\ hand' \in [Sender -> Frame \cup {NoFrame}]
    BY <1>3 DEF SendAtOnce, Detached, TypeOK, Sender
  <2>5. QED
    BY <1>3, <2>1, <2>3, <2>4 DEF SendAtOnce, TypeOK
<1>4. ASSUME NEW k \in Key, Hold(k) PROVE TypeOK'
  <2>1. Remaining(k) \in 0 .. Old
    <3>1. lag[k] \in 0 .. MaxLag /\ age[k] \in Nat
      BY <1>4 DEF Hold, TypeOK, Idle
    <3>2. age[k] - lag[k] < Window
      BY <1>4 DEF Hold, Elapsed
    <3>3. QED
      BY <3>1, <3>2 DEF Remaining, Elapsed, Old
  <2>2. timer' \in Timers /\ flushTimer' \in [Key -> Timer \cup {NoTimer}]
    <3>1. CASE flushTimer[k] # NoTimer
      BY <1>4, <3>1 DEF Hold, TypeOK
    <3>2. CASE flushTimer[k] = NoTimer
      <4>1. PICK t \in Timer :
              /\ timer' = [timer EXCEPT ![t] =
                             [state |-> "armed", key |-> k, left |-> Remaining(k)]]
              /\ flushTimer' = [flushTimer EXCEPT ![k] = t]
        BY <1>4, <3>2 DEF Hold
      <4>2. QED
        BY <2>1, <4>1 DEF TypeOK
    <3>3. QED
      BY <3>1, <3>2
  <2>3. /\ pending' \in [Key -> Frame \cup {NoFrame}]
        /\ lag' \in [Key -> 0 .. MaxLag \cup {Idle}]
    BY <1>4 DEF Hold, Latest, TypeOK
  <2>4. QED
    BY <1>4, <2>2, <2>3 DEF Hold, TypeOK
<1>5. ASSUME NEW t \in Timer, TimerFires(t) PROVE TypeOK'
  <2>1. timer' \in Timers
    BY <1>5 DEF TimerFires, TypeOK
  <2>2. QED
    BY <1>5, <2>1 DEF TimerFires, TypeOK
<1>6. ASSUME NEW t \in Timer, Flush(t) PROVE TypeOK'
  <2> DEFINE k == timer[t].key
  <2>1. timer[t] \in [state : {"free", "armed", "fired", "sending"}, key : Key, left : 0 .. Old]
    BY DEF TypeOK
  <2>2. /\ FreeTimer(k) \in [state : {"free", "armed", "fired", "sending"},
                             key : Key, left : 0 .. Old]
        /\ [timer[t] EXCEPT !.state = "sending"]
             \in [state : {"free", "armed", "fired", "sending"}, key : Key, left : 0 .. Old]
    BY <2>1 DEF FreeTimer, Old
  <2>3. \/ timer' = [timer EXCEPT ![t] = FreeTimer(k)] /\ UNCHANGED <<age, hand>>
        \/ /\ timer' = [timer EXCEPT ![t].state = "sending"]
           /\ hand' = [hand EXCEPT ![t] = pending[k]]
           /\ age' = [age EXCEPT ![k] = 0]
    BY <1>6 DEF Flush
  <2>4. timer' \in Timers
    <3>1. timer \in Timers
      BY DEF TypeOK
    <3>2. QED
      BY <2>1, <2>2, <2>3, <3>1
  <2>5. age' \in [Key -> 0 .. Old] /\ hand' \in [Sender -> Frame \cup {NoFrame}]
    <3>1. 0 \in 0 .. Old /\ k \in Key /\ t \in Sender
      BY <2>1 DEF Old, Sender
    <3>2. /\ pending[k] \in Frame \cup {NoFrame}
          /\ age \in [Key -> 0 .. Old] /\ hand \in [Sender -> Frame \cup {NoFrame}]
      BY <3>1 DEF TypeOK
    <3>3. QED
      BY <2>3, <3>1, <3>2
  <2>6. /\ flushTimer' \in [Key -> Timer \cup {NoTimer}]
        /\ pending' \in [Key -> Frame \cup {NoFrame}]
    BY <1>6 DEF Flush, Emptied, Cleared, TypeOK
  <2>7. QED
    BY <1>6, <2>4, <2>5, <2>6 DEF Flush, TypeOK
<1>7. ASSUME NEW s \in Sender, Send(s) PROVE TypeOK'
  BY <1>7, SendType
<1>8. CASE Forward
  <2>1. Head(channel) \in Key \X Frame /\ Tail(channel) \in Seq(Key \X Frame)
    BY <1>8, HeadTailProperties DEF Forward, TypeOK
  <2>2. sent' \in [Key -> SUBSET Frame] /\ channel' \in Seq(Key \X Frame)
    BY <1>8, <2>1 DEF Forward, ToHub, TypeOK
  <2>3. QED
    BY <1>8, <2>2 DEF Forward, TypeOK
<1>9. CASE Subscribe
  BY <1>9 DEF Subscribe, TypeOK
<1>10. CASE Disconnect
  <2>1. channel' \in Seq(Key \X Frame)
    BY <1>10, EmptySeq DEF Disconnect
  <2>2. missed' \in BOOLEAN
    BY <1>10 DEF Disconnect, TypeOK
  <2>3. QED
    BY <1>10, <2>1, <2>2 DEF Disconnect, TypeOK
<1>11. CASE UNCHANGED vars
  BY <1>11 DEF vars, TypeOK
<1>12. QED
  BY <1>1, <1>2, <1>3, <1>4, <1>5, <1>6, <1>7, <1>8, <1>9, <1>10, <1>11 DEF Next

\* The variables keep their types: no timer is armed with a negative time, however
\* late a caller gets the mutex.
THEOREM TypeCorrect == Spec => []TypeOK
  BY InitType, NextType, PTL DEF Spec
-----------------------------------------------------------------------------
(* The timers of the throttle *)

TimerRecord == [state : {"free", "armed", "fired", "sending"}, key : Key, left : 0 .. Old]

\* The timer a key points at will come for that key, and not before the window
\* is over.
PointerInv(k) ==
    flushTimer[k] # NoTimer =>
       /\ Live(flushTimer[k], k)
       /\ age[k] + timer[flushTimer[k]].left >= Window

\* A frame waits only where there is a pointer.
WaitInv(k) == pending[k] # NoFrame => flushTimer[k] # NoTimer

\* A goroutine that holds a frame is past its flush.
SendingInv(t) ==
    /\ hand[t] # NoFrame => timer[t].state = "sending"
    /\ timer[t].state = "fired" => timer[t].left = 0

Timers == /\ \A k \in Key : PointerInv(k) /\ WaitInv(k)
          /\ \A t \in Timer : SendingInv(t)

\* What TypeOK says of one key and of one timer.
LEMMA TypeAt ==
    ASSUME TypeOK
    PROVE  /\ \A k \in Key :
                /\ age[k] \in 0 .. Old
                /\ lag[k] \in 0 .. MaxLag \cup {Idle}
                /\ frame[k] \in Frame \cup {NoFrame}
                /\ pending[k] \in Frame \cup {NoFrame}
                /\ flushTimer[k] \in Timer \cup {NoTimer}
                /\ sent[k] \subseteq Frame
           /\ \A t \in Timer : timer[t] \in TimerRecord
           /\ \A s \in Sender : hand[s] \in Frame \cup {NoFrame}
           /\ Key \subseteq Sender /\ Timer \subseteq Sender
<1>1. \A k \in Key :
        /\ age[k] \in 0 .. Old
        /\ lag[k] \in 0 .. MaxLag \cup {Idle}
        /\ frame[k] \in Frame \cup {NoFrame}
        /\ pending[k] \in Frame \cup {NoFrame}
        /\ flushTimer[k] \in Timer \cup {NoTimer}
        /\ sent[k] \subseteq Frame
  BY DEF TypeOK
<1>2. \A t \in Timer : timer[t] \in TimerRecord
  BY DEF TypeOK, TimerRecord
<1>3. \A s \in Sender : hand[s] \in Frame \cup {NoFrame}
  BY DEF TypeOK
<1>4. QED
  BY <1>1, <1>2, <1>3 DEF Sender

\* The functions that TypeOK speaks of have their domains.
LEMMA Domains ==
    ASSUME TypeOK
    PROVE  /\ DOMAIN age = Key /\ DOMAIN lag = Key /\ DOMAIN frame = Key
           /\ DOMAIN pending = Key /\ DOMAIN flushTimer = Key /\ DOMAIN sent = Key
           /\ DOMAIN timer = Timer /\ DOMAIN hand = Sender
           /\ timer \in [Timer -> TimerRecord]
  BY DEF TypeOK, TimerRecord

LEMMA InitTimers == Init => Timers
<1> SUFFICES ASSUME Init PROVE Timers
  OBVIOUS
<1>1. ASSUME NEW k \in Key PROVE PointerInv(k) /\ WaitInv(k)
  BY DEF Init, PointerInv, WaitInv
<1>2. ASSUME NEW t \in Timer PROVE SendingInv(t)
  BY DEF Init, SendingInv, FreeTimer, Sender
<1>3. QED
  BY <1>1, <1>2 DEF Timers

\* A step that leaves pointers, frames, ages and timers alone.
LEMMA SameTimers ==
    ASSUME Timers, UNCHANGED <<age, pending, flushTimer, timer, hand>>
    PROVE  Timers'
  BY DEF Timers, PointerInv, WaitInv, SendingInv, Live

LEMMA TickTimers ==
    ASSUME TypeOK, Timers, Tick
    PROVE  Timers'
<1> USE WindowAssumption, TimerAssumption DEF Timers
<1>1. ASSUME NEW t \in Timer
      PROVE  /\ timer'[t].state = timer[t].state /\ timer'[t].key = timer[t].key
             /\ timer'[t].left = IF timer[t].left > 0 THEN timer[t].left - 1 ELSE 0
  <2>1. timer[t] \in TimerRecord
    BY TypeAt
  <2>2. timer'[t] = [timer[t] EXCEPT !.left = IF @ > 0 THEN @ - 1 ELSE 0]
    BY DEF Tick
  <2>3. QED
    BY <2>1, <2>2 DEF TimerRecord
<1>2. ASSUME NEW k \in Key PROVE PointerInv(k)' /\ WaitInv(k)'
  <2>1. UNCHANGED <<pending, flushTimer>>
    BY DEF Tick
  <2>2. age'[k] = IF age[k] < Old THEN age[k] + 1 ELSE Old
    BY DEF Tick
  <2>3. ASSUME flushTimer[k] # NoTimer
        PROVE  /\ Live(flushTimer[k], k)'
               /\ age'[k] + timer'[flushTimer[k]].left >= Window
    <3>1. flushTimer[k] \in Timer /\ PointerInv(k)
      BY <2>3, TypeAt
    <3>2. Live(flushTimer[k], k)'
      BY <1>1, <2>1, <2>3, <3>1 DEF PointerInv, Live
    <3>3. /\ age[k] + timer[flushTimer[k]].left >= Window
          /\ age[k] \in 0 .. Old /\ timer[flushTimer[k]].left \in 0 .. Old
      BY <2>3, <3>1, TypeAt DEF PointerInv, TimerRecord
    <3>4. age'[k] + timer'[flushTimer[k]].left >= Window
      BY <1>1, <2>2, <3>1, <3>3 DEF Old
    <3>5. QED
      BY <3>2, <3>4
  <2>4. QED
    BY <2>1, <2>3 DEF PointerInv, WaitInv
<1>3. ASSUME NEW t \in Timer PROVE SendingInv(t)'
  BY <1>1, <1>3 DEF Tick, SendingInv
<1>4. QED
  BY <1>2, <1>3

LEMMA SendAtOnceTimers ==
    ASSUME TypeOK, Timers, NEW k \in Key, SendAtOnce(k)
    PROVE  Timers'
<1> USE TimerAssumption DEF Timers
<1>1. \A t \in Timer :
        timer'[t] = IF t = flushTimer[k] /\ timer[t].state = "armed"
                      THEN FreeTimer(k) ELSE timer[t]
  BY Domains DEF SendAtOnce, Stopped
<1>2. /\ \A j \in Key \ {k} : /\ flushTimer'[j] = flushTimer[j]
                              /\ pending'[j] = pending[j]
                              /\ age'[j] = age[j]
      /\ flushTimer'[k] = NoTimer /\ pending'[k] = NoFrame
  BY Domains DEF SendAtOnce, Detached
<1>3. \A t \in Timer : hand'[t] = hand[t]
  BY Domains DEF SendAtOnce, Sender
<1>4. ASSUME NEW j \in Key PROVE PointerInv(j)' /\ WaitInv(j)'
  <2>1. CASE j = k
    BY <1>2, <2>1 DEF PointerInv, WaitInv
  <2>2. CASE j # k
    <3>1. ASSUME flushTimer[j] # NoTimer
          PROVE  timer'[flushTimer[j]] = timer[flushTimer[j]]
      <4>1. flushTimer[j] \in Timer /\ timer[flushTimer[j]].key = j
        BY <3>1, TypeAt DEF PointerInv, Live
      <4>2. CASE flushTimer[j] = flushTimer[k]
        BY <2>2, <3>1, <4>1, <4>2 DEF PointerInv, Live
      <4>3. CASE flushTimer[j] # flushTimer[k]
        BY <1>1, <4>1, <4>3
      <4>4. QED
        BY <4>2, <4>3
    <3>2. PointerInv(j) /\ WaitInv(j)
      OBVIOUS
    <3>3. QED
      BY <1>2, <2>2, <3>1, <3>2 DEF PointerInv, WaitInv, Live
  <2>3. QED
    BY <2>1, <2>2
<1>5. ASSUME NEW t \in Timer PROVE SendingInv(t)'
  <2>1. SendingInv(t)
    OBVIOUS
  <2>2. QED
    BY <1>1, <1>3, <2>1 DEF SendingInv, FreeTimer
<1>6. QED
  BY <1>4, <1>5

LEMMA HoldTimers ==
    ASSUME TypeOK, Timers, NEW k \in Key, Hold(k)
    PROVE  Timers'
<1> USE TimerAssumption DEF Timers
<1>1. /\ UNCHANGED <<age, hand>>
      /\ \A j \in Key \ {k} : pending'[j] = pending[j]
  BY Domains DEF Hold
<1>2. CASE flushTimer[k] # NoTimer
  <2>1. UNCHANGED <<timer, flushTimer>>
    BY <1>2 DEF Hold
  <2>2. QED
    BY <1>1, <1>2, <2>1 DEF PointerInv, WaitInv, SendingInv, Live
<1>3. CASE flushTimer[k] = NoTimer
  <2>1. PICK t \in Timer :
          /\ timer[t].state = "free"
          /\ timer' = [timer EXCEPT ![t] =
                         [state |-> "armed", key |-> k, left |-> Remaining(k)]]
          /\ flushTimer' = [flushTimer EXCEPT ![k] = t]
    BY <1>3 DEF Hold
  <2>2. /\ timer'[t] = [state |-> "armed", key |-> k, left |-> Remaining(k)]
        /\ \A u \in Timer \ {t} : timer'[u] = timer[u]
        /\ flushTimer'[k] = t
        /\ \A j \in Key \ {k} : flushTimer'[j] = flushTimer[j]
    BY <2>1, Domains
  <2>3. ASSUME NEW j \in Key PROVE PointerInv(j)' /\ WaitInv(j)'
    <3>1. CASE j = k
      <4>1. age[k] \in Nat /\ lag[k] \in Nat /\ Window \in Nat
        BY TypeAt, WindowAssumption DEF Hold, Idle
      <4>2. age[k] + Remaining(k) >= Window
        BY <4>1 DEF Remaining, Elapsed
      <4>3. t # NoTimer
        OBVIOUS
      <4>4. QED
        BY <1>1, <2>2, <3>1, <4>2, <4>3 DEF PointerInv, WaitInv, Live
    <3>2. CASE j # k
      <4>1. PointerInv(j) /\ WaitInv(j) /\ flushTimer[j] \in Timer \cup {NoTimer}
        BY TypeAt
      <4>2. flushTimer[j] # t
        BY <2>1, <4>1 DEF PointerInv, Live
      <4>3. QED
        BY <1>1, <2>2, <3>2, <4>1, <4>2 DEF PointerInv, WaitInv, Live
    <3>3. QED
      BY <3>1, <3>2
  <2>4. ASSUME NEW u \in Timer PROVE SendingInv(u)'
    <3>1. SendingInv(u)
      OBVIOUS
    <3>2. QED
      BY <1>1, <2>1, <2>2, <3>1 DEF SendingInv
  <2>5. QED
    BY <2>3, <2>4
<1>4. QED
  BY <1>2, <1>3

LEMMA FiresTimers ==
    ASSUME TypeOK, Timers, NEW t \in Timer, TimerFires(t)
    PROVE  Timers'
<1> USE TimerAssumption DEF Timers
<1>1. timer[t] \in TimerRecord
  BY TypeAt
<1>2. UNCHANGED <<age, pending, flushTimer, hand>>
  BY DEF TimerFires, throttleVars
<1>3. /\ timer'[t].state = "fired" /\ timer'[t].key = timer[t].key
      /\ timer'[t].left = timer[t].left
      /\ timer[t].left = 0
      /\ timer[t].state = "armed"
      /\ \A u \in Timer \ {t} : timer'[u] = timer[u]
  BY <1>1, Domains DEF TimerFires, TimerRecord
<1>4. ASSUME NEW j \in Key PROVE PointerInv(j)' /\ WaitInv(j)'
  <2>1. PointerInv(j) /\ WaitInv(j) /\ flushTimer[j] \in Timer \cup {NoTimer}
    BY TypeAt
  <2>2. CASE flushTimer[j] = t
    BY <1>2, <1>3, <2>1, <2>2 DEF PointerInv, WaitInv, Live
  <2>3. CASE flushTimer[j] # t
    BY <1>2, <1>3, <2>1, <2>3 DEF PointerInv, WaitInv, Live
  <2>4. QED
    BY <2>2, <2>3
<1>5. ASSUME NEW u \in Timer PROVE SendingInv(u)'
  <2>1. SendingInv(u)
    OBVIOUS
  <2>2. QED
    BY <1>2, <1>3, <2>1 DEF SendingInv
<1>6. QED
  BY <1>4, <1>5

\* What a flush does to each timer, key and goroutine.
LEMMA FlushStep ==
    ASSUME TypeOK, Timers, NEW t \in Timer, Flush(t)
    PROVE  LET k == timer[t].key
           IN  /\ k \in Key /\ timer[t].state = "fired" /\ hand[t] = NoFrame
               /\ timer[t].left = 0
               /\ \A u \in Timer \ {t} : timer'[u] = timer[u]
               /\ timer'[t].key = k
               /\ flushTimer'[k] = NoTimer /\ pending'[k] = NoFrame
               /\ \A j \in Key \ {k} : /\ flushTimer'[j] = flushTimer[j]
                                       /\ pending'[j] = pending[j]
                                       /\ age'[j] = age[j]
               /\ \A s \in Sender \ {t} : hand'[s] = hand[s]
               /\ hand'[t] = pending[k]
               /\ IF pending[k] = NoFrame
                    THEN timer'[t].state = "free"
                    ELSE timer'[t].state = "sending"
               /\ UNCHANGED <<frame, lag, redis, connected, channel, missed, sent>>
<1> DEFINE k == timer[t].key
<1>1. timer[t] \in TimerRecord /\ k \in Key
  BY TypeAt DEF TimerRecord
<1>2. timer[t].state = "fired" /\ hand[t] = NoFrame /\ timer[t].left = 0
  BY DEF Flush, Timers, SendingInv
<1>3. /\ flushTimer' = [flushTimer EXCEPT ![k] = NoTimer]
      /\ pending' = [pending EXCEPT ![k] = NoFrame]
      /\ UNCHANGED <<frame, lag, redis, connected, channel, missed, sent>>
  BY DEF Flush, Cleared, Emptied, redisVars
<1>4. CASE pending[k] = NoFrame
  <2>1. timer' = [timer EXCEPT ![t] = FreeTimer(k)] /\ UNCHANGED <<age, hand>>
    BY <1>4 DEF Flush
  <2>2. timer'[t] = FreeTimer(k) /\ \A u \in Timer \ {t} : timer'[u] = timer[u]
    BY <2>1, Domains
  <2>3. QED
    BY <1>1, <1>2, <1>3, <1>4, <2>1, <2>2, Domains DEF FreeTimer
<1>5. CASE pending[k] # NoFrame
  <2>1. /\ timer' = [timer EXCEPT ![t].state = "sending"]
        /\ hand' = [hand EXCEPT ![t] = pending[k]]
        /\ age' = [age EXCEPT ![k] = 0]
    BY <1>5 DEF Flush
  <2>2. /\ timer'[t].state = "sending" /\ timer'[t].key = k
        /\ \A u \in Timer \ {t} : timer'[u] = timer[u]
    BY <1>1, <2>1, Domains DEF TimerRecord
  <2>3. /\ hand'[t] = pending[k]
        /\ \A s \in Sender \ {t} : hand'[s] = hand[s]
        /\ \A j \in Key \ {k} : age'[j] = age[j]
    BY <1>1, <2>1, Domains, TypeAt
  <2>4. QED
    BY <1>1, <1>2, <1>3, <1>5, <2>2, <2>3, Domains
<1>6. QED
  BY <1>4, <1>5

LEMMA FlushTimers ==
    ASSUME TypeOK, Timers, NEW t \in Timer, Flush(t)
    PROVE  Timers'
<1> USE TimerAssumption DEF Timers
<1> DEFINE k == timer[t].key
<1>1. ASSUME NEW j \in Key PROVE PointerInv(j)' /\ WaitInv(j)'
  <2>1. CASE j = k
    BY <2>1, FlushStep DEF PointerInv, WaitInv
  <2>2. CASE j # k
    <3>1. PointerInv(j) /\ WaitInv(j) /\ flushTimer[j] \in Timer \cup {NoTimer}
      BY TypeAt
    <3>2. flushTimer[j] # t
      BY <2>2, <3>1 DEF PointerInv, Live
    <3>3. QED
      BY <2>2, <3>1, <3>2, FlushStep DEF PointerInv, WaitInv, Live
  <2>3. QED
    BY <2>1, <2>2
<1>2. ASSUME NEW u \in Timer PROVE SendingInv(u)'
  <2>1. SendingInv(u) /\ u \in Sender
    BY DEF Sender
  <2>2. QED
    BY <2>1, FlushStep DEF SendingInv
<1>3. QED
  BY <1>1, <1>2

\* What a broadcast does to each timer and goroutine.
LEMMA SendStep ==
    ASSUME TypeOK, Timers, NEW s \in Sender, Send(s)
    PROVE  /\ hand[s] \in Frame /\ KeyOf(s) \in Key
           /\ hand'[s] = NoFrame
           /\ \A r \in Sender \ {s} : hand'[r] = hand[r]
           /\ \A u \in Timer \ {s} : timer'[u] = timer[u]
           /\ s \in Timer => /\ timer[s].state = "sending"
                             /\ timer'[s].state = "free" /\ timer'[s].key = timer[s].key
           /\ UNCHANGED <<frame, age, lag, pending, flushTimer, redis, connected>>
<1>1. /\ Done(s) /\ hand[s] # NoFrame
      /\ UNCHANGED <<frame, age, lag, pending, flushTimer, redis, connected>>
  BY DEF Send, SendDirect, Publish, PublishFails, throttleVars, redisVars
<1>2. hand' = [hand EXCEPT ![s] = NoFrame]
  BY <1>1 DEF Done
<1>3. \A u \in Timer \ {s} : timer'[u] = timer[u]
  BY <1>1, Domains DEF Done
<1>4. ASSUME s \in Timer
      PROVE  timer'[s] = FreeTimer(timer[s].key) /\ timer[s].state = "sending"
  BY <1>1, <1>4, Domains DEF Done, Timers, SendingInv
<1>5. QED
  BY <1>1, <1>2, <1>3, <1>4, SenderType, Domains DEF FreeTimer

LEMMA SendTimers ==
    ASSUME TypeOK, Timers, NEW s \in Sender, Send(s)
    PROVE  Timers'
<1> USE TimerAssumption DEF Timers
<1>1. ASSUME NEW j \in Key PROVE PointerInv(j)' /\ WaitInv(j)'
  <2>1. PointerInv(j) /\ WaitInv(j) /\ flushTimer[j] \in Timer \cup {NoTimer}
    BY TypeAt
  <2>2. flushTimer[j] # NoTimer => flushTimer[j] # s
    BY <2>1, SendStep DEF PointerInv, Live
  <2>3. QED
    BY <2>1, <2>2, SendStep DEF PointerInv, WaitInv, Live
<1>2. ASSUME NEW u \in Timer PROVE SendingInv(u)'
  <2>1. SendingInv(u) /\ u \in Sender
    BY DEF Sender
  <2>2. QED
    BY <2>1, SendStep DEF SendingInv
<1>3. QED
  BY <1>1, <1>2

LEMMA NextTimers == TypeOK /\ Timers /\ [Next]_vars => Timers'
<1> SUFFICES ASSUME TypeOK, Timers, [Next]_vars PROVE Timers'
  OBVIOUS
<1>1. CASE Tick
  BY <1>1, TickTimers
<1>2. ASSUME NEW k \in Key, Call(k) PROVE Timers'
  BY <1>2, SameTimers DEF Call
<1>3. ASSUME NEW k \in Key, SendAtOnce(k) PROVE Timers'
  BY <1>3, SendAtOnceTimers
<1>4. ASSUME NEW k \in Key, Hold(k) PROVE Timers'
  BY <1>4, HoldTimers
<1>5. ASSUME NEW t \in Timer, TimerFires(t) PROVE Timers'
  BY <1>5, FiresTimers
<1>6. ASSUME NEW t \in Timer, Flush(t) PROVE Timers'
  BY <1>6, FlushTimers
<1>7. ASSUME NEW s \in Sender, Send(s) PROVE Timers'
  BY <1>7, SendTimers
<1>8. CASE Forward
  BY <1>8, SameTimers DEF Forward, throttleVars
<1>9. CASE Subscribe
  BY <1>9, SameTimers DEF Subscribe, throttleVars
<1>10. CASE Disconnect
  BY <1>10, SameTimers DEF Disconnect, throttleVars
<1>11. CASE UNCHANGED vars
  BY <1>11, SameTimers DEF vars, throttleVars
<1>12. QED
  BY <1>1, <1>2, <1>3, <1>4, <1>5, <1>6, <1>7, <1>8, <1>9, <1>10, <1>11 DEF Next

LEMMA TimersAlways == Spec => [](TypeOK /\ Timers)
<1>1. Init => TypeOK /\ Timers
  BY InitType, InitTimers
<1>2. TypeOK /\ Timers /\ [Next]_vars => (TypeOK /\ Timers)'
  BY NextType, NextTimers
<1>3. QED
  BY <1>1, <1>2, PTL DEF Spec

\* A frame that waits has a timer that will come for it, for any keys, timers
\* and windows: publishSessionMessage stops timers that may have fired.
THEOREM WaitersAreFetched == Spec => []PendingHasTimer
<1>1. TypeOK /\ Timers => PendingHasTimer
  BY TypeAt DEF Timers, PointerInv, WaitInv, PendingHasTimer
<1>2. QED
  BY <1>1, TimersAlways, PTL

-----------------------------------------------------------------------------
(* The frames of a key *)

\* The goroutine that holds a frame keeps its key.
LEMMA KeyStays ==
    ASSUME TypeOK, Timers, [Next]_vars, NEW s \in Sender, hand[s] # NoFrame
    PROVE  KeyOf(s)' = KeyOf(s)
<1> USE TimerAssumption
<1>1. CASE s \in Key
  BY <1>1 DEF KeyOf
<1>2. CASE s \notin Key
  <2>1. s \in Timer /\ timer[s].state = "sending" /\ timer[s] \in TimerRecord
    BY <1>2, TypeAt DEF Sender, Timers, SendingInv
  <2>2. SUFFICES timer'[s].key = timer[s].key
    BY <1>2, <2>1 DEF KeyOf
  <2>3. CASE Tick
    <3>1. timer'[s] = [timer[s] EXCEPT !.left = IF @ > 0 THEN @ - 1 ELSE 0]
      BY <2>1, <2>3 DEF Tick
    <3>2. QED
      BY <2>1, <3>1 DEF TimerRecord
  <2>4. ASSUME NEW k \in Key, SendAtOnce(k) PROVE timer'[s].key = timer[s].key
    BY <2>1, <2>4, Domains DEF SendAtOnce, Stopped
  <2>5. ASSUME NEW k \in Key, Hold(k) PROVE timer'[s].key = timer[s].key
    <3>1. CASE flushTimer[k] # NoTimer
      BY <2>5, <3>1 DEF Hold
    <3>2. CASE flushTimer[k] = NoTimer
      <4>1. PICK t \in Timer :
              /\ timer[t].state = "free"
              /\ timer' = [timer EXCEPT ![t] =
                             [state |-> "armed", key |-> k, left |-> Remaining(k)]]
        BY <2>5, <3>2 DEF Hold
      <4>2. QED
        BY <2>1, <4>1, Domains
    <3>3. QED
      BY <3>1, <3>2
  <2>6. ASSUME NEW t \in Timer, TimerFires(t) PROVE timer'[s].key = timer[s].key
    <3>1. t # s
      BY <2>1, <2>6 DEF TimerFires
    <3>2. QED
      BY <2>1, <2>6, <3>1, Domains DEF TimerFires
  <2>7. ASSUME NEW t \in Timer, Flush(t) PROVE timer'[s].key = timer[s].key
    BY <2>1, <2>7, FlushStep
  <2>8. ASSUME NEW r \in Sender, Send(r) PROVE timer'[s].key = timer[s].key
    BY <2>1, <2>8, SendStep
  <2>9. CASE Forward \/ Subscribe \/ Disconnect \/ UNCHANGED vars
          \/ \E k \in Key : Call(k)
    BY <2>9 DEF Forward, Subscribe, Disconnect, vars, Call
  <2>10. QED
    BY <2>3, <2>4, <2>5, <2>6, <2>7, <2>8, <2>9 DEF Next
<1>3. QED
  BY <1>1, <1>2

\* What taking the frame at once does to each key and goroutine.
LEMMA SendAtOnceStep ==
    ASSUME TypeOK, NEW k \in Key, SendAtOnce(k)
    PROVE  /\ hand'[k] = frame[k] /\ \A s \in Sender \ {k} : hand'[s] = hand[s]
           /\ pending'[k] = NoFrame /\ \A j \in Key \ {k} : pending'[j] = pending[j]
           /\ lag'[k] = Idle /\ \A j \in Key \ {k} : lag'[j] = lag[j]
           /\ lag[k] # Idle /\ age[k] >= Window
           /\ UNCHANGED <<frame, redis, connected, channel, missed, sent>>
<1>1. age[k] >= Window
  <2>1. age[k] \in Nat /\ lag[k] \in Nat /\ age[k] - lag[k] >= Window /\ Window \in Nat
    BY TypeAt, WindowAssumption DEF SendAtOnce, Elapsed, Idle
  <2>2. QED
    BY <2>1
<1>2. QED
  BY <1>1, Domains, TypeAt DEF SendAtOnce, redisVars

\* What holding a frame does to each key.
LEMMA HoldStep ==
    ASSUME TypeOK, NEW k \in Key, Hold(k)
    PROVE  /\ pending'[k] = frame[k] /\ \A j \in Key \ {k} : pending'[j] = pending[j]
           /\ lag'[k] = Idle /\ \A j \in Key \ {k} : lag'[j] = lag[j]
           /\ lag[k] # Idle
           /\ UNCHANGED <<frame, hand, redis, connected, channel, missed, sent>>
  BY Domains DEF Hold, Latest, redisVars

\* Frames of a key are taken a window apart, except by a timer the key no longer
\* points at: the window that is left when a timer is armed makes up for the age
\* of what was sent last, whenever its caller got the mutex.
THEOREM WindowIsKept == Spec => TakenApart
<1> DEFINE Apart ==
      \A s \in Sender :
        hand'[s] # hand[s] /\ hand'[s] # NoFrame =>
           LET k == KeyOf(s)
           IN  \/ age[k] >= Window
               \/ s \in Timer /\ flushTimer[k] # s
<1>1. TypeOK /\ Timers /\ [Next]_vars => [Apart]_vars
  <2> SUFFICES ASSUME TypeOK, Timers, Next,
                      NEW s \in Sender, hand'[s] # hand[s], hand'[s] # NoFrame
               PROVE  \/ age[KeyOf(s)] >= Window
                      \/ s \in Timer /\ flushTimer[KeyOf(s)] # s
    OBVIOUS
  <2>1. ASSUME NEW k \in Key, SendAtOnce(k)
        PROVE  age[KeyOf(s)] >= Window
    <3>1. s = k
      BY <2>1, SendAtOnceStep
    <3>2. QED
      BY <2>1, <3>1, SendAtOnceStep DEF KeyOf
  <2>2. ASSUME NEW t \in Timer, Flush(t)
        PROVE  \/ age[KeyOf(s)] >= Window
               \/ s \in Timer /\ flushTimer[KeyOf(s)] # s
    <3>1. s = t /\ timer[t].key \in Key /\ timer[t].left = 0
      BY <2>2, FlushStep
    <3>2. KeyOf(s) = timer[t].key
      BY <3>1, TimerAssumption DEF KeyOf
    <3>3. CASE flushTimer[timer[t].key] = t
      <4>1. age[timer[t].key] + 0 >= Window /\ age[timer[t].key] \in 0 .. Old
        BY <3>1, <3>3, TypeAt, TimerAssumption DEF Timers, PointerInv
      <4>2. QED
        BY <3>2, <4>1, WindowAssumption
    <3>4. QED
      BY <3>1, <3>2, <3>3
  <2>3. ASSUME NEW r \in Sender, Send(r) PROVE FALSE
    BY <2>3, SendStep
  <2>4. CASE \/ Tick \/ Forward \/ Subscribe \/ Disconnect
             \/ \E k \in Key : Call(k) \/ Hold(k)
             \/ \E t \in Timer : TimerFires(t)
    BY <2>4 DEF Tick, Forward, Subscribe, Disconnect, Call, Hold, TimerFires
  <2>5. QED
    BY <2>1, <2>2, <2>3, <2>4 DEF Next
<1>2. QED
  BY <1>1, TimersAlways, PTL DEF Spec, TakenApart

\* The ways of the last frame of a key, from its caller to the hub.
OnItsWay(k) == \E s \in Sender : hand[s] = frame[k] /\ KeyOf(s) = k
Queued(k) == \E n \in 1 .. Len(channel) : channel[n] = <<k, frame[k]>>
Safe(k) == \/ frame[k] \in sent[k] \/ lag[k] # Idle \/ pending[k] = frame[k]
           \/ OnItsWay(k) \/ Queued(k) \/ missed

\* A goroutine that keeps its frame keeps the last frame on its way.
LEMMA StaysOnItsWay ==
    ASSUME TypeOK, Timers, [Next]_vars, NEW k \in Key, NEW s \in Sender,
           frame[k] # NoFrame, frame'[k] = frame[k],
           hand[s] = frame[k], KeyOf(s) = k, hand'[s] = hand[s]
    PROVE  Safe(k)'
<1>1. KeyOf(s)' = k
  BY KeyStays
<1>2. OnItsWay(k)'
  BY <1>1 DEF OnItsWay
<1>3. QED
  BY <1>2 DEF Safe

LEMMA SendSafe ==
    ASSUME TypeOK, Timers, NEW s \in Sender, Send(s),
           NEW k \in Key, frame[k] # NoFrame, Safe(k)
    PROVE  Safe(k)'
<1>1. /\ hand[s] \in Frame /\ KeyOf(s) \in Key
      /\ frame' = frame /\ lag' = lag /\ pending' = pending
      /\ channel \in Seq(Key \X Frame) /\ sent \in [Key -> SUBSET Frame]
  BY SendStep DEF TypeOK
<1>2. CASE SendDirect(s) \/ PublishFails(s)
  <2>1. sent' = [sent EXCEPT ![KeyOf(s)] = @ \cup {hand[s]}]
        /\ channel' \in {channel, Append(channel, <<KeyOf(s), hand[s]>>)}
        /\ missed' = missed
    BY <1>2 DEF SendDirect, PublishFails, ToHub, Degraded, Published, redisVars
  <2>2. sent[k] \subseteq sent'[k] /\ hand[s] \in sent'[KeyOf(s)]
    BY <1>1, <2>1
  <2>3. ASSUME Queued(k) PROVE Queued(k)'
    <3>1. PICK n \in 1 .. Len(channel) : channel[n] = <<k, frame[k]>>
      BY <2>3 DEF Queued
    <3>2. LET more == Append(channel, <<KeyOf(s), hand[s]>>)
          IN  n \in 1 .. Len(more) /\ more[n] = channel[n]
      BY <1>1, <3>1, AppendProperties, LenProperties
    <3>3. n \in 1 .. Len(channel') /\ channel'[n] = <<k, frame[k]>>
      BY <2>1, <3>1, <3>2
    <3>4. QED
      BY <1>1, <3>3 DEF Queued
  <2>4. ASSUME NEW r \in Sender, hand[r] = frame[k], KeyOf(r) = k
        PROVE  Safe(k)'
    <3>1. CASE r = s
      BY <1>1, <2>2, <2>4, <3>1 DEF Safe
    <3>2. CASE r # s
      BY <1>1, <2>4, <3>2, SendStep, StaysOnItsWay DEF Next
    <3>3. QED
      BY <3>1, <3>2
  <2>5. QED
    BY <1>1, <2>1, <2>2, <2>3, <2>4 DEF Safe, OnItsWay
<1>3. CASE Publish(s)
  <2>1. /\ channel' = IF connected THEN Append(channel, <<KeyOf(s), hand[s]>>) ELSE channel
        /\ missed' = (missed \/ ~connected) /\ sent' = sent
    BY <1>3 DEF Publish, Published
  <2>2. CASE ~connected
    BY <2>1, <2>2 DEF Safe
  <2>3. CASE connected
    <3>1. /\ channel'[Len(channel) + 1] = <<KeyOf(s), hand[s]>>
          /\ Len(channel') = Len(channel) + 1 /\ Len(channel) \in Nat
          /\ \A n \in 1 .. Len(channel) : channel'[n] = channel[n]
      BY <1>1, <2>1, <2>3, AppendProperties, LenProperties
    <3>2. ASSUME Queued(k) PROVE Queued(k)'
      BY <1>1, <3>1, <3>2 DEF Queued
    <3>3. ASSUME NEW r \in Sender, hand[r] = frame[k], KeyOf(r) = k
          PROVE  Safe(k)'
      <4>1. CASE r = s
        <5>1. Len(channel) + 1 \in 1 .. Len(channel')
          BY <3>1
        <5>2. Queued(k)'
          BY <1>1, <3>1, <3>3, <4>1, <5>1 DEF Queued
        <5>3. QED
          BY <5>2 DEF Safe
      <4>2. CASE r # s
        BY <1>1, <3>3, <4>2, SendStep, StaysOnItsWay DEF Next
      <4>3. QED
        BY <4>1, <4>2
    <3>4. QED
      BY <1>1, <2>1, <3>2, <3>3 DEF Safe, OnItsWay
  <2>4. QED
    BY <2>2, <2>3
<1>4. QED
  BY <1>2, <1>3 DEF Send

LEMMA ForwardSafe ==
    ASSUME TypeOK, Timers, Forward, NEW k \in Key, frame[k] # NoFrame, Safe(k)
    PROVE  Safe(k)'
<1>1. /\ channel \in Seq(Key \X Frame) /\ channel # <<>>
      /\ sent \in [Key -> SUBSET Frame]
      /\ channel' = Tail(channel)
      /\ sent' = [sent EXCEPT ![Head(channel)[1]] = @ \cup {Head(channel)[2]}]
      /\ UNCHANGED <<frame, lag, pending, hand, missed>>
  BY DEF Forward, ToHub, TypeOK, throttleVars
<1>2. /\ Head(channel) = channel[1] /\ channel[1] \in Key \X Frame
      /\ Len(channel) \in Nat /\ Len(Tail(channel)) = Len(channel) - 1
      /\ \A n \in 1 .. Len(channel) - 1 : Tail(channel)[n] = channel[n + 1]
  BY <1>1, HeadTailProperties, ElementOfSeq, EmptySeq, LenProperties
<1>3. sent[k] \subseteq sent'[k] /\ (channel[1] = <<k, frame[k]>> => frame[k] \in sent'[k])
  BY <1>1, <1>2
<1>4. ASSUME Queued(k) PROVE Safe(k)'
  <2>1. PICK n \in 1 .. Len(channel) : channel[n] = <<k, frame[k]>>
    BY <1>4 DEF Queued
  <2>2. CASE n = 1
    BY <1>1, <1>3, <2>1, <2>2 DEF Safe
  <2>3. CASE n # 1
    <3>1. n - 1 \in 1 .. Len(Tail(channel)) /\ Tail(channel)[n - 1] = channel[n]
      BY <1>2, <2>1, <2>3
    <3>2. Queued(k)'
      BY <1>1, <2>1, <3>1 DEF Queued
    <3>3. QED
      BY <3>2 DEF Safe
  <2>4. QED
    BY <2>2, <2>3
<1>5. ASSUME NEW r \in Sender, hand[r] = frame[k], KeyOf(r) = k
      PROVE  Safe(k)'
  BY <1>1, <1>5, StaysOnItsWay DEF Next
<1>6. QED
  BY <1>1, <1>3, <1>4, <1>5 DEF Safe, OnItsWay

LEMMA NextSafe == TypeOK /\ Timers /\ LastFrameSurvives /\ [Next]_vars
                    => LastFrameSurvives'
<1> SUFFICES ASSUME TypeOK, Timers, LastFrameSurvives, [Next]_vars,
                    NEW k \in Key, frame'[k] # NoFrame
             PROVE  Safe(k)'
  BY DEF LastFrameSurvives, Safe, OnItsWay, Queued
<1>1. frame[k] # NoFrame => Safe(k)
  BY DEF LastFrameSurvives, Safe, OnItsWay, Queued
<1>2. ASSUME NEW j \in Key, Call(j) PROVE Safe(k)'
  <2>1. UNCHANGED <<age, pending, flushTimer, timer, hand, redisVars, sent>>
    BY <1>2 DEF Call
  <2>2. CASE j = k
    <3>1. lag'[k] = 0
      BY <1>2, <2>2, Domains DEF Call
    <3>2. QED
      BY <3>1 DEF Safe, Idle
  <2>3. CASE j # k
    <3>1. frame'[k] = frame[k] /\ lag'[k] = lag[k]
      BY <1>2, <2>3, Domains DEF Call
    <3>2. QED
      BY <1>1, <2>1, <3>1 DEF Safe, OnItsWay, Queued, KeyOf, redisVars
  <2>4. QED
    BY <2>2, <2>3
<1>3. ASSUME ~ \E j \in Key : Call(j) PROVE frame' = frame
  BY <1>3, SendStep, FlushStep
    DEF Next, Tick, SendAtOnce, Hold, TimerFires, Forward, Subscribe, Disconnect, vars
<1>4. CASE frame' = frame
  <2> USE <1>4
  <2>1. frame[k] # NoFrame /\ Safe(k) /\ frame'[k] = frame[k]
    BY <1>1
  <2>2. ASSUME OnItsWay(k), hand' = hand PROVE Safe(k)'
    BY <2>1, <2>2, StaysOnItsWay DEF OnItsWay
  <2>3. CASE Tick
    <3>1. lag[k] # Idle => lag'[k] # Idle
      BY <2>3, TypeAt, WindowAssumption DEF Tick, Idle
    <3>2. UNCHANGED <<pending, hand, channel, missed, sent>>
      BY <2>3 DEF Tick, redisVars
    <3>3. QED
      BY <2>1, <2>2, <3>1, <3>2 DEF Safe, Queued
  <2>4. ASSUME NEW j \in Key, SendAtOnce(j) PROVE Safe(k)'
    <3>1. CASE j = k
      <4>1. KeyOf(k)' = k /\ k \in Sender
        BY DEF KeyOf, Sender
      <4>2. OnItsWay(k)'
        BY <2>4, <3>1, <4>1, SendAtOnceStep DEF OnItsWay
      <4>3. QED
        BY <4>2 DEF Safe
    <3>2. CASE j # k
      <4>1. ASSUME NEW s \in Sender, hand[s] = frame[k], KeyOf(s) = k
            PROVE  Safe(k)'
        <5>1. s # j
          BY <3>2, <4>1 DEF KeyOf
        <5>2. QED
          BY <2>1, <2>4, <4>1, <5>1, SendAtOnceStep, StaysOnItsWay
      <4>2. QED
        BY <2>1, <2>4, <3>2, <4>1, SendAtOnceStep DEF Safe, OnItsWay, Queued
    <3>3. QED
      BY <3>1, <3>2
  <2>5. ASSUME NEW j \in Key, Hold(j) PROVE Safe(k)'
    BY <2>1, <2>2, <2>5, HoldStep DEF Safe, Queued
  <2>6. ASSUME NEW t \in Timer, Flush(t) PROVE Safe(k)'
    <3> DEFINE j == timer[t].key
    <3>1. ASSUME pending[k] = frame[k], j = k PROVE Safe(k)'
      <4>1. KeyOf(t)' = k /\ t \in Sender /\ hand'[t] = frame[k]
        BY <2>6, <3>1, FlushStep, TimerAssumption DEF KeyOf, Sender
      <4>2. OnItsWay(k)'
        BY <4>1 DEF OnItsWay
      <4>3. QED
        BY <4>2 DEF Safe
    <3>2. ASSUME NEW s \in Sender, hand[s] = frame[k], KeyOf(s) = k PROVE Safe(k)'
      BY <2>1, <2>6, <3>2, FlushStep, StaysOnItsWay
    <3>3. QED
      BY <2>1, <2>6, <3>1, <3>2, FlushStep DEF Safe, OnItsWay, Queued
  <2>7. ASSUME NEW s \in Sender, Send(s) PROVE Safe(k)'
    BY <2>1, <2>7, SendSafe
  <2>8. CASE Forward
    BY <2>1, <2>8, ForwardSafe
  <2>9. CASE Disconnect
    <3>1. ASSUME Queued(k) PROVE missed'
      <4>1. channel # <<>>
        BY <3>1, EmptySeq DEF Queued
      <4>2. QED
        BY <2>9, <4>1 DEF Disconnect
    <3>2. missed => missed'
      BY <2>9 DEF Disconnect
    <3>3. UNCHANGED <<lag, pending, hand, sent>>
      BY <2>9 DEF Disconnect, throttleVars
    <3>4. QED
      BY <2>1, <2>2, <3>1, <3>2, <3>3 DEF Safe
  <2>10. CASE \/ Subscribe \/ UNCHANGED vars \/ \E t \in Timer : TimerFires(t)
    BY <2>1, <2>2, <2>10
      DEF Subscribe, vars, TimerFires, throttleVars, redisVars, Safe, Queued
  <2>11. ASSUME NEW j \in Key, Call(j) PROVE Safe(k)'
    BY <1>2, <2>11
  <2>12. QED
    BY <2>3, <2>4, <2>5, <2>6, <2>7, <2>8, <2>9, <2>10, <2>11 DEF Next
<1>5. QED
  BY <1>2, <1>3, <1>4

\* The last frame of a key is never swallowed between publishSessionMessage and
\* the hub, unless Redis drops a message that nobody receives.
THEOREM LastFrameSafety == Spec => []LastFrameSurvives
<1>1. Init => LastFrameSurvives
  BY DEF Init, LastFrameSurvives
<1>2. TypeOK /\ Timers /\ LastFrameSurvives /\ [Next]_vars => LastFrameSurvives'
  BY NextSafe
<1>3. QED
  BY <1>1, <1>2, TimersAlways, PTL DEF Spec

-----------------------------------------------------------------------------
(* Without Redis, every frame is broadcast once *)

\* What waits was not sent, and the frame of a caller is new.
QueueInv(k) ==
    /\ \A n \in sent[k] : n <= frame[k]
    /\ pending[k] <= frame[k]
    /\ pending[k] # NoFrame => pending[k] \notin sent[k]
    /\ lag[k] # Idle => /\ frame[k] # NoFrame
                        /\ frame[k] \notin sent[k]
                        /\ pending[k] # frame[k]

\* What a goroutine holds was not sent, does not wait, is older than the frame of
\* a caller, and nobody else holds it.
HandInv(k, s) ==
    hand[s] # NoFrame /\ KeyOf(s) = k =>
       /\ hand[s] <= frame[k]
       /\ hand[s] \notin sent[k]
       /\ hand[s] # pending[k]
       /\ lag[k] # Idle => hand[s] # frame[k]
       /\ \A r \in Sender : r # s /\ KeyOf(r) = k => hand[r] # hand[s]

OnceInv(k) == QueueInv(k) /\ \A s \in Sender : HandInv(k, s)

Once == ~redis => channel = <<>> /\ \A k \in Key : OnceInv(k)

\* A key whose frames stay where they are, or disappear.
LEMMA SameOnce ==
    ASSUME NEW k \in Key, OnceInv(k), frame'[k] = frame[k], sent'[k] = sent[k],
           pending'[k] = pending[k], lag'[k] # Idle => lag[k] # Idle,
           \A s \in Sender : hand'[s] # NoFrame /\ KeyOf(s)' = k
                               => hand[s] = hand'[s] /\ KeyOf(s) = k
    PROVE  OnceInv(k)'
<1>1. QueueInv(k)'
  BY DEF OnceInv, QueueInv
<1>2. ASSUME NEW s \in Sender, hand'[s] # NoFrame, KeyOf(s)' = k
      PROVE  /\ hand'[s] <= frame'[k]
             /\ hand'[s] \notin sent'[k]
             /\ hand'[s] # pending'[k]
             /\ lag'[k] # Idle => hand'[s] # frame'[k]
             /\ \A r \in Sender : r # s /\ KeyOf(r)' = k => hand'[r] # hand'[s]
  <2>1. hand[s] = hand'[s] /\ KeyOf(s) = k /\ HandInv(k, s)
    BY <1>2 DEF OnceInv
  <2>2. ASSUME NEW r \in Sender, r # s, KeyOf(r)' = k, hand'[r] = hand'[s]
        PROVE  FALSE
    <3>1. hand[r] = hand[s] /\ KeyOf(r) = k
      BY <1>2, <2>1, <2>2
    <3>2. QED
      BY <1>2, <2>1, <2>2, <3>1 DEF HandInv
  <2>3. QED
    BY <1>2, <2>1, <2>2 DEF HandInv
<1>3. QED
  BY <1>1, <1>2 DEF OnceInv, HandInv

\* A goroutine that keeps what it holds keeps its key.
LEMMA HeldOnce ==
    ASSUME TypeOK, Timers, [Next]_vars, NEW s \in Sender, NEW k \in Key,
           hand'[s] # NoFrame, KeyOf(s)' = k, hand'[s] = hand[s]
    PROVE  hand[s] = hand'[s] /\ KeyOf(s) = k
  BY KeyStays

LEMMA CallOnce ==
    ASSUME TypeOK, Timers, NEW j \in Key, Call(j), NEW k \in Key, OnceInv(k)
    PROVE  OnceInv(k)'
<1>1. UNCHANGED <<pending, timer, hand, sent>>
  BY DEF Call
<1>2. CASE k # j
  <2>1. frame'[k] = frame[k] /\ lag'[k] = lag[k]
    BY <1>2, Domains DEF Call
  <2>2. QED
    BY <1>1, <2>1, SameOnce DEF KeyOf
<1>3. CASE k = j
  <2>1. /\ frame'[k] = frame[k] + 1 /\ frame[k] \in Nat /\ pending[k] \in Nat
        /\ sent[k] \subseteq Nat /\ \A s \in Sender : hand[s] \in Nat
    <3>1. frame'[k] = frame[k] + 1
      BY <1>3, Domains DEF Call
    <3>2. QED
      BY <3>1, TypeAt DEF Frame, NoFrame
  <2>2. QueueInv(k)'
    <3>1. QueueInv(k)
      BY DEF OnceInv
    <3>2. QED
      BY <1>1, <2>1, <3>1 DEF QueueInv, NoFrame
  <2>3. ASSUME NEW s \in Sender PROVE HandInv(k, s)'
    <3>1. HandInv(k, s)
      BY DEF OnceInv
    <3>2. QED
      BY <1>1, <2>1, <3>1 DEF HandInv, NoFrame, KeyOf
  <2>4. QED
    BY <2>2, <2>3 DEF OnceInv
<1>4. QED
  BY <1>2, <1>3

LEMMA SendAtOnceOnce ==
    ASSUME TypeOK, Timers, NEW j \in Key, SendAtOnce(j), NEW k \in Key, OnceInv(k)
    PROVE  OnceInv(k)'
<1>1. QueueInv(k) /\ \A s \in Sender : HandInv(k, s)
  BY DEF OnceInv
<1>2. CASE k # j
  <2>1. ASSUME NEW s \in Sender, hand'[s] # NoFrame, KeyOf(s)' = k
        PROVE  hand[s] = hand'[s] /\ KeyOf(s) = k
    <3>1. s # j
      BY <1>2, <2>1 DEF KeyOf
    <3>2. QED
      BY <2>1, <3>1, SendAtOnceStep, HeldOnce DEF Next
  <2>2. QED
    BY <1>2, <2>1, SendAtOnceStep, SameOnce
<1>3. CASE k = j
  <2>1. frame[k] \in Nat /\ NoFrame <= frame[k]
    BY TypeAt DEF Frame, NoFrame
  <2>2. QueueInv(k)'
    BY <1>1, <1>3, <2>1, SendAtOnceStep DEF QueueInv
  <2>3. ASSUME NEW s \in Sender, s # k, hand'[s] # NoFrame, KeyOf(s)' = k
        PROVE  /\ hand'[s] = hand[s] /\ hand[s] # frame[k]
               /\ hand[s] <= frame[k] /\ hand[s] \notin sent[k]
               /\ \A r \in Sender : r # s /\ KeyOf(r) = k => hand[r] # hand[s]
    <3>1. hand'[s] = hand[s]
      BY <1>3, <2>3, SendAtOnceStep
    <3>2. KeyOf(s) = k
      BY <2>3, <3>1, HeldOnce DEF Next
    <3>3. QED
      BY <1>1, <1>3, <2>3, <3>1, <3>2, SendAtOnceStep DEF HandInv
  <2>4. ASSUME NEW s \in Sender, hand'[s] # NoFrame, KeyOf(s)' = k
        PROVE  /\ hand'[s] <= frame'[k] /\ hand'[s] \notin sent'[k]
               /\ hand'[s] # pending'[k] /\ lag'[k] = Idle
               /\ \A r \in Sender : r # s /\ KeyOf(r)' = k => hand'[r] # hand'[s]
    <3>1. hand'[k] = frame[k] /\ frame[k] \notin sent[k] /\ k \in Sender
      BY <1>1, <1>3, SendAtOnceStep DEF QueueInv, Sender
    <3>2. ASSUME NEW r \in Sender, r # s, KeyOf(r)' = k, hand'[r] = hand'[s]
          PROVE  FALSE
      <4>1. CASE s = k
        BY <2>3, <2>4, <3>1, <3>2, <4>1
      <4>2. CASE r = k
        BY <2>3, <2>4, <3>1, <3>2, <4>2
      <4>3. CASE s # k /\ r # k
        <5>1. hand'[s] = hand[s] /\ hand'[r] = hand[r]
          BY <2>3, <2>4, <3>2, <4>3
        <5>2. KeyOf(r) = k
          BY <2>4, <3>2, <5>1, HeldOnce DEF Next
        <5>3. QED
          BY <2>3, <2>4, <3>2, <4>3, <5>1, <5>2
      <4>4. QED
        BY <4>1, <4>2, <4>3
    <3>3. QED
      BY <1>3, <2>1, <2>3, <2>4, <3>1, <3>2, SendAtOnceStep
  <2>5. QED
    BY <2>2, <2>4 DEF OnceInv, HandInv
<1>4. QED
  BY <1>2, <1>3

LEMMA HoldOnce ==
    ASSUME TypeOK, Timers, NEW j \in Key, Hold(j), NEW k \in Key, OnceInv(k)
    PROVE  OnceInv(k)'
<1>1. ASSUME NEW s \in Sender, hand'[s] # NoFrame, KeyOf(s)' = k
      PROVE  hand[s] = hand'[s] /\ KeyOf(s) = k
  BY <1>1, HoldStep, HeldOnce DEF Next
<1>2. CASE k # j
  BY <1>1, <1>2, HoldStep, SameOnce
<1>3. CASE k = j
  <2>1. QueueInv(k) /\ frame[k] \in Nat /\ \A s \in Sender : HandInv(k, s)
    BY TypeAt DEF OnceInv, Frame, NoFrame
  <2>2. QueueInv(k)'
    BY <1>3, <2>1, HoldStep DEF QueueInv
  <2>3. ASSUME NEW s \in Sender PROVE HandInv(k, s)'
    <3>1. HandInv(k, s)
      BY <2>1
    <3>2. QED
      BY <1>1, <1>3, <3>1, HoldStep DEF HandInv
  <2>4. QED
    BY <2>2, <2>3 DEF OnceInv
<1>4. QED
  BY <1>2, <1>3

LEMMA FlushOnce ==
    ASSUME TypeOK, Timers, NEW t \in Timer, Flush(t), NEW k \in Key, OnceInv(k)
    PROVE  OnceInv(k)'
<1>1. QueueInv(k) /\ \A s \in Sender : HandInv(k, s)
  BY DEF OnceInv
<1>2. KeyOf(t) = timer[t].key /\ KeyOf(t)' = timer[t].key /\ t \in Sender
  BY FlushStep, TimerAssumption DEF KeyOf, Sender
<1>3. ASSUME NEW s \in Sender, s # t, hand'[s] # NoFrame, KeyOf(s)' = k
      PROVE  hand[s] = hand'[s] /\ KeyOf(s) = k
  BY <1>3, FlushStep, HeldOnce DEF Next
<1>4. CASE k # timer[t].key
  BY <1>2, <1>3, <1>4, FlushStep, SameOnce
<1>5. CASE k = timer[t].key
  <2>1. frame[k] \in Nat /\ NoFrame <= frame[k]
    BY TypeAt DEF Frame, NoFrame
  <2>2. QueueInv(k)'
    BY <1>1, <1>5, <2>1, FlushStep DEF QueueInv
  <2>3. ASSUME NEW s \in Sender, s # t, hand'[s] # NoFrame, KeyOf(s)' = k
        PROVE  /\ hand'[s] = hand[s] /\ hand[s] # pending[k]
               /\ lag[k] # Idle => hand[s] # frame[k]
               /\ hand[s] <= frame[k] /\ hand[s] \notin sent[k]
               /\ \A r \in Sender : r # s /\ KeyOf(r) = k => hand[r] # hand[s]
    BY <1>1, <1>3, <2>3 DEF HandInv
  <2>4. ASSUME NEW s \in Sender, hand'[s] # NoFrame, KeyOf(s)' = k
        PROVE  /\ hand'[s] <= frame'[k] /\ hand'[s] \notin sent'[k]
               /\ hand'[s] # pending'[k]
               /\ lag'[k] # Idle => hand'[s] # frame'[k]
               /\ \A r \in Sender : r # s /\ KeyOf(r)' = k => hand'[r] # hand'[s]
    <3>1. hand'[t] = pending[k] /\ pending'[k] = NoFrame
          /\ UNCHANGED <<frame, lag, sent>>
      BY <1>5, FlushStep
    <3>2. ASSUME NEW r \in Sender, r # s, KeyOf(r)' = k, hand'[r] = hand'[s]
          PROVE  FALSE
      <4>1. CASE s = t
        BY <2>3, <2>4, <3>1, <3>2, <4>1
      <4>2. CASE r = t
        BY <2>3, <2>4, <3>1, <3>2, <4>2
      <4>3. CASE s # t /\ r # t
        BY <1>3, <2>3, <2>4, <3>2, <4>3
      <4>4. QED
        BY <4>1, <4>2, <4>3
    <3>3. CASE s = t
      BY <1>1, <2>4, <3>1, <3>2, <3>3 DEF QueueInv
    <3>4. CASE s # t
      BY <2>3, <2>4, <3>1, <3>2, <3>4
    <3>5. QED
      BY <3>3, <3>4
  <2>5. QED
    BY <2>2, <2>4 DEF OnceInv, HandInv
<1>6. QED
  BY <1>4, <1>5

LEMMA SendOnce ==
    ASSUME TypeOK, Timers, NEW s \in Sender, Send(s), ~redis, NEW k \in Key, OnceInv(k)
    PROVE  OnceInv(k)'
<1>1. QueueInv(k) /\ \A r \in Sender : HandInv(k, r)
  BY DEF OnceInv
<1>2. /\ sent' = [sent EXCEPT ![KeyOf(s)] = @ \cup {hand[s]}]
      /\ sent \in [Key -> SUBSET Frame] /\ KeyOf(s) \in Key
  BY SendStep DEF Send, SendDirect, Publish, PublishFails, ToHub, TypeOK
<1>3. ASSUME NEW r \in Sender, hand'[r] # NoFrame, KeyOf(r)' = k
      PROVE  r # s /\ hand[r] = hand'[r] /\ KeyOf(r) = k
  BY <1>3, SendStep, HeldOnce DEF Next
<1>4. CASE k # KeyOf(s)
  <2>1. sent'[k] = sent[k]
    BY <1>2, <1>4
  <2>2. QED
    BY <1>3, <2>1, SendStep, SameOnce
<1>5. CASE k = KeyOf(s)
  <2>1. sent'[k] = sent[k] \cup {hand[s]}
    BY <1>2, <1>5
  <2>2. HandInv(k, s) /\ hand[s] # NoFrame
    BY <1>1, SendStep DEF Frame, NoFrame
  <2>3. QueueInv(k)'
    BY <1>1, <1>5, <2>1, <2>2, SendStep DEF QueueInv, HandInv
  <2>4. ASSUME NEW r \in Sender, hand'[r] # NoFrame, KeyOf(r)' = k
        PROVE  /\ hand'[r] <= frame'[k] /\ hand'[r] \notin sent'[k]
               /\ hand'[r] # pending'[k]
               /\ lag'[k] # Idle => hand'[r] # frame'[k]
               /\ \A q \in Sender : q # r /\ KeyOf(q)' = k => hand'[q] # hand'[r]
    <3>1. r # s /\ hand[r] = hand'[r] /\ KeyOf(r) = k /\ HandInv(k, r)
      BY <1>1, <1>3, <2>4
    <3>2. hand[r] # hand[s]
      BY <1>5, <2>2, <3>1 DEF HandInv
    <3>3. ASSUME NEW q \in Sender, q # r, KeyOf(q)' = k, hand'[q] = hand'[r]
          PROVE  FALSE
      BY <1>3, <2>4, <3>1, <3>3 DEF HandInv
    <3>4. QED
      BY <2>1, <2>4, <3>1, <3>2, <3>3, SendStep DEF HandInv
  <2>5. QED
    BY <2>3, <2>4 DEF OnceInv, HandInv
<1>6. QED
  BY <1>4, <1>5

LEMMA NextOnce == TypeOK /\ Timers /\ Once /\ [Next]_vars => Once'
<1> SUFFICES ASSUME TypeOK, Timers, Once, [Next]_vars, ~redis'
             PROVE  channel' = <<>> /\ \A k \in Key : OnceInv(k)'
  BY DEF Once
<1>1. redis' = redis
  BY SendStep, FlushStep
    DEF Next, Tick, Call, SendAtOnce, Hold, TimerFires, Forward, Subscribe, Disconnect,
        vars, redisVars
<1>2. ~redis /\ channel = <<>> /\ \A k \in Key : OnceInv(k)
  BY <1>1 DEF Once
<1>3. ASSUME NEW s \in Sender, Send(s) PROVE SendDirect(s)
  BY <1>2, <1>3 DEF Send, Publish, PublishFails
<1>4. channel' = <<>>
  BY <1>2, <1>3, FlushStep
    DEF Next, Tick, Call, SendAtOnce, Hold, TimerFires, Forward, Subscribe, Disconnect,
        SendDirect, vars, redisVars
<1>5. ASSUME NEW k \in Key PROVE OnceInv(k)'
  <2>1. CASE Tick
    <3>1. lag[k] = Idle => lag'[k] = Idle
      BY <2>1 DEF Tick
    <3>2. UNCHANGED <<frame, pending, hand, sent>>
      BY <2>1 DEF Tick
    <3>3. QED
      BY <1>2, <3>1, <3>2, HeldOnce, SameOnce
  <2>2. ASSUME NEW j \in Key, Call(j) PROVE OnceInv(k)'
    BY <1>2, <2>2, CallOnce
  <2>3. ASSUME NEW j \in Key, SendAtOnce(j) PROVE OnceInv(k)'
    BY <1>2, <2>3, SendAtOnceOnce
  <2>4. ASSUME NEW j \in Key, Hold(j) PROVE OnceInv(k)'
    BY <1>2, <2>4, HoldOnce
  <2>5. ASSUME NEW t \in Timer, Flush(t) PROVE OnceInv(k)'
    BY <1>2, <2>5, FlushOnce
  <2>6. ASSUME NEW s \in Sender, Send(s) PROVE OnceInv(k)'
    BY <1>2, <2>6, SendOnce
  <2>7. CASE \/ Disconnect \/ UNCHANGED vars \/ \E t \in Timer : TimerFires(t)
    <3>1. UNCHANGED <<frame, pending, lag, hand, sent>>
      BY <2>7 DEF Disconnect, vars, TimerFires, throttleVars
    <3>2. QED
      BY <1>2, <3>1, HeldOnce, SameOnce
  <2>8. CASE Forward \/ Subscribe
    BY <1>2, <2>8 DEF Forward, Subscribe
  <2>9. QED
    BY <2>1, <2>2, <2>3, <2>4, <2>5, <2>6, <2>7, <2>8 DEF Next
<1>6. QED
  BY <1>4, <1>5

\* Without Redis no frame is broadcast twice, nor held by two goroutines: a timer
\* that fired too late and the caller that overtook it never send the same frame.
THEOREM OnceOnly == Spec => []SentOnce
<1>1. Init => Once
  BY DEF Init, Once, OnceInv, QueueInv, HandInv, NoFrame, Idle
<1>2. TypeOK /\ Timers /\ Once /\ [Next]_vars => Once'
  BY NextOnce
<1>3. TypeOK /\ Once => SentOnce
  BY SenderType DEF Once, OnceInv, HandInv, SentOnce
<1>4. QED
  BY <1>1, <1>2, <1>3, TimersAlways, PTL DEF Spec

-----------------------------------------------------------------------------
(* MessagePush implements the safety part of LatestDelivery: the initial states
   agree, and every step posts, delivers something that was posted, loses, or
   changes nothing that LatestDelivery sees. *)

\* Wherever a frame is between its caller and the hub, it was published.
PendingInv(k) == pending[k] <= frame[k]
HeldInv(s) == hand[s] # NoFrame => hand[s] <= frame[KeyOf(s)]
ChannelInv == \A n \in 1 .. Len(channel) : channel[n][2] <= frame[channel[n][1]]

NothingNew ==
    /\ \A k \in Key : PendingInv(k)
    /\ \A s \in Sender : HeldInv(s)
    /\ ChannelInv

\* The number of frames of a key never falls.
LEMMA FramesGrow ==
    ASSUME TypeOK, Timers, [Next]_vars, NEW k \in Key
    PROVE  frame[k] <= frame'[k] /\ frame[k] \in Nat /\ frame'[k] \in Nat
<1>1. frame[k] \in Nat
  BY TypeAt DEF Frame, NoFrame
<1>2. ASSUME NEW j \in Key, Call(j) PROVE frame'[k] = frame[k] \/ frame'[k] = frame[k] + 1
  BY <1>2, Domains DEF Call
<1>3. ASSUME ~ \E j \in Key : Call(j) PROVE frame' = frame
  BY <1>3, SendStep, FlushStep
    DEF Next, Tick, SendAtOnce, Hold, TimerFires, Forward, Subscribe, Disconnect, vars
<1>4. QED
  BY <1>1, <1>2, <1>3

\* A frame that was published stays published.
LEMMA StaysPublished ==
    ASSUME TypeOK, Timers, [Next]_vars, NEW k \in Key, NEW n \in Nat, n <= frame[k]
    PROVE  n <= frame'[k]
<1>1. frame[k] <= frame'[k] /\ frame[k] \in Nat /\ frame'[k] \in Nat
  BY FramesGrow
<1>2. QED
  BY <1>1

\* A goroutine that keeps its frame.
LEMMA HeldStays ==
    ASSUME TypeOK, Timers, [Next]_vars, NEW s \in Sender, HeldInv(s), hand'[s] = hand[s]
    PROVE  HeldInv(s)'
<1> SUFFICES ASSUME hand[s] # NoFrame PROVE hand[s] <= frame'[KeyOf(s)']
  BY DEF HeldInv
<1>1. KeyOf(s)' = KeyOf(s) /\ KeyOf(s) \in Key /\ hand[s] \in Nat
  BY KeyStays, SenderType, TypeAt DEF Frame, NoFrame
<1>2. hand[s] <= frame[KeyOf(s)]
  BY DEF HeldInv
<1>3. hand[s] <= frame'[KeyOf(s)]
  BY <1>1, <1>2, StaysPublished
<1>4. QED
  BY <1>1, <1>3

\* A frame that keeps waiting, starts to wait, or is taken.
LEMMA PendingStays ==
    ASSUME TypeOK, Timers, [Next]_vars, NEW k \in Key, PendingInv(k),
           pending'[k] \in {pending[k], frame[k], NoFrame}
    PROVE  PendingInv(k)'
<1>1. frame[k] <= frame'[k] /\ frame[k] \in Nat /\ frame'[k] \in Nat /\ pending[k] \in Nat
  BY FramesGrow, TypeAt DEF Frame, NoFrame
<1>2. QED
  BY <1>1 DEF PendingInv, NoFrame

\* What is in the channel after a step was there before, or was just sent.
LEMMA ChannelStep ==
    ASSUME TypeOK, Timers, ChannelInv, \A s \in Sender : HeldInv(s), [Next]_vars
    PROVE  ChannelInv'
<1> DEFINE Sound(q) == \A n \in 1 .. Len(q) : q[n][2] <= frame'[q[n][1]]
<1> SUFFICES Sound(channel')
  BY DEF ChannelInv
<1>1. channel \in Seq(Key \X Frame) /\ Len(channel) \in Nat
  BY LenProperties DEF TypeOK
<1>2. Sound(channel)
  <2> SUFFICES ASSUME NEW n \in 1 .. Len(channel)
               PROVE  channel[n][2] <= frame'[channel[n][1]]
    OBVIOUS
  <2>1. channel[n] \in Key \X Frame
    BY <1>1, ElementOfSeq
  <2>2. channel[n][1] \in Key /\ channel[n][2] \in Nat
    BY <2>1 DEF Frame
  <2>3. channel[n][2] <= frame[channel[n][1]]
    BY DEF ChannelInv
  <2>4. QED
    BY <2>2, <2>3, StaysPublished
<1>3. ASSUME NEW s \in Sender, Send(s) PROVE Sound(channel')
  <2>1. KeyOf(s) \in Key /\ hand[s] \in Frame
    BY <1>3, SendStep
  <2>2. hand[s] <= frame'[KeyOf(s)]
    <3>1. hand[s] # NoFrame /\ hand[s] \in Nat
      BY <2>1 DEF Frame, NoFrame
    <3>2. hand[s] <= frame[KeyOf(s)]
      BY <3>1 DEF HeldInv
    <3>3. QED
      BY <2>1, <3>1, <3>2, StaysPublished
  <2> DEFINE more == Append(channel, <<KeyOf(s), hand[s]>>)
  <2>3. Sound(more)
    <3>1. <<KeyOf(s), hand[s]>> \in Key \X Frame
      BY <2>1
    <3>2. /\ Len(more) = Len(channel) + 1
          /\ more[Len(channel) + 1] = <<KeyOf(s), hand[s]>>
          /\ \A n \in 1 .. Len(channel) : more[n] = channel[n]
      BY <1>1, <3>1, AppendProperties
    <3>3. QED
      BY <1>1, <1>2, <2>2, <3>2
  <2>4. channel' = channel \/ channel' = more
    BY <1>3 DEF Send, SendDirect, Publish, PublishFails, Published, redisVars
  <2> HIDE DEF more
  <2>5. QED
    BY <1>2, <2>3, <2>4
<1>4. CASE Forward
  <2>1. /\ channel' = Tail(channel) /\ Len(Tail(channel)) = Len(channel) - 1
        /\ \A n \in 1 .. Len(channel) - 1 : Tail(channel)[n] = channel[n + 1]
    BY <1>1, <1>4, HeadTailProperties DEF Forward
  <2>2. QED
    BY <1>1, <1>2, <2>1
<1>5. CASE Disconnect
  <2>1. channel' = <<>> /\ Len(channel') = 0
    BY <1>5 DEF Disconnect
  <2>2. QED
    BY <2>1
<1>6. CASE ~Forward /\ ~Disconnect /\ ~ \E s \in Sender : Send(s)
  <2>1. channel' = channel
    BY <1>6, FlushStep
      DEF Next, Tick, Call, SendAtOnce, Hold, TimerFires, Flush, Subscribe, vars, redisVars
  <2>2. QED
    BY <1>2, <2>1
<1>7. QED
  BY <1>3, <1>4, <1>5, <1>6

LEMMA NextNothingNew ==
    TypeOK /\ Timers /\ NothingNew /\ [Next]_vars => NothingNew'
<1> SUFFICES ASSUME TypeOK, Timers, NothingNew, [Next]_vars PROVE NothingNew'
  OBVIOUS
<1>1. ChannelInv'
  BY ChannelStep DEF NothingNew
<1>2. ASSUME NEW k \in Key PROVE PendingInv(k)'
  <2>1. PendingInv(k)
    BY DEF NothingNew
  <2>2. SUFFICES pending'[k] \in {pending[k], frame[k], NoFrame}
    BY <2>1, PendingStays
  <2>3. ASSUME NEW j \in Key, SendAtOnce(j) PROVE pending'[k] \in {pending[k], NoFrame}
    BY <2>3, SendAtOnceStep
  <2>4. ASSUME NEW j \in Key, Hold(j) PROVE pending'[k] \in {pending[k], frame[k]}
    BY <2>4, HoldStep
  <2>5. ASSUME NEW t \in Timer, Flush(t) PROVE pending'[k] \in {pending[k], NoFrame}
    BY <2>5, FlushStep
  <2>6. ASSUME NEW s \in Sender, Send(s) PROVE pending' = pending
    BY <2>6, SendStep
  <2>7. CASE \/ Tick \/ Forward \/ Subscribe \/ Disconnect \/ UNCHANGED vars
             \/ \E j \in Key : Call(j)
             \/ \E t \in Timer : TimerFires(t)
    BY <2>7 DEF Tick, Forward, Subscribe, Disconnect, vars, Call, TimerFires, throttleVars
  <2>8. QED
    BY <2>3, <2>4, <2>5, <2>6, <2>7 DEF Next
<1>3. ASSUME NEW s \in Sender PROVE HeldInv(s)'
  <2>1. HeldInv(s) /\ (hand'[s] = hand[s] => HeldInv(s)')
    BY HeldStays DEF NothingNew
  <2>2. ASSUME NEW k \in Key, SendAtOnce(k) PROVE HeldInv(s)'
    <3>1. CASE s = k
      <4>1. hand'[k] = frame[k] /\ frame' = frame /\ frame[k] \in Nat
        BY <2>2, SendAtOnceStep, TypeAt DEF Frame, NoFrame
      <4>2. QED
        BY <3>1, <4>1 DEF HeldInv, KeyOf
    <3>2. CASE s # k
      BY <2>1, <2>2, <3>2, SendAtOnceStep
    <3>3. QED
      BY <3>1, <3>2
  <2>3. ASSUME NEW t \in Timer, Flush(t) PROVE HeldInv(s)'
    <3>1. CASE s = t
      <4>1. /\ hand'[t] = pending[timer[t].key] /\ timer[t].key \in Key
            /\ timer'[t].key = timer[t].key
        BY <2>3, FlushStep
      <4>2. KeyOf(t)' = timer[t].key
        BY <4>1, TimerAssumption DEF KeyOf
      <4>3. pending[timer[t].key] <= frame[timer[t].key] /\ pending[timer[t].key] \in Nat
        BY <4>1, TypeAt DEF NothingNew, PendingInv, Frame, NoFrame
      <4>4. pending[timer[t].key] <= frame'[timer[t].key]
        BY <4>1, <4>3, StaysPublished
      <4>5. QED
        BY <3>1, <4>1, <4>2, <4>4 DEF HeldInv
    <3>2. CASE s # t
      BY <2>1, <2>3, <3>2, FlushStep
    <3>3. QED
      BY <3>1, <3>2
  <2>4. ASSUME NEW r \in Sender, Send(r) PROVE HeldInv(s)'
    <3>1. CASE s = r
      BY <2>4, <3>1, SendStep DEF HeldInv
    <3>2. CASE s # r
      BY <2>1, <2>4, <3>2, SendStep
    <3>3. QED
      BY <3>1, <3>2
  <2>5. CASE \/ Tick \/ Forward \/ Subscribe \/ Disconnect \/ UNCHANGED vars
             \/ \E k \in Key : Call(k) \/ Hold(k)
             \/ \E t \in Timer : TimerFires(t)
    <3>1. hand' = hand
      BY <2>5 DEF Tick, Forward, Subscribe, Disconnect, vars, Call, Hold, TimerFires
    <3>2. QED
      BY <2>1, <3>1
  <2>6. QED
    BY <2>2, <2>3, <2>4, <2>5 DEF Next
<1>4. QED
  BY <1>1, <1>2, <1>3 DEF NothingNew

-----------------------------------------------------------------------------
(* The steps of LatestDelivery *)

\* To put a frame that was published on the hub delivers it.
LEMMA HubDelivers ==
    ASSUME NEW k \in Key, NEW n \in Frame, n <= frame[k], frame[k] \in Nat, ToHub(k, n),
           UNCHANGED <<frame, missed>>
    PROVE  Promise!Next
<1>1. n \in 1 .. frame[k]
  BY DEF Frame
<1>2. Promise!Deliver(k, n)
  BY <1>1 DEF Promise!Deliver, ToHub
<1>3. QED
  BY <1>1, <1>2 DEF Promise!Next

LEMMA StepMaps ==
    TypeOK /\ Timers /\ NothingNew /\ [Next]_vars => [Promise!Next]_(Promise!deliveryVars)
<1> SUFFICES ASSUME TypeOK, Timers, NothingNew, [Next]_vars
             PROVE  Promise!Next \/ UNCHANGED <<frame, sent, missed>>
  BY DEF Promise!deliveryVars
<1>1. ASSUME NEW k \in Key, Call(k) PROVE Promise!Next
  <2>1. Promise!Post(k)
    BY <1>1 DEF Call, redisVars, Promise!Post
  <2>2. QED
    BY <2>1 DEF Promise!Next
<1>2. ASSUME NEW s \in Sender, Send(s) PROVE Promise!Next \/ UNCHANGED <<frame, sent, missed>>
  <2>1. /\ KeyOf(s) \in Key /\ hand[s] \in Frame /\ frame' = frame
        /\ hand[s] <= frame[KeyOf(s)] /\ frame[KeyOf(s)] \in Nat
    BY <1>2, SendStep, TypeAt DEF NothingNew, HeldInv, Frame, NoFrame
  <2>2. CASE SendDirect(s) \/ PublishFails(s)
    <3>1. ToHub(KeyOf(s), hand[s]) /\ missed' = missed
      BY <2>2 DEF SendDirect, PublishFails, Degraded, redisVars
    <3>2. QED
      BY <2>1, <3>1, HubDelivers
  <2>3. CASE Publish(s)
    <3>1. sent' = sent /\ (missed' = missed \/ missed' = TRUE) /\ missed \in BOOLEAN
      BY <2>3 DEF Publish, TypeOK
    <3>2. CASE missed' = missed
      BY <2>1, <3>1, <3>2
    <3>3. CASE missed' = TRUE
      BY <2>1, <3>1, <3>3 DEF Promise!Next, Promise!Lose
    <3>4. QED
      BY <3>1, <3>2, <3>3
  <2>4. QED
    BY <1>2, <2>2, <2>3 DEF Send
<1>3. CASE Forward
  <2>1. /\ channel \in Seq(Key \X Frame) /\ channel # <<>>
        /\ ToHub(Head(channel)[1], Head(channel)[2])
        /\ UNCHANGED <<frame, missed>>
    BY <1>3 DEF Forward, TypeOK
  <2>2. /\ Head(channel) = channel[1] /\ channel[1] \in Key \X Frame
        /\ 1 \in 1 .. Len(channel)
    BY <2>1, HeadTailProperties, ElementOfSeq, EmptySeq, LenProperties
  <2>3. /\ channel[1][1] \in Key /\ channel[1][2] \in Frame
        /\ channel[1][2] <= frame[channel[1][1]]
    BY <2>2 DEF NothingNew, ChannelInv
  <2>4. frame[channel[1][1]] \in Nat
    BY <2>3, TypeAt DEF Frame, NoFrame
  <2>5. QED
    BY <2>1, <2>2, <2>3, <2>4, HubDelivers
<1>4. CASE Disconnect
  <2>1. UNCHANGED <<frame, sent>> /\ (missed' = missed \/ missed' = TRUE)
    BY <1>4 DEF Disconnect, TypeOK
  <2>2. QED
    BY <2>1 DEF Promise!Next, Promise!Lose
<1>5. CASE \/ Tick \/ Subscribe \/ UNCHANGED vars
           \/ \E k \in Key : SendAtOnce(k) \/ Hold(k)
           \/ \E t \in Timer : TimerFires(t) \/ Flush(t)
  BY <1>5 DEF Tick, Subscribe, vars, SendAtOnce, Hold, TimerFires, Flush, redisVars
<1>6. QED
  BY <1>1, <1>2, <1>3, <1>4, <1>5 DEF Next

\* The throttle with its timers, Redis and the subscriber never broadcast what was
\* not published and never take back what they broadcast: the push of messages is
\* an implementation of LatestDelivery.
THEOREM PushDelivers == Spec => Promise!Safety
<1>1. Init => Promise!Init
  BY DEF Init, Promise!Init, NoFrame
<1>2. Init => NothingNew
  <2> SUFFICES ASSUME Init PROVE NothingNew
    OBVIOUS
  <2>1. ASSUME NEW k \in Key PROVE PendingInv(k)
    BY DEF Init, PendingInv, NoFrame
  <2>2. ASSUME NEW s \in Sender PROVE HeldInv(s)
    BY DEF Init, HeldInv
  <2>3. ChannelInv
    BY DEF Init, ChannelInv
  <2>4. QED
    BY <2>1, <2>2, <2>3 DEF NothingNew
<1>3. TypeOK /\ Timers /\ NothingNew /\ [Next]_vars => NothingNew'
  BY NextNothingNew
<1>4. TypeOK /\ Timers /\ NothingNew /\ [Next]_vars => [Promise!Next]_(Promise!deliveryVars)
  BY StepMaps
<1>5. QED
  BY <1>1, <1>2, <1>3, <1>4, TimersAlways, PTL DEF Spec, Promise!Safety

-----------------------------------------------------------------------------
(* The sockets of the page *)

BootStages == {"info", "view", "boot list", "boot panes"}
BootTurns == {<<"info", "view">>, <<"view", "boot list">>, <<"boot list", "boot panes">>}
Lists == {"boot list", "list"}
LastStages == {"boot list", "boot panes"}

PaneType ==
    /\ active \in Session \cup {NoSession}
    /\ paneLink \in [state : L!SocketState, of : Session \cup {NoSession}]

LinkType ==
    /\ tasks \in [L!Stages -> Nat]
    /\ attached \in BOOLEAN /\ mode \in {"desktop", "mobile"}
    /\ boardTimer \in BOOLEAN /\ paneTimer \in BOOLEAN
    /\ tangled \in BOOLEAN /\ strays \in Nat
    /\ boardLink \in L!SocketState
    /\ PaneType

\* One boot goes on at a time, and no board socket is connected before it ends.
OneBoot ==
    \A s \in BootStages : tasks[s] > 0 =>
        /\ tasks[s] = 1 /\ boardLink = "none" /\ ~boardTimer
        /\ \A r \in BootStages \ {s} : tasks[r] = 0

\* A page that nobody looks at waits for nothing and has no socket and no timer.
Still ==
    (mode = "mobile" \/ ~attached) =>
        /\ \A s \in L!Stages : tasks[s] = 0
        /\ boardLink = "none" /\ paneLink.state = "none" /\ ~boardTimer /\ ~paneTimer

LinkInv == LinkType /\ (~tangled => strays = 0 /\ OneBoot /\ Still)

\* A boot waits for answers.
LEMMA BootsAre == BootStages \subseteq L!Stages
  BY DEF BootStages, L!Stages

\* The number of a kind of loads, after one has begun, ended, or turned into another.
LEMMA LoadsMove ==
    ASSUME tasks \in [L!Stages -> Nat], NEW s \in L!Stages, NEW r \in L!Stages, r # s
    PROVE  /\ L!Begin(s) => /\ tasks' \in [L!Stages -> Nat] /\ tasks'[s] = tasks[s] + 1
                            /\ \A x \in L!Stages \ {s} : tasks'[x] = tasks[x]
           /\ L!End(s) /\ tasks[s] > 0 =>
                /\ tasks' \in [L!Stages -> Nat] /\ tasks'[s] = tasks[s] - 1
                /\ \A x \in L!Stages \ {s} : tasks'[x] = tasks[x]
           /\ L!Turn(s, r) /\ tasks[s] > 0 =>
                /\ tasks' \in [L!Stages -> Nat]
                /\ tasks'[s] = tasks[s] - 1 /\ tasks'[r] = tasks[r] + 1
                /\ \A x \in L!Stages \ {s, r} : tasks'[x] = tasks[x]
<1>1. tasks[s] \in Nat /\ tasks[r] \in Nat
  OBVIOUS
<1>2. ASSUME L!Begin(s)
      PROVE  /\ tasks' \in [L!Stages -> Nat] /\ tasks'[s] = tasks[s] + 1
             /\ \A x \in L!Stages \ {s} : tasks'[x] = tasks[x]
  BY <1>1, <1>2 DEF L!Begin
<1>3. ASSUME L!End(s), tasks[s] > 0
      PROVE  /\ tasks' \in [L!Stages -> Nat] /\ tasks'[s] = tasks[s] - 1
             /\ \A x \in L!Stages \ {s} : tasks'[x] = tasks[x]
  BY <1>1, <1>3 DEF L!End
<1>4. ASSUME L!Turn(s, r), tasks[s] > 0
      PROVE  /\ tasks' \in [L!Stages -> Nat]
             /\ tasks'[s] = tasks[s] - 1 /\ tasks'[r] = tasks[r] + 1
             /\ \A x \in L!Stages \ {s, r} : tasks'[x] = tasks[x]
  BY <1>1, <1>4 DEF L!Turn
<1>5. QED
  BY <1>2, <1>3, <1>4

\* Nothing waits on the page if and only if every number is 0.
LEMMA BusyIs ==
    ASSUME tasks \in [L!Stages -> Nat]
    PROVE  ~L!Busy <=> \A s \in L!Stages : tasks[s] = 0
<1>1. \A s \in L!Stages : tasks[s] > 0 <=> tasks[s] # 0
  <2>1. \A s \in L!Stages : tasks[s] \in Nat
    OBVIOUS
  <2>2. QED
    BY <2>1
<1>2. QED
  BY <1>1 DEF L!Busy

\* A request for another session leaves the field with a socket or without one.
LEMMA FollowedSocket ==
    ASSUME LinkType, NEW s \in Session \cup {NoSession}, L!FollowSession(s)
    PROVE  PaneType'
  BY DEF LinkType, PaneType, L!FollowSession, L!PaneSocket, L!SocketState

\* The answers a boot waits for keep what the invariant says.
LEMMA BootGoesOn ==
    ASSUME LinkInv, NEW s, NEW r, <<s, r>> \in BootTurns, tasks[s] > 0, L!Turn(s, r),
           UNCHANGED <<mode, attached, boardLink, boardTimer, paneTimer, strays, tangled>>,
           PaneType'
    PROVE  LinkInv'
<1>1. s \in L!Stages /\ r \in L!Stages /\ s # r /\ s \in BootStages /\ r \in BootStages
  BY DEF L!Stages, BootStages, BootTurns
<1>2. /\ tasks \in [L!Stages -> Nat] /\ tasks' \in [L!Stages -> Nat]
      /\ tasks'[s] = tasks[s] - 1 /\ tasks'[r] = tasks[r] + 1
      /\ \A x \in L!Stages \ {s, r} : tasks'[x] = tasks[x]
  BY <1>1, LoadsMove DEF LinkInv, LinkType, PaneType
<1>3. LinkType'
  BY <1>2 DEF LinkInv, LinkType, PaneType
<1>4. ASSUME ~tangled PROVE strays' = 0 /\ OneBoot' /\ Still'
  <2>1. /\ strays = 0 /\ tasks[s] = 1 /\ boardLink = "none" /\ ~boardTimer
        /\ \A x \in BootStages \ {s} : tasks[x] = 0
    BY <1>1, <1>4 DEF LinkInv, OneBoot
  <2>2. mode = "desktop" /\ attached
    BY <1>1, <1>4 DEF LinkInv, LinkType, PaneType, Still
  <2>3. tasks'[s] = 0 /\ tasks'[r] = 1 /\ \A x \in BootStages \ {s, r} : tasks'[x] = 0
    <3>1. s \in BootStages /\ r \in BootStages \ {s}
      BY <1>1
    <3>2. tasks[s] = 1 /\ tasks[r] = 0
      BY <2>1, <3>1
    <3>3. tasks'[s] = 0 /\ tasks'[r] = 1
      BY <1>2, <3>2
    <3>4. \A x \in BootStages \ {s, r} : tasks'[x] = 0
      BY <1>2, <2>1, BootsAre
    <3>5. QED
      BY <3>3, <3>4
  <2>4. OneBoot'
    BY <1>1, <2>1, <2>3 DEF OneBoot
  <2>5. QED
    BY <2>1, <2>2, <2>4 DEF Still
<1>5. QED
  BY <1>3, <1>4 DEF LinkInv

\* A list the page loads alone takes part in no boot.
LEMMA ListGoesOn ==
    ASSUME LinkInv, tasks' \in [L!Stages -> Nat],
           \A s \in BootStages : tasks'[s] = tasks[s],
           UNCHANGED <<mode, attached, boardLink, boardTimer, paneTimer, strays, tangled>>,
           \E s \in L!Stages : tasks[s] > 0,
           PaneType'
    PROVE  LinkInv'
<1>1. LinkType'
  BY DEF LinkInv, LinkType, PaneType
<1>2. ASSUME ~tangled PROVE strays' = 0 /\ OneBoot' /\ Still'
  <2>1. OneBoot' /\ strays' = 0
    BY <1>2 DEF LinkInv, OneBoot, BootStages
  <2>2. mode = "desktop" /\ attached
    BY <1>2 DEF LinkInv, LinkType, PaneType, Still
  <2>3. QED
    BY <2>1, <2>2 DEF Still
<1>3. QED
  BY <1>1, <1>2 DEF LinkInv

\* The end of a boot, with an answer or without one, connects the board socket when
\* none is in the field.
LEMMA BootEnds ==
    ASSUME LinkInv, NEW s \in LastStages, tasks[s] > 0, L!End(s),
           L!ConnectBoard(boardLink),
           UNCHANGED <<mode, attached, boardTimer, paneLink, paneTimer, active, tangled>>
    PROVE  LinkInv'
<1>1. s \in L!Stages /\ s \in BootStages /\ "info" \in L!Stages /\ s # "info"
  BY DEF L!Stages, BootStages, LastStages
<1>2. /\ tasks \in [L!Stages -> Nat] /\ tasks' \in [L!Stages -> Nat]
      /\ tasks'[s] = tasks[s] - 1 /\ \A x \in L!Stages \ {s} : tasks'[x] = tasks[x]
  BY <1>1, LoadsMove DEF LinkInv, LinkType, PaneType
<1>3. boardLink' \in L!SocketState /\ strays' \in Nat
  BY DEF LinkInv, LinkType, PaneType, L!ConnectBoard, L!SocketState
<1>4. LinkType'
  BY <1>2, <1>3 DEF LinkInv, LinkType, PaneType
<1>5. ASSUME ~tangled PROVE strays' = 0 /\ OneBoot' /\ Still'
  <2>1. /\ strays = 0 /\ tasks[s] = 1 /\ boardLink = "none"
        /\ \A x \in BootStages \ {s} : tasks[x] = 0
    BY <1>1, <1>5 DEF LinkInv, OneBoot
  <2>2. mode = "desktop" /\ attached
    BY <1>1, <1>5 DEF LinkInv, LinkType, PaneType, Still
  <2>3. \A x \in BootStages : tasks'[x] = 0
    <3>1. tasks'[s] = 0
      BY <1>2, <2>1
    <3>2. \A x \in BootStages \ {s} : tasks'[x] = 0
      BY <1>2, <2>1, BootsAre
    <3>3. QED
      BY <3>1, <3>2
  <2>4. strays' = 0
    BY <2>1 DEF L!ConnectBoard, L!Live
  <2>5. QED
    BY <2>2, <2>3, <2>4 DEF Still, OneBoot
<1>6. QED
  BY <1>4, <1>5 DEF LinkInv

\* A refused list closes everything.
LEMMA RefusedStops ==
    ASSUME LinkInv, NEW s \in Lists, L!WorkspacesRefused(s)
    PROVE  LinkInv'
<1>1. s \in L!Stages /\ "info" \in L!Stages /\ s # "info" /\ tasks[s] > 0 /\ L!End(s)
  BY DEF L!Stages, L!WorkspacesRefused, Lists
<1>2. /\ tasks \in [L!Stages -> Nat] /\ tasks' \in [L!Stages -> Nat]
      /\ tasks'[s] = tasks[s] - 1 /\ \A x \in L!Stages \ {s} : tasks'[x] = tasks[x]
  BY <1>1, LoadsMove DEF LinkInv, LinkType, PaneType
<1>3. /\ boardLink' = "none" /\ boardTimer' = FALSE /\ paneTimer' = FALSE
      /\ paneLink' = [state |-> "none", of |-> NoSession]
      /\ UNCHANGED <<mode, attached, strays, active, tangled>>
  BY DEF L!WorkspacesRefused, L!StopSync
<1>4. LinkType'
  BY <1>2, <1>3 DEF LinkInv, LinkType, PaneType, L!SocketState
<1>5. ASSUME ~tangled PROVE strays' = 0 /\ OneBoot' /\ Still'
  <2>1. mode = "desktop" /\ attached
    BY <1>1, <1>5 DEF LinkInv, LinkType, PaneType, Still
  <2>2. \A x \in L!Stages : tasks[x] \in Nat /\ tasks'[x] \in Nat /\ tasks'[x] <= tasks[x]
    BY <1>1, <1>2
  <2>3. strays = 0 /\ OneBoot
    BY <1>5 DEF LinkInv
  <2>4. \A x \in BootStages : x \in L!Stages
    BY DEF BootStages, L!Stages
  <2>5. OneBoot'
    <3> SUFFICES ASSUME NEW x \in BootStages, tasks'[x] > 0
                 PROVE  tasks'[x] = 1 /\ \A y \in BootStages \ {x} : tasks'[y] = 0
      BY <1>3 DEF OneBoot
    <3>1. tasks[x] > 0 /\ tasks[x] \in Nat /\ tasks'[x] \in Nat /\ tasks'[x] <= tasks[x]
      BY <2>2, <2>4
    <3>2. tasks[x] = 1 /\ \A y \in BootStages \ {x} : tasks[y] = 0
      BY <2>3, <3>1 DEF OneBoot
    <3>3. QED
      BY <2>2, <2>4, <3>1, <3>2
  <2>6. QED
    BY <1>3, <2>1, <2>3, <2>5 DEF Still
<1>6. QED
  BY <1>3, <1>4, <1>5 DEF LinkInv

\* The board socket breaks: a list is loaded and a timer is set, unless nobody looks.
LEMMA BoardBreaks ==
    ASSUME LinkInv, NEW next \in {"error", "closed"}, L!BoardFails(next)
    PROVE  LinkInv'
<1>1. "list" \in L!Stages /\ "info" \in L!Stages /\ "list" # "info" /\ "list" \notin BootStages
  BY DEF L!Stages, BootStages
<1>2. /\ boardLink' = next /\ next \in L!SocketState /\ boardLink # "none"
      /\ UNCHANGED <<mode, attached, paneLink, paneTimer, active, strays, tangled>>
  BY DEF L!BoardFails, L!SocketState, L!Live
<1>3. CASE attached
  <2>1. L!Begin("list") /\ L!ScheduleBoard
    BY <1>3 DEF L!BoardFails
  <2>2. tasks' \in [L!Stages -> Nat] /\ \A x \in L!Stages \ {"list"} : tasks'[x] = tasks[x]
    BY <1>1, <2>1, LoadsMove DEF LinkInv, LinkType, PaneType
  <2>3. boardTimer' \in BOOLEAN
    BY <2>1 DEF L!ScheduleBoard
  <2>4. LinkType'
    BY <1>2, <2>2, <2>3 DEF LinkInv, LinkType, PaneType
  <2>5. ASSUME ~tangled PROVE strays' = 0 /\ OneBoot' /\ Still'
    <3>1. strays = 0 /\ mode = "desktop"
      BY <1>2, <2>5 DEF LinkInv, LinkType, PaneType, Still
    <3>2. \A x \in BootStages : ~(tasks[x] > 0)
      BY <1>2, <2>5 DEF LinkInv, OneBoot
    <3>3. \A x \in BootStages : ~(tasks'[x] > 0)
      BY <1>1, <2>2, <3>2, BootsAre
    <3>4. QED
      BY <1>2, <1>3, <3>1, <3>3 DEF Still, OneBoot
  <2>6. QED
    BY <1>2, <2>4, <2>5 DEF LinkInv
<1>4. CASE ~attached
  <2>1. UNCHANGED <<tasks, boardTimer>>
    BY <1>4 DEF L!BoardFails
  <2>2. tangled
    BY <1>2, <1>4 DEF LinkInv, Still
  <2>3. LinkType'
    BY <1>2, <2>1 DEF LinkInv, LinkType, PaneType
  <2>4. QED
    BY <1>2, <2>2, <2>3 DEF LinkInv
<1>5. QED
  BY <1>3, <1>4

\* The page leaves the desktop layout or the document, and closes everything.
LEMMA PageLeaves ==
    ASSUME LinkInv, L!StopSync, tangled' = (tangled \/ L!Busy),
           UNCHANGED <<tasks, strays, active>>,
           attached' \in BOOLEAN, mode' \in {"desktop", "mobile"}
    PROVE  LinkInv'
<1>1. /\ boardLink' = "none" /\ boardTimer' = FALSE /\ paneTimer' = FALSE
      /\ paneLink' = [state |-> "none", of |-> NoSession]
  BY DEF L!StopSync
<1>2. LinkType'
  BY <1>1 DEF LinkInv, LinkType, PaneType, L!Busy, L!SocketState
<1>3. ASSUME ~tangled' PROVE strays' = 0 /\ OneBoot' /\ Still'
  <2>1. \A s \in L!Stages : tasks[s] = 0
    BY <1>3, BusyIs DEF LinkInv, LinkType, PaneType
  <2>2. \A s \in BootStages : ~(tasks[s] > 0)
    BY <2>1, BootsAre
  <2>3. strays = 0
    BY <1>3 DEF LinkInv
  <2>4. QED
    BY <1>1, <2>1, <2>2, <2>3 DEF OneBoot, Still
<1>4. QED
  BY <1>2, <1>3 DEF LinkInv

\* The page becomes wide and boots again.
LEMMA PageReturns ==
    ASSUME LinkInv, L!BecomesWide
    PROVE  LinkInv'
<1>1. /\ "info" \in L!Stages /\ "list" \in L!Stages /\ "info" # "list" /\ "info" \in BootStages
      /\ mode = "mobile" /\ mode' = "desktop" /\ L!Begin("info") /\ attached
      /\ tangled' = (tangled \/ L!Busy)
      /\ UNCHANGED <<attached, boardLink, boardTimer, paneLink, paneTimer, active, strays>>
  BY DEF L!Stages, BootStages, L!BecomesWide, L!links, L!Move
<1>2. /\ tasks' \in [L!Stages -> Nat] /\ tasks'["info"] = tasks["info"] + 1
      /\ \A x \in L!Stages \ {"info"} : tasks'[x] = tasks[x]
  BY <1>1, LoadsMove DEF LinkInv, LinkType, PaneType
<1>3. LinkType'
  BY <1>1, <1>2 DEF LinkInv, LinkType, PaneType, L!Busy
<1>4. ASSUME ~tangled' PROVE strays' = 0 /\ OneBoot' /\ Still'
  <2>1. ~tangled /\ strays = 0 /\ boardLink = "none" /\ ~boardTimer
    BY <1>1, <1>4 DEF LinkInv, Still
  <2>2. \A s \in L!Stages : tasks[s] = 0
    BY <1>1, <1>4, BusyIs DEF LinkInv, LinkType, PaneType
  <2>3. tasks'["info"] = 1
    BY <1>1, <1>2, <2>2
  <2>4. \A s \in BootStages \ {"info"} : tasks'[s] = 0
    BY <1>2, <2>2, BootsAre
  <2>5. OneBoot'
    <3> SUFFICES ASSUME NEW s \in BootStages, tasks'[s] > 0
                 PROVE  /\ tasks'[s] = 1 /\ boardLink' = "none" /\ ~boardTimer'
                        /\ \A r \in BootStages \ {s} : tasks'[r] = 0
      BY DEF OneBoot
    <3>1. s = "info"
      BY <2>4
    <3>2. QED
      BY <1>1, <2>1, <2>3, <2>4, <3>1
  <2>6. QED
    BY <1>1, <2>1, <2>5 DEF Still
<1>5. QED
  BY <1>3, <1>4 DEF LinkInv

\* What an answer to a question of a boot, or of a list, does.
LEMMA AnswersKeep == ASSUME LinkInv, L!Answers PROVE LinkInv'
<1>0. /\ <<"info", "view">> \in BootTurns /\ <<"view", "boot list">> \in BootTurns
      /\ <<"boot list", "boot panes">> \in BootTurns
  BY DEF BootTurns
<1>1. CASE L!InfoArrives
  <2>1. /\ tasks["info"] > 0 /\ L!Turn("info", "view")
        /\ UNCHANGED <<mode, attached, boardLink, boardTimer, paneLink, paneTimer, active>>
        /\ UNCHANGED <<strays, tangled>>
    BY <1>1 DEF L!InfoArrives, L!links, L!past
  <2>2. PaneType'
    BY <2>1 DEF LinkInv, LinkType, PaneType
  <2>3. QED
    BY <1>0, <2>1, <2>2, BootGoesOn
<1>2. CASE L!RemoteViewArrives
  <2>1. /\ tasks["view"] > 0 /\ L!Turn("view", "boot list")
        /\ UNCHANGED <<mode, attached, boardLink, boardTimer, paneTimer, strays, tangled>>
    BY <1>2 DEF L!RemoteViewArrives, L!past
  <2>2. PaneType'
    BY <1>2, FollowedSocket DEF L!RemoteViewArrives, LinkInv
  <2>3. QED
    BY <1>0, <2>1, <2>2, BootGoesOn
<1>3. ASSUME NEW s \in L!Stages, L!WorkspacesArrive(s) PROVE LinkInv'
  <2>1. /\ tasks[s] > 0 /\ L!Turn(s, L!AfterList(s)) /\ s \in Lists
        /\ UNCHANGED <<mode, attached, boardLink, boardTimer, paneTimer, strays, tangled>>
    BY <1>3 DEF L!WorkspacesArrive, L!past, Lists
  <2>2. PaneType'
    BY <1>3, FollowedSocket DEF L!WorkspacesArrive, LinkInv
  <2>3. CASE s = "boot list"
    <3>1. <<s, L!AfterList(s)>> \in BootTurns
      BY <1>0, <2>3 DEF L!AfterList
    <3>2. QED
      BY <2>1, <2>2, <3>1, BootGoesOn
  <2>4. CASE s # "boot list"
    <3>1. /\ s \notin BootStages /\ "panes" \notin BootStages /\ "panes" \in L!Stages
          /\ s # "panes" /\ L!AfterList(s) = "panes"
      BY <2>1, <2>4 DEF Lists, BootStages, L!Stages, L!AfterList
    <3>2. tasks' \in [L!Stages -> Nat] /\ \A x \in BootStages : tasks'[x] = tasks[x]
      BY <2>1, <3>1, LoadsMove, BootsAre DEF LinkInv, LinkType, PaneType
    <3>3. QED
      BY <2>1, <2>2, <3>2, ListGoesOn
  <2>5. QED
    BY <2>3, <2>4
<1>4. ASSUME NEW s \in L!Stages, L!PanesArrive(s) PROVE LinkInv'
  <2>1. /\ tasks[s] > 0 /\ L!End(s) /\ s \in {"boot panes", "panes"} /\ blocked' \in BOOLEAN
        /\ UNCHANGED <<mode, attached, boardTimer, paneLink, paneTimer, active, tangled>>
    BY <1>4 DEF L!PanesArrive, L!past
  <2>2. CASE s = "boot panes"
    <3>1. s \in LastStages /\ L!ConnectBoard(boardLink)
      BY <1>4, <2>2 DEF L!PanesArrive, LastStages
    <3>2. QED
      BY <2>1, <3>1, BootEnds
  <2>3. CASE s # "boot panes"
    <3>1. /\ s \notin BootStages /\ "info" \in L!Stages /\ s # "info"
          /\ UNCHANGED <<boardLink, strays>>
      BY <1>4, <2>1, <2>3 DEF BootStages, L!Stages, L!PanesArrive
    <3>2. tasks' \in [L!Stages -> Nat] /\ \A x \in BootStages : tasks'[x] = tasks[x]
      BY <2>1, <3>1, LoadsMove, BootsAre DEF LinkInv, LinkType, PaneType
    <3>3. PaneType'
      BY <2>1 DEF LinkInv, LinkType, PaneType
    <3>4. QED
      BY <2>1, <3>1, <3>2, <3>3, ListGoesOn
  <2>4. QED
    BY <2>2, <2>3
<1>5. QED
  BY <1>1, <1>2, <1>3, <1>4 DEF L!Answers

\* A list that fails ends its boot, or is forgotten.
LEMMA FailuresKeep ==
    ASSUME LinkInv, NEW s \in L!Stages, L!WorkspacesFail(s)
    PROVE  LinkInv'
<1>1. /\ tasks[s] > 0 /\ L!End(s) /\ s \in Lists /\ UNCHANGED blocked
      /\ UNCHANGED <<mode, attached, boardTimer, paneLink, paneTimer, active, tangled>>
  BY DEF L!WorkspacesFail, Lists
<1>2. CASE s = "boot list"
  <2>1. s \in LastStages /\ L!ConnectBoard(boardLink)
    BY <1>2 DEF L!WorkspacesFail, LastStages
  <2>2. QED
    BY <1>1, <2>1, BootEnds
<1>3. CASE s # "boot list"
  <2>1. /\ s \notin BootStages /\ "info" \in L!Stages /\ s # "info"
        /\ UNCHANGED <<boardLink, strays>>
    BY <1>1, <1>3 DEF BootStages, L!Stages, L!WorkspacesFail, Lists
  <2>2. tasks' \in [L!Stages -> Nat] /\ \A x \in BootStages : tasks'[x] = tasks[x]
    BY <1>1, <2>1, LoadsMove, BootsAre DEF LinkInv, LinkType, PaneType
  <2>3. PaneType'
    BY <1>1 DEF LinkInv, LinkType, PaneType
  <2>4. QED
    BY <1>1, <2>1, <2>2, <2>3, ListGoesOn
<1>4. QED
  BY <1>2, <1>3

\* Sockets that open, timers that run out, and what happens to the pane.
LEMMA SocketsKeep ==
    ASSUME LinkInv,
           \/ L!BoardOpens \/ L!BoardRetry \/ L!PaneOpens \/ L!PaneRetry \/ L!SessionChanges
           \/ \E next \in {"error", "closed"} : L!PaneFails(next)
    PROVE  LinkInv'
<1>1. CASE L!BoardOpens
  <2>1. /\ boardLink = "connecting" /\ boardLink' = "open" /\ boardTimer' \in BOOLEAN
        /\ UNCHANGED <<mode, attached, tasks, paneLink, paneTimer, active, strays, tangled>>
    BY <1>1 DEF L!BoardOpens, L!past
  <2>2. LinkType'
    BY <2>1 DEF LinkInv, LinkType, PaneType, L!SocketState
  <2>3. QED
    BY <2>1, <2>2 DEF LinkInv, OneBoot, Still
<1>2. CASE L!BoardRetry
  <2>1. /\ boardTimer /\ boardTimer' = FALSE /\ strays' = strays
        /\ boardLink' \in {"none", "connecting"}
        /\ UNCHANGED <<mode, attached, tasks, paneLink, paneTimer, active, tangled>>
    BY <1>2 DEF L!BoardRetry, L!past, L!ConnectBoard, L!Live
  <2>2. LinkType'
    BY <2>1 DEF LinkInv, LinkType, PaneType, L!SocketState
  <2>3. QED
    BY <2>1, <2>2 DEF LinkInv, OneBoot, Still
<1>3. ASSUME UNCHANGED <<mode, attached, tasks, boardLink, boardTimer, strays, tangled>>,
             paneTimer' \in BOOLEAN, (mode = "desktop" /\ attached) \/ tangled,
             PaneType'
      PROVE  LinkInv'
  <2>1. LinkType'
    BY <1>3 DEF LinkInv, LinkType, PaneType
  <2>2. QED
    BY <1>3, <2>1 DEF LinkInv, OneBoot, Still
<1>4. CASE L!PaneOpens
  <2>1. /\ paneLink.state = "connecting" /\ paneLink' = [paneLink EXCEPT !.state = "open"]
        /\ paneTimer' \in BOOLEAN
        /\ UNCHANGED <<mode, attached, tasks, boardLink, boardTimer, strays, active, tangled>>
    BY <1>4 DEF L!PaneOpens, L!past
  <2>2. PaneType'
    BY <2>1 DEF LinkInv, LinkType, PaneType, L!SocketState
  <2>3. (mode = "desktop" /\ attached) \/ tangled
    BY <2>1 DEF LinkInv, LinkType, PaneType, Still
  <2>4. QED
    BY <1>3, <2>1, <2>2, <2>3
<1>5. CASE L!PaneRetry
  <2>1. /\ paneTimer /\ paneTimer' \in BOOLEAN /\ paneLink' = L!PaneSocket(active, blocked)
        /\ UNCHANGED <<mode, attached, tasks, boardLink, boardTimer, strays, active, tangled>>
    BY <1>5 DEF L!PaneRetry, L!past
  <2>2. (mode = "desktop" /\ attached) \/ tangled
    BY <2>1 DEF LinkInv, LinkType, Still
  <2>3. PaneType'
    BY <2>1 DEF LinkInv, LinkType, PaneType, L!PaneSocket, L!SocketState
  <2>4. QED
    BY <1>3, <2>1, <2>2, <2>3
<1>6. CASE L!SessionChanges
  <2>1. /\ mode = "desktop" /\ attached /\ paneTimer' = paneTimer
        /\ \E s \in Session \cup {NoSession} : L!FollowSession(s)
        /\ UNCHANGED <<mode, attached, tasks, boardLink, boardTimer, strays, tangled>>
    BY <1>6 DEF L!SessionChanges, L!Move
  <2>2. PaneType'
    BY <2>1, FollowedSocket DEF LinkInv
  <2>3. paneTimer' \in BOOLEAN
    BY <2>1 DEF LinkInv, LinkType, PaneType
  <2>4. QED
    BY <1>3, <2>1, <2>2, <2>3
<1>7. ASSUME NEW next \in {"error", "closed"}, L!PaneFails(next) PROVE LinkInv'
  <2>1. /\ paneLink.state # "none" /\ paneLink' = [paneLink EXCEPT !.state = next]
        /\ paneTimer' = paneTimer \/ paneTimer' \in BOOLEAN
        /\ UNCHANGED <<mode, attached, tasks, boardLink, boardTimer, strays, active, tangled>>
    BY <1>7 DEF L!PaneFails, L!SchedulePane, L!Live
  <2>2. PaneType'
    BY <2>1 DEF LinkInv, LinkType, PaneType, L!SocketState
  <2>3. (mode = "desktop" /\ attached) \/ tangled
    BY <2>1 DEF LinkInv, LinkType, PaneType, Still
  <2>4. paneTimer' \in BOOLEAN
    BY <2>1 DEF LinkInv, LinkType, PaneType
  <2>5. QED
    BY <1>3, <2>1, <2>2, <2>3, <2>4
<1>8. QED
  BY <1>1, <1>2, <1>4, <1>5, <1>6, <1>7

\* Every step keeps the invariant.
LEMMA NextLinks == ASSUME LinkInv, [L!LinksNext]_(L!linkVars) PROVE LinkInv'
<1>1. CASE UNCHANGED L!linkVars
  BY <1>1 DEF L!linkVars, L!links, L!past, LinkInv, LinkType, PaneType, OneBoot, Still
<1>2. ASSUME NEW s \in L!Stages, L!WorkspacesRefused(s) PROVE LinkInv'
  <2>1. s \in Lists
    BY <1>2 DEF L!WorkspacesRefused, Lists
  <2>2. QED
    BY <1>2, <2>1, RefusedStops
<1>3. CASE L!BecomesNarrow
  <2>1. /\ L!StopSync /\ tangled' = (tangled \/ L!Busy)
        /\ UNCHANGED <<tasks, strays, active, attached>> /\ mode' = "mobile"
    BY <1>3 DEF L!BecomesNarrow
  <2>2. attached' \in BOOLEAN
    BY <2>1 DEF LinkInv, LinkType, PaneType
  <2>3. QED
    BY <2>1, <2>2, PageLeaves
<1>4. CASE L!Detach
  <2>1. /\ L!StopSync /\ tangled' = (tangled \/ L!Busy)
        /\ UNCHANGED <<tasks, strays, active, mode>> /\ attached' = FALSE
    BY <1>4 DEF L!Detach
  <2>2. mode' \in {"desktop", "mobile"}
    BY <2>1 DEF LinkInv, LinkType, PaneType
  <2>3. QED
    BY <2>1, <2>2, PageLeaves
<1>5. CASE L!BecomesWide
  BY <1>5, PageReturns
<1>6. QED
  BY <1>1, <1>2, <1>3, <1>4, <1>5, AnswersKeep, FailuresKeep, SocketsKeep, BoardBreaks
     DEF L!LinksNext

\* Every initial state satisfies the invariant.
LEMMA InitLinks == ASSUME L!LinksInit PROVE LinkInv
<1>1. /\ tasks = [s \in L!Stages |-> IF s = "info" /\ mode = "desktop" THEN 1 ELSE 0]
      /\ boardLink = "none" /\ boardTimer = FALSE /\ paneTimer = FALSE /\ strays = 0
      /\ paneLink = [state |-> "none", of |-> NoSession] /\ active = NoSession
      /\ mode \in {"desktop", "mobile"} /\ attached = TRUE /\ tangled = FALSE
  BY DEF L!LinksInit
<1>2. LinkType
  BY <1>1 DEF LinkType, PaneType, L!SocketState
<1>3. \A s \in BootStages : tasks[s] > 0 => s = "info" /\ tasks[s] = 1
  BY <1>1, BootsAre
<1>4. \A s \in BootStages \ {"info"} : tasks[s] = 0
  BY <1>1, BootsAre
<1>5. OneBoot
  BY <1>1, <1>3, <1>4 DEF OneBoot
<1>6. Still
  BY <1>1 DEF Still
<1>7. QED
  BY <1>1, <1>2, <1>5, <1>6 DEF LinkInv

\* The invariant is about the sockets.
LEMMA LinksKept == LinkInv => NoStraySockets
  BY DEF LinkInv, Still, NoStraySockets, L!NoStraySockets, L!Live

\* A page that was left in peace while it loaded never loses sight of a socket, and
\* has none while it is narrow or detached, for any sessions and any bounds
\* (connectBoardRealtimeIfNeeded, stopRealtimeSync and the retry timers).
THEOREM SocketsAreKept == L!LinksSpec => []NoStraySockets
<1>1. L!LinksInit => LinkInv
  BY InitLinks
<1>2. LinkInv /\ [L!LinksNext]_(L!linkVars) => LinkInv'
  BY NextLinks
<1>3. LinkInv => NoStraySockets
  BY LinksKept
<1>4. QED
  BY <1>1, <1>2, <1>3, PTL DEF L!LinksSpec

-----------------------------------------------------------------------------
(* The development server *)

Op == {"start", "stop", "refresh", "list", "apply", "port"}
Steps == {<<>>, <<"list">>, <<"apply">>, <<"refresh", "list">>, <<"refresh", "apply">>}
Owner == {"none", "start", "stop", "overlay", "drawer"}
Job == [op : Op, next : Steps, owner : Owner, about : Nat, served : BOOLEAN,
        said : Nat, there : BOOLEAN]
List == [proc : Nat, there : BOOLEAN]

Status(p) == IF p = 0 THEN "none" ELSE "running"

\* The page knows what runs.
Knows == procId = live /\ procStatus = Status(live)

\* How far the only chain of requests has come, and what the page knows by then.
StartUnderWay(j) ==
    /\ j.op = "start" /\ j.next = <<"refresh", "list">> /\ j.owner = "start"
    /\ known = 0 /\ procId = 0 /\ procStatus = "none"
    /\ IF j.served THEN j.said = live /\ live # 0 ELSE live = 0
StopUnderWay(j) ==
    /\ j.op = "stop" /\ j.next = <<"list">> /\ j.owner = "stop"
    /\ j.about = procId /\ procId # 0 /\ procStatus = "running"
    /\ live = IF j.served THEN 0 ELSE procId
RefreshUnderWay(j) ==
    /\ j.op = "refresh" /\ j.about = live /\ live # 0
    /\ j.served => j.said = live
    /\ Knows
    /\ \/ j.next = <<>> /\ j.owner = "none" /\ known = live
       \/ j.next = <<"list">>
       \/ j.next = <<"apply">>
ListUnderWay(j) ==
    /\ j.op = "list" /\ j.next = <<>>
    /\ j.served => j.said = live
    /\ Knows
ListComplete(j) ==
    /\ j.op = "apply" /\ j.next = <<>>
    /\ j.said = live
    /\ Knows
PortUnderWay(j) == j.op = "port" /\ j.owner \in {"overlay", "drawer"} /\ Knows /\ known = live

UnderWay(j) ==
    \/ StartUnderWay(j) \/ StopUnderWay(j) \/ RefreshUnderWay(j)
    \/ ListUnderWay(j) \/ ListComplete(j) \/ PortUnderWay(j)

\* As long as one chain goes on at a time, nothing fails and no server ends by itself:
\* no chain, and the page shows what runs; or one, whose answers the page applies to
\* what it knew when the chain began.
OneAtATime ==
    \/ /\ jobs = <<>>
       /\ Knows /\ known = live /\ ~starting /\ ~stopping
    \/ \E j \in Job : /\ jobs = <<j>> /\ j.there /\ UnderWay(j)
                      /\ starting = (j.owner = "start") /\ stopping = (j.owner = "stop")

DevType ==
    /\ live \in Nat /\ made \in Nat /\ errors \in Nat
    /\ present \in BOOLEAN /\ crossed \in BOOLEAN
    /\ starting \in BOOLEAN /\ stopping \in BOOLEAN

DevInv == DevType /\ (~crossed /\ errors = 0 => present /\ OneAtATime)

\* The only chain of a page is the first.
LEMMA OneJob ==
    ASSUME NEW j, NEW k
    PROVE  /\ DOMAIN <<j>> = {1} /\ <<j>>[1] = j /\ <<j>> # <<>>
           /\ [<<j>> EXCEPT ![1] = k] = <<k>>
           /\ D!RemoveAt(<<j>>, 1) = <<>>
           /\ Append(<<>>, j) = <<j>>
<1>1. DOMAIN <<j>> = {1} /\ <<j>>[1] = j /\ <<j>> # <<>>
  OBVIOUS
<1>2. [<<j>> EXCEPT ![1] = k] = <<k>>
  OBVIOUS
<1>3. D!RemoveAt(<<j>>, 1) = <<>>
  BY DEF D!RemoveAt
<1>4. Append(<<>>, j) = <<j>>
  OBVIOUS
<1>5. QED
  BY <1>1, <1>2, <1>3, <1>4

\* What is left of a chain after one of its steps.
LEMMA StepsAre ==
    /\ Head(<<"refresh", "list">>) = "refresh" /\ Tail(<<"refresh", "list">>) = <<"list">>
    /\ Head(<<"refresh", "apply">>) = "refresh" /\ Tail(<<"refresh", "apply">>) = <<"apply">>
    /\ Head(<<"list">>) = "list" /\ Tail(<<"list">>) = <<>>
    /\ Head(<<"apply">>) = "apply" /\ Tail(<<"apply">>) = <<>>
    /\ <<"refresh", "list">> # <<>> /\ <<"refresh", "apply">> # <<>>
    /\ <<"list">> # <<>> /\ <<"apply">> # <<>>
  OBVIOUS

\* The next request of the chain of j.
Later(k, j, op, next, about, list) ==
    /\ k \in Job
    /\ k.op = op /\ k.next = next /\ k.owner = j.owner /\ k.about = about
    /\ k.served <=> op = "apply"
    /\ k.said = list.proc /\ k.there = list.there

\* A chain goes on with its next request, but for a refresh of no process, or ends.
LEMMA GoesOn ==
    ASSUME NEW j \in Job, jobs = <<j>>, NEW steps \in Steps, NEW about \in Nat,
           NEW list \in List, D!Goes(1, steps, about, list)
    PROVE  /\ steps = <<>> =>
                /\ jobs' = <<>>
                /\ starting' = (starting /\ j.owner # "start")
                /\ stopping' = (stopping /\ j.owner # "stop")
           /\ steps # <<>> /\ ~(Head(steps) = "refresh" /\ about = 0) =>
                /\ \E k : jobs' = <<k>> /\ Later(k, j, Head(steps), Tail(steps), about, list)
                /\ UNCHANGED <<starting, stopping>>
           /\ steps = <<"refresh", "apply">> /\ about = 0 =>
                /\ \E k : jobs' = <<k>> /\ Later(k, j, "apply", <<>>, about, list)
                /\ UNCHANGED <<starting, stopping>>
<1>1. jobs[1] = j /\ D!RemoveAt(jobs, 1) = <<>> /\ \A k : [jobs EXCEPT ![1] = k] = <<k>>
  BY OneJob
<1> DEFINE asked(op, next) ==
             [D!Asked(op, next, j.owner, about) EXCEPT
                !.served = (op = "apply"), !.said = list.proc, !.there = list.there]
<1>2. ASSUME NEW op \in Op, NEW next \in Steps
      PROVE  Later(asked(op, next), j, op, next, about, list)
  <2> DEFINE k == asked(op, next)
  <2>1. /\ k.op = op /\ k.next = next /\ k.owner = j.owner /\ k.about = about
        /\ k.said = list.proc /\ k.there = list.there
    BY DEF D!Asked
  <2>2. k.served <=> op = "apply"
    BY DEF D!Asked
  <2>3. j.owner \in Owner /\ list.proc \in Nat /\ list.there \in BOOLEAN
    BY DEF Job, List
  <2>4. PICK b \in BOOLEAN : b = (op = "apply")
    OBVIOUS
  <2>5. k \in Job
    BY <2>3, <2>4 DEF D!Asked, Job
  <2>6. QED
    BY <2>1, <2>2, <2>5 DEF Later
<1>3. ASSUME steps = <<>>
      PROVE  /\ jobs' = <<>>
             /\ starting' = (starting /\ j.owner # "start")
             /\ stopping' = (stopping /\ j.owner # "stop")
  <2>1. jobs' = D!RemoveAt(jobs, 1) /\ D!Finally(jobs[1].owner)
    BY <1>3 DEF D!Goes
  <2>2. D!Finally(j.owner) /\ jobs' = <<>>
    BY <1>1, <2>1
  <2>3. QED
    BY <2>2 DEF D!Finally
<1>4. ASSUME steps # <<>>, ~(Head(steps) = "refresh" /\ about = 0)
      PROVE  /\ \E k : jobs' = <<k>> /\ Later(k, j, Head(steps), Tail(steps), about, list)
             /\ UNCHANGED <<starting, stopping>>
  <2>1. Head(steps) \in Op /\ Tail(steps) \in Steps
    BY <1>4, StepsAre DEF Steps, Op
  <2>2. /\ jobs' = [jobs EXCEPT ![1] = asked(Head(steps), Tail(steps))]
        /\ UNCHANGED <<starting, stopping>>
    BY <1>1, <1>4 DEF D!Goes
  <2> HIDE DEF asked
  <2>3. jobs' = <<asked(Head(steps), Tail(steps))>>
    BY <1>1, <2>2
  <2>4. QED
    BY <1>2, <2>1, <2>2, <2>3
<1>5. ASSUME steps = <<"refresh", "apply">>, about = 0
      PROVE  /\ \E k : jobs' = <<k>> /\ Later(k, j, "apply", <<>>, about, list)
             /\ UNCHANGED <<starting, stopping>>
  <2>1. "apply" \in Op /\ <<>> \in Steps
    BY DEF Steps, Op
  <2>2. /\ jobs' = [jobs EXCEPT ![1] = asked("apply", <<>>)]
        /\ UNCHANGED <<starting, stopping>>
    BY <1>1, <1>5, StepsAre DEF D!Goes
  <2> HIDE DEF asked
  <2>3. jobs' = <<asked("apply", <<>>)>>
    BY <1>1, <2>2
  <2>4. QED
    BY <1>2, <2>1, <2>2, <2>3
<1>6. QED
  BY <1>3, <1>4, <1>5

\* A chain that begins alone.
LEMMA Begun ==
    ASSUME NEW op \in Op, NEW next \in Steps, NEW owner \in Owner, NEW about \in Nat,
           D!Begin(D!Asked(op, next, owner, about)), ~crossed'
    PROVE  /\ jobs = <<>> /\ ~crossed /\ errors' = errors
           /\ \E k \in Job : /\ jobs' = <<k>>
                             /\ k.op = op /\ k.next = next /\ k.owner = owner
                             /\ k.about = about /\ ~k.served /\ k.there
<1>1. jobs = <<>> /\ ~crossed /\ errors' = errors
  BY DEF D!Begin
<1> DEFINE k == D!Asked(op, next, owner, about)
<1>2. /\ k \in Job /\ k.op = op /\ k.next = next /\ k.owner = owner
      /\ k.about = about /\ ~k.served /\ k.there
  BY DEF D!Asked, Job
<1>3. jobs' = Append(<<>>, k)
  BY <1>1 DEF D!Begin
<1> HIDE DEF k
<1>4. jobs' = <<k>>
  BY <1>3, OneJob
<1>5. QED
  BY <1>1, <1>2, <1>4

\* A chain that is under way alone.
LEMMA Alone ==
    ASSUME OneAtATime, NEW i \in DOMAIN jobs
    PROVE  /\ i = 1
           /\ jobs[1] \in Job /\ jobs = <<jobs[1]>> /\ jobs[1].there /\ UnderWay(jobs[1])
           /\ starting = (jobs[1].owner = "start") /\ stopping = (jobs[1].owner = "stop")
<1>1. jobs # <<>>
  OBVIOUS
<1>2. PICK j \in Job : /\ jobs = <<j>> /\ j.there /\ UnderWay(j)
                       /\ starting = (j.owner = "start") /\ stopping = (j.owner = "stop")
  BY <1>1 DEF OneAtATime
<1>3. jobs[1] = j /\ DOMAIN jobs = {1}
  BY <1>2, OneJob
<1>4. QED
  BY <1>2, <1>3

\* Every step keeps the types.
LEMMA NextDevType == ASSUME DevType, [D!DevNext]_(D!devVars) PROVE DevType'
<1>1. \A i, steps, about, list :
        D!Goes(i, steps, about, list) => starting' \in BOOLEAN /\ stopping' \in BOOLEAN
  BY DEF D!Goes, D!Finally, DevType
<1>2. CASE UNCHANGED D!devVars
  BY <1>2 DEF DevType, D!devVars, D!devServer, D!devPage, D!devCount
<1>3. CASE D!Toggle \/ D!Reload \/ D!Snapshot
  BY <1>3 DEF DevType, D!Toggle, D!Run, D!Stop, D!Reload, D!Snapshot, D!Begin, D!devServer,
              D!devPage
<1>4. CASE D!Ends
  BY <1>4 DEF DevType, D!Ends, D!devPage
<1>10. CASE D!Archive
  <2>1. PICK b \in BOOLEAN : b = ~present
    OBVIOUS
  <2>2. present' \in BOOLEAN
    BY <1>10, <2>1 DEF D!Archive
  <2>3. /\ errors' = errors + 1
        /\ UNCHANGED <<live, made, starting, stopping, crossed>>
    BY <1>10 DEF D!Archive, D!devPage
  <2>4. QED
    BY <2>2, <2>3 DEF DevType
<1>11. CASE D!ClosePreview
  BY <1>11 DEF DevType, D!ClosePreview, D!devServer, D!devPage, D!devCount
<1>5. ASSUME NEW where, D!OpenPreview(where) PROVE DevType'
  BY <1>5 DEF DevType, D!OpenPreview, D!Begin, D!devServer, D!devPage, D!devCount
<1>6. ASSUME NEW i, D!Serve(i) PROVE DevType'
  BY <1>6 DEF DevType, D!Serve, D!devPage, D!devCount
<1>7. ASSUME NEW i, D!DevAnswer(i) PROVE DevType'
  BY <1>1, <1>7 DEF DevType, D!DevAnswer, D!Started, D!Stopped, D!Refreshed, D!ListArrives,
                    D!ListShown, D!PortArrives, D!devServer, D!devPage, D!devCount
<1>8. ASSUME NEW i, D!ActionFails(i) \/ D!RefreshFails(i) \/ D!ListFails(i) \/ D!PortFails(i)
      PROVE  DevType'
  <2>1. UNCHANGED <<live, made, present, crossed>> /\ errors' = errors + 1
    BY <1>8 DEF D!ActionFails, D!RefreshFails, D!ListFails, D!PortFails, D!Fails, D!devServer
  <2>2. starting' \in BOOLEAN /\ stopping' \in BOOLEAN
    <3>1. CASE D!ActionFails(i)
      BY <3>1 DEF D!ActionFails, D!GivenUp, D!Finally
    <3>2. CASE D!RefreshFails(i)
      BY <1>1, <3>2 DEF D!RefreshFails
    <3>3. CASE D!ListFails(i)
      BY <1>1, <3>3 DEF D!ListFails
    <3>4. CASE D!PortFails(i)
      BY <3>4 DEF D!PortFails, D!devPage, DevType
    <3>5. QED
      BY <1>8, <3>1, <3>2, <3>3, <3>4
  <2>3. QED
    BY <2>1, <2>2 DEF DevType
<1>9. QED
  BY <1>2, <1>3, <1>4, <1>5, <1>6, <1>7, <1>8, <1>10, <1>11 DEF D!DevNext

\* Without a chain the page shows what runs.
LEMMA NoChain ==
    ASSUME DevType, OneAtATime, jobs = <<>>
    PROVE  Knows /\ known = live /\ starting = FALSE /\ stopping = FALSE
  BY OneJob DEF OneAtATime, DevType

\* The chains an answer or a click leaves behind are the chains OneAtATime allows.
LEMMA Continues ==
    ASSUME NEW k \in Job, jobs' = <<k>>, k.there, UnderWay(k)',
           starting' = (k.owner = "start"), stopping' = (k.owner = "stop")
    PROVE  OneAtATime'
  BY DEF OneAtATime

\* What the user begins, and what the server pushes.
LEMMA BeginsAlone ==
    ASSUME DevType, OneAtATime, ~crossed',
           present,
           D!Toggle \/ D!Reload \/ D!Snapshot
               \/ \E where \in {"overlay", "drawer"} : D!OpenPreview(where)
    PROVE  OneAtATime'
<1>1. CASE D!Run
  <2>1. /\ D!State = "idle"
        /\ D!Begin(D!Asked("start", <<"refresh", "list">>, "start", 0))
        /\ starting' = TRUE
        /\ UNCHANGED <<live, known, stopping, procId, procStatus>>
    BY <1>1 DEF D!Run, D!devServer
  <2>2. "start" \in Op /\ <<"refresh", "list">> \in Steps /\ "start" \in Owner /\ 0 \in Nat
    BY DEF Op, Steps, Owner
  <2>3. jobs = <<>>
    BY <2>1, <2>2, Begun
  <2>4. PICK k \in Job : /\ jobs' = <<k>>
                         /\ k.op = "start" /\ k.next = <<"refresh", "list">>
                         /\ k.owner = "start" /\ k.about = 0 /\ ~k.served /\ k.there
    BY <2>1, <2>2, Begun
  <2>5. Knows /\ known = live /\ starting = FALSE /\ stopping = FALSE
    BY <2>3, NoChain
  <2>6. known = 0 /\ live = 0 /\ procId = 0 /\ procStatus = "none"
    BY <2>1, <2>5 DEF D!State, Knows, Status
  <2>7. UnderWay(k)'
    BY <2>1, <2>4, <2>6 DEF UnderWay, StartUnderWay
  <2>8. QED
    BY <2>1, <2>4, <2>5, <2>7, Continues
<1>2. CASE D!Stop
  <2>1. /\ D!State = "running"
        /\ D!Begin(D!Asked("stop", <<"list">>, "stop", procId))
        /\ stopping' = TRUE
        /\ UNCHANGED <<live, known, starting, procId, procStatus>>
    BY <1>2 DEF D!Stop, D!devServer
  <2>2. jobs = <<>>
    BY <2>1 DEF D!Begin
  <2>3. Knows /\ known = live /\ starting = FALSE /\ stopping = FALSE
    BY <2>2, NoChain
  <2>4. live # 0 /\ procId = live /\ procStatus = "running"
    BY <2>1, <2>3 DEF D!State, Knows, Status
  <2>5. "stop" \in Op /\ <<"list">> \in Steps /\ "stop" \in Owner /\ procId \in Nat
    BY <2>4 DEF Op, Steps, Owner, DevType
  <2>6. PICK k \in Job : /\ jobs' = <<k>>
                         /\ k.op = "stop" /\ k.next = <<"list">>
                         /\ k.owner = "stop" /\ k.about = procId /\ ~k.served /\ k.there
    BY <2>1, <2>5, Begun
  <2>7. UnderWay(k)'
    BY <2>1, <2>4, <2>6 DEF UnderWay, StopUnderWay
  <2>8. QED
    BY <2>1, <2>3, <2>6, <2>7, Continues
<1>3. CASE D!Reload
  <2>1. /\ D!Begin(D!Asked("list", <<>>, "none", 0))
        /\ UNCHANGED <<live, known, starting, stopping, procId, procStatus>>
    BY <1>3 DEF D!Reload, D!devServer, D!devPage
  <2>2. "list" \in Op /\ <<>> \in Steps /\ "none" \in Owner /\ 0 \in Nat
    BY DEF Op, Steps, Owner
  <2>3. jobs = <<>>
    BY <2>1 DEF D!Begin
  <2>4. PICK k \in Job : /\ jobs' = <<k>> /\ k.op = "list" /\ k.next = <<>>
                         /\ k.owner = "none" /\ ~k.served /\ k.there
    BY <2>1, <2>2, Begun
  <2>5. Knows /\ known = live /\ starting = FALSE /\ stopping = FALSE
    BY <2>3, NoChain
  <2>6. UnderWay(k)'
    BY <2>1, <2>4, <2>5 DEF UnderWay, ListUnderWay, Knows, Status
  <2>7. QED
    BY <2>1, <2>4, <2>5, <2>6, Continues
<1>4. CASE D!Snapshot
  <2>1. jobs = <<>>
    BY <1>4 DEF D!Snapshot
  <2>2. Knows /\ known = live /\ starting = FALSE /\ stopping = FALSE
    BY <2>1, NoChain
  <2>3. /\ known' = live /\ UNCHANGED <<live, starting, stopping>>
        /\ procId' = IF live # 0 THEN live ELSE IF present THEN procId ELSE 0
        /\ procStatus' = IF present /\ procId' # 0 THEN procStatus ELSE "none"
        /\ jobs' = IF live = 0 THEN jobs
                   ELSE Append(jobs, D!Asked("refresh", <<>>, "none", live))
    BY <1>4 DEF D!Snapshot, D!devServer
  <2>4. Knows' /\ known' = live'
    BY <2>2, <2>3 DEF Knows, Status
  <2>5. CASE live = 0
    BY <2>1, <2>2, <2>3, <2>4, <2>5 DEF OneAtATime
  <2>6. CASE live # 0
    <3> DEFINE k == D!Asked("refresh", <<>>, "none", live)
    <3>1. /\ k \in Job /\ k.op = "refresh" /\ k.next = <<>> /\ k.owner = "none"
          /\ k.about = live /\ ~k.served /\ k.there
      BY DEF D!Asked, Job, Op, Steps, Owner, DevType
    <3>2. jobs' = Append(<<>>, k)
      BY <2>1, <2>3, <2>6
    <3> HIDE DEF k
    <3>3. jobs' = <<k>>
      BY <3>2, OneJob
    <3>4. PICK h \in Job : h = k
      BY <3>1
    <3>5. UnderWay(h)'
      BY <2>3, <2>4, <2>6, <3>1, <3>4 DEF UnderWay, RefreshUnderWay
    <3>6. QED
      BY <2>2, <2>3, <3>1, <3>3, <3>4, <3>5, Continues
  <2>7. QED
    BY <2>5, <2>6
<1>5. ASSUME NEW where \in {"overlay", "drawer"}, D!OpenPreview(where) PROVE OneAtATime'
  <2>1. UNCHANGED <<live, known, starting, stopping, procId, procStatus>>
    BY <1>5 DEF D!OpenPreview, D!devServer, D!devPage
  <2>2. CASE jobs' = jobs
    BY <2>1, <2>2 DEF OneAtATime, UnderWay, StartUnderWay, StopUnderWay, RefreshUnderWay,
                      ListUnderWay, ListComplete, PortUnderWay, Knows, Status
  <2>3. CASE jobs' # jobs
    <3>1. D!Begin(D!Asked("port", <<>>, where, 0))
      BY <1>5, <2>3 DEF D!OpenPreview
    <3>2. "port" \in Op /\ <<>> \in Steps /\ where \in Owner /\ 0 \in Nat
      BY DEF Op, Steps, Owner
    <3>3. jobs = <<>>
      BY <3>1 DEF D!Begin
    <3>4. PICK k \in Job : /\ jobs' = <<k>> /\ k.op = "port" /\ k.owner = where /\ k.there
      BY <3>1, <3>2, Begun
    <3>5. Knows /\ known = live /\ starting = FALSE /\ stopping = FALSE
      BY <3>3, NoChain
    <3>6. UnderWay(k)'
      BY <2>1, <3>4, <3>5 DEF UnderWay, PortUnderWay, Knows, Status
    <3>7. QED
      BY <2>1, <3>4, <3>5, <3>6, Continues
  <2>4. QED
    BY <2>2, <2>3
<1>6. QED
  BY <1>1, <1>2, <1>3, <1>4, <1>5 DEF D!Toggle

\* The server takes the request of the chain.
LEMMA ServesAlone ==
    ASSUME DevType, OneAtATime, present, D!Serve(1), 1 \in DOMAIN jobs PROVE OneAtATime'
<1>1. PICK j \in Job : j = jobs[1]
  BY Alone
<1>2. /\ jobs = <<j>> /\ j.there /\ UnderWay(j)
      /\ starting = (j.owner = "start") /\ stopping = (j.owner = "stop")
  BY <1>1, Alone
<1>3. ~j.served /\ UNCHANGED <<known, starting, stopping, procId, procStatus>>
  BY <1>1 DEF D!Serve, D!devPage
<1>4. \A proc \in Nat :
        LET k == [j EXCEPT !.served = TRUE, !.said = proc, !.there = TRUE]
        IN  /\ D!Answered(1, proc) => jobs' = <<k>>
            /\ k \in Job /\ k.served /\ k.said = proc /\ k.there
            /\ k.op = j.op /\ k.next = j.next /\ k.owner = j.owner /\ k.about = j.about
  <2> TAKE proc \in Nat
  <2> DEFINE k == [j EXCEPT !.served = TRUE, !.said = proc, !.there = TRUE]
  <2>1. /\ k \in Job /\ k.served /\ k.said = proc /\ k.there
        /\ k.op = j.op /\ k.next = j.next /\ k.owner = j.owner /\ k.about = j.about
    BY DEF Job
  <2>2. ASSUME D!Answered(1, proc) PROVE jobs' = <<k>>
    <3>1. present = TRUE
      BY DEF DevType
    <3>2. jobs' = [<<j>> EXCEPT ![1] = k]
      BY <1>2, <2>2, <3>1, OneJob DEF D!Answered
    <3> HIDE DEF k
    <3>3. QED
      BY <3>2, OneJob
  <2>3. QED
    BY <2>1, <2>2
<1>5. CASE j.op = "start"
  <2>1. /\ made' = made + 1 /\ live' = made' /\ D!Answered(1, made')
    BY <1>1, <1>5 DEF D!Serve
  <2>2. PICK proc \in Nat : proc = made' /\ proc # 0
    BY <2>1 DEF DevType
  <2>3. StartUnderWay(j)
    BY <1>2, <1>5 DEF UnderWay, StopUnderWay, RefreshUnderWay, ListUnderWay, ListComplete,
                      PortUnderWay
  <2>4. PICK k \in Job :
           /\ jobs' = <<k>> /\ k.served /\ k.said = proc /\ k.there
           /\ k.op = j.op /\ k.next = j.next /\ k.owner = j.owner /\ k.about = j.about
    BY <1>4, <2>1, <2>2
  <2>5. StartUnderWay(k)'
    BY <1>3, <2>1, <2>2, <2>3, <2>4 DEF StartUnderWay
  <2>6. QED
    BY <1>2, <1>3, <2>4, <2>5, Continues DEF UnderWay
<1>6. CASE j.op = "stop"
  <2>1. live' = (IF j.about \in {0, live} THEN 0 ELSE live) /\ D!Answered(1, 0)
    BY <1>1, <1>6 DEF D!Serve
  <2>2. StopUnderWay(j)
    BY <1>2, <1>6 DEF UnderWay, StartUnderWay, RefreshUnderWay, ListUnderWay, ListComplete,
                      PortUnderWay
  <2>3. live' = 0
    BY <1>3, <2>1, <2>2 DEF StopUnderWay
  <2>4. PICK k \in Job :
           /\ jobs' = <<k>> /\ k.served /\ k.said = 0 /\ k.there
           /\ k.op = j.op /\ k.next = j.next /\ k.owner = j.owner /\ k.about = j.about
    BY <1>4, <2>1
  <2>5. StopUnderWay(k)'
    BY <1>3, <2>2, <2>3, <2>4 DEF StopUnderWay
  <2>6. QED
    BY <1>2, <1>3, <2>4, <2>5, Continues DEF UnderWay
<1>7. CASE j.op = "refresh"
  <2>1. /\ jobs' = [jobs EXCEPT ![1].served = TRUE,
                                ![1].said = IF live = j.about THEN live ELSE 0]
        /\ live' = live
    BY <1>1, <1>7 DEF D!Serve
  <2>2. RefreshUnderWay(j)
    BY <1>2, <1>7 DEF UnderWay, StartUnderWay, StopUnderWay, ListUnderWay, ListComplete,
                      PortUnderWay
  <2> DEFINE h == [j EXCEPT !.served = TRUE, !.said = live]
  <2>3. /\ h \in Job /\ h.served /\ h.said = live /\ h.there
        /\ h.op = j.op /\ h.next = j.next /\ h.owner = j.owner /\ h.about = j.about
    BY <1>2 DEF Job, DevType
  <2>4. jobs' = [<<j>> EXCEPT ![1] = h]
    BY <1>2, <2>1, <2>2, OneJob DEF RefreshUnderWay
  <2>5. PICK k \in Job :
           /\ jobs' = <<k>> /\ k.served /\ k.said = live /\ k.there
           /\ k.op = j.op /\ k.next = j.next /\ k.owner = j.owner /\ k.about = j.about
    <3> HIDE DEF h
    <3>1. QED
      BY <2>3, <2>4, OneJob
  <2>6. RefreshUnderWay(k)'
    BY <1>3, <2>1, <2>2, <2>5 DEF RefreshUnderWay, Knows, Status
  <2>7. QED
    BY <1>2, <1>3, <2>5, <2>6, Continues DEF UnderWay
<1>8. CASE j.op \in {"list", "port"}
  <2>1. D!Answered(1, live) /\ live' = live
    BY <1>1, <1>8 DEF D!Serve
  <2>2. ListUnderWay(j) \/ PortUnderWay(j)
    BY <1>2, <1>8 DEF UnderWay, StartUnderWay, StopUnderWay, RefreshUnderWay, ListComplete
  <2>3. PICK k \in Job :
           /\ jobs' = <<k>> /\ k.served /\ k.said = live /\ k.there
           /\ k.op = j.op /\ k.next = j.next /\ k.owner = j.owner /\ k.about = j.about
    BY <1>4, <2>1 DEF DevType
  <2>4. ListUnderWay(k)' \/ PortUnderWay(k)'
    BY <1>3, <2>1, <2>2, <2>3 DEF ListUnderWay, PortUnderWay, Knows, Status
  <2>5. QED
    BY <1>2, <1>3, <2>3, <2>4, Continues DEF UnderWay
<1>9. j.op \in {"start", "stop", "refresh", "list", "port"}
  BY <1>1 DEF D!Serve
<1>10. QED
  BY <1>5, <1>6, <1>7, <1>8, <1>9

\* The page takes the answer of the chain.
LEMMA AnswersAlone ==
    ASSUME DevType, OneAtATime, D!DevAnswer(1), 1 \in DOMAIN jobs PROVE OneAtATime'
<1>1. PICK j \in Job : j = jobs[1]
  BY Alone
<1>2. /\ jobs = <<j>> /\ j.there /\ UnderWay(j)
      /\ starting = (j.owner = "start") /\ stopping = (j.owner = "stop")
  BY <1>1, Alone
<1>3. /\ j.op \in Op /\ j.next \in Steps /\ j.about \in Nat /\ j.said \in Nat
      /\ j.there = TRUE /\ live \in Nat
  BY <1>2 DEF Job, DevType
<1>4. D!NoList \in List /\ D!NoList.there = TRUE /\ 0 \in Nat
  BY DEF D!NoList, List
<1>5. j.served /\ live' = live
  BY <1>1 DEF D!DevAnswer, D!Started, D!Stopped, D!Refreshed, D!ListArrives, D!ListShown,
              D!PortArrives, D!Is, D!devServer
<1>6. CASE D!Started(1)
  <2>1. /\ j.op = "start" /\ procId' = j.said /\ procStatus' = "running"
        /\ D!Goes(1, j.next, procId', D!NoList) /\ known' = known
    BY <1>1, <1>6 DEF D!Started, D!Is
  <2>2. StartUnderWay(j)
    BY <1>2, <2>1 DEF UnderWay, StopUnderWay, RefreshUnderWay, ListUnderWay, ListComplete,
                      PortUnderWay
  <2>3. /\ j.said = live /\ live # 0 /\ j.owner = "start" /\ j.next = <<"refresh", "list">>
        /\ D!Goes(1, <<"refresh", "list">>, live, D!NoList)
    BY <1>5, <2>1, <2>2 DEF StartUnderWay
  <2>4. <<"refresh", "list">> \in Steps
    BY DEF Steps
  <2>5. /\ \E k : jobs' = <<k>> /\ Later(k, j, "refresh", <<"list">>, live, D!NoList)
        /\ UNCHANGED <<starting, stopping>>
    BY <1>2, <1>3, <1>4, <2>3, <2>4, GoesOn, StepsAre
  <2>6. PICK k \in Job :
           /\ jobs' = <<k>> /\ k.op = "refresh" /\ k.next = <<"list">> /\ k.owner = j.owner
           /\ k.about = live /\ ~k.served /\ k.there
    BY <1>4, <2>5 DEF Later
  <2>7. RefreshUnderWay(k)'
    BY <1>5, <2>1, <2>3, <2>6 DEF RefreshUnderWay, Knows, Status
  <2>8. QED
    BY <1>2, <2>5, <2>6, <2>7, Continues DEF UnderWay
<1>7. CASE D!Stopped(1)
  <2>1. /\ j.op = "stop" /\ procId' = 0 /\ procStatus' = "none"
        /\ D!Goes(1, j.next, 0, D!NoList)
    BY <1>1, <1>7 DEF D!Stopped, D!Is, D!Cleared
  <2>2. StopUnderWay(j)
    BY <1>2, <2>1 DEF UnderWay, StartUnderWay, RefreshUnderWay, ListUnderWay, ListComplete,
                      PortUnderWay
  <2>3. live = 0 /\ D!Goes(1, <<"list">>, 0, D!NoList) /\ <<"list">> \in Steps
    BY <1>5, <2>1, <2>2 DEF StopUnderWay, Steps
  <2>4. /\ \E k : jobs' = <<k>> /\ Later(k, j, "list", <<>>, 0, D!NoList)
        /\ UNCHANGED <<starting, stopping>>
    BY <1>2, <1>4, <2>3, GoesOn, StepsAre
  <2>5. PICK k \in Job :
           /\ jobs' = <<k>> /\ k.op = "list" /\ k.next = <<>> /\ k.owner = j.owner
           /\ ~k.served /\ k.there
    BY <1>4, <2>4 DEF Later
  <2>6. ListUnderWay(k)'
    BY <1>5, <2>1, <2>3, <2>5 DEF ListUnderWay, Knows, Status
  <2>7. QED
    BY <1>2, <2>4, <2>5, <2>6, Continues DEF UnderWay
<1>8. CASE D!Refreshed(1)
  <2> DEFINE list == [proc |-> j.about, there |-> j.there]
  <2>1. /\ j.op = "refresh" /\ known' = known
        /\ IF j.said # 0 THEN procStatus' = "running" /\ procId' = procId ELSE D!Cleared
        /\ D!Goes(1, j.next, procId', list)
    BY <1>1, <1>8 DEF D!Refreshed, D!Is
  <2>2. RefreshUnderWay(j)
    BY <1>2, <2>1 DEF UnderWay, StartUnderWay, StopUnderWay, ListUnderWay, ListComplete,
                      PortUnderWay
  <2>3. /\ procId' = live /\ procStatus' = "running" /\ live # 0 /\ j.about = live
        /\ D!Goes(1, j.next, live, list) /\ Knows'
    BY <1>5, <2>1, <2>2 DEF RefreshUnderWay, Knows, Status
  <2>4. list \in List /\ list.proc = live /\ list.there
    BY <1>3, <2>3 DEF List
  <2> HIDE DEF list
  <2>5. CASE j.next = <<>>
    <3>1. /\ jobs' = <<>>
          /\ starting' = (starting /\ j.owner # "start")
          /\ stopping' = (stopping /\ j.owner # "stop")
      BY <1>2, <1>3, <2>3, <2>4, <2>5, GoesOn
    <3>2. j.owner = "none" /\ known = live
      BY <2>2, <2>5, StepsAre DEF RefreshUnderWay
    <3>3. QED
      BY <1>2, <1>5, <2>1, <2>3, <3>1, <3>2 DEF OneAtATime
  <2>6. CASE j.next \in {<<"list">>, <<"apply">>}
    <3>1. j.next # <<>> /\ Head(j.next) \in {"list", "apply"} /\ Tail(j.next) = <<>>
      BY <2>6, StepsAre
    <3>2. /\ \E k : jobs' = <<k>> /\ Later(k, j, Head(j.next), <<>>, live, list)
          /\ UNCHANGED <<starting, stopping>>
      BY <1>2, <1>3, <2>3, <2>4, <3>1, GoesOn
    <3>3. PICK k \in Job :
             /\ jobs' = <<k>> /\ k.op = Head(j.next) /\ k.next = <<>> /\ k.owner = j.owner
             /\ k.said = live /\ k.there
      BY <2>4, <3>2 DEF Later
    <3>4. ListUnderWay(k)' \/ ListComplete(k)'
      BY <1>5, <2>3, <3>1, <3>3 DEF ListUnderWay, ListComplete
    <3>5. QED
      BY <1>2, <3>2, <3>3, <3>4, Continues DEF UnderWay
  <2>7. QED
    BY <2>2, <2>5, <2>6 DEF RefreshUnderWay
<1>9. CASE D!ListArrives(1)
  <2> DEFINE list == [proc |-> j.said, there |-> j.there]
  <2>1. /\ j.op = "list" /\ procStatus' = procStatus
        /\ procId' = (IF j.said # 0 THEN j.said ELSE procId)
        /\ D!Goes(1, <<"refresh", "apply">>, j.said, list)
    BY <1>1, <1>9 DEF D!ListArrives, D!Is
  <2>2. ListUnderWay(j)
    BY <1>2, <2>1 DEF UnderWay, StartUnderWay, StopUnderWay, RefreshUnderWay, ListComplete,
                      PortUnderWay
  <2>3. /\ j.said = live /\ Knows'
        /\ D!Goes(1, <<"refresh", "apply">>, live, list)
    BY <1>5, <2>1, <2>2 DEF ListUnderWay, Knows, Status
  <2>4. list \in List /\ list.proc = live /\ list.there /\ <<"refresh", "apply">> \in Steps
    BY <1>3, <2>3 DEF List, Steps
  <2> HIDE DEF list
  <2>5. CASE live = 0
    <3>1. /\ \E k : jobs' = <<k>> /\ Later(k, j, "apply", <<>>, live, list)
          /\ UNCHANGED <<starting, stopping>>
      BY <1>2, <1>3, <2>3, <2>4, <2>5, GoesOn
    <3>2. PICK k \in Job :
             /\ jobs' = <<k>> /\ k.op = "apply" /\ k.next = <<>> /\ k.owner = j.owner
             /\ k.said = live /\ k.there
      BY <2>4, <3>1 DEF Later
    <3>3. ListComplete(k)'
      BY <1>5, <2>3, <3>2 DEF ListComplete
    <3>4. QED
      BY <1>2, <3>1, <3>2, <3>3, Continues DEF UnderWay
  <2>6. CASE live # 0
    <3>1. /\ \E k : jobs' = <<k>> /\ Later(k, j, "refresh", <<"apply">>, live, list)
          /\ UNCHANGED <<starting, stopping>>
      BY <1>2, <1>3, <2>3, <2>4, <2>6, GoesOn, StepsAre
    <3>2. PICK k \in Job :
             /\ jobs' = <<k>> /\ k.op = "refresh" /\ k.next = <<"apply">>
             /\ k.owner = j.owner /\ k.about = live /\ ~k.served /\ k.there
      BY <2>4, <3>1 DEF Later
    <3>3. RefreshUnderWay(k)'
      BY <1>5, <2>3, <2>6, <3>2 DEF RefreshUnderWay
    <3>4. QED
      BY <1>2, <3>1, <3>2, <3>3, Continues DEF UnderWay
  <2>7. QED
    BY <2>5, <2>6
<1>10. CASE D!ListShown(1)
  <2>1. /\ j.op = "apply" /\ known' = j.said /\ D!Prune(j.there)
        /\ D!Goes(1, j.next, 0, D!NoList)
    BY <1>1, <1>10 DEF D!ListShown, D!Is
  <2>2. ListComplete(j)
    BY <1>2, <2>1 DEF UnderWay, StartUnderWay, StopUnderWay, RefreshUnderWay, ListUnderWay,
                      PortUnderWay
  <2>3. known' = live' /\ Knows' /\ D!Goes(1, <<>>, 0, D!NoList) /\ <<>> \in Steps
    BY <1>3, <1>5, <2>1, <2>2 DEF ListComplete, Knows, Status, D!Prune, Steps
  <2>4. /\ jobs' = <<>>
        /\ starting' = (starting /\ j.owner # "start")
        /\ stopping' = (stopping /\ j.owner # "stop")
    BY <1>2, <1>4, <2>3, GoesOn
  <2>5. QED
    BY <1>2, <2>3, <2>4 DEF OneAtATime
<1>11. CASE D!PortArrives(1)
  <2>1. /\ j.op = "port" /\ jobs' = D!RemoveAt(jobs, 1)
        /\ UNCHANGED <<known, procId, procStatus, starting, stopping>>
    BY <1>1, <1>11 DEF D!PortArrives, D!Is, D!devPage
  <2>2. PortUnderWay(j)
    BY <1>2, <2>1 DEF UnderWay, StartUnderWay, StopUnderWay, RefreshUnderWay, ListUnderWay,
                      ListComplete
  <2>3. jobs' = <<>>
    BY <1>2, <2>1, OneJob
  <2>4. ~starting /\ ~stopping /\ Knows /\ known = live
    BY <1>2, <2>2 DEF PortUnderWay
  <2>5. QED
    BY <1>5, <2>1, <2>3, <2>4 DEF OneAtATime, Knows, Status
<1>12. QED
  BY <1>6, <1>7, <1>8, <1>9, <1>10, <1>11 DEF D!DevAnswer

\* Every step keeps the invariant.
LEMMA NextDev == ASSUME DevInv, [D!DevNext]_(D!devVars) PROVE DevInv'
<1>1. DevType'
  BY NextDevType DEF DevInv
<1>2. CASE UNCHANGED D!devVars
  BY <1>1, <1>2 DEF DevInv, D!devVars, D!devServer, D!devPage, D!devCount, OneAtATime, UnderWay,
                    StartUnderWay, StopUnderWay, RefreshUnderWay, ListUnderWay, ListComplete,
                    PortUnderWay, Knows, Status
<1>3. SUFFICES ASSUME D!DevNext, ~crossed', errors' = 0 PROVE present' /\ OneAtATime'
  BY <1>1, <1>2 DEF DevInv
<1>4. ASSUME errors' = errors + 1 PROVE FALSE
  BY <1>3, <1>4 DEF DevInv, DevType
<1>5. ASSUME present' = present, errors' = errors, crossed' = (crossed \/ jobs # <<>>) \/
                                                   crossed' = crossed
      PROVE  present' /\ present /\ OneAtATime
  BY <1>3, <1>5 DEF DevInv
<1>6. CASE D!Toggle \/ D!Reload \/ D!Snapshot
             \/ \E where \in {"overlay", "drawer"} : D!OpenPreview(where)
  <2>1. /\ present' = present /\ errors' = errors
        /\ crossed' = (crossed \/ jobs # <<>>) \/ crossed' = crossed
    BY <1>6 DEF D!Toggle, D!Run, D!Stop, D!Reload, D!Snapshot, D!OpenPreview, D!Begin,
                D!devServer, D!devCount
  <2>2. QED
    BY <1>3, <1>5, <1>6, <2>1, BeginsAlone DEF DevInv
<1>7. CASE D!Ends \/ D!Archive
  BY <1>4, <1>7 DEF D!Ends, D!Archive
<1>8. CASE D!ClosePreview
  <2>1. present' = present /\ errors' = errors /\ crossed' = crossed
    BY <1>8 DEF D!ClosePreview, D!devServer, D!devCount
  <2>2. UNCHANGED <<live, known, starting, stopping, procId, procStatus, jobs>>
    BY <1>8 DEF D!ClosePreview, D!devServer, D!devPage
  <2>3. QED
    BY <1>5, <2>1, <2>2 DEF OneAtATime, UnderWay, StartUnderWay, StopUnderWay, RefreshUnderWay,
                            ListUnderWay, ListComplete, PortUnderWay, Knows, Status
<1>9. ASSUME NEW i \in DOMAIN jobs, D!Serve(i) \/ D!DevAnswer(i)
      PROVE  present' /\ OneAtATime'
  <2>1. present' = present /\ errors' = errors /\ crossed' = crossed
    BY <1>9 DEF D!Serve, D!DevAnswer, D!Started, D!Stopped, D!Refreshed, D!ListArrives,
                D!ListShown, D!PortArrives, D!devServer, D!devCount
  <2>2. present' /\ present /\ OneAtATime /\ DevType
    BY <1>5, <2>1 DEF DevInv
  <2>3. i = 1
    BY <2>2, Alone
  <2>4. QED
    BY <1>9, <2>2, <2>3, ServesAlone, AnswersAlone
<1>10. ASSUME NEW i \in DOMAIN jobs,
              D!ActionFails(i) \/ D!RefreshFails(i) \/ D!ListFails(i) \/ D!PortFails(i)
       PROVE  FALSE
  BY <1>4, <1>10 DEF D!ActionFails, D!RefreshFails, D!ListFails, D!PortFails, D!Fails
<1>11. QED
  BY <1>3, <1>6, <1>7, <1>8, <1>9, <1>10 DEF D!DevNext

\* Every initial state satisfies the invariant.
LEMMA InitDev == ASSUME D!DevInit PROVE DevInv
<1>1. /\ live \in {0, 1} /\ made = live /\ present = TRUE /\ known = live
      /\ starting = FALSE /\ stopping = FALSE
      /\ procId = live /\ procStatus = IF live = 0 THEN "none" ELSE "running"
      /\ jobs = <<>> /\ errors = 0 /\ crossed = FALSE
  BY DEF D!DevInit
<1>2. live \in Nat
  BY <1>1
<1>3. made \in Nat /\ errors \in Nat
  BY <1>1, <1>2
<1>4. present /\ OneAtATime
  BY <1>1 DEF OneAtATime, Knows, Status
<1>5. DevType
  BY <1>1, <1>2, <1>3 DEF DevType
<1>6. QED
  BY <1>4, <1>5 DEF DevInv

\* The invariant is about what a pane shows.
LEMMA DevShown == DevInv => ShownAsItRuns
<1> SUFFICES ASSUME DevInv, jobs = <<>>, ~crossed, errors = 0
             PROVE  (D!State = "running") = (live # 0)
  BY DEF ShownAsItRuns, D!ShownAsItRuns
<1>1. Knows /\ known = live /\ starting = FALSE /\ stopping = FALSE
  BY NoChain DEF DevInv
<1>2. QED
  BY <1>1 DEF D!State, Knows, Status

\* When one chain of requests went on at a time and nothing failed, a pane that waits
\* for nothing shows its development server running if and only if it runs, for any
\* bounds (handleWorkspaceRun, handleWorkspaceDevServerStop, loadWorkspaces and the
\* lists the server pushes).
THEOREM PaneShowsWhatRuns == D!DevSpec => []ShownAsItRuns
<1>1. D!DevInit => DevInv
  BY InitDev
<1>2. DevInv /\ [D!DevNext]_(D!devVars) => DevInv'
  BY NextDev
<1>3. DevInv => ShownAsItRuns
  BY DevShown
<1>4. QED
  BY <1>1, <1>2, <1>3, PTL DEF D!DevSpec

-----------------------------------------------------------------------------
(* The page of both *)

\* The page that has the sockets and the development server keeps both promises,
\* whichever of its parts moves.
THEOREM HomeIsSound == HomeSpec => [](NoStraySockets /\ ShownAsItRuns)
<1>1. HomeInit => LinkInv /\ DevInv
  BY InitLinks, InitDev DEF HomeInit
<1>2. LinkInv /\ DevInv /\ [HomeNext]_homeVars => (LinkInv /\ DevInv)'
  <2> SUFFICES ASSUME LinkInv, DevInv, [HomeNext]_homeVars PROVE (LinkInv /\ DevInv)'
    OBVIOUS
  <2>1. CASE Links(L!LinksNext)
    <3>1. L!LinksNext /\ UNCHANGED serverVars
      BY <2>1 DEF Links
    <3>2. UNCHANGED D!devVars
      BY <3>1 DEF serverVars, D!devVars, D!devServer, D!devPage, D!devPreview, D!devCount
    <3>3. QED
      BY <3>1, <3>2, NextLinks, NextDev
  <2>2. CASE Servers(D!DevNext)
    <3>1. D!DevNext /\ UNCHANGED linkVars
      BY <2>2 DEF Servers
    <3>2. UNCHANGED L!linkVars
      BY <3>1 DEF linkVars, L!linkVars, L!links, L!past
    <3>3. QED
      BY <3>1, <3>2, NextLinks, NextDev
  <2>3. CASE UNCHANGED homeVars
    <3>1. UNCHANGED linkVars /\ UNCHANGED serverVars
      BY <2>3 DEF homeVars
    <3>2. UNCHANGED L!linkVars /\ UNCHANGED D!devVars
      BY <3>1 DEF linkVars, serverVars, L!linkVars, L!links, L!past, D!devVars, D!devServer,
                  D!devPage, D!devPreview, D!devCount
    <3>3. QED
      BY <3>2, NextLinks, NextDev
  <2>4. QED
    BY <2>1, <2>2, <2>3 DEF HomeNext
<1>3. LinkInv /\ DevInv => NoStraySockets /\ ShownAsItRuns
  BY LinksKept, DevShown
<1>4. QED
  BY <1>1, <1>2, <1>3, PTL DEF HomeSpec
=============================================================================
