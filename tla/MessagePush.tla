---------------------------- MODULE MessagePush ----------------------------
(***************************************************************************)
(* How a message of a process reaches the hub of the browsers: the         *)
(* throttle of RealtimePublisher (internal/api/realtime.go), Redis Pub/Sub *)
(* and RealtimeSubscriber (internal/api/realtime_subscriber.go).           *)
(*                                                                         *)
(* An entry of a session (a key of the throttle) is published again        *)
(* whenever it changes.  The first frame is sent at once; those that       *)
(* follow within the window replace one another and the last one is sent   *)
(* when the window is over.  The mutex is released before a frame is sent, *)
(* and a timer that has fired cannot be stopped any more: its goroutine    *)
(* waits for the mutex while others publish.  The clock is read before the *)
(* mutex is taken, so that a caller may compare a time that has passed.    *)
(*                                                                         *)
(* The frames of a key are numbered as they are published.  Time is kept   *)
(* as the age of what was sent last, as what is left of a timer, and as    *)
(* what went by since a caller read the clock (its lag).                   *)
(***************************************************************************)
EXTENDS Integers, Sequences

CONSTANTS
    Key,        \* session, process and entry index
    Timer,      \* timers and their goroutines; a bound on those that live
    NoTimer,    \* a nil *time.Timer
    Window,     \* sessionMessageThrottle
    MaxLag,     \* bound on the time a caller waits for the mutex
    MaxFrames   \* bound on the frames of a key

ASSUME WindowAssumption == {Window, MaxLag, MaxFrames} \subseteq Nat
ASSUME TimerAssumption  == NoTimer \notin Timer /\ Key \cap Timer = {}

VARIABLES
    frame,       \* the last frame published under a key
    age,         \* time since lastSentAt, at most Old (its zero value, too)
    lag,         \* time since the caller read the clock, or Idle
    pending, flushTimer,
    timer,       \* every timer: free, armed, fired, or sending what it took
    hand,        \* the frame a goroutine has taken and not sent yet
    redis,       \* p.rdb is not nil
    connected,   \* the subscriber listens
    channel,     \* from Redis to the subscriber
    sent,        \* the frames the hub has broadcast
    missed       \* history: Redis took a frame that nobody will receive

throttleVars == <<age, lag, pending, flushTimer>>
redisVars == <<redis, connected, channel, missed>>
vars == <<frame, throttleVars, timer, hand, redisVars, sent>>

NoFrame == 0
Idle    == -1
Old     == Window + MaxLag  \* this age is over the window for any caller
Frame   == 1 .. MaxFrames
Sender  == Key \cup Timer

FreeTimer(k) == [state |-> "free", key |-> k, left |-> 0]
Live(t, k) == timer[t].state \in {"armed", "fired"} /\ timer[t].key = k

TypeOK ==
    /\ frame \in [Key -> Frame \cup {NoFrame}]
    /\ age \in [Key -> 0 .. Old]
    /\ lag \in [Key -> 0 .. MaxLag \cup {Idle}]
    /\ pending \in [Key -> Frame \cup {NoFrame}]
    /\ flushTimer \in [Key -> Timer \cup {NoTimer}]
    /\ timer \in [Timer -> [state : {"free", "armed", "fired", "sending"},
                            key : Key, left : 0 .. Old]]
    /\ hand \in [Sender -> Frame \cup {NoFrame}]
    /\ redis \in BOOLEAN
    /\ connected \in BOOLEAN
    /\ channel \in Seq(Key \X Frame)
    /\ sent \in [Key -> SUBSET Frame]
    /\ missed \in BOOLEAN

Init ==
    /\ frame = [k \in Key |-> NoFrame]
    /\ age = [k \in Key |-> Old]
    /\ lag = [k \in Key |-> Idle]
    /\ pending = [k \in Key |-> NoFrame]
    /\ flushTimer = [k \in Key |-> NoTimer]
    /\ timer \in [Timer -> {FreeTimer(k) : k \in Key}]
    /\ hand = [s \in Sender |-> NoFrame]
    /\ redis \in BOOLEAN
    /\ connected = FALSE
    /\ channel = <<>>
    /\ sent = [k \in Key |-> {}]
    /\ missed = FALSE

-----------------------------------------------------------------------------
(* The throttle *)

Tick ==
    /\ \A k \in Key : lag[k] < MaxLag
    /\ age' = [k \in Key |-> IF age[k] < Old THEN age[k] + 1 ELSE Old]
    /\ lag' = [k \in Key |-> IF lag[k] = Idle THEN Idle ELSE lag[k] + 1]
    /\ timer' = [t \in Timer |->
                   [timer[t] EXCEPT !.left = IF @ > 0 THEN @ - 1 ELSE 0]]
    /\ UNCHANGED <<frame, pending, flushTimer, hand, redisVars, sent>>

\* Stop has no effect on a timer that has fired.
Stopped(k) ==
    IF flushTimer[k] # NoTimer /\ timer[flushTimer[k]].state = "armed"
      THEN [timer EXCEPT ![flushTimer[k]] = FreeTimer(k)]
      ELSE timer

\* The timer the key points at once a frame is sent at once.
Detached_Kept(k) == flushTimer[k]
Detached(k) == NoTimer

\* publishSessionMessage up to the mutex.
Call(k) ==
    /\ lag[k] = Idle /\ hand[k] = NoFrame /\ frame[k] < MaxFrames
    /\ frame' = [frame EXCEPT ![k] = @ + 1]
    /\ lag' = [lag EXCEPT ![k] = 0]
    /\ UNCHANGED <<age, pending, flushTimer, timer, hand, redisVars, sent>>

\* now.Sub(state.lastSentAt)
Elapsed(k) == age[k] - lag[k]

\* With the mutex, the window is over: the caller takes its frame.
SendAtOnce(k) ==
    /\ lag[k] # Idle /\ Elapsed(k) >= Window
    /\ timer' = Stopped(k)
    /\ flushTimer' = [flushTimer EXCEPT ![k] = Detached(k)]
    /\ pending' = [pending EXCEPT ![k] = NoFrame]
    /\ age' = [age EXCEPT ![k] = lag[k]]
    /\ hand' = [hand EXCEPT ![k] = frame[k]]
    /\ lag' = [lag EXCEPT ![k] = Idle]
    /\ UNCHANGED <<frame, redisVars, sent>>

Remaining(k) == Window - Elapsed(k)

\* The frame replaces the one that waits.
Latest_First(old, new) == IF old = NoFrame THEN new ELSE old
Latest(old, new) == new

\* With the mutex, within the window: the frame waits for the timer.
Hold(k) ==
    /\ lag[k] # Idle /\ Elapsed(k) < Window
    /\ pending' = [pending EXCEPT ![k] = Latest(@, frame[k])]
    /\ IF flushTimer[k] # NoTimer
         THEN UNCHANGED <<timer, flushTimer>>
         ELSE \E t \in {u \in Timer : timer[u].state = "free"} :
                /\ timer' = [timer EXCEPT ![t] =
                               [state |-> "armed", key |-> k, left |-> Remaining(k)]]
                /\ flushTimer' = [flushTimer EXCEPT ![k] = t]
    /\ lag' = [lag EXCEPT ![k] = Idle]
    /\ UNCHANGED <<frame, age, hand, redisVars, sent>>

TimerFires(t) ==
    /\ timer[t].state = "armed" /\ timer[t].left = 0
    /\ timer' = [timer EXCEPT ![t].state = "fired"]
    /\ UNCHANGED <<frame, throttleVars, hand, redisVars, sent>>

\* What a flush leaves pending, and the timer it leaves the key with.
Emptied_Kept(k) == pending[k]
Emptied(k) == NoFrame
Cleared(k) == NoTimer

\* flushThrottledSessionMessage: take what is pending, if anything is.
Flush(t) ==
    LET k == timer[t].key
    IN  /\ timer[t].state = "fired"
        /\ flushTimer' = [flushTimer EXCEPT ![k] = Cleared(k)]
        /\ pending' = [pending EXCEPT ![k] = Emptied(k)]
        /\ IF pending[k] = NoFrame
             THEN /\ timer' = [timer EXCEPT ![t] = FreeTimer(k)]
                  /\ UNCHANGED <<age, hand>>
             ELSE /\ timer' = [timer EXCEPT ![t].state = "sending"]
                  /\ hand' = [hand EXCEPT ![t] = pending[k]]
                  /\ age' = [age EXCEPT ![k] = 0]
        /\ UNCHANGED <<frame, lag, redisVars, sent>>

-----------------------------------------------------------------------------
(* broadcastSessionMessage and the subscriber *)

KeyOf(s) == IF s \in Key THEN s ELSE timer[s].key

\* The goroutine is done with its frame.
Done(s) ==
    /\ hand' = [hand EXCEPT ![s] = NoFrame]
    /\ timer' = IF s \in Timer THEN [timer EXCEPT ![s] = FreeTimer(@.key)] ELSE timer

ToHub(k, n) == sent' = [sent EXCEPT ![k] = @ \cup {n}]

SendDirect(s) ==
    /\ hand[s] # NoFrame
    /\ ~redis
    /\ ToHub(KeyOf(s), hand[s])
    /\ Done(s)
    /\ UNCHANGED <<frame, throttleVars, redisVars>>

\* Redis hands a message to whoever listens, and else drops it.
Published(s) ==
    IF connected THEN Append(channel, <<KeyOf(s), hand[s]>>) ELSE channel

Publish(s) ==
    /\ hand[s] # NoFrame
    /\ redis
    /\ channel' = Published(s)
    /\ missed' = (missed \/ ~connected)
    /\ Done(s)
    /\ UNCHANGED <<frame, throttleVars, redis, connected, sent>>

\* Publish returns an error (and may have worked): straight to the hub.
Degraded_Dropped(k, n) == UNCHANGED sent
Degraded(k, n) == ToHub(k, n)

PublishFails(s) ==
    /\ hand[s] # NoFrame
    /\ redis
    /\ channel' \in {channel, Published(s)}
    /\ Degraded(KeyOf(s), hand[s])
    /\ Done(s)
    /\ UNCHANGED <<frame, throttleVars, redis, connected, missed>>

\* dispatchMessage
Forward ==
    /\ channel # <<>>
    /\ ToHub(Head(channel)[1], Head(channel)[2])
    /\ channel' = Tail(channel)
    /\ UNCHANGED <<frame, throttleVars, timer, hand, redis, connected, missed>>

Subscribe ==
    /\ redis /\ ~connected
    /\ connected' = TRUE
    /\ UNCHANGED <<frame, throttleVars, timer, hand, redis, channel, sent, missed>>

\* What is on its way to the subscriber is lost with the connection.
Disconnect ==
    /\ connected
    /\ connected' = FALSE
    /\ missed' = (missed \/ channel # <<>>)
    /\ channel' = <<>>
    /\ UNCHANGED <<frame, throttleVars, timer, hand, redis, sent>>

Send(s) == SendDirect(s) \/ Publish(s) \/ PublishFails(s)

Next ==
    \/ Tick
    \/ \E k \in Key : Call(k) \/ SendAtOnce(k) \/ Hold(k)
    \/ \E t \in Timer : TimerFires(t) \/ Flush(t)
    \/ \E s \in Sender : Send(s)
    \/ Forward
    \/ Subscribe
    \/ Disconnect

\* The clock runs, goroutines get the mutex and the processor, calls of Redis
\* return.  Nothing obliges a caller to publish.
Spec ==
    /\ Init /\ [][Next]_vars
    /\ WF_vars(Tick)
    /\ \A k \in Key : WF_vars(SendAtOnce(k) \/ Hold(k))
    /\ \A t \in Timer : WF_vars(TimerFires(t)) /\ WF_vars(Flush(t))
    /\ \A s \in Sender : WF_vars(Send(s))
    /\ WF_vars(Forward)

-----------------------------------------------------------------------------
(* Properties *)

\* A frame that waits has a timer that will come for it, whichever timers were
\* stopped too late and whichever goroutine cleared the pointer.
PendingHasTimer ==
    \A k \in Key : pending[k] # NoFrame => \E t \in Timer : Live(t, k)

\* The last frame of a key is never swallowed by the throttle: its caller waits
\* for the mutex, it waits for the timer, is on its way, or was broadcast, unless
\* Redis dropped a frame.
LastFrameSurvives ==
    \A k \in Key :
        frame[k] # NoFrame =>
           \/ frame[k] \in sent[k]
           \/ lag[k] # Idle
           \/ pending[k] = frame[k]
           \/ \E s \in Sender : hand[s] = frame[k] /\ KeyOf(s) = k
           \/ \E n \in 1 .. Len(channel) : channel[n] = <<k, frame[k]>>
           \/ missed

\* Without Redis a frame is broadcast at most once, by one goroutine.
SentOnce ==
    ~redis => \A s \in Sender :
        hand[s] # NoFrame =>
           /\ hand[s] \notin sent[KeyOf(s)]
           /\ pending[KeyOf(s)] # hand[s]
           /\ \A r \in Sender : r # s /\ KeyOf(r) = KeyOf(s) => hand[r] # hand[s]

\* Frames of a key are taken a window apart, except by a timer that the key no
\* longer points at.
TakenApart ==
    [][\A s \in Sender :
         hand'[s] # hand[s] /\ hand'[s] # NoFrame =>
            LET k == KeyOf(s)
            IN  \/ age[k] >= Window
                \/ s \in Timer /\ flushTimer[k] # s]_vars

-----------------------------------------------------------------------------
(* The throttle, Redis and the subscriber implement LatestDelivery *)

Promise == INSTANCE LatestDelivery
       WITH posted <- frame, delivered <- sent, lossy <- missed

\* Through timers that fire too late, goroutines that overtake one another and
\* calls of Redis that fail, nothing is broadcast before it was published, nothing
\* that was broadcast is taken back, and the last frame of a key is broadcast
\* unless Redis dropped one.
DeliversTheLatest == Promise!Spec
=============================================================================
