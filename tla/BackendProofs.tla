---------------------------- MODULE BackendProofs ----------------------------
(***************************************************************************)
(* Theorems about the two parts of MCBackend and about both together.      *)
(* FallbackBuffer: through failures of MySQL and of Redis, changes of its  *)
(* health and restarts, the last version of an entry is kept somewhere     *)
(* until it is stored or buried.                                           *)
(* NotificationTracker, for every set of workspaces and any thresholds: no *)
(* notice is sent twice in a run, and, when both kinds of attention are to *)
(* be announced, nobody waits twice the longest threshold.                 *)
(***************************************************************************)
EXTENDS MCBackend, MemoryBufferProofs

-----------------------------------------------------------------------------
(* FallbackBuffer: types *)

\* The variables that are not those of the memory buffer.
RedisTypeOK ==
    /\ healthy \in BOOLEAN
    /\ position \in [Process -> Position]
    /\ writing \in [Process -> [to : {"none", "memory", "queue", "body"},
                                index : Index, version : Version]]
    /\ queue \in [Process -> SUBSET Index]
    /\ body \in [Process -> [Index -> Slot]]
    /\ redisIndex \in [Process -> Position]
    /\ active \subseteq Process
    /\ retryCnt \in [Process -> 0 .. RetryMax]
    /\ flushMu \in Worker \cup {NoWorker}
    /\ dead \subseteq Process \X Index \X Version
    /\ wpc \in [Worker -> {"idle", "ready", "upsert", "remove", "drop", "onFlush"}]
    /\ wtodo \in [Worker -> SUBSET Process]
    /\ on \in [Worker -> Process]
    /\ members \in [Worker -> SUBSET Index]
    /\ fetched \in [Worker -> [Index -> Slot]]
    /\ stale \in [Process -> SUBSET Index]
    /\ switches \in 0 .. MaxSwitches
    /\ restarts \in 0 .. MaxRestarts

\* The failures in a row of a process stay below the limit: the last one starts
\* again from zero, once the entries are out of the queue.
RetriesLeft ==
    \A p \in Process :
        retryCnt[p] >= RetryMax => \E w \in Worker : wpc[w] = "drop" /\ on[w] = p

\* flushMu is held from the script that reads the queue to the end of the flush.
Turns == \A w \in Worker : wpc[w] \in {"upsert", "remove", "drop", "onFlush"} => flushMu = w

FallbackType == TypeOK /\ RedisTypeOK /\ RetriesLeft /\ Turns

\* Redis and the database are empty at the first start.
LEMMA FallbackInitType == FallbackInit => FallbackType
<1> SUFFICES ASSUME FallbackInit PROVE FallbackType
  OBVIOUS
<1>1. TypeOK
  BY InitType DEF FallbackInit
<1>2. /\ NoEntries \in [Index -> Slot] /\ NoIndex \in Position
      /\ NoWrite \in [to : {"none", "memory", "queue", "body"}, index : Index, version : Version]
  BY BoundsAssumption DEF NoEntries, Slot, Position, NoWrite, Index, Version
<1>3. position \in [Process -> Position]
  BY <1>2 DEF FallbackInit
<1>4. writing \in [Process -> [to : {"none", "memory", "queue", "body"},
                                index : Index, version : Version]]
  BY <1>2, Zenon DEF FallbackInit
<1>5. RedisTypeOK
  BY <1>2, <1>3, <1>4, WorkerAssumption DEF FallbackInit, RedisTypeOK
<1>6. RetriesLeft /\ Turns
  BY WorkerAssumption DEF FallbackInit, RetriesLeft, Turns
<1>7. QED
  BY <1>1, <1>5, <1>6 DEF FallbackType

\* An entry chosen for a buffer.
LEMMA ChooseType ==
    ASSUME FallbackType, NEW p \in Process, NEW i \in Index, NEW v \in Version, Choose(p, i, v)
    PROVE  FallbackType'
<1>1. UNCHANGED <<vars, healthy, position, redisVars, redisBufferVars, workerVars, stale,
                  countVars>>
  BY DEF Choose
<1>2. writing' \in [Process -> [to : {"none", "memory", "queue", "body"},
                                index : Index, version : Version]]
  <2> DEFINE to == IF healthy THEN "queue" ELSE "memory"
  <2>1. writing' = [writing EXCEPT ![p] = [to |-> to, index |-> i, version |-> v]]
    BY DEF Choose
  <2>2. to \in {"none", "memory", "queue", "body"}
    OBVIOUS
  <2> HIDE DEF to
  <2>3. [to |-> to, index |-> i, version |-> v]
          \in [to : {"none", "memory", "queue", "body"}, index : Index, version : Version]
    BY <2>2
  <2>4. QED
    BY <2>1, <2>3 DEF FallbackType, RedisTypeOK
<1>3. TypeOK'
  BY <1>1 DEF FallbackType, TypeOK, vars, bufferVars, storeVars, localVars, historyVars
<1>4. QED
  BY <1>1, <1>2, <1>3 DEF FallbackType, RedisTypeOK, RetriesLeft, Turns, redisVars,
                          redisBufferVars, workerVars, countVars

\* The next version of an entry is on its way to the buffer that was chosen.
LEMMA WrittenIsOK ==
    ASSUME FallbackType, NEW p \in Process
    PROVE  /\ writing[p].to \in {"none", "memory", "queue", "body"}
           /\ writing[p].index \in Index /\ writing[p].version \in Version
           /\ writing[p].version \in Slot
           /\ [writing EXCEPT ![p] = NoWrite] \in
                 [Process -> [to : {"none", "memory", "queue", "body"},
                              index : Index, version : Version]]
           /\ [writing EXCEPT ![p].to = "body"] \in
                 [Process -> [to : {"none", "memory", "queue", "body"},
                              index : Index, version : Version]]
<1>1. writing \in [Process -> [to : {"none", "memory", "queue", "body"},
                                index : Index, version : Version]]
  BY DEF FallbackType, RedisTypeOK
<1>2. NoWrite \in [to : {"none", "memory", "queue", "body"}, index : Index, version : Version]
  BY BoundsAssumption DEF NoWrite, Index, Version
<1>3. writing[p] \in [to : {"none", "memory", "queue", "body"}, index : Index, version : Version]
  BY <1>1
<1>4. QED
  BY <1>1, <1>2, <1>3 DEF Slot

\* The write of an entry, to the memory or to Redis.
LEMMA WriteType ==
    ASSUME FallbackType, NEW p \in Process, WriteStep(p)
    PROVE  FallbackType'
<1> DEFINE i == writing[p].index
           v == writing[p].version
<1>0. i \in Index /\ v \in Version /\ v \in Slot /\ TypeOK /\ RedisTypeOK
  BY WrittenIsOK DEF FallbackType
<1>1. /\ UNCHANGED <<healthy, position, switches, restarts, retryCnt, flushMu, dead, wpc, on>>
      /\ UNCHANGED <<wtodo, members, fetched>>
      /\ \/ writing' = [writing EXCEPT ![p] = NoWrite]
         \/ writing' = [writing EXCEPT ![p].to = "body"]
      /\ queue' = queue \/ queue' = [queue EXCEPT ![p] = @ \cup {i}]
      /\ body' = body \/ body' = [body EXCEPT ![p][i] = v]
  BY DEF WriteStep, WriteMemory, AddToQueue, WriteRedis, WriteFails, SetBody, redisVars,
         redisBufferVars, workerVars, countVars
<1>2. writing' \in [Process -> [to : {"none", "memory", "queue", "body"},
                                index : Index, version : Version]]
  <2>1. /\ [writing EXCEPT ![p] = NoWrite] \in
              [Process -> [to : {"none", "memory", "queue", "body"},
                           index : Index, version : Version]]
        /\ [writing EXCEPT ![p].to = "body"] \in
              [Process -> [to : {"none", "memory", "queue", "body"},
                           index : Index, version : Version]]
    BY WrittenIsOK
  <2>2. QED
    BY <1>1, <2>1
<1> HIDE DEF i, v
<1>3. queue' \in [Process -> SUBSET Index] /\ body' \in [Process -> [Index -> Slot]]
  <2>1. queue \in [Process -> SUBSET Index] /\ body \in [Process -> [Index -> Slot]]
    BY <1>0 DEF RedisTypeOK
  <2>2. queue' \in [Process -> SUBSET Index]
    BY <1>0, <1>1, <2>1
  <2>3. body' \in [Process -> [Index -> Slot]]
    <3>1. body' = body \/ body' = [body EXCEPT ![p][i] = v]
      BY <1>1
    <3>2. i \in Index /\ v \in Slot
      BY <1>0
    <3>3. CASE body' = body
      BY <2>1, <3>3
    <3>4. CASE body' = [body EXCEPT ![p][i] = v]
      <4>1. [body[p] EXCEPT ![i] = v] \in [Index -> Slot]
        BY <2>1, <3>2
      <4>2. body' = [body EXCEPT ![p] = [body[p] EXCEPT ![i] = v]]
        BY <3>4
      <4>3. QED
        BY <2>1, <4>1, <4>2
    <3>5. QED
      BY <3>1, <3>3, <3>4
  <2>4. QED
    BY <2>2, <2>3
<1> USE DEF i, v
<1>4. \E S \in SUBSET Index : stale' = [stale EXCEPT ![p] = S]
  <2>1. stale[p] \cup {i} \in SUBSET Index /\ stale[p] \ {i} \in SUBSET Index
        /\ stale[p] \in SUBSET Index
    BY <1>0 DEF RedisTypeOK
  <2>2. CASE WriteMemory(p)
    BY <2>1, <2>2 DEF WriteMemory
  <2>3. CASE AddToQueue(p)
    BY <2>1, <2>3 DEF AddToQueue
  <2>4. CASE WriteRedis(p)
    BY <2>1, <2>4 DEF WriteRedis
  <2>5. CASE WriteFails(p)
    BY <2>1, <2>5 DEF WriteFails
  <2>6. QED
    BY <2>2, <2>3, <2>4, <2>5 DEF WriteStep
<1>5. stale' \in [Process -> SUBSET Index]
  BY <1>0, <1>4 DEF RedisTypeOK
<1>6. active' \subseteq Process /\ redisIndex' \in [Process -> Position]
  <2>1. \/ active' = active /\ redisIndex' = redisIndex
        \/ /\ active' = active \cup {p}
           /\ \/ redisIndex' = redisIndex
              \/ redisIndex' = [redisIndex EXCEPT ![p] = IF Known(p) = NoIndex THEN @ ELSE Known(p)]
    BY DEF WriteStep, WriteMemory, AddToQueue, WriteRedis, WriteFails, redisVars, redisBufferVars
  <2>2. /\ active \subseteq Process /\ redisIndex \in [Process -> Position]
        /\ (IF Known(p) = NoIndex THEN redisIndex[p] ELSE Known(p)) \in Position
    BY <1>0 DEF RedisTypeOK, Known
  <2>3. active' \subseteq Process
    BY <2>1, <2>2
  <2>4. redisIndex' \in [Process -> Position]
    BY <2>1, <2>2
  <2>5. QED
    BY <2>3, <2>4
<1>7. RedisTypeOK'
  BY <1>0, <1>1, <1>2, <1>3, <1>5, <1>6 DEF RedisTypeOK
<1>8. TypeOK'
  <2>1. CASE WriteMemory(p)
    <3>1. Enqueue(p, i, position[p], v)
      BY <2>1 DEF WriteMemory
    <3>2. position[p] \in Position
      BY <1>0 DEF RedisTypeOK
    <3>3. QED
      BY <1>0, <3>1, <3>2, EnqueueType
  <2>2. CASE UNCHANGED vars
    BY <1>0, <2>2 DEF TypeOK, vars, bufferVars, storeVars, localVars, historyVars
  <2>3. CASE /\ UNCHANGED <<bufferVars, storeVars, localVars>>
             /\ latest' = [latest EXCEPT ![p][i] = v]
             /\ racy' = racy \/ racy' = [racy EXCEPT ![p] = @ \ {i}]
    <3>1. latest \in [Process -> [Index -> Slot]] /\ racy \in [Process -> SUBSET Index]
      BY <1>0 DEF TypeOK
    <3> HIDE DEF i, v
    <3>3. latest' \in [Process -> [Index -> Slot]]
      BY <1>0, <2>3, <3>1
    <3>4. racy[p] \ {i} \in SUBSET Index
      BY <3>1
    <3>5. racy' \in [Process -> SUBSET Index]
      BY <2>3, <3>1, <3>4
    <3>2. QED
      BY <1>0, <2>3, <3>3, <3>5 DEF TypeOK, bufferVars, storeVars, localVars
  <2>4. QED
    BY <2>1, <2>2, <2>3 DEF WriteStep, AddToQueue, WriteRedis, WriteFails, SetBody
<1>9. RetriesLeft' /\ Turns'
  BY <1>1 DEF FallbackType, RetriesLeft, Turns
<1>10. QED
  BY <1>7, <1>8, <1>9 DEF FallbackType

\* A goroutine that is about to flush.
LEMMA WorkType ==
    ASSUME FallbackType, NEW w \in Worker, NEW ps \in SUBSET Process, Work(w, ps),
           NothingElse, UNCHANGED <<redisVars, redisBufferVars>>
    PROVE  FallbackType'
<1>0. TypeOK /\ RedisTypeOK
  BY DEF FallbackType
<1>1. /\ UNCHANGED <<vars, healthy, position, writing, stale, switches, restarts, queue, body>>
      /\ UNCHANGED <<redisIndex, active, retryCnt, flushMu, dead, on, members, fetched>>
      /\ wpc[w] = "idle" /\ wpc' = [wpc EXCEPT ![w] = "ready"]
      /\ wtodo' = [wtodo EXCEPT ![w] = ps]
  BY DEF Work, NothingElse, redisVars, redisBufferVars, readerVars, countVars
<1>2. TypeOK'
  BY <1>0, <1>1 DEF TypeOK, vars, bufferVars, storeVars, localVars, historyVars
<1>3. RedisTypeOK'
  BY <1>0, <1>1 DEF RedisTypeOK
<1>4. RetriesLeft' /\ Turns'
  <2>1. \A u \in Worker : u # w => wpc'[u] = wpc[u]
    BY <1>0, <1>1 DEF RedisTypeOK
  <2>2. wpc'[w] = "ready"
    BY <1>0, <1>1 DEF RedisTypeOK
  <2>3. QED
    BY <1>1, <2>1, <2>2 DEF FallbackType, RetriesLeft, Turns
<1>5. QED
  BY <1>2, <1>3, <1>4 DEF FallbackType

\* A flush that returns is over.
LEMMA LeaveType ==
    ASSUME RedisTypeOK, NEW w \in Worker, NEW p \in Process, NEW ok, Leave(w, p, ok)
    PROVE  /\ wtodo' \in [Worker -> SUBSET Process]
           /\ wpc' \in [Worker -> {"idle", "ready", "upsert", "remove", "drop", "onFlush"}]
           /\ members' \in [Worker -> SUBSET Index]
           /\ fetched' \in [Worker -> [Index -> Slot]]
           /\ wpc'[w] \in {"idle", "ready"}
           /\ \A u \in Worker : u # w => /\ wpc'[u] = wpc[u] /\ members'[u] = members[u]
                                       /\ fetched'[u] = fetched[u]
<1> DEFINE left == IF ok THEN wtodo[w] \ {p} ELSE {}
           next == IF left = {} THEN "idle" ELSE "ready"
<1>1. left \in SUBSET Process /\ next \in {"idle", "ready"}
  BY DEF RedisTypeOK
<1>2. /\ wtodo' = [wtodo EXCEPT ![w] = left]
      /\ wpc' = [wpc EXCEPT ![w] = next]
      /\ members' = [members EXCEPT ![w] = {}]
      /\ fetched' = [fetched EXCEPT ![w] = NoEntries]
  BY DEF Leave
<1>3. NoEntries \in [Index -> Slot]
  BY DEF NoEntries, Slot
<1>4. QED
  <2> HIDE DEF left, next
  <2>1. QED
    BY <1>1, <1>2, <1>3 DEF RedisTypeOK

\* A worker enters its flush with flushMu, and gives it up only when it leaves.
LEMMA WorkerTurns ==
    ASSUME Turns, RedisTypeOK, NEW w \in Worker,
           \A u \in Worker : u # w => wpc'[u] = wpc[u],
           wpc'[w] \in {"idle", "ready"} \/ flushMu' = w,
           flushMu' = flushMu \/ flushMu = NoWorker
              \/ wpc[w] \in {"upsert", "remove", "drop", "onFlush"}
    PROVE  Turns'
<1> SUFFICES ASSUME NEW u \in Worker, wpc'[u] \in {"upsert", "remove", "drop", "onFlush"}
             PROVE  flushMu' = u
  BY DEF Turns
<1>1. CASE u = w
  BY <1>1
<1>2. CASE u # w
  <2>1. wpc[u] \in {"upsert", "remove", "drop", "onFlush"} /\ flushMu = u
    BY <1>2 DEF Turns
  <2>2. flushMu # NoWorker
    BY <2>1, WorkerAssumption
  <2>3. wpc[w] \notin {"upsert", "remove", "drop", "onFlush"}
    BY <1>2, <2>1 DEF Turns
  <2>4. QED
    BY <2>1, <2>2, <2>3
<1>3. QED
  BY <1>1, <1>2

\* The steps of a worker on one process keep the types.
LEMMA WorkerType ==
    ASSUME FallbackType, NEW w \in Worker, NEW p \in Process, WorkStep(w, p)
    PROVE  FallbackType'
<1>0. TypeOK /\ RedisTypeOK /\ RetriesLeft /\ Turns
  BY DEF FallbackType
<1>1. wpc[w] \notin {"idle", "ready"} => /\ wpc[w] \in {"upsert", "remove", "drop", "onFlush"}
                                         /\ flushMu = w
  BY <1>0 DEF RedisTypeOK, Turns
<1>2. ASSUME UNCHANGED vars PROVE TypeOK'
  BY <1>0, <1>2 DEF TypeOK, vars, bufferVars, storeVars, localVars, historyVars
<1>3. ASSUME UNCHANGED <<retryCnt, on>>, wpc[w] # "drop",
             \A u \in Worker : u # w => wpc'[u] = wpc[u]
      PROVE  RetriesLeft'
  BY <1>0, <1>3 DEF RetriesLeft
<1>4. ASSUME Fetch(w, p) PROVE FallbackType'
  <2>1. /\ UNCHANGED <<vars, healthy, position, writing, queue, body, redisIndex, active>>
        /\ UNCHANGED <<retryCnt, dead, stale, switches, restarts>>
        /\ wpc[w] = "ready" /\ p \in wtodo[w] /\ flushMu = NoWorker
    BY <1>4 DEF Fetch, readerVars, redisVars, countVars
  <2>2. TypeOK'
    BY <1>2, <2>1
  <2>3. CASE Leave(w, p, TRUE) /\ UNCHANGED <<on, flushMu>>
    <3>1. RedisTypeOK'
      BY <1>0, <2>1, <2>3, LeaveType DEF RedisTypeOK
    <3>2. RetriesLeft'
      BY <1>0, <1>3, <2>1, <2>3, LeaveType
    <3>3. Turns'
      BY <1>0, <2>3, LeaveType, WorkerTurns
    <3>4. QED
      BY <2>2, <3>1, <3>2, <3>3 DEF FallbackType
  <2>4. CASE /\ flushMu' = w
             /\ wpc' = [wpc EXCEPT ![w] = "upsert"]
             /\ on' = [on EXCEPT ![w] = p]
             /\ members' = [members EXCEPT ![w] = queue[p]]
             /\ fetched' = [fetched EXCEPT ![w] =
                  [i \in Index |-> IF i \in queue[p] THEN body[p][i] ELSE NoEntry]]
             /\ UNCHANGED wtodo
    <3>1. /\ queue[p] \in SUBSET Index
          /\ [i \in Index |-> IF i \in queue[p] THEN body[p][i] ELSE NoEntry] \in [Index -> Slot]
      BY <1>0 DEF RedisTypeOK, Slot
    <3>2. /\ wpc \in [Worker -> {"idle", "ready", "upsert", "remove", "drop", "onFlush"}]
          /\ on \in [Worker -> Process] /\ members \in [Worker -> SUBSET Index]
          /\ fetched \in [Worker -> [Index -> Slot]]
      BY <1>0 DEF RedisTypeOK
    <3>3. wpc' \in [Worker -> {"idle", "ready", "upsert", "remove", "drop", "onFlush"}]
      BY <2>4, <3>2
    <3>4. on' \in [Worker -> Process]
      BY <2>4, <3>2
    <3>5. members' \in [Worker -> SUBSET Index]
      BY <2>4, <3>1, <3>2
    <3>6. fetched' \in [Worker -> [Index -> Slot]]
      BY <2>4, <3>1, <3>2
    <3>7. RedisTypeOK'
      BY <1>0, <2>1, <2>4, <3>3, <3>4, <3>5, <3>6 DEF RedisTypeOK
    <3>8. /\ wpc'[w] = "upsert"
          /\ \A u \in Worker : u # w => wpc'[u] = wpc[u] /\ on'[u] = on[u]
      BY <2>4, <3>2
    <3>9. RetriesLeft'
      BY <1>0, <2>1, <3>8 DEF RetriesLeft
    <3>10. Turns'
      BY <1>0, <2>1, <2>4, <3>8, WorkerTurns
    <3>11. QED
      BY <2>2, <3>7, <3>9, <3>10 DEF FallbackType
  <2>5. QED
    BY <1>4, <2>3, <2>4 DEF Fetch
<1>5. ASSUME FetchFails(w, p) PROVE FallbackType'
  <2>1. /\ UNCHANGED <<vars, healthy, position, writing, queue, body, redisIndex, active>>
        /\ UNCHANGED <<retryCnt, flushMu, dead, on, stale, switches, restarts>>
        /\ wpc[w] = "ready" /\ Leave(w, p, FALSE)
    BY <1>5 DEF FetchFails, NothingElse, readerVars, redisVars, redisBufferVars, countVars
  <2>2. TypeOK'
    BY <1>2, <2>1
  <2>3. RedisTypeOK'
    BY <1>0, <2>1, LeaveType DEF RedisTypeOK
  <2>4. RetriesLeft'
    BY <1>0, <1>3, <2>1, LeaveType
  <2>5. Turns'
    BY <1>0, <2>1, LeaveType, WorkerTurns
  <2>6. QED
    BY <2>2, <2>3, <2>4, <2>5 DEF FallbackType
<1>6. Over(p, fetched[w]) \in [Process -> [Index -> Slot]]
  <2>1. store \in [Process -> [Index -> Slot]] /\ fetched[w] \in [Index -> Slot]
    BY <1>0 DEF TypeOK, RedisTypeOK
  <2>2. [i \in Index |-> IF fetched[w][i] # NoEntry THEN fetched[w][i] ELSE store[p][i]]
          \in [Index -> Slot]
    BY <2>1
  <2>3. QED
    BY <2>1, <2>2 DEF Over
<1>7. ASSUME store' = store \/ store' = Over(p, fetched[w]),
             UNCHANGED <<bufferVars, checkpoint, localVars, historyVars>>
      PROVE  TypeOK'
  <2>1. store' \in [Process -> [Index -> Slot]]
    BY <1>0, <1>6, <1>7 DEF TypeOK
  <2>2. QED
    BY <1>0, <1>7, <2>1 DEF TypeOK, bufferVars, localVars, historyVars
<1>8. ASSUME Upsert(w, p) PROVE FallbackType'
  <2>1. /\ UNCHANGED <<healthy, position, writing, queue, body, redisIndex, active>>
        /\ UNCHANGED <<retryCnt, flushMu, dead, on, stale, switches, restarts>>
        /\ UNCHANGED <<wtodo, members, fetched>>
        /\ wpc[w] = "upsert" /\ wpc' = [wpc EXCEPT ![w] = "remove"]
    BY <1>8 DEF Upsert, readerVars, redisVars, redisBufferVars, countVars
  <2>2. TypeOK'
    BY <1>7, <1>8 DEF Upsert
  <2>3. /\ wpc' \in [Worker -> {"idle", "ready", "upsert", "remove", "drop", "onFlush"}]
        /\ \A u \in Worker : u # w => wpc'[u] = wpc[u]
    BY <1>0, <2>1 DEF RedisTypeOK
  <2>4. RedisTypeOK'
    BY <1>0, <2>1, <2>3 DEF RedisTypeOK
  <2>5. RetriesLeft'
    BY <1>3, <2>1, <2>3
  <2>6. Turns'
    BY <1>0, <1>1, <2>1, <2>3, WorkerTurns
  <2>7. QED
    BY <2>2, <2>4, <2>5, <2>6 DEF FallbackType
<1>9. ASSUME UpsertFails(w, p) PROVE FallbackType'
  <2>1. /\ UNCHANGED <<healthy, position, writing, queue, body, redisIndex, active>>
        /\ UNCHANGED <<on, switches, restarts>>
        /\ wpc[w] = "upsert" /\ on[w] = p /\ flushMu = w
        /\ retryCnt' = [retryCnt EXCEPT ![p] = @ + 1]
    BY <1>1, <1>9 DEF UpsertFails, readerVars, redisVars, countVars
  <2>2. TypeOK'
    BY <1>7, <1>9 DEF UpsertFails
  <2>3. retryCnt[p] \in 0 .. RetryMax /\ retryCnt[p] < RetryMax
    <3>1. ~ \E u \in Worker : wpc[u] = "drop" /\ on[u] = p
      BY <1>0, <2>1 DEF Turns
    <3>2. retryCnt[p] \in 0 .. RetryMax
      BY <1>0 DEF RedisTypeOK
    <3>3. ~ (retryCnt[p] >= RetryMax)
      BY <1>0, <3>1 DEF RetriesLeft
    <3>4. QED
      BY <3>2, <3>3, WorkerAssumption
  <2>4. /\ retryCnt' \in [Process -> 0 .. RetryMax]
        /\ retryCnt'[p] = retryCnt[p] + 1
        /\ \A q \in Process : q # p => retryCnt'[q] = retryCnt[q]
    <3>1. retryCnt \in [Process -> 0 .. RetryMax]
      BY <1>0 DEF RedisTypeOK
    <3>2. retryCnt[p] + 1 \in 0 .. RetryMax
      BY <2>3, WorkerAssumption
    <3>3. QED
      BY <2>1, <3>1, <3>2
  <2>5. dead' \subseteq Process \X Index \X Version /\ stale' \in [Process -> SUBSET Index]
    <3>1. Buried(p, fetched[w]) \subseteq Process \X Index \X Version
      BY <1>0 DEF Buried, Held, RedisTypeOK, Slot
    <3>2. Held(fetched[w]) \in SUBSET Index
      BY DEF Held
    <3>3. dead \subseteq Process \X Index \X Version /\ stale \in [Process -> SUBSET Index]
      BY <1>0 DEF RedisTypeOK
    <3>4. dead' = dead \/ dead' = dead \cup Buried(p, fetched[w])
      BY <1>9 DEF UpsertFails
    <3>5. stale' = stale \/ stale' = [stale EXCEPT ![p] = @ \cup Held(fetched[w])]
      BY <1>9 DEF UpsertFails
    <3>6. stale' \in [Process -> SUBSET Index]
      BY <3>2, <3>3, <3>5
    <3>7. QED
      BY <3>1, <3>3, <3>4, <3>6
  <2>6. CASE Exhausted(p)
    <3>1. wpc' = [wpc EXCEPT ![w] = "drop"] /\ UNCHANGED <<flushMu, wtodo, members, fetched>>
      BY <1>9, <2>6 DEF UpsertFails
    <3>2. /\ wpc' \in [Worker -> {"idle", "ready", "upsert", "remove", "drop", "onFlush"}]
          /\ wpc'[w] = "drop"
          /\ \A u \in Worker : u # w => wpc'[u] = wpc[u]
      BY <1>0, <3>1 DEF RedisTypeOK
    <3>3. RedisTypeOK'
      BY <1>0, <2>1, <2>4, <2>5, <3>1, <3>2 DEF RedisTypeOK
    <3>4. RetriesLeft'
      BY <1>0, <2>1, <2>4, <3>2 DEF RetriesLeft
    <3>5. Turns'
      BY <1>0, <2>1, <3>1, <3>2, WorkerTurns
    <3>6. QED
      BY <2>2, <3>3, <3>4, <3>5 DEF FallbackType
  <2>7. CASE ~Exhausted(p)
    <3>1. Leave(w, p, FALSE) /\ flushMu' = NoWorker
      BY <1>9, <2>7 DEF UpsertFails, Unlock
    <3>2. RedisTypeOK'
      BY <1>0, <2>1, <2>4, <2>5, <3>1, LeaveType DEF RedisTypeOK
    <3>3. ~ (retryCnt'[p] >= RetryMax)
      BY <2>3, <2>4, <2>7, WorkerAssumption DEF Exhausted
    <3>4. \A u \in Worker : u # w => wpc'[u] = wpc[u]
      BY <1>0, <3>1, LeaveType
    <3>5. RetriesLeft'
      BY <1>0, <2>1, <2>4, <3>3, <3>4 DEF RetriesLeft
    <3>6. Turns'
      BY <1>0, <2>1, <3>1, LeaveType, WorkerTurns
    <3>7. QED
      BY <2>2, <3>2, <3>5, <3>6 DEF FallbackType
  <2>8. QED
    BY <2>6, <2>7
<1>10. ASSUME Remove(w, p) \/ RemoveFails(w, p) PROVE FallbackType'
  <2>1. /\ UNCHANGED <<vars, healthy, position, writing, body, redisIndex, active>>
        /\ UNCHANGED <<dead, on, stale, switches, restarts>>
        /\ wpc[w] \in {"remove", "drop"} /\ on[w] = p /\ flushMu = w
        /\ retryCnt' = [retryCnt EXCEPT ![p] = 0]
        /\ queue' = queue \/ queue' = [queue EXCEPT ![p] = Removed(p, members[w])]
    BY <1>1, <1>10 DEF Remove, RemoveFails, AfterRemove, readerVars, countVars
  <2>2. TypeOK'
    BY <1>2, <2>1
  <2>3. /\ retryCnt' \in [Process -> 0 .. RetryMax]
        /\ retryCnt'[p] = 0
        /\ \A q \in Process : q # p => retryCnt'[q] = retryCnt[q]
    <3>1. retryCnt \in [Process -> 0 .. RetryMax] /\ 0 \in 0 .. RetryMax
      BY <1>0, WorkerAssumption DEF RedisTypeOK
    <3>2. QED
      BY <2>1, <3>1
  <2>4. queue' \in [Process -> SUBSET Index]
    <3>1. queue \in [Process -> SUBSET Index] /\ Removed(p, members[w]) \in SUBSET Index
      BY <1>0 DEF RedisTypeOK, Removed
    <3>2. QED
      BY <2>1, <3>1
  <2>5. /\ wpc' \in [Worker -> {"idle", "ready", "upsert", "remove", "drop", "onFlush"}]
        /\ wtodo' \in [Worker -> SUBSET Process]
        /\ members' \in [Worker -> SUBSET Index]
        /\ fetched' \in [Worker -> [Index -> Slot]]
        /\ flushMu' \in {w, NoWorker}
        /\ wpc'[w] \in {"idle", "ready"} \/ flushMu' = w
        /\ \A u \in Worker : u # w => wpc'[u] = wpc[u]
    <3>1. CASE Leave(w, p, FALSE) /\ Unlock(FALSE)
      BY <1>0, <3>1, LeaveType DEF Unlock
    <3>2. CASE /\ wpc' = [wpc EXCEPT ![w] = "onFlush"]
               /\ UNCHANGED <<flushMu, wtodo, members, fetched>>
      BY <1>0, <2>1, <3>2 DEF RedisTypeOK
    <3>3. QED
      BY <1>10, <3>1, <3>2 DEF Remove, RemoveFails, AfterRemove
  <2>6. RedisTypeOK'
    BY <1>0, <2>1, <2>3, <2>4, <2>5 DEF RedisTypeOK
  <2>7. RetriesLeft'
    <3>1. ~ (retryCnt'[p] >= RetryMax)
      BY <2>3, WorkerAssumption
    <3>2. QED
      BY <1>0, <2>1, <2>3, <2>5, <3>1 DEF RetriesLeft
  <2>8. Turns'
    BY <1>0, <2>1, <2>5, WorkerTurns
  <2>9. QED
    BY <2>2, <2>6, <2>7, <2>8 DEF FallbackType
<1>11. ASSUME CallOnFlush(w, p) PROVE FallbackType'
  <2>1. /\ UNCHANGED <<bufferVars, store, localVars, historyVars>>
        /\ UNCHANGED <<healthy, position, writing, queue, body, redisIndex, active>>
        /\ UNCHANGED <<retryCnt, dead, on, stale, switches, restarts>>
        /\ wpc[w] = "onFlush" /\ flushMu = w
        /\ Leave(w, p, TRUE) /\ flushMu' = NoWorker
    BY <1>1, <1>11 DEF CallOnFlush, Unlock, readerVars, redisVars, countVars
  <2>2. checkpoint' \in [Process -> Position]
    <3>1. /\ checkpoint \in [Process -> Position]
          /\ (IF redisIndex[p] = NoIndex THEN checkpoint[p] ELSE redisIndex[p]) \in Position
      BY <1>0 DEF TypeOK, RedisTypeOK
    <3>2. QED
      BY <1>11, <3>1 DEF CallOnFlush
  <2>3. TypeOK'
    BY <1>0, <2>1, <2>2 DEF TypeOK, bufferVars, localVars, historyVars
  <2>4. RedisTypeOK'
    BY <1>0, <2>1, LeaveType DEF RedisTypeOK
  <2>5. RetriesLeft'
    BY <1>0, <1>3, <2>1, LeaveType
  <2>6. Turns'
    BY <1>0, <2>1, LeaveType, WorkerTurns
  <2>7. QED
    BY <2>3, <2>4, <2>5, <2>6 DEF FallbackType
<1>12. QED
  BY <1>4, <1>5, <1>8, <1>9, <1>10, <1>11 DEF WorkStep

\* The steps of the memory buffer are steps of its module.
LEMMA MemorySteps == MemoryStep => Next
  BY DEF MemoryStep, Next

\* Every step of the fallback buffer keeps the types.
LEMMA FallbackNextType == FallbackType /\ [FallbackNext]_allVars => FallbackType'
<1> SUFFICES ASSUME FallbackType, [FallbackNext]_allVars PROVE FallbackType'
  OBVIOUS
<1>0. TypeOK /\ RedisTypeOK /\ RetriesLeft /\ Turns
  BY DEF FallbackType
<1>1. ASSUME UNCHANGED <<position, writing, queue, body, redisIndex, active, retryCnt, flushMu,
                         dead, wpc, wtodo, on, members, fetched, stale>>,
             TypeOK', healthy' \in BOOLEAN, switches' \in 0 .. MaxSwitches, restarts' = restarts
      PROVE  FallbackType'
  BY <1>0, <1>1 DEF FallbackType, RedisTypeOK, RetriesLeft, Turns
<1>2. ASSUME NEW p \in Process, NEW i \in Index, NEW v \in Version, Choose(p, i, v)
      PROVE  FallbackType'
  BY <1>2, ChooseType
<1>3. ASSUME NEW p \in Process, Subscribe(p)
      PROVE  FallbackType'
  <2>1. UNCHANGED <<vars, healthy, writing, redisVars, redisBufferVars, workerVars, stale,
                    countVars>>
    BY <1>3 DEF Subscribe
  <2>2. position' \in [Process -> Position]
    <3>1. /\ position \in [Process -> Position] /\ checkpoint[p] \in Position
          /\ NoIndex \in Position
      BY <1>0 DEF TypeOK, RedisTypeOK, Position
    <3>2. QED
      BY <1>3, <3>1 DEF Subscribe
  <2>3. TypeOK'
    BY <1>0, <2>1 DEF TypeOK, vars, bufferVars, storeVars, localVars, historyVars
  <2>4. QED
    BY <1>0, <2>1, <2>2, <2>3 DEF FallbackType, RedisTypeOK, RetriesLeft, Turns, redisVars,
                                  redisBufferVars, workerVars, countVars
<1>4. ASSUME NEW p \in Process, WriteStep(p)
      PROVE  FallbackType'
  BY <1>4, WriteType
<1>5. ASSUME NEW w \in Worker, FlushLoop(w)
      PROVE  FallbackType'
  <2>1. active \in SUBSET Process
    BY <1>0 DEF RedisTypeOK
  <2>2. QED
    BY <1>5, <2>1, WorkType DEF FlushLoop
<1>6. ASSUME NEW w \in Worker, NEW p \in Process, FlushEarly(w, p)
      PROVE  FallbackType'
  <2>1. {p} \in SUBSET Process
    OBVIOUS
  <2>2. QED
    BY <1>6, <2>1, WorkType DEF FlushEarly
<1>7. ASSUME NEW w \in Worker, NEW p \in Process, WorkStep(w, p)
      PROVE  FallbackType'
  BY <1>7, WorkerType
<1>8. CASE MemoryStep
  <2>1. TypeOK'
    BY <1>0, <1>8, MemorySteps, NextType
  <2>2. QED
    BY <1>0, <1>1, <1>8, <2>1 DEF MemoryStep, readerVars, redisVars, redisBufferVars, workerVars,
                            countVars, RedisTypeOK
<1>9. CASE BecomesUnhealthy
  <2>1. TypeOK'
    BY <1>0, <1>9 DEF BecomesUnhealthy, TypeOK, vars, bufferVars, storeVars, localVars, historyVars
  <2>2. switches' \in 0 .. MaxSwitches
    BY <1>0, <1>9, WorkerAssumption DEF BecomesUnhealthy, RedisTypeOK
  <2>3. QED
    BY <1>1, <1>9, <2>1, <2>2 DEF BecomesUnhealthy, readerVars, redisVars, redisBufferVars,
                                  workerVars
<1>10. ASSUME NEW f \in Flusher, BecomesHealthy(f)
       PROVE  FallbackType'
  <2>1. CallFlushAll(f) \/ UNCHANGED vars
    BY <1>10 DEF BecomesHealthy
  <2>2. [Next]_vars
    BY <2>1 DEF Next
  <2>3. TypeOK'
    BY <1>0, <2>2, NextType
  <2>4. QED
    BY <1>0, <1>1, <1>10, <2>3 DEF BecomesHealthy, readerVars, redisVars, redisBufferVars,
                            workerVars, countVars, RedisTypeOK
<1>11. CASE Restart
  <2>1. /\ NoEntries \in [Index -> Slot] /\ NoIndex \in Position
        /\ NoWrite \in [to : {"none", "memory", "queue", "body"}, index : Index, version : Version]
    BY BoundsAssumption DEF NoEntries, Slot, Position, NoWrite, Index, Version
  <2>2. racy' \in [Process -> SUBSET Index]
    BY <1>0, <1>11 DEF Restart, TypeOK
  <2>3. TypeOK'
    BY <1>0, <1>11, <2>1, <2>2 DEF Restart, TypeOK, storeVars
  <2>4. writing' \in [Process -> [to : {"none", "memory", "queue", "body"},
                                index : Index, version : Version]]
    BY <1>11, <2>1, Zenon DEF Restart
  <2>5. position' \in [Process -> Position]
    BY <1>0, <1>11 DEF Restart, TypeOK
  <2>6. /\ wpc' = [w \in Worker |-> "idle"] /\ retryCnt' = [p \in Process |-> 0]
        /\ flushMu' = NoWorker
        /\ members' = [w \in Worker |-> {}] /\ fetched' = [w \in Worker |-> NoEntries]
        /\ wtodo' = [w \in Worker |-> {}]
    BY <1>11 DEF Restart
  <2>7. restarts' \in 0 .. MaxRestarts
    BY <1>0, <1>11, WorkerAssumption DEF Restart, RedisTypeOK
  <2>8. /\ retryCnt' \in [Process -> 0 .. RetryMax]
        /\ wpc' \in [Worker -> {"idle", "ready", "upsert", "remove", "drop", "onFlush"}]
        /\ wtodo' \in [Worker -> SUBSET Process]
        /\ members' \in [Worker -> SUBSET Index]
        /\ fetched' \in [Worker -> [Index -> Slot]]
    BY <2>1, <2>6, WorkerAssumption
  <2>9. RedisTypeOK'
    BY <1>0, <1>11, <2>4, <2>5, <2>6, <2>7, <2>8 DEF Restart, RedisTypeOK, redisVars
  <2>10. RetriesLeft' /\ Turns'
    BY <2>6, WorkerAssumption DEF RetriesLeft, Turns
  <2>11. QED
    BY <2>3, <2>9, <2>10 DEF FallbackType
<1>12. CASE UNCHANGED allVars
  <2>1. TypeOK'
    BY <1>0, <1>12 DEF allVars, TypeOK, vars, bufferVars, storeVars, localVars, historyVars
  <2>2. QED
    BY <1>0, <1>12, <2>1 DEF allVars, FallbackType, RedisTypeOK, RetriesLeft, Turns, readerVars,
            redisVars, redisBufferVars, workerVars, countVars
<1>13. QED
  BY <1>2, <1>3, <1>4, <1>5, <1>6, <1>7, <1>8, <1>9, <1>10, <1>11, <1>12 DEF FallbackNext

\* Every variable of the buffers, of Redis and of the database keeps its type: the
\* count of failures stays at its limit at most, however flushes and restarts meet.
THEOREM FallbackTypeCorrect == FallbackSpec => []FallbackTypeOK
<1>1. FallbackType => FallbackTypeOK
  BY DEF FallbackType, RedisTypeOK, FallbackTypeOK
<1>2. QED
  BY <1>1, FallbackInitType, FallbackNextType, PTL DEF FallbackSpec
-----------------------------------------------------------------------------
(* FallbackBuffer: nothing is lost *)

\* What a flush of the memory is about to write exists.
WritesExist == \A f \in Flusher : pc[f] = "upsert" => \A i \in fresh[f] : batch[f][i] # NoEntry

\* What a flush of Redis has read stays queued until its second script.
Members ==
    \A w \in Worker : wpc[w] \in {"upsert", "remove", "drop"} =>
        /\ members[w] \subseteq queue[on[w]]
        /\ \A i \in Index : i \notin members[w] => fetched[w][i] = NoEntry

\* Redis has no version newer than the last one, and what is on its way to a
\* buffer is not older.
Newest ==
    \A p \in Process :
        /\ \A i \in Index : body[p][i] <= latest[p][i]
        /\ writing[p].to # "none" => writing[p].version >= latest[p][writing[p].index]

\* An entry that must not be lost, and one whose last version is in the table.
Promised(p, i) == latest[p][i] # NoEntry /\ i \notin racy[p] \cup stale[p]
SameStored(p, i) == store[p][i] # NoEntry /\ hash[store[p][i]] = hash[latest[p][i]]

\* A flush of Redis has read the entry and is to remove it from the queue.
Holds(w, p, i) == wpc[w] \in {"upsert", "remove", "drop"} /\ on[w] = p /\ i \in members[w]

\* The memory holds the last version of such an entry, or none; so does the copy
\* of its flush, and once that is past the write the table has it.
MemoryKeeps(p, i) ==
    /\ pending[p][i] \in {NoEntry, latest[p][i]}
    /\ \A f \in Flusher : Flushes(f, p) =>
          /\ batch[f][i] = pending[p][i]
          /\ (/\ batch[f][i] # NoEntry
              /\ pc[f] \in {"onFlush", "finish"} \/ (pc[f] = "upsert" /\ i \notin fresh[f]))
             => SameStored(p, i)

\* Redis queues the last version of such an entry; so does the copy of its flush,
\* and when that comes to remove it the entry is stored, or buried.
RedisKeeps(p, i) ==
    /\ i \in queue[p] => body[p][i] = latest[p][i]
    /\ \A w \in Worker : Holds(w, p, i) =>
          /\ fetched[w][i] = latest[p][i]
          /\ wpc[w] = "remove" => SameStored(p, i)
          /\ wpc[w] = "drop" => <<p, i, latest[p][i]>> \in dead

Kept(p, i) ==
    \/ pending[p][i] = latest[p][i]
    \/ i \in queue[p] /\ body[p][i] = latest[p][i]
    \/ SameStored(p, i)
    \/ <<p, i, latest[p][i]>> \in dead

Keeps(p, i) == Promised(p, i) => MemoryKeeps(p, i) /\ RedisKeeps(p, i) /\ Kept(p, i)
AllKept == \A p \in Process, i \in Index : Keeps(p, i)

KeepInv == FallbackType /\ OneFlushPerProcess /\ WritesExist /\ Members /\ Newest /\ AllKept

\* A step that leaves the memory, and what a flush of it carries, alone.
LEMMA MemoryFrame ==
    ASSUME NEW p \in Process, NEW i \in Index, MemoryKeeps(p, i),
           latest'[p][i] = latest[p][i], pending'[p][i] = pending[p][i],
           SameStored(p, i) => SameStored(p, i)',
           \A f \in Flusher : Flushes(f, p)' => /\ Flushes(f, p) /\ pc'[f] = pc[f]
                                                /\ batch'[f] = batch[f] /\ fresh'[f] = fresh[f]
    PROVE  MemoryKeeps(p, i)'
  BY DEF MemoryKeeps

\* A step that leaves the queue, and what a flush of it carries, alone.
LEMMA RedisFrame ==
    ASSUME NEW p \in Process, NEW i \in Index, RedisKeeps(p, i),
           latest'[p][i] = latest[p][i], body'[p][i] = body[p][i],
           i \in queue'[p] => i \in queue[p],
           SameStored(p, i) => SameStored(p, i)',
           dead \subseteq dead',
           \A w \in Worker : Holds(w, p, i)' => /\ Holds(w, p, i) /\ wpc'[w] = wpc[w]
                                                /\ fetched'[w] = fetched[w]
    PROVE  RedisKeeps(p, i)'
  BY DEF RedisKeeps

\* A step that only stores, buries or queues.
LEMMA KeptFrame ==
    ASSUME NEW p \in Process, NEW i \in Index, Kept(p, i),
           latest'[p][i] = latest[p][i], pending'[p][i] = pending[p][i],
           body'[p][i] = body[p][i],
           i \in queue[p] => i \in queue'[p],
           SameStored(p, i) => SameStored(p, i)',
           dead \subseteq dead'
    PROVE  Kept(p, i)'
  BY DEF Kept

\* A step that leaves an entry alone.
LEMMA EntryFrame ==
    ASSUME NEW p \in Process, NEW i \in Index, Keeps(p, i),
           latest'[p][i] = latest[p][i], pending'[p][i] = pending[p][i],
           store'[p][i] = store[p][i], body'[p][i] = body[p][i], dead \subseteq dead',
           i \in queue'[p] <=> i \in queue[p],
           i \in racy[p] => i \in racy'[p], i \in stale[p] => i \in stale'[p],
           \A f \in Flusher : Flushes(f, p)' => /\ Flushes(f, p) /\ pc'[f] = pc[f]
                                                /\ batch'[f] = batch[f] /\ fresh'[f] = fresh[f],
           \A w \in Worker : Holds(w, p, i)' => /\ Holds(w, p, i) /\ wpc'[w] = wpc[w]
                                                /\ fetched'[w] = fetched[w]
    PROVE  Keeps(p, i)'
<1> SUFFICES ASSUME Promised(p, i)' PROVE MemoryKeeps(p, i)' /\ RedisKeeps(p, i)' /\ Kept(p, i)'
  BY DEF Keeps
<1>1. Promised(p, i)
  BY DEF Promised
<1>2. MemoryKeeps(p, i) /\ RedisKeeps(p, i) /\ Kept(p, i)
  BY <1>1 DEF Keeps
<1>3. SameStored(p, i) => SameStored(p, i)'
  BY DEF SameStored
<1>4. MemoryKeeps(p, i)'
  BY <1>2, <1>3, MemoryFrame
<1>5. RedisKeeps(p, i)'
  BY <1>2, <1>3, RedisFrame
<1>6. Kept(p, i)'
  BY <1>2, <1>3, KeptFrame
<1>7. QED
  BY <1>4, <1>5, <1>6

\* The program, Redis and the database start empty.
LEMMA InitKeep == FallbackInit => KeepInv
<1> SUFFICES ASSUME FallbackInit PROVE KeepInv
  OBVIOUS
<1>1. FallbackType /\ OneFlushPerProcess
  BY FallbackInitType, InitOneFlush DEF FallbackInit
<1>2. WritesExist /\ Members /\ AllKept
  BY DEF FallbackInit, Init, WritesExist, Members, AllKept, Keeps, Promised, NoEntries
<1>3. Newest
  <2>1. \A p \in Process : writing[p].to = "none"
    BY DEF FallbackInit, NoWrite
  <2>2. \A p \in Process, i \in Index : body[p][i] <= latest[p][i]
    BY DEF FallbackInit, Init, NoEntries, NoEntry
  <2>3. QED
    BY <2>1, <2>2 DEF Newest
<1>4. QED
  BY <1>1, <1>2, <1>3 DEF KeepInv

\* A flush of the memory, as an action sees it that does not touch it.
LEMMA MemoryUntouched ==
    ASSUME UNCHANGED <<pc, target, batch, fresh>>
    PROVE  /\ WritesExist => WritesExist'
           /\ \A p \in Process, f \in Flusher :
                 Flushes(f, p)' => /\ Flushes(f, p) /\ pc'[f] = pc[f]
                                   /\ batch'[f] = batch[f] /\ fresh'[f] = fresh[f]
  BY DEF WritesExist, Flushes

\* A flush of Redis, as an action sees it that does not touch it.
LEMMA RedisUntouched ==
    ASSUME UNCHANGED <<wpc, on, members, fetched>>
    PROVE  \A p \in Process, i \in Index, w \in Worker :
              Holds(w, p, i)' => /\ Holds(w, p, i) /\ wpc'[w] = wpc[w]
                                 /\ fetched'[w] = fetched[w]
  BY DEF Holds

\* The write of an entry keeps what its own module cannot see: who flushes the
\* memory, what Redis has queued, and which version is the newest.
LEMMA WriteFacts ==
    ASSUME KeepInv, NEW p \in Process, WriteStep(p)
    PROVE  OneFlushPerProcess' /\ WritesExist' /\ Members' /\ Newest'
<1> DEFINE i == writing[p].index
           v == writing[p].version
<1>0. /\ i \in Index /\ v \in Version /\ TypeOK /\ RedisTypeOK
      /\ OneFlushPerProcess /\ WritesExist /\ Members /\ Newest
  BY WrittenIsOK DEF KeepInv, FallbackType
<1>1. /\ UNCHANGED <<flushing, pc, target, batch, fresh, wpc, on, members, fetched>>
      /\ queue' = queue \/ queue' = [queue EXCEPT ![p] = @ \cup {i}]
      /\ \/ /\ writing' = [writing EXCEPT ![p] = NoWrite]
            /\ latest' = [latest EXCEPT ![p][i] = v]
            /\ body' = body \/ body' = [body EXCEPT ![p][i] = v]
         \/ /\ writing' = [writing EXCEPT ![p].to = "body"]
            /\ UNCHANGED <<latest, body>>
      /\ writing[p].to # "none"
  BY DEF WriteStep, WriteMemory, AddToQueue, WriteRedis, WriteFails, SetBody, Enqueue, redisVars,
         workerVars, vars, bufferVars, localVars, historyVars
<1>2. OneFlushPerProcess'
  BY <1>0, <1>1 DEF OneFlushPerProcess, Flushes
<1>3. WritesExist'
  BY <1>0, <1>1, MemoryUntouched
<1>4. Members'
  <2>1. \A q \in Process : queue[q] \subseteq queue'[q]
    <3>1. queue \in [Process -> SUBSET Index]
      BY <1>0 DEF RedisTypeOK
    <3> HIDE DEF i
    <3>2. QED
      BY <1>1, <3>1
  <2>2. \A w \in Worker : on[w] \in Process
    BY <1>0 DEF RedisTypeOK
  <2>3. QED
    BY <1>0, <1>1, <2>1, <2>2 DEF Members
<1>5. \A q \in Process : q # p => writing'[q] = writing[q]
  <2>1. writing \in [Process -> [to : {"none", "memory", "queue", "body"},
                                index : Index, version : Version]]
    BY <1>0 DEF RedisTypeOK
  <2>2. QED
    BY <1>1, <2>1
<1>6. \A q \in Process, j \in Index :
        /\ body[q][j] \in Int /\ latest[q][j] \in Int /\ v \in Int
        /\ body[q][j] <= latest[q][j]
  BY <1>0, BoundsAssumption DEF TypeOK, RedisTypeOK, Slot, Version, NoEntry, Newest
<1>7. v >= latest[p][i]
  BY <1>0, <1>1 DEF Newest
<1>8. CASE /\ writing' = [writing EXCEPT ![p] = NoWrite]
           /\ latest' = [latest EXCEPT ![p][i] = v]
           /\ body' = body \/ body' = [body EXCEPT ![p][i] = v]
  <2> HIDE DEF i, v
  <2>1. \A q \in Process, j \in Index :
          latest'[q][j] = IF q = p /\ j = i THEN v ELSE latest[q][j]
    BY <1>0, <1>8 DEF TypeOK
  <2>2. \A q \in Process, j \in Index :
          body'[q][j] = body[q][j] \/ (q = p /\ j = i /\ body'[q][j] = v)
    BY <1>0, <1>8 DEF RedisTypeOK
  <2>3. \A q \in Process, j \in Index : body'[q][j] <= latest'[q][j]
    BY <1>6, <1>7, <2>1, <2>2, <1>0
  <2>4. writing'[p].to = "none"
    BY <1>0, <1>8 DEF RedisTypeOK, NoWrite
  <2>5. ASSUME NEW q \in Process, writing'[q].to # "none"
        PROVE  writing'[q].version >= latest'[q][writing'[q].index]
    <3>1. q # p /\ writing'[q] = writing[q]
      BY <1>5, <2>4, <2>5
    <3>2. writing[q].index \in Index
      BY <1>0, WrittenIsOK DEF KeepInv
    <3>3. QED
      BY <1>0, <2>1, <2>5, <3>1, <3>2 DEF Newest
  <2>6. QED
    BY <1>2, <1>3, <1>4, <2>3, <2>5 DEF Newest
<1>9. CASE writing' = [writing EXCEPT ![p].to = "body"] /\ UNCHANGED <<latest, body>>
  <2>1. writing'[p].index = i /\ writing'[p].version = v
    BY <1>0, <1>9 DEF RedisTypeOK
  <2>2. \A q \in Process : writing'[q].to # "none" =>
          writing'[q].version >= latest'[q][writing'[q].index]
    BY <1>0, <1>5, <1>7, <1>9, <2>1 DEF Newest
  <2>3. QED
    BY <1>0, <1>2, <1>3, <1>4, <1>9, <2>2 DEF Newest
<1>10. QED
  BY <1>1, <1>8, <1>9

\* An entry written to the memory: it is promised when Redis has no older version
\* of it and no flush of the memory is under way.
LEMMA WriteMemoryKeeps ==
    ASSUME KeepInv, NEW p \in Process, WriteMemory(p)
    PROVE  AllKept'
<1>0. TypeOK /\ RedisTypeOK /\ OneFlushPerProcess /\ Members /\ AllKept
  BY DEF KeepInv, FallbackType
<1>a. PICK i \in Index, v \in Version : i = writing[p].index /\ v = writing[p].version
  BY WrittenIsOK DEF KeepInv
<1>1. /\ pending' = [pending EXCEPT ![p][i] = v]
      /\ latest' = [latest EXCEPT ![p][i] = v]
      /\ racy' = [racy EXCEPT ![p] = IF flushing[p] THEN @ \cup {i} ELSE @ \ {i}]
      /\ stale' = [stale EXCEPT ![p] = IF InRedis(p, i) THEN @ \cup {i} ELSE @ \ {i}]
      /\ UNCHANGED <<store, queue, body, dead, pc, target, batch, fresh>>
      /\ UNCHANGED <<wpc, on, members, fetched>>
  BY <1>a DEF WriteMemory, Enqueue, storeVars, localVars, redisVars, redisBufferVars, workerVars
<1> SUFFICES ASSUME NEW q \in Process, NEW j \in Index PROVE Keeps(q, j)'
  BY DEF AllKept
<1>2. Keeps(q, j)
  BY <1>0 DEF AllKept
<1>3. /\ \A f \in Flusher :
           Flushes(f, q)' => /\ Flushes(f, q) /\ pc'[f] = pc[f]
                             /\ batch'[f] = batch[f] /\ fresh'[f] = fresh[f]
      /\ \A w \in Worker : Holds(w, q, j)' => /\ Holds(w, q, j) /\ wpc'[w] = wpc[w]
                                              /\ fetched'[w] = fetched[w]
  BY <1>1, MemoryUntouched, RedisUntouched
<1>4. CASE q # p \/ j # i
  <2>1. latest'[q][j] = latest[q][j] /\ pending'[q][j] = pending[q][j]
    BY <1>0, <1>1, <1>4 DEF TypeOK
  <2>2. (j \in racy'[q] <=> j \in racy[q]) /\ (j \in stale'[q] <=> j \in stale[q])
    BY <1>0, <1>1, <1>4 DEF TypeOK, RedisTypeOK
  <2>3. QED
    BY <1>1, <1>2, <1>3, <2>1, <2>2, EntryFrame
<1>5. CASE q = p /\ j = i
  <2> SUFFICES ASSUME Promised(p, i)'
               PROVE  MemoryKeeps(p, i)' /\ RedisKeeps(p, i)' /\ Kept(p, i)'
    BY <1>5 DEF Keeps
  <2>1. latest'[p][i] = v /\ pending'[p][i] = v
    BY <1>0, <1>1 DEF TypeOK
  <2>2. ~flushing[p] /\ ~InRedis(p, i)
    BY <1>0, <1>1 DEF Promised, TypeOK, RedisTypeOK
  <2>3. \A f \in Flusher : ~Flushes(f, p)'
    BY <1>0, <1>3, <1>5, <2>2 DEF OneFlushPerProcess
  <2>4. i \notin queue[p]
    BY <2>2 DEF InRedis
  <2>5. \A w \in Worker : ~Holds(w, p, i)'
    BY <1>0, <1>3, <1>5, <2>4 DEF Holds, Members
  <2>6. QED
    BY <1>1, <2>1, <2>3, <2>4, <2>5 DEF MemoryKeeps, RedisKeeps, Kept
<1>6. QED
  BY <1>4, <1>5

\* ZADD queues what the hash has: that is the last version, or no promise is made.
LEMMA AddToQueueKeeps ==
    ASSUME KeepInv, NEW p \in Process, AddToQueue(p)
    PROVE  AllKept'
<1>0. TypeOK /\ RedisTypeOK /\ Newest /\ AllKept
  BY DEF KeepInv, FallbackType
<1>a. PICK i \in Index : i = writing[p].index
  BY WrittenIsOK DEF KeepInv
<1>1. /\ queue' = [queue EXCEPT ![p] = @ \cup {i}]
      /\ stale' = [stale EXCEPT ![p] = IF body[p][i] < latest[p][i] THEN @ \cup {i} ELSE @]
      /\ UNCHANGED <<latest, racy, pending, store, body, dead, pc, target, batch, fresh>>
      /\ UNCHANGED <<wpc, on, members, fetched>>
  BY <1>a DEF AddToQueue, vars, bufferVars, storeVars, localVars, historyVars,
         redisBufferVars, workerVars
<1> SUFFICES ASSUME NEW q \in Process, NEW j \in Index PROVE Keeps(q, j)'
  BY DEF AllKept
<1>2. Keeps(q, j)
  BY <1>0 DEF AllKept
<1>3. /\ \A f \in Flusher :
           Flushes(f, q)' => /\ Flushes(f, q) /\ pc'[f] = pc[f]
                             /\ batch'[f] = batch[f] /\ fresh'[f] = fresh[f]
      /\ \A w \in Worker : Holds(w, q, j)' => /\ Holds(w, q, j) /\ wpc'[w] = wpc[w]
                                              /\ fetched'[w] = fetched[w]
  BY <1>1, MemoryUntouched, RedisUntouched
<1>4. j \in stale[q] => j \in stale'[q]
  BY <1>0, <1>1 DEF RedisTypeOK
<1>5. CASE q # p \/ j # i
  <2>1. j \in queue'[q] <=> j \in queue[q]
    BY <1>0, <1>1, <1>5 DEF RedisTypeOK
  <2>2. QED
    BY <1>1, <1>2, <1>3, <1>4, <2>1, EntryFrame
<1>6. CASE q = p /\ j = i
  <2> SUFFICES ASSUME Promised(p, i)'
               PROVE  MemoryKeeps(p, i)' /\ RedisKeeps(p, i)' /\ Kept(p, i)'
    BY <1>6 DEF Keeps
  <2>1. Promised(p, i)
    BY <1>1, <1>4, <1>6 DEF Promised
  <2>2. MemoryKeeps(p, i) /\ RedisKeeps(p, i) /\ Kept(p, i)
    BY <1>2, <1>6, <2>1 DEF Keeps
  <2>3. i \in queue'[p]
    BY <1>0, <1>1 DEF RedisTypeOK
  <2>4. body[p][i] = latest[p][i]
    <3>1. ~ (body[p][i] < latest[p][i])
      BY <1>0, <1>1 DEF Promised, RedisTypeOK
    <3>2. body[p][i] <= latest[p][i] /\ body[p][i] \in Int /\ latest[p][i] \in Int
      BY <1>0, BoundsAssumption DEF TypeOK, RedisTypeOK, Slot, Version, NoEntry, Newest
    <3>3. QED
      BY <3>1, <3>2
  <2>5. SameStored(p, i) => SameStored(p, i)'
    BY <1>1 DEF SameStored
  <2>6. MemoryKeeps(p, i)'
    BY <1>1, <1>3, <1>6, <2>2, <2>5, MemoryFrame
  <2>7. RedisKeeps(p, i)'
    BY <1>1, <1>3, <1>6, <2>2, <2>4, <2>5 DEF RedisKeeps
  <2>8. Kept(p, i)'
    BY <1>1, <2>3, <2>4 DEF Kept
  <2>9. QED
    BY <2>6, <2>7, <2>8
<1>7. QED
  BY <1>5, <1>6

\* HSET at the end of a pipeline that succeeds: it is promised when the memory has
\* no older version of it, and no flush that has read the queue will remove it.
LEMMA WriteRedisKeeps ==
    ASSUME KeepInv, NEW p \in Process, WriteRedis(p)
    PROVE  AllKept'
<1>0. TypeOK /\ RedisTypeOK /\ AllKept
  BY DEF KeepInv, FallbackType
<1>a. PICK i \in Index, v \in Version : i = writing[p].index /\ v = writing[p].version
  BY WrittenIsOK DEF KeepInv
<1>1. /\ body' = [body EXCEPT ![p][i] = v]
      /\ latest' = [latest EXCEPT ![p][i] = v]
      /\ racy' = [racy EXCEPT ![p] = @ \ {i}]
      /\ stale' = [stale EXCEPT ![p] =
                     IF InMemory(p, i) \/ Doomed(p, i) \/ i \notin queue[p]
                       THEN @ \cup {i} ELSE @ \ {i}]
      /\ UNCHANGED <<pending, store, queue, dead, pc, target, batch, fresh>>
      /\ UNCHANGED <<wpc, on, members, fetched>>
  BY <1>a DEF WriteRedis, SetBody, bufferVars, storeVars, localVars, workerVars
<1> SUFFICES ASSUME NEW q \in Process, NEW j \in Index PROVE Keeps(q, j)'
  BY DEF AllKept
<1>2. Keeps(q, j)
  BY <1>0 DEF AllKept
<1>3. /\ \A f \in Flusher :
           Flushes(f, q)' => /\ Flushes(f, q) /\ pc'[f] = pc[f]
                             /\ batch'[f] = batch[f] /\ fresh'[f] = fresh[f]
      /\ \A w \in Worker : Holds(w, q, j)' => /\ Holds(w, q, j) /\ wpc'[w] = wpc[w]
                                              /\ fetched'[w] = fetched[w]
  BY <1>1, MemoryUntouched, RedisUntouched
<1>4. CASE q # p \/ j # i
  <2>1. latest'[q][j] = latest[q][j] /\ body'[q][j] = body[q][j]
    BY <1>0, <1>1, <1>4 DEF TypeOK, RedisTypeOK
  <2>2. (j \in racy'[q] <=> j \in racy[q]) /\ (j \in stale'[q] <=> j \in stale[q])
    BY <1>0, <1>1, <1>4 DEF TypeOK, RedisTypeOK
  <2>3. QED
    BY <1>1, <1>2, <1>3, <2>1, <2>2, EntryFrame
<1>5. CASE q = p /\ j = i
  <2> SUFFICES ASSUME Promised(p, i)'
               PROVE  MemoryKeeps(p, i)' /\ RedisKeeps(p, i)' /\ Kept(p, i)'
    BY <1>5 DEF Keeps
  <2>1. latest'[p][i] = v /\ body'[p][i] = v
    BY <1>0, <1>1 DEF TypeOK, RedisTypeOK
  <2>2. ~InMemory(p, i) /\ ~Doomed(p, i) /\ i \in queue[p]
    BY <1>0, <1>1 DEF Promised, RedisTypeOK
  <2>3. pending'[p][i] = NoEntry /\ \A f \in Flusher : Flushes(f, p)' => batch'[f][i] = NoEntry
    BY <1>1, <1>3, <1>5, <2>2 DEF InMemory
  <2>4. \A w \in Worker : ~Holds(w, p, i)'
    BY <1>3, <1>5, <2>2 DEF Holds, Doomed
  <2>5. MemoryKeeps(p, i)'
    BY <2>3 DEF MemoryKeeps
  <2>6. QED
    BY <1>1, <2>1, <2>2, <2>4, <2>5 DEF RedisKeeps, Kept
<1>6. QED
  BY <1>4, <1>5

\* A pipeline that fails makes no promise.
LEMMA WriteFailsKeeps ==
    ASSUME KeepInv, NEW p \in Process, WriteFails(p)
    PROVE  AllKept'
<1>0. TypeOK /\ RedisTypeOK /\ AllKept
  BY DEF KeepInv, FallbackType
<1>a. PICK i \in Index, v \in Version : i = writing[p].index /\ v = writing[p].version
  BY WrittenIsOK DEF KeepInv
<1>1. /\ body' = body \/ body' = [body EXCEPT ![p][i] = v]
      /\ latest' = [latest EXCEPT ![p][i] = v]
      /\ racy' = racy \/ racy' = [racy EXCEPT ![p] = @ \ {i}]
      /\ stale' = [stale EXCEPT ![p] = @ \cup {i}]
      /\ UNCHANGED <<pending, store, queue, dead, pc, target, batch, fresh>>
      /\ UNCHANGED <<wpc, on, members, fetched>>
  BY <1>a DEF WriteFails, SetBody, bufferVars, storeVars, localVars, workerVars
<1> SUFFICES ASSUME NEW q \in Process, NEW j \in Index PROVE Keeps(q, j)'
  BY DEF AllKept
<1>2. Keeps(q, j)
  BY <1>0 DEF AllKept
<1>3. CASE q # p \/ j # i
  <2>1. latest'[q][j] = latest[q][j] /\ body'[q][j] = body[q][j]
    BY <1>0, <1>1, <1>3 DEF TypeOK, RedisTypeOK
  <2>2. (j \in racy'[q] <=> j \in racy[q]) /\ (j \in stale'[q] <=> j \in stale[q])
    BY <1>0, <1>1, <1>3 DEF TypeOK, RedisTypeOK
  <2>3. /\ \A f \in Flusher :
             Flushes(f, q)' => /\ Flushes(f, q) /\ pc'[f] = pc[f]
                               /\ batch'[f] = batch[f] /\ fresh'[f] = fresh[f]
        /\ \A w \in Worker : Holds(w, q, j)' => /\ Holds(w, q, j) /\ wpc'[w] = wpc[w]
                                                /\ fetched'[w] = fetched[w]
    BY <1>1, MemoryUntouched, RedisUntouched
  <2>4. QED
    BY <1>1, <1>2, <2>1, <2>2, <2>3, EntryFrame
<1>4. CASE q = p /\ j = i
  <2>1. i \in stale'[p]
    BY <1>0, <1>1 DEF RedisTypeOK
  <2>2. QED
    BY <1>4, <2>1 DEF Keeps, Promised
<1>5. QED
  BY <1>3, <1>4

\* What a step of a worker leaves alone.
LEMMA WorkerFrame ==
    ASSUME RedisTypeOK, NEW w \in Worker, NEW p \in Process, WorkStep(w, p)
    PROVE  /\ UNCHANGED <<bufferVars, localVars, historyVars, writing, body>>
           /\ \A u \in Worker : u # w => /\ wpc'[u] = wpc[u] /\ on'[u] = on[u]
                                         /\ members'[u] = members[u] /\ fetched'[u] = fetched[u]
           /\ Remove(w, p) \/ UNCHANGED queue
           /\ dead \subseteq dead'
           /\ \A q \in Process : stale[q] \subseteq stale'[q]
           /\ wpc[w] # "ready" => on[w] = p
<1>1. CASE Fetch(w, p)
  <2>1. CASE Leave(w, p, TRUE) /\ UNCHANGED on
    BY <1>1, <2>1, LeaveType DEF Fetch, vars, readerVars, redisVars
  <2>2. CASE /\ wpc' = [wpc EXCEPT ![w] = "upsert"]
             /\ on' = [on EXCEPT ![w] = p]
             /\ members' = [members EXCEPT ![w] = queue[p]]
             /\ fetched' = [fetched EXCEPT ![w] =
                  [i \in Index |-> IF i \in queue[p] THEN body[p][i] ELSE NoEntry]]
    BY <1>1, <2>2 DEF Fetch, vars, readerVars, redisVars, RedisTypeOK
  <2>3. QED
    BY <1>1, <2>1, <2>2 DEF Fetch
<1>2. CASE FetchFails(w, p)
  BY <1>2, LeaveType DEF FetchFails, NothingElse, vars, readerVars, redisVars, redisBufferVars
<1>3. CASE Upsert(w, p)
  BY <1>3 DEF Upsert, vars, readerVars, redisVars, redisBufferVars, RedisTypeOK
<1>4. CASE UpsertFails(w, p)
  <2>1. /\ UNCHANGED <<bufferVars, localVars, historyVars, writing, body, queue, on>>
        /\ on[w] = p
        /\ dead' = dead \/ dead' = dead \cup Buried(p, fetched[w])
        /\ stale' = stale \/ stale' = [stale EXCEPT ![p] = @ \cup Held(fetched[w])]
    BY <1>4 DEF UpsertFails, readerVars, redisVars
  <2>2. \A q \in Process : stale[q] \subseteq stale'[q]
    <3>1. stale \in [Process -> SUBSET Index]
      BY DEF RedisTypeOK
    <3>2. CASE stale' = [stale EXCEPT ![p] = @ \cup Held(fetched[w])]
      BY <3>1, <3>2
    <3>3. QED
      BY <2>1, <3>2
  <2>3. \A u \in Worker : u # w => /\ wpc'[u] = wpc[u] /\ members'[u] = members[u]
                                   /\ fetched'[u] = fetched[u]
    <3>1. CASE Leave(w, p, FALSE)
      BY <3>1, LeaveType
    <3>2. CASE wpc' = [wpc EXCEPT ![w] = "drop"] /\ UNCHANGED <<members, fetched>>
      BY <3>2 DEF RedisTypeOK
    <3>3. QED
      BY <1>4, <3>1, <3>2 DEF UpsertFails
  <2>4. QED
    BY <2>1, <2>2, <2>3
<1>5. CASE Remove(w, p) \/ RemoveFails(w, p)
  <2>1. /\ UNCHANGED <<bufferVars, localVars, historyVars, writing, body, on, dead, stale>>
        /\ on[w] = p
        /\ Remove(w, p) \/ UNCHANGED queue
    BY <1>5 DEF Remove, RemoveFails, AfterRemove, vars, readerVars
  <2>2. \A u \in Worker : u # w => /\ wpc'[u] = wpc[u] /\ members'[u] = members[u]
                                   /\ fetched'[u] = fetched[u]
    <3>1. CASE Leave(w, p, FALSE)
      BY <3>1, LeaveType
    <3>2. CASE wpc' = [wpc EXCEPT ![w] = "onFlush"] /\ UNCHANGED <<members, fetched>>
      BY <3>2 DEF RedisTypeOK
    <3>3. QED
      BY <1>5, <3>1, <3>2 DEF Remove, RemoveFails, AfterRemove
  <2>3. QED
    BY <2>1, <2>2
<1>6. CASE CallOnFlush(w, p)
  BY <1>6, LeaveType DEF CallOnFlush, readerVars, redisVars
<1>7. QED
  BY <1>1, <1>2, <1>3, <1>4, <1>5, <1>6 DEF WorkStep

\* What a worker does with what it has read, and what no other worker then has.
LEMMA WorkerFacts ==
    ASSUME KeepInv, NEW w \in Worker, NEW p \in Process, WorkStep(w, p)
    PROVE  OneFlushPerProcess' /\ WritesExist' /\ Members' /\ Newest'
<1>0. /\ TypeOK /\ RedisTypeOK /\ Turns /\ OneFlushPerProcess /\ WritesExist /\ Members
      /\ Newest
  BY DEF KeepInv, FallbackType
<1>1. /\ UNCHANGED <<bufferVars, localVars, historyVars, writing, body>>
      /\ \A u \in Worker : u # w => /\ wpc'[u] = wpc[u] /\ on'[u] = on[u]
                                    /\ members'[u] = members[u] /\ fetched'[u] = fetched[u]
      /\ Remove(w, p) \/ UNCHANGED queue
  BY <1>0, WorkerFrame
<1>2. OneFlushPerProcess' /\ WritesExist' /\ Newest'
  BY <1>0, <1>1 DEF bufferVars, localVars, historyVars, OneFlushPerProcess, Flushes, WritesExist,
                    Newest
<1>3. Members'
  <2> SUFFICES ASSUME NEW u \in Worker, wpc'[u] \in {"upsert", "remove", "drop"}
               PROVE  /\ members'[u] \subseteq queue'[on'[u]]
                      /\ \A i \in Index : i \notin members'[u] => fetched'[u][i] = NoEntry
    BY DEF Members
  <2>1. CASE u # w
    <3>1. wpc[u] \in {"upsert", "remove", "drop"} /\ flushMu = u
      BY <1>0, <1>1, <2>1 DEF Turns
    <3>2. wpc[w] \notin {"remove", "drop"}
      BY <1>0, <2>1, <3>1 DEF Turns
    <3>3. UNCHANGED queue
      BY <1>1, <3>2 DEF Remove, AfterRemove
    <3>4. QED
      BY <1>0, <1>1, <2>1, <3>1, <3>3 DEF Members
  <2>2. CASE u = w
    <3>1. CASE Fetch(w, p)
      <4>1. CASE Leave(w, p, TRUE)
        BY <1>0, <2>2, <4>1, LeaveType
      <4>2. CASE /\ on' = [on EXCEPT ![w] = p]
                 /\ members' = [members EXCEPT ![w] = queue[p]]
                 /\ fetched' = [fetched EXCEPT ![w] =
                      [i \in Index |-> IF i \in queue[p] THEN body[p][i] ELSE NoEntry]]
        <5>1. /\ on'[w] = p /\ members'[w] = queue[p]
              /\ fetched'[w] = [i \in Index |-> IF i \in queue[p] THEN body[p][i] ELSE NoEntry]
          BY <1>0, <4>2 DEF RedisTypeOK
        <5>2. UNCHANGED queue
          BY <3>1 DEF Fetch, redisVars
        <5>3. QED
          BY <2>2, <5>1, <5>2
      <4>3. QED
        BY <3>1, <4>1, <4>2 DEF Fetch
    <3>2. CASE FetchFails(w, p) \/ CallOnFlush(w, p)
      BY <1>0, <2>2, <3>2, LeaveType DEF FetchFails, CallOnFlush
    <3>3. CASE Upsert(w, p)
      <4>1. UNCHANGED <<queue, on, members, fetched>> /\ wpc[w] = "upsert"
        BY <3>3 DEF Upsert, redisVars
      <4>2. QED
        BY <1>0, <2>2, <4>1 DEF Members
    <3>4. CASE UpsertFails(w, p)
      <4>1. CASE Leave(w, p, FALSE)
        BY <1>0, <2>2, <4>1, LeaveType
      <4>2. CASE UNCHANGED <<members, fetched>>
        <5>1. UNCHANGED <<queue, on, members, fetched>> /\ wpc[w] = "upsert"
          BY <3>4, <4>2 DEF UpsertFails, redisVars
        <5>2. QED
          BY <1>0, <2>2, <5>1 DEF Members
      <4>3. QED
        BY <3>4, <4>1, <4>2 DEF UpsertFails
    <3>5. CASE Remove(w, p) \/ RemoveFails(w, p)
      <4>1. CASE Leave(w, p, FALSE)
        BY <1>0, <2>2, <4>1, LeaveType
      <4>2. CASE wpc' = [wpc EXCEPT ![w] = "onFlush"]
        BY <1>0, <2>2, <4>2 DEF RedisTypeOK
      <4>3. QED
        BY <3>5, <4>1, <4>2 DEF Remove, RemoveFails, AfterRemove
    <3>6. QED
      BY <3>1, <3>2, <3>3, <3>4, <3>5 DEF WorkStep
  <2>3. QED
    BY <2>1, <2>2
<1>4. QED
  BY <1>2, <1>3

\* The table after a flush of Redis wrote it, seen by an entry of a promise.
LEMMA OverStores ==
    ASSUME KeepInv, NEW w \in Worker, NEW p \in Process, wpc[w] = "upsert", on[w] = p,
           store' = Over(p, fetched[w]), UNCHANGED latest,
           NEW q \in Process, NEW j \in Index, Promised(q, j), RedisKeeps(q, j)
    PROVE  /\ SameStored(q, j) => SameStored(q, j)'
           /\ Holds(w, q, j) => SameStored(q, j)'
<1>0. TypeOK /\ RedisTypeOK /\ Members
  BY DEF KeepInv, FallbackType
<1>1. store' = [store EXCEPT ![p] =
                  [i \in Index |-> IF fetched[w][i] # NoEntry THEN fetched[w][i] ELSE store[p][i]]]
  BY DEF Over
<1>2. CASE Holds(w, q, j)
  <2>1. q = p /\ fetched[w][j] = latest[q][j] /\ latest[q][j] # NoEntry
    BY <1>2 DEF Holds, RedisKeeps, Promised
  <2>2. store'[q][j] = latest[q][j]
    BY <1>0, <1>1, <2>1 DEF TypeOK
  <2>3. QED
    BY <2>1, <2>2 DEF SameStored
<1>3. CASE ~Holds(w, q, j)
  <2>1. q # p \/ fetched[w][j] = NoEntry
    BY <1>0, <1>3 DEF Holds, Members
  <2>2. store'[q][j] = store[q][j]
    BY <1>0, <1>1, <2>1 DEF TypeOK
  <2>3. QED
    BY <1>3, <2>2 DEF SameStored
<1>4. QED
  BY <1>2, <1>3

\* The steps of a worker keep every promise: it writes what it has read before it
\* removes that from the queue, or buries it, or breaks the promise in the open.
LEMMA WorkerKeeps ==
    ASSUME KeepInv, NEW w \in Worker, NEW p \in Process, WorkStep(w, p)
    PROVE  AllKept'
<1>0. TypeOK /\ RedisTypeOK /\ Turns /\ Members /\ AllKept
  BY DEF KeepInv, FallbackType
<1>1. /\ UNCHANGED <<bufferVars, localVars, historyVars, writing, body>>
      /\ \A u \in Worker : u # w => /\ wpc'[u] = wpc[u] /\ on'[u] = on[u]
                                    /\ members'[u] = members[u] /\ fetched'[u] = fetched[u]
      /\ Remove(w, p) \/ UNCHANGED queue
      /\ dead \subseteq dead'
      /\ \A q \in Process : stale[q] \subseteq stale'[q]
      /\ wpc[w] # "ready" => on[w] = p
  BY <1>0, WorkerFrame
<1>2. /\ UNCHANGED <<latest, pending, racy, body>>
      /\ \A q \in Process, f \in Flusher :
           Flushes(f, q)' => /\ Flushes(f, q) /\ pc'[f] = pc[f]
                             /\ batch'[f] = batch[f] /\ fresh'[f] = fresh[f]
  BY <1>1, MemoryUntouched DEF bufferVars, localVars, historyVars
<1> SUFFICES ASSUME NEW q \in Process, NEW j \in Index, Promised(q, j)'
             PROVE  MemoryKeeps(q, j)' /\ RedisKeeps(q, j)' /\ Kept(q, j)'
  BY DEF AllKept, Keeps
<1>3. Promised(q, j)
  BY <1>1, <1>2 DEF Promised
<1>4. MemoryKeeps(q, j) /\ RedisKeeps(q, j) /\ Kept(q, j)
  BY <1>0, <1>3 DEF AllKept, Keeps
<1>5. \A u \in Worker : u # w => (Holds(u, q, j)' => /\ Holds(u, q, j) /\ wpc'[u] = wpc[u]
                                                     /\ fetched'[u] = fetched[u])
  BY <1>1 DEF Holds
<1>6. SameStored(q, j) => SameStored(q, j)'
  <2>1. CASE store' = store
    BY <1>2, <2>1 DEF SameStored
  <2>2. CASE wpc[w] = "upsert" /\ on[w] = p /\ store' = Over(p, fetched[w])
    BY <1>2, <1>3, <1>4, <2>2, OverStores
  <2>3. QED
    BY <2>1, <2>2 DEF WorkStep, Fetch, FetchFails, NothingElse, Upsert, UpsertFails, Remove,
                      RemoveFails, AfterRemove, CallOnFlush, vars, storeVars
<1>7. MemoryKeeps(q, j)'
  BY <1>2, <1>4, <1>6, MemoryFrame
<1>8. ASSUME Remove(w, p), j \in queue[q], j \notin queue'[q]
      PROVE  SameStored(q, j) \/ <<q, j, latest[q][j]>> \in dead
  <2>1. queue' = [queue EXCEPT ![p] = queue[p] \ members[w]] /\ wpc[w] \in {"remove", "drop"}
        /\ on[w] = p
    BY <1>8 DEF Remove, AfterRemove, Removed
  <2>2. q = p /\ j \in members[w]
    BY <1>0, <1>8, <2>1 DEF RedisTypeOK
  <2>3. Holds(w, q, j)
    BY <2>1, <2>2 DEF Holds
  <2>4. QED
    BY <1>4, <2>1, <2>3 DEF RedisKeeps
<1>9. Kept(q, j)'
  <2>1. CASE SameStored(q, j) \/ <<q, j, latest[q][j]>> \in dead
    BY <1>1, <1>2, <1>6, <2>1 DEF Kept
  <2>2. CASE ~(SameStored(q, j) \/ <<q, j, latest[q][j]>> \in dead)
    <3>1. j \in queue[q] => j \in queue'[q]
      BY <1>1, <1>8, <2>2
    <3>2. QED
      BY <1>1, <1>2, <1>4, <1>6, <3>1, KeptFrame
  <2>3. QED
    BY <2>1, <2>2
<1>10. j \in queue'[q] => body'[q][j] = latest'[q][j]
  <2>1. j \in queue'[q] => j \in queue[q]
    <3>1. CASE queue' = [queue EXCEPT ![p] = queue[p] \ members[w]]
      BY <1>0, <3>1 DEF RedisTypeOK
    <3>2. QED
      BY <1>1, <3>1 DEF Remove, Removed
  <2>2. QED
    BY <1>2, <1>4, <2>1 DEF RedisKeeps
<1>11. ASSUME NEW u \in Worker, u # w, Holds(u, q, j)'
       PROVE  /\ fetched'[u][j] = latest'[q][j]
              /\ wpc'[u] = "remove" => SameStored(q, j)'
              /\ wpc'[u] = "drop" => <<q, j, latest'[q][j]>> \in dead'
  BY <1>1, <1>2, <1>4, <1>5, <1>6, <1>11 DEF RedisKeeps
<1>12. ASSUME Holds(w, q, j)'
       PROVE  /\ fetched'[w][j] = latest'[q][j]
              /\ wpc'[w] = "remove" => SameStored(q, j)'
              /\ wpc'[w] = "drop" => <<q, j, latest'[q][j]>> \in dead'
  <2>1. wpc'[w] \notin {"idle", "ready", "onFlush"}
    BY <1>12 DEF Holds
  <2>2. ~Leave(w, p, TRUE) /\ ~Leave(w, p, FALSE)
    BY <1>0, <2>1, LeaveType
  <2>3. CASE Fetch(w, p)
    <3>1. /\ wpc' = [wpc EXCEPT ![w] = "upsert"]
          /\ on' = [on EXCEPT ![w] = p]
          /\ members' = [members EXCEPT ![w] = queue[p]]
          /\ fetched' = [fetched EXCEPT ![w] =
               [i \in Index |-> IF i \in queue[p] THEN body[p][i] ELSE NoEntry]]
      BY <2>2, <2>3 DEF Fetch
    <3>2. /\ wpc'[w] = "upsert" /\ on'[w] = p /\ members'[w] = queue[p]
          /\ fetched'[w] = [i \in Index |-> IF i \in queue[p] THEN body[p][i] ELSE NoEntry]
      BY <1>0, <3>1 DEF RedisTypeOK
    <3>3. q = p /\ j \in queue[p]
      BY <1>12, <3>2 DEF Holds
    <3>4. fetched'[w][j] = body[p][j]
      BY <3>2, <3>3
    <3>5. QED
      BY <1>2, <1>4, <3>2, <3>3, <3>4 DEF RedisKeeps
  <2>4. CASE Upsert(w, p)
    <3>1. /\ wpc[w] = "upsert" /\ on[w] = p /\ store' = Over(p, fetched[w])
          /\ wpc' = [wpc EXCEPT ![w] = "remove"] /\ UNCHANGED <<on, members, fetched>>
      BY <2>4 DEF Upsert
    <3>2. Holds(w, q, j) /\ wpc'[w] = "remove"
      BY <1>0, <1>12, <3>1 DEF Holds, RedisTypeOK
    <3>3. SameStored(q, j)'
      BY <1>2, <1>3, <1>4, <3>1, <3>2, OverStores
    <3>4. QED
      BY <1>2, <1>4, <3>1, <3>2, <3>3 DEF RedisKeeps
  <2>5. CASE UpsertFails(w, p)
    <3>1. /\ wpc[w] = "upsert" /\ on[w] = p
          /\ wpc' = [wpc EXCEPT ![w] = "drop"] /\ UNCHANGED <<on, members, fetched>>
          /\ \/ dead' = dead \cup Buried(p, fetched[w])
             \/ stale' = [stale EXCEPT ![p] = @ \cup Held(fetched[w])]
      BY <2>2, <2>5 DEF UpsertFails
    <3>2. Holds(w, q, j) /\ wpc'[w] = "drop" /\ q = p
      BY <1>0, <1>12, <3>1 DEF Holds, RedisTypeOK
    <3>3. fetched[w][j] = latest[q][j] /\ latest[q][j] # NoEntry
      BY <1>3, <1>4, <3>2 DEF RedisKeeps, Promised
    <3>4. j \in Held(fetched[w])
      BY <3>3 DEF Held
    <3>5. j \notin stale'[q]
      BY DEF Promised
    <3>6. dead' = dead \cup Buried(p, fetched[w])
      BY <1>0, <3>1, <3>2, <3>4, <3>5 DEF RedisTypeOK
    <3>7. <<q, j, latest[q][j]>> \in dead'
      BY <3>2, <3>3, <3>4, <3>6 DEF Buried
    <3>8. QED
      BY <1>2, <3>1, <3>2, <3>3, <3>7
  <2>6. CASE FetchFails(w, p) \/ CallOnFlush(w, p) \/ Remove(w, p) \/ RemoveFails(w, p)
    <3>1. wpc' = [wpc EXCEPT ![w] = "onFlush"]
      BY <2>2, <2>6 DEF FetchFails, CallOnFlush, Remove, RemoveFails, AfterRemove
    <3>2. QED
      BY <1>0, <2>1, <3>1 DEF RedisTypeOK
  <2>7. QED
    BY <2>3, <2>4, <2>5, <2>6 DEF WorkStep
<1>13. RedisKeeps(q, j)'
  <2>1. ASSUME NEW u \in Worker, Holds(u, q, j)'
        PROVE  /\ fetched'[u][j] = latest'[q][j]
               /\ wpc'[u] = "remove" => SameStored(q, j)'
               /\ wpc'[u] = "drop" => <<q, j, latest'[q][j]>> \in dead'
    BY <1>11, <1>12, <2>1
  <2>2. QED
    BY <1>10, <2>1 DEF RedisKeeps
<1>14. QED
  BY <1>7, <1>9, <1>13

\* The timers and the other callers of the memory buffer, about to flush it.
LEMMA StartKeeps ==
    ASSUME KeepInv, NEW f \in Flusher, NEW ps, Start(f, ps),
           UNCHANGED <<pending, store, latest, racy, stale, queue, body, dead>>,
           UNCHANGED <<wpc, on, members, fetched>>
    PROVE  WritesExist' /\ AllKept'
<1>0. TypeOK /\ WritesExist /\ AllKept
  BY DEF KeepInv, FallbackType
<1>1. /\ pc[f] = "idle" /\ pc'[f] = "ready"
      /\ \A g \in Flusher : g # f => pc'[g] = pc[g]
      /\ UNCHANGED <<target, batch, fresh>>
  BY <1>0 DEF Start, TypeOK
<1>2. WritesExist'
  BY <1>0, <1>1 DEF WritesExist
<1>3. ASSUME NEW q \in Process, NEW j \in Index PROVE Keeps(q, j)'
  <2>1. \A g \in Flusher :
          Flushes(g, q)' => /\ Flushes(g, q) /\ pc'[g] = pc[g]
                            /\ batch'[g] = batch[g] /\ fresh'[g] = fresh[g]
    BY <1>1 DEF Flushes, InFlight
  <2>2. QED
    BY <1>0, <2>1, RedisUntouched, EntryFrame DEF AllKept
<1>4. QED
  BY <1>2, <1>3 DEF AllKept

\* The steps of FlushProcess leave Redis, and the history, alone.
LEMMA FlushFrame ==
    ASSUME MemoryStep, NEW q \in Process, NEW j \in Index, RedisKeeps(q, j),
           UNCHANGED latest, SameStored(q, j) => SameStored(q, j)'
    PROVE  RedisKeeps(q, j)'
<1>1. UNCHANGED <<body, queue, dead, wpc, on, members, fetched>>
  BY DEF MemoryStep, redisVars, redisBufferVars, workerVars
<1>2. QED
  BY <1>1, RedisUntouched, RedisFrame

\* FlushSkips and FlushBegins: a flush that begins carries what is pending.
LEMMA BeginKeeps ==
    ASSUME KeepInv, MemoryStep, NEW f \in Flusher, NEW p \in Process,
           FlushSkips(f, p) \/ FlushBegins(f, p)
    PROVE  WritesExist' /\ AllKept'
<1>0. TypeOK /\ OneFlushPerProcess /\ WritesExist /\ AllKept
  BY DEF KeepInv, FallbackType
<1>1. /\ UNCHANGED <<pending, store, latest, racy, fresh, stale>>
      /\ UNCHANGED <<queue, body, dead, wpc, on, members, fetched>>
  BY DEF FlushSkips, FlushBegins, bufferVars, storeVars, historyVars, MemoryStep, redisVars,
         redisBufferVars, workerVars
<1>2. /\ \A g \in Flusher : g # f => pc'[g] = pc[g] /\ batch'[g] = batch[g]
      /\ pc'[f] \in {"idle", "ready", "list"}
      /\ FlushBegins(f, p) => batch'[f] = pending[p] /\ pc'[f] = "list"
      /\ FlushSkips(f, p) => pc'[f] # "list"
  BY <1>0 DEF FlushSkips, FlushBegins, Return, TypeOK
<1>3. WritesExist'
  BY <1>0, <1>1, <1>2 DEF WritesExist
<1>4. ASSUME NEW q \in Process, NEW j \in Index, Promised(q, j)'
      PROVE  MemoryKeeps(q, j)' /\ RedisKeeps(q, j)' /\ Kept(q, j)'
  <2>1. MemoryKeeps(q, j) /\ RedisKeeps(q, j) /\ Kept(q, j)
    BY <1>0, <1>1, <1>4 DEF AllKept, Keeps, Promised
  <2>2. SameStored(q, j) => SameStored(q, j)'
    BY <1>1 DEF SameStored
  <2>3. ASSUME NEW g \in Flusher, Flushes(g, q)'
        PROVE  /\ batch'[g][j] = pending'[q][j]
               /\ (/\ batch'[g][j] # NoEntry
                   /\ pc'[g] \in {"onFlush", "finish"} \/ (pc'[g] = "upsert" /\ j \notin fresh'[g]))
                  => SameStored(q, j)'
    <3>1. CASE g # f
      <4>1. Flushes(g, q)
        BY <1>0, <2>3, <3>1, BeginFlushes, SkipFlushes
      <4>2. QED
        BY <1>1, <1>2, <2>1, <2>2, <3>1, <4>1 DEF MemoryKeeps
    <3>2. CASE g = f
      <4>1. FlushBegins(f, p)
        <5>1. ~FlushSkips(f, p)
          BY <1>2, <2>3, <3>2 DEF Flushes, InFlight
        <5>2. QED
          BY <5>1
      <4>2. q = p
        BY <1>0, <2>3, <3>2, <4>1, BeginFlushes
      <4>3. QED
        BY <1>1, <1>2, <3>2, <4>1, <4>2
    <3>3. QED
      BY <3>1, <3>2
  <2>4. MemoryKeeps(q, j)'
    BY <1>1, <2>1, <2>3 DEF MemoryKeeps
  <2>5. RedisKeeps(q, j)'
    BY <1>1, <2>1, <2>2, FlushFrame
  <2>6. Kept(q, j)'
    BY <1>1, <2>1, <2>2, KeptFrame
  <2>7. QED
    BY <2>4, <2>5, <2>6
<1>5. QED
  BY <1>3, <1>4 DEF AllKept, Keeps

\* The calls of the store: the filter leaves out only what the table has, and what
\* it lets through is written.
LEMMA StoreCallKeeps ==
    ASSUME KeepInv, MemoryStep, NEW f \in Flusher, NEW p \in Process,
           ListEntries(f, p) \/ UpsertEntries(f, p) \/ OnFlush(f, p)
    PROVE  WritesExist' /\ AllKept'
<1>0. TypeOK /\ OneFlushPerProcess /\ WritesExist /\ AllKept
  BY DEF KeepInv, FallbackType
<1>1. /\ UNCHANGED <<pending, latest, racy, batch, stale, queue, body, dead>>
      /\ Flushes(f, p)
  BY DEF ListEntries, UpsertEntries, OnFlush, bufferVars, historyVars, MemoryStep, redisVars,
         redisBufferVars, Flushes, InFlight
<1>2. /\ \A g \in Flusher : g # f => pc'[g] = pc[g] /\ fresh'[g] = fresh[g]
      /\ \A g \in Flusher, q \in Process : Flushes(g, q)' => Flushes(g, q)
  BY <1>0, StoreCallFlushes DEF ListEntries, UpsertEntries, OnFlush, TypeOK
<1> DEFINE wanted == {i \in Index : ShouldPersist(store[p][i], batch[f][i])}
<1>3. \/ /\ ListEntries(f, p) /\ UNCHANGED store
         /\ \/ fresh'[f] = wanted /\ pc'[f] = "upsert"
            \/ wanted = {} /\ pc'[f] = "finish"
            \/ pc'[f] = "reset"
      \/ /\ UpsertEntries(f, p) /\ pc[f] = "upsert" /\ fresh'[f] = fresh[f]
         /\ \/ store' = Written(f, p) /\ pc'[f] = "onFlush"
            \/ (store' = store \/ store' = Written(f, p)) /\ pc'[f] = "reset"
      \/ /\ OnFlush(f, p) /\ UNCHANGED store /\ pc[f] = "onFlush"
         /\ pc'[f] \in {"finish", "reset"}
  <2>1. CASE ListEntries(f, p)
    <3>1. wanted \in SUBSET Index
      OBVIOUS
    <3>2. fresh' = [fresh EXCEPT ![f] = wanted] => fresh'[f] = wanted
      BY <1>0, <3>1 DEF TypeOK
    <3>3. \/ /\ fresh' = [fresh EXCEPT ![f] = wanted]
             /\ pc' = [pc EXCEPT ![f] = IF fresh'[f] = {} THEN "finish" ELSE "upsert"]
          \/ pc' = [pc EXCEPT ![f] = "reset"]
      BY <2>1 DEF ListEntries
    <3> HIDE DEF wanted
    <3>4. QED
      BY <1>0, <2>1, <3>2, <3>3 DEF ListEntries, TypeOK, storeVars
  <2>2. CASE UpsertEntries(f, p)
    BY <1>0, <2>2 DEF UpsertEntries, TypeOK
  <2>3. CASE OnFlush(f, p)
    BY <1>0, <2>3 DEF OnFlush, TypeOK
  <2>4. QED
    BY <2>1, <2>2, <2>3
<1>4. \A j \in Index : j \in wanted <=> ShouldPersist(store[p][j], batch[f][j])
  OBVIOUS
<1> HIDE DEF wanted
<1>5. WritesExist'
  <2> SUFFICES ASSUME NEW g \in Flusher, pc'[g] = "upsert", NEW i \in fresh'[g]
               PROVE  batch'[g][i] # NoEntry
    BY DEF WritesExist
  <2>1. CASE g # f
    BY <1>0, <1>1, <1>2, <2>1 DEF WritesExist
  <2>2. CASE g = f
    <3>1. fresh'[f] = wanted /\ i \in wanted
      BY <1>3, <2>2
    <3>2. wanted \subseteq Index
      BY DEF wanted
    <3>3. QED
      BY <1>1, <1>4, <2>2, <3>1, <3>2 DEF ShouldPersist
  <2>3. QED
    BY <2>1, <2>2
<1>6. ASSUME NEW q \in Process, NEW j \in Index, Promised(q, j)'
      PROVE  MemoryKeeps(q, j)' /\ RedisKeeps(q, j)' /\ Kept(q, j)'
  <2>1. /\ Promised(q, j)
        /\ MemoryKeeps(q, j) /\ RedisKeeps(q, j) /\ Kept(q, j)
    BY <1>0, <1>1, <1>6 DEF AllKept, Keeps, Promised
  <2>2. Flushes(f, q) /\ batch[f][j] # NoEntry => batch[f][j] = latest[q][j]
    BY <2>1 DEF MemoryKeeps
  <2>3. Flushes(f, q) => q = p
    BY <1>1 DEF Flushes
  <2>4. ASSUME store' = Written(f, p), pc[f] = "upsert"
        PROVE  /\ SameStored(q, j) => SameStored(q, j)'
               /\ q = p /\ batch[f][j] # NoEntry => SameStored(q, j)'
    <3>1. store' = [store EXCEPT ![p] =
                      [i \in Index |-> IF i \in fresh[f] THEN batch[f][i] ELSE store[p][i]]]
      BY <2>4 DEF Written
    <3>2. CASE q = p /\ j \in fresh[f]
      <4>1. store'[q][j] = batch[f][j] /\ batch[f][j] # NoEntry
        BY <1>0, <2>4, <3>1, <3>2 DEF TypeOK, WritesExist
      <4>2. QED
        BY <1>1, <2>2, <3>2, <4>1 DEF SameStored
    <3>3. CASE ~(q = p /\ j \in fresh[f])
      <4>1. store'[q][j] = store[q][j]
        BY <1>0, <3>1, <3>3 DEF TypeOK
      <4>2. SameStored(q, j) => SameStored(q, j)'
        BY <1>1, <4>1 DEF SameStored
      <4>3. q = p /\ batch[f][j] # NoEntry => SameStored(q, j)
        BY <1>1, <2>1, <2>4, <3>3 DEF MemoryKeeps
      <4>4. QED
        BY <4>2, <4>3
    <3>4. QED
      BY <3>2, <3>3
  <2>5. SameStored(q, j) => SameStored(q, j)'
    <3>1. CASE store' = store
      BY <1>1, <3>1 DEF SameStored
    <3>2. QED
      BY <1>3, <2>4, <3>1
  <2>6. ASSUME Flushes(f, q)', batch'[f][j] # NoEntry,
               pc'[f] \in {"onFlush", "finish"} \/ (pc'[f] = "upsert" /\ j \notin fresh'[f])
        PROVE  SameStored(q, j)'
    <3>1. Flushes(f, q) /\ q = p /\ batch[f][j] = latest[q][j] /\ batch[f][j] # NoEntry
      BY <1>1, <1>2, <2>2, <2>3, <2>6
    <3>2. CASE ListEntries(f, p) /\ UNCHANGED store /\ j \notin wanted
      <4>1. store[q][j] # NoEntry /\ hash[store[q][j]] = hash[batch[f][j]]
        BY <1>4, <3>1, <3>2 DEF ShouldPersist
      <4>2. QED
        BY <1>1, <3>1, <3>2, <4>1 DEF SameStored
    <3>3. CASE store' = Written(f, p) /\ pc[f] = "upsert"
      BY <2>4, <3>1, <3>3
    <3>4. CASE UNCHANGED store /\ pc[f] = "onFlush"
      <4>1. SameStored(q, j)
        BY <2>1, <3>1, <3>4 DEF MemoryKeeps
      <4>2. QED
        BY <2>5, <4>1
    <3>5. QED
      BY <1>3, <2>6, <3>2, <3>3, <3>4
  <2>7. MemoryKeeps(q, j)'
    <3>1. ASSUME NEW g \in Flusher, Flushes(g, q)'
          PROVE  /\ batch'[g][j] = pending'[q][j]
                 /\ (/\ batch'[g][j] # NoEntry
                     /\ \/ pc'[g] \in {"onFlush", "finish"}
                        \/ pc'[g] = "upsert" /\ j \notin fresh'[g])
                    => SameStored(q, j)'
      <4>1. Flushes(g, q) /\ batch'[g][j] = pending'[q][j]
        BY <1>1, <1>2, <2>1, <3>1 DEF MemoryKeeps
      <4>2. CASE g = f
        BY <2>6, <3>1, <4>1, <4>2
      <4>3. CASE g # f
        BY <1>1, <1>2, <2>1, <2>5, <4>1, <4>3 DEF MemoryKeeps
      <4>4. QED
        BY <4>2, <4>3
    <3>2. pending'[q][j] \in {NoEntry, latest'[q][j]}
      BY <1>1, <2>1 DEF MemoryKeeps
    <3>3. QED
      BY <3>1, <3>2 DEF MemoryKeeps
  <2>8. RedisKeeps(q, j)'
    BY <1>1, <2>1, <2>5, FlushFrame
  <2>9. Kept(q, j)'
    BY <1>1, <2>1, <2>5, KeptFrame
  <2>10. QED
    BY <2>7, <2>8, <2>9
<1>7. QED
  BY <1>5, <1>6 DEF AllKept, Keeps

\* The end of a flush: it wipes what is stored, or puts back what was pending.
LEMMA EndKeeps ==
    ASSUME KeepInv, MemoryStep, NEW f \in Flusher, NEW p \in Process,
           FlushFinishes(f, p) \/ ResetProcessState(f, p)
    PROVE  WritesExist' /\ AllKept'
<1>0. TypeOK /\ OneFlushPerProcess /\ WritesExist /\ AllKept
  BY DEF KeepInv, FallbackType
<1>1. /\ UNCHANGED <<store, latest, racy, stale, queue, body, dead>>
      /\ Flushes(f, p)
      /\ \/ pc[f] = "finish" /\ pending' = [pending EXCEPT ![p] = NoEntries]
         \/ pending' = [pending EXCEPT ![p] = batch[f]]
  BY DEF FlushFinishes, ResetProcessState, storeVars, historyVars, MemoryStep, redisVars,
         redisBufferVars, Flushes, InFlight
<1>2. /\ \A g \in Flusher : g # f => /\ pc'[g] = pc[g] /\ fresh'[g] = fresh[g]
                                     /\ batch'[g] = batch[g]
      /\ pc'[f] \in {"idle", "ready"}
  BY <1>0 DEF FlushFinishes, ResetProcessState, Return, Forget, TypeOK
<1>3. WritesExist'
  BY <1>0, <1>2 DEF WritesExist
<1>4. \A q \in Process, g \in Flusher : Flushes(g, q)' => g # f /\ q # p /\ Flushes(g, q)
  <2>1. \A q \in Process, g \in Flusher : Flushes(g, q)' => g # f /\ Flushes(g, q)
    BY <1>0, <1>2, EndFlushes DEF Flushes
  <2>2. QED
    BY <1>0, <1>1, <2>1 DEF OneFlushPerProcess
<1>5. ASSUME NEW q \in Process, NEW j \in Index, Promised(q, j)'
      PROVE  MemoryKeeps(q, j)' /\ RedisKeeps(q, j)' /\ Kept(q, j)'
  <2>1. Promised(q, j) /\ MemoryKeeps(q, j) /\ RedisKeeps(q, j) /\ Kept(q, j)
    BY <1>0, <1>1, <1>5 DEF AllKept, Keeps, Promised
  <2>2. SameStored(q, j) => SameStored(q, j)'
    BY <1>1 DEF SameStored
  <2>3. \/ pending'[q][j] = pending[q][j]
        \/ q = p /\ pending'[q][j] = NoEntry /\ (pending[q][j] # NoEntry => SameStored(q, j))
    <3>1. CASE q # p
      BY <1>0, <1>1, <3>1 DEF TypeOK
    <3>2. CASE q = p /\ pending' = [pending EXCEPT ![p] = batch[f]]
      BY <1>0, <1>1, <2>1, <3>2 DEF TypeOK, MemoryKeeps
    <3>3. CASE q = p /\ pc[f] = "finish" /\ pending' = [pending EXCEPT ![p] = NoEntries]
      <4>1. pending'[q][j] = NoEntry
        BY <1>0, <3>3 DEF TypeOK, NoEntries
      <4>2. pending[q][j] # NoEntry => SameStored(q, j)
        BY <1>1, <2>1, <3>3 DEF MemoryKeeps
      <4>3. QED
        BY <3>3, <4>1, <4>2
    <3>4. QED
      BY <1>1, <3>1, <3>2, <3>3
  <2>4. MemoryKeeps(q, j)'
    <3>1. ASSUME NEW g \in Flusher, Flushes(g, q)'
          PROVE  /\ batch'[g][j] = pending'[q][j]
                 /\ (/\ batch'[g][j] # NoEntry
                     /\ \/ pc'[g] \in {"onFlush", "finish"}
                        \/ pc'[g] = "upsert" /\ j \notin fresh'[g])
                    => SameStored(q, j)'
      <4>1. g # f /\ q # p /\ Flushes(g, q)
        BY <1>4, <3>1
      <4>2. pending'[q][j] = pending[q][j]
        BY <2>3, <4>1
      <4>3. QED
        BY <1>2, <2>1, <2>2, <4>1, <4>2 DEF MemoryKeeps
    <3>2. pending'[q][j] \in {NoEntry, latest'[q][j]}
      BY <1>1, <2>1, <2>3 DEF MemoryKeeps
    <3>3. QED
      BY <3>1, <3>2 DEF MemoryKeeps
  <2>5. RedisKeeps(q, j)'
    BY <1>1, <2>1, <2>2, FlushFrame
  <2>6. Kept(q, j)'
    <3>1. CASE pending'[q][j] = pending[q][j]
      BY <1>1, <2>1, <2>2, <3>1, KeptFrame
    <3>2. CASE pending[q][j] # NoEntry /\ SameStored(q, j)
      BY <2>2, <3>2 DEF Kept
    <3>3. CASE pending[q][j] = NoEntry /\ pending'[q][j] = NoEntry
      BY <1>1, <2>1, <2>2, <3>3, KeptFrame
    <3>4. QED
      BY <2>3, <3>1, <3>2, <3>3
  <2>7. QED
    BY <2>4, <2>5, <2>6
<1>6. QED
  BY <1>3, <1>5 DEF AllKept, Keeps

\* The steps of the memory buffer keep the invariant.
LEMMA MemoryStepKeeps == KeepInv /\ MemoryStep => KeepInv'
<1> SUFFICES ASSUME KeepInv, MemoryStep PROVE KeepInv'
  OBVIOUS
<1>1. /\ FallbackType /\ TypeOK /\ OneFlushPerProcess /\ Members /\ Newest
      /\ UNCHANGED <<stale, writing, queue, body, dead, wpc, on, members, fetched>>
  BY DEF KeepInv, FallbackType, MemoryStep, readerVars, redisVars, redisBufferVars, workerVars
<1>2. FallbackType'
  BY <1>1, FallbackNextType DEF FallbackNext
<1>3. OneFlushPerProcess'
  BY <1>1, MemorySteps, NextOneFlush
<1>4. PICK f \in Flusher, p \in Process :
        TimerFires(f, p) \/ CallFlushProcess(f, p) \/ FlushStep(f, p)
  BY DEF MemoryStep
<1>5. UNCHANGED latest
  BY <1>4 DEF TimerFires, CallFlushProcess, FlushStep, FlushSkips, FlushBegins, ListEntries,
              UpsertEntries, OnFlush, FlushFinishes, ResetProcessState, historyVars
<1>6. Members' /\ Newest'
  BY <1>1, <1>5 DEF Members, Newest
<1>7. WritesExist' /\ AllKept'
  <2>1. CASE TimerFires(f, p) \/ CallFlushProcess(f, p)
    BY <1>1, <2>1, StartKeeps DEF TimerFires, CallFlushProcess, bufferVars, storeVars, historyVars
  <2>2. CASE FlushStep(f, p)
    BY <2>2, BeginKeeps, StoreCallKeeps, EndKeeps DEF FlushStep
  <2>3. QED
    BY <1>4, <2>1, <2>2
<1>8. QED
  BY <1>2, <1>3, <1>6, <1>7 DEF KeepInv

\* A restart forgets the memory and every flush: what the memory held has no
\* promise, and what Redis and the table hold stays.
LEMMA RestartKeeps == KeepInv /\ Restart => KeepInv'
<1> SUFFICES ASSUME KeepInv, Restart PROVE KeepInv'
  OBVIOUS
<1>1. TypeOK /\ RedisTypeOK /\ FallbackType /\ Newest /\ AllKept
  BY DEF KeepInv, FallbackType
<1>2. FallbackType'
  BY <1>1, FallbackNextType DEF FallbackNext
<1>3. /\ \A f \in Flusher : pc'[f] = "idle"
      /\ \A w \in Worker : wpc'[w] = "idle"
      /\ \A p \in Process : ~flushing'[p] /\ pending'[p] = NoEntries /\ writing'[p] = NoWrite
      /\ racy' = [p \in Process |-> racy[p] \cup {i \in Index : InMemory(p, i)}]
      /\ UNCHANGED <<store, latest, queue, body, dead, stale>>
  BY DEF Restart, storeVars, redisVars
<1>4. OneFlushPerProcess' /\ WritesExist' /\ Members'
  BY <1>3 DEF OneFlushPerProcess, Flushes, InFlight, WritesExist, Members
<1>5. Newest'
  BY <1>1, <1>3 DEF Newest, NoWrite
<1>6. ASSUME NEW q \in Process, NEW j \in Index, Promised(q, j)'
      PROVE  MemoryKeeps(q, j)' /\ RedisKeeps(q, j)' /\ Kept(q, j)'
  <2>1. Promised(q, j) /\ ~InMemory(q, j)
    BY <1>3, <1>6 DEF Promised
  <2>2. RedisKeeps(q, j) /\ Kept(q, j)
    BY <1>1, <2>1 DEF AllKept, Keeps
  <2>3. pending[q][j] = NoEntry /\ pending'[q][j] = NoEntry
    BY <1>3, <2>1 DEF InMemory, NoEntries
  <2>4. SameStored(q, j) => SameStored(q, j)'
    BY <1>3 DEF SameStored
  <2>5. MemoryKeeps(q, j)'
    BY <1>3, <2>3 DEF MemoryKeeps, Flushes, InFlight
  <2>6. RedisKeeps(q, j)'
    BY <1>3, <2>2 DEF RedisKeeps, Holds
  <2>7. Kept(q, j)'
    BY <1>3, <2>2, <2>3, <2>4, KeptFrame
  <2>8. QED
    BY <2>5, <2>6, <2>7
<1>7. QED
  BY <1>2, <1>4, <1>5, <1>6 DEF KeepInv, AllKept, Keeps

\* Choosing a buffer, subscribing again and a change of health touch no entry.
LEMMA QuietKeeps ==
    ASSUME KeepInv, FallbackType',
           UNCHANGED <<vars, redisVars, dead, on, members, fetched, stale>>,
           UNCHANGED wpc \/ \E w \in Worker : wpc[w] = "idle" /\ wpc' = [wpc EXCEPT ![w] = "ready"],
           Newest'
    PROVE  KeepInv'
<1>1. /\ RedisTypeOK /\ OneFlushPerProcess /\ WritesExist /\ Members /\ AllKept
      /\ UNCHANGED <<latest, racy, pending, store, queue, body, dead, stale, flushing>>
      /\ UNCHANGED <<pc, target, batch, fresh>>
  BY DEF KeepInv, FallbackType, vars, bufferVars, storeVars, localVars, historyVars, redisVars
<1>2. OneFlushPerProcess' /\ WritesExist'
  BY <1>1, MemoryUntouched DEF OneFlushPerProcess, Flushes
<1>3. \A w \in Worker : wpc'[w] = wpc[w] \/ wpc'[w] = "ready"
  BY <1>1 DEF RedisTypeOK
<1>4. Members'
  BY <1>1, <1>3 DEF Members
<1>5. AllKept'
  <2> SUFFICES ASSUME NEW q \in Process, NEW j \in Index PROVE Keeps(q, j)'
    BY DEF AllKept
  <2>1. \A w \in Worker : Holds(w, q, j)' => /\ Holds(w, q, j) /\ wpc'[w] = wpc[w]
                                             /\ fetched'[w] = fetched[w]
    BY <1>3 DEF Holds
  <2>2. \A f \in Flusher : Flushes(f, q)' => /\ Flushes(f, q) /\ pc'[f] = pc[f]
                                             /\ batch'[f] = batch[f] /\ fresh'[f] = fresh[f]
    BY <1>1, MemoryUntouched
  <2>3. QED
    BY <1>1, <2>1, <2>2, EntryFrame DEF AllKept
<1>6. QED
  BY <1>2, <1>4, <1>5 DEF KeepInv

\* Every step of the fallback buffer keeps the invariant.
LEMMA NextKeep == KeepInv /\ [FallbackNext]_allVars => KeepInv'
<1> SUFFICES ASSUME KeepInv, [FallbackNext]_allVars PROVE KeepInv'
  OBVIOUS
<1>0. TypeOK /\ RedisTypeOK /\ Newest
  BY DEF KeepInv, FallbackType
<1>1. FallbackType'
  BY FallbackNextType DEF KeepInv
<1>2. ASSUME UNCHANGED <<writing, body, latest>> PROVE Newest'
  BY <1>0, <1>2 DEF Newest
<1>3. ASSUME NEW p \in Process, NEW i \in Index, NEW v \in {latest[p][i], latest[p][i] + 1},
             v \in Version, Choose(p, i, v)
      PROVE  KeepInv'
  <2>1. UNCHANGED <<vars, redisVars, dead, on, members, fetched, stale, wpc>>
    BY <1>3 DEF Choose, redisBufferVars, workerVars
  <2>2. UNCHANGED <<body, latest>>
    BY <2>1 DEF vars, historyVars, redisVars
  <2>3. v >= latest[p][i]
    <3>1. latest[p][i] \in Int
      BY <1>0, BoundsAssumption DEF TypeOK, Slot, Version, NoEntry
    <3>2. v = latest[p][i] \/ v = latest[p][i] + 1
      OBVIOUS
    <3>3. QED
      BY <3>1, <3>2
  <2>4. /\ writing'[p].index = i /\ writing'[p].version = v
        /\ \A q \in Process : q # p => writing'[q] = writing[q]
    BY <1>0, <1>3 DEF Choose, RedisTypeOK
  <2>5. Newest'
    BY <1>0, <2>2, <2>3, <2>4 DEF Newest
  <2>6. QED
    BY <1>1, <2>1, <2>5, QuietKeeps
<1>4. ASSUME NEW p \in Process, Subscribe(p)
      PROVE  KeepInv'
  <2>1. UNCHANGED <<vars, redisVars, dead, on, members, fetched, stale, wpc, writing>>
    BY <1>4 DEF Subscribe, redisBufferVars, workerVars
  <2>2. Newest'
    BY <1>2, <2>1 DEF vars, historyVars, redisVars
  <2>3. QED
    BY <1>1, <2>1, <2>2, QuietKeeps
<1>5. ASSUME NEW p \in Process, WriteStep(p)
      PROVE  KeepInv'
  <2>1. AllKept'
    BY <1>5, WriteMemoryKeeps, AddToQueueKeeps, WriteRedisKeeps, WriteFailsKeeps DEF WriteStep
  <2>2. QED
    BY <1>1, <1>5, <2>1, WriteFacts DEF KeepInv
<1>6. ASSUME NEW w \in Worker, NEW ps, Work(w, ps), NothingElse,
             UNCHANGED <<redisVars, redisBufferVars>>
      PROVE  KeepInv'
  <2>1. UNCHANGED <<vars, redisVars, dead, on, members, fetched, stale, writing>>
    BY <1>6 DEF Work, NothingElse, redisBufferVars, readerVars
  <2>2. wpc[w] = "idle" /\ wpc' = [wpc EXCEPT ![w] = "ready"]
    BY <1>6 DEF Work
  <2>3. Newest'
    BY <1>2, <2>1 DEF vars, historyVars, redisVars
  <2>4. QED
    BY <1>1, <2>1, <2>2, <2>3, QuietKeeps
<1>7. ASSUME NEW w \in Worker, NEW p \in Process, WorkStep(w, p)
      PROVE  KeepInv'
  BY <1>1, <1>7, WorkerFacts, WorkerKeeps DEF KeepInv
<1>8. CASE BecomesUnhealthy
  <2>1. UNCHANGED <<vars, redisVars, dead, on, members, fetched, stale, writing, wpc>>
    BY <1>8 DEF BecomesUnhealthy, redisBufferVars, readerVars, workerVars
  <2>2. Newest'
    BY <1>2, <2>1 DEF vars, historyVars, redisVars
  <2>3. QED
    BY <1>1, <2>1, <2>2, QuietKeeps
<1>9. ASSUME NEW f \in Flusher, BecomesHealthy(f)
      PROVE  KeepInv'
  <2>1. UNCHANGED <<redisVars, dead, on, members, fetched, stale, writing, wpc>>
    BY <1>9 DEF BecomesHealthy, redisBufferVars, readerVars, workerVars
  <2>2. CASE UNCHANGED vars
    <3>1. Newest'
      BY <1>2, <2>1, <2>2 DEF vars, historyVars, redisVars
    <3>2. QED
      BY <1>1, <2>1, <2>2, <3>1, QuietKeeps
  <2>3. CASE CallFlushAll(f)
    <3>1. /\ Start(f, {p \in Process : created[p]})
          /\ UNCHANGED <<pending, store, latest, racy, stale, queue, body, dead>>
          /\ UNCHANGED <<wpc, on, members, fetched, writing>>
      BY <2>1, <2>3 DEF CallFlushAll, bufferVars, storeVars, historyVars, redisVars
    <3>2. WritesExist' /\ AllKept'
      BY <3>1, StartKeeps
    <3>3. OneFlushPerProcess'
      <4>1. [Next]_vars
        BY <2>3 DEF Next
      <4>2. QED
        BY <1>0, <4>1, NextOneFlush DEF KeepInv
    <3>4. Members'
      BY <3>1 DEF KeepInv, Members
    <3>5. Newest'
      BY <1>2, <3>1
    <3>6. QED
      BY <1>1, <3>2, <3>3, <3>4, <3>5 DEF KeepInv
  <2>4. QED
    BY <1>9, <2>2, <2>3 DEF BecomesHealthy
<1>10. CASE UNCHANGED allVars
  <2>1. UNCHANGED <<vars, redisVars, dead, on, members, fetched, stale, writing, wpc>>
    BY <1>10 DEF allVars, redisBufferVars, readerVars, workerVars
  <2>2. Newest'
    BY <1>2, <2>1 DEF vars, historyVars, redisVars
  <2>3. QED
    BY <1>1, <2>1, <2>2, QuietKeeps
<1>11. QED
  BY <1>3, <1>4, <1>5, <1>6, <1>7, <1>8, <1>9, <1>10, MemoryStepKeeps, RestartKeeps
     DEF FallbackNext, FlushLoop, FlushEarly

\* Through failures of MySQL and of the scripts of Redis, through changes of health
\* and restarts, an entry with a promise is pending, queued, stored, or buried.
THEOREM EntriesAreKept == FallbackSpec => []KeptUntilStored
<1>1. KeepInv => KeptUntilStored
  BY DEF KeepInv, AllKept, Keeps, Promised, Kept, SameStored, KeptUntilStored
<1>2. QED
  BY <1>1, InitKeep, NextKeep, PTL DEF FallbackSpec

\* A process has one flush of the memory at a time, and the Redis flushes of all
\* processes exclude each other, whatever the health and however often the program
\* starts again.
THEOREM FallbackExclusion ==
    FallbackSpec => [](/\ OneFlushPerProcess
                       /\ \A w, u \in Worker :
                            /\ wpc[w] \in {"upsert", "remove", "drop", "onFlush"}
                            /\ wpc[u] \in {"upsert", "remove", "drop", "onFlush"}
                            => w = u)
<1>1. KeepInv => /\ OneFlushPerProcess
                 /\ \A w, u \in Worker :
                      /\ wpc[w] \in {"upsert", "remove", "drop", "onFlush"}
                      /\ wpc[u] \in {"upsert", "remove", "drop", "onFlush"}
                      => w = u
  BY DEF KeepInv, FallbackType, Turns
<1>2. QED
  BY <1>1, InitKeep, NextKeep, PTL DEF FallbackSpec

-----------------------------------------------------------------------------
(* What Tracker.ProcessWorkspaces makes of one entry *)

\* Adopting an update and judging the entry keep its workspace, its build and its
\* first sight.  An entry that is announced stays as it is; one that is not has
\* waited less than the threshold since its confirmation, and got that within the
\* threshold after its first sight.
LEMMA JudgedEntry ==
    ASSUME T!LimitsAssumption, NEW e \in T!Entry, NEW r \in T!Report, NEW limit \in Nat,
           NEW at \in T!Time, NEW x, x = T!Judged(T!Adopted(e, r), limit, at)
    PROVE  /\ x \in T!Entry /\ x.ws = e.ws /\ x.build = e.build /\ x.first = e.first
           /\ x.updated = r.updated
           /\ e.updated = r.updated /\ e.notified # T!Never => x = e
           /\ x.notified = T!Never =>
                IF e.updated = r.updated /\ e.confirmed # T!Never
                  THEN x.confirmed = e.confirmed /\ at - x.confirmed < limit
                  ELSE x.confirmed = at /\ at - x.first < limit
<1> DEFINE a == T!Adopted(e, r)
<1>1. /\ a \in T!Entry /\ a.ws = e.ws /\ a.build = e.build /\ a.first = e.first
      /\ a.updated = r.updated
      /\ e.updated = r.updated => a = e
      /\ e.updated # r.updated => a.confirmed = T!Never /\ a.notified = T!Never
  <2>1. e.updated = r.updated => a = e
    BY DEF T!Adopted
  <2>2. ASSUME e.updated # r.updated
        PROVE  /\ a \in T!Entry /\ a.ws = e.ws /\ a.build = e.build /\ a.first = e.first
               /\ a.updated = r.updated /\ a.confirmed = T!Never /\ a.notified = T!Never
    <3>1. a = [e EXCEPT !.updated = r.updated, !.confirmed = T!Never, !.notified = T!Never]
      BY <2>2 DEF T!Adopted
    <3>2. r.updated \in 0 .. MaxUpdates + 1 /\ T!Never \in T!Moment
      BY DEF T!Report, T!Moment, T!LimitsAssumption
    <3> HIDE DEF a
    <3>3. QED
      BY <3>1, <3>2 DEF T!Entry
  <2>3. QED
    BY <2>1, <2>2
<1>2. at # T!Never /\ at \in Int /\ at \in T!Moment /\ a.first \in Int
  BY <1>1 DEF T!LimitsAssumption, T!Time, T!Moment, T!Never, T!Entry
<1> HIDE DEF a
<1>3. x = T!Judged(a, limit, at)
  BY DEF a
<1>4. CASE a.notified # T!Never
  <2>1. x = a
    BY <1>3, <1>4 DEF T!Judged
  <2>2. QED
    BY <1>1, <1>4, <2>1
<1>5. CASE a.notified = T!Never /\ a.confirmed = T!Never /\ at - a.first >= limit
  <2>1. x = [a EXCEPT !.confirmed = at, !.notified = at]
    BY <1>3, <1>5 DEF T!Judged
  <2>2. QED
    BY <1>1, <1>2, <1>5, <2>1 DEF T!Entry
<1>6. CASE a.notified = T!Never /\ a.confirmed = T!Never /\ ~(at - a.first >= limit)
  <2>1. x = [a EXCEPT !.confirmed = at]
    BY <1>3, <1>6 DEF T!Judged
  <2>2. QED
    BY <1>1, <1>2, <1>6, <2>1 DEF T!Entry
<1>7. CASE a.notified = T!Never /\ a.confirmed # T!Never /\ at - a.confirmed >= limit
  <2>1. x = [a EXCEPT !.notified = at]
    BY <1>3, <1>7 DEF T!Judged
  <2>2. QED
    BY <1>1, <1>2, <1>7, <2>1 DEF T!Entry
<1>8. CASE a.notified = T!Never /\ a.confirmed # T!Never /\ ~(at - a.confirmed >= limit)
  <2>1. x = a
    BY <1>3, <1>8 DEF T!Judged
  <2>2. a.confirmed \in Int
    BY <1>1, <1>8 DEF T!Entry, T!Moment, T!Time, T!LimitsAssumption
  <2>3. QED
    BY <1>1, <1>2, <1>8, <2>1, <2>2
<1>9. QED
  BY <1>4, <1>5, <1>6, <1>7, <1>8

\* The tracker has one entry of a workspace at most.
OneEntry(S) == \A e, f \in S : e.ws = f.ws => e = f

\* The entry of the build, of the update if there is one.
LEMMA MatchIs ==
    ASSUME NEW S, NEW w, NEW r, NEW e \in T!Of(S, w), e.build = r.build
    PROVE  T!Match(S, w, r) \in T!Of(S, w) /\ T!Match(S, w, r).build = r.build
<1> DEFINE same == {f \in T!Of(S, w) : f.build = r.build}
           exact == {f \in same : f.updated = r.updated}
<1>1. \E f \in same : exact # {} => f \in exact
  <2>1. CASE exact = {}
    BY <2>1
  <2>2. CASE exact # {}
    BY <2>2
  <2>3. QED
    BY <2>1, <2>2
<1>2. T!Match(S, w, r) = CHOOSE f \in same : exact # {} => f \in exact
  BY DEF T!Match
<1> HIDE DEF exact
<1>3. T!Match(S, w, r) \in same
  BY <1>1, <1>2
<1>4. QED
  BY <1>3

\* What a workspace that asks for attention has after a result: its entry, if its
\* kind of attention is never announced; the first sight of its build; or the
\* entry of that build, judged again.
EvaluatedTo(S, w, r, at, x) ==
    /\ T!Asks(r)
    /\ \/ threshold[r.attention] = 0 /\ x \in T!Of(S, w)
       \/ /\ threshold[r.attention] # 0
          /\ \A e \in T!Of(S, w) : e.build # r.build
          /\ x = T!Seen(w, r, at)
       \/ /\ threshold[r.attention] # 0
          /\ \E e \in T!Of(S, w) : /\ e.build = r.build
                                 /\ x = T!Judged(T!Adopted(e, r), threshold[r.attention], at)

\* As long as a workspace has one entry, the choice among those of a build is none.
LEMMA EvaluatedIs ==
    ASSUME NEW S, OneEntry(S), NEW w, NEW r, NEW at, NEW x
    PROVE  x \in T!Evaluated(S, w, r, at) <=> EvaluatedTo(S, w, r, at, x)
<1> DEFINE judged(e) == T!Judged(T!Adopted(e, r), threshold[r.attention], at)
<1>1. CASE ~T!Asks(r)
  BY <1>1 DEF T!Evaluated, EvaluatedTo
<1>2. CASE T!Asks(r) /\ threshold[r.attention] = 0
  BY <1>2 DEF T!Evaluated, EvaluatedTo
<1>3. CASE T!Asks(r) /\ threshold[r.attention] # 0 /\ \A e \in T!Of(S, w) : e.build # r.build
  <2>1. T!Evaluated(S, w, r, at) = {T!Seen(w, r, at)}
    BY <1>3 DEF T!Evaluated, T!Fresh
  <2>2. EvaluatedTo(S, w, r, at, x) <=> x = T!Seen(w, r, at)
    BY <1>3 DEF EvaluatedTo
  <2>3. QED
    BY <2>1, <2>2
<1>4. CASE T!Asks(r) /\ threshold[r.attention] # 0 /\ \E e \in T!Of(S, w) : e.build = r.build
  <2>1. PICK e \in T!Of(S, w) : e.build = r.build
    BY <1>4
  <2>2. T!Of(S, w) = {e}
    BY <2>1 DEF T!Of, OneEntry
  <2>3. T!Match(S, w, r) = e
    BY <2>1, <2>2, MatchIs
  <2>4. T!Evaluated(S, w, r, at) = (T!Of(S, w) \ {e}) \cup {judged(e)}
    BY <1>4, <2>3 DEF T!Evaluated
  <2>5. EvaluatedTo(S, w, r, at, x) <=> x = judged(e)
    BY <1>4, <2>1, <2>2 DEF EvaluatedTo
  <2> HIDE DEF judged
  <2>6. QED
    BY <2>2, <2>4, <2>5
<1>5. QED
  BY <1>1, <1>2, <1>3, <1>4

\* After a result that is evaluated a workspace has one entry again, of the build
\* and the update of the result unless its kind of attention is never announced.
LEMMA EvaluatedEntries ==
    ASSUME T!LimitsAssumption, T!ThresholdAssumption, OneEntry(entries), entries \subseteq T!Entry,
           NEW w \in Workspace, NEW r \in T!Report, NEW at \in T!Time
    PROVE  /\ \A x \in T!Evaluated(entries, w, r, at) : x \in T!Entry /\ x.ws = w
           /\ \A x, y \in T!Evaluated(entries, w, r, at) : x = y
<1>1. ASSUME NEW x \in T!Evaluated(entries, w, r, at) PROVE x \in T!Entry /\ x.ws = w
  <2>1. EvaluatedTo(entries, w, r, at, x)
    BY EvaluatedIs
  <2>2. CASE x \in T!Of(entries, w)
    BY <2>2 DEF T!Of
  <2>3. CASE x = T!Seen(w, r, at)
    BY <2>3 DEF T!Seen, T!Entry, T!Report, T!Moment, T!LimitsAssumption
  <2>4. ASSUME NEW e \in T!Of(entries, w), T!Asks(r),
               x = T!Judged(T!Adopted(e, r), threshold[r.attention], at)
        PROVE  x \in T!Entry /\ x.ws = w
    <3>1. e \in T!Entry /\ e.ws = w
      BY DEF T!Of
    <3>2. threshold[r.attention] \in Nat
      BY <2>4 DEF T!ThresholdAssumption, T!Asks, T!Report
    <3>3. QED
      BY <2>4, <3>1, <3>2, JudgedEntry
  <2>5. QED
    BY <2>1, <2>2, <2>3, <2>4 DEF EvaluatedTo
<1>2. ASSUME NEW x \in T!Evaluated(entries, w, r, at), NEW y \in T!Evaluated(entries, w, r, at)
      PROVE  x = y
  <2>1. EvaluatedTo(entries, w, r, at, x) /\ EvaluatedTo(entries, w, r, at, y)
    BY EvaluatedIs
  <2>2. \A e, f \in T!Of(entries, w) : e = f
    BY DEF T!Of, OneEntry
  <2>3. QED
    BY <2>1, <2>2 DEF EvaluatedTo
<1>3. QED
  BY <1>1, <1>2

-----------------------------------------------------------------------------
(* NotificationTracker: types, and one entry per workspace *)

Result == [reports : [Workspace -> T!Report], at : T!Time]

TrackerType ==
    /\ T!TypeOK
    /\ results \in Seq(Result)
    /\ OneEntry(entries) /\ OneEntry(disk)

\* Every result in a channel is one.
LEMMA ResultsAre ==
    ASSUME NEW s \in Seq(Result)
    PROVE  \A n \in 1 .. Len(s) : s[n].at \in T!Time /\ s[n].reports \in [Workspace -> T!Report]
<1>1. \A n \in 1 .. Len(s) : s[n] \in Result
  OBVIOUS
<1>2. QED
  BY <1>1 DEF Result

\* A result as the event loop takes it from the channel.
LEMMA HeadIs ==
    ASSUME TrackerType, results # <<>>
    PROVE  /\ Head(results) \in Result /\ Head(results) = results[1]
           /\ Head(results).at \in T!Time /\ Head(results).reports \in [Workspace -> T!Report]
           /\ Tail(results) \in Seq(Result)
           /\ Len(results) \in Nat \ {0} /\ Len(Tail(results)) = Len(results) - 1
           /\ \A n \in 1 .. Len(Tail(results)) : Tail(results)[n] = results[n + 1]
<1>1. results \in Seq(Result)
  BY DEF TrackerType
<1>2. Head(results) \in Result
  BY <1>1
<1>3. QED
  BY <1>1, <1>2 DEF Result

\* The entries after a result, one by one.
LEMMA HandledEntries ==
    ASSUME TrackerType, T!HandleResult, NEW x
    PROVE  x \in entries' <=>
             \E w \in Workspace :
                EvaluatedTo(entries, w, Head(results).reports[w], Head(results).at, x)
<1>1. entries' = UNION {T!Evaluated(entries, w, Head(results).reports[w], Head(results).at) :
                          w \in Workspace}
  BY DEF T!HandleResult
<1>2. \A w \in Workspace :
        x \in T!Evaluated(entries, w, Head(results).reports[w], Head(results).at) <=>
          EvaluatedTo(entries, w, Head(results).reports[w], Head(results).at, x)
  BY EvaluatedIs DEF TrackerType
<1>3. QED
  BY <1>1, <1>2

\* An entry after a result, with the report it was judged by.
LEMMA HandledEntry ==
    ASSUME T!LimitsAssumption, T!ThresholdAssumption, TrackerType, T!HandleResult,
           NEW x \in entries'
    PROVE  /\ x \in T!Entry
           /\ EvaluatedTo(entries, x.ws, Head(results).reports[x.ws], Head(results).at, x)
           /\ Head(results).reports[x.ws] \in T!Report /\ Head(results).at \in T!Time
<1>1. PICK w \in Workspace :
        EvaluatedTo(entries, w, Head(results).reports[w], Head(results).at, x)
  BY HandledEntries
<1>2. /\ Head(results).reports[w] \in T!Report /\ Head(results).at \in T!Time
      /\ OneEntry(entries) /\ entries \subseteq T!Entry
  BY HeadIs DEF T!HandleResult, TrackerType, T!TypeOK
<1>3. x \in T!Evaluated(entries, w, Head(results).reports[w], Head(results).at)
  BY <1>1, <1>2, EvaluatedIs
<1>4. x \in T!Entry /\ x.ws = w
  BY <1>2, <1>3, EvaluatedEntries
<1>5. QED
  BY <1>1, <1>2, <1>4

\* The tracker has one entry of a workspace after a result, too.
LEMMA HandledOnce ==
    ASSUME T!LimitsAssumption, T!ThresholdAssumption, TrackerType, T!HandleResult
    PROVE  OneEntry(entries)'
<1> SUFFICES ASSUME NEW x \in entries', NEW y \in entries', x.ws = y.ws PROVE x = y
  BY DEF OneEntry
<1>1. /\ EvaluatedTo(entries, x.ws, Head(results).reports[x.ws], Head(results).at, x)
      /\ EvaluatedTo(entries, x.ws, Head(results).reports[x.ws], Head(results).at, y)
  BY HandledEntry
<1>2. \A e, f \in T!Of(entries, x.ws) : e = f
  BY DEF T!Of, OneEntry, TrackerType
<1>3. QED
  BY <1>1, <1>2 DEF EvaluatedTo

\* An entry that became notified by a result has been judged by it, and not been
\* announced before.
LEMMA NotifiedEntry ==
    ASSUME T!LimitsAssumption, T!ThresholdAssumption, TrackerType, T!HandleResult,
           NEW x \in entries', x \notin entries, x.notified = Head(results).at
    PROVE  LET r == Head(results).reports[x.ws]
           IN  /\ T!Asks(r) /\ T!KeyOf(x) \in T!Key
               /\ x.build = r.build /\ x.updated = r.updated
               /\ \E e \in entries : /\ e.ws = x.ws /\ e.build = r.build
                                     /\ e.updated = r.updated => e.notified = T!Never
<1> DEFINE r == Head(results).reports[x.ws]
           at == Head(results).at
<1>1. x \in T!Entry /\ EvaluatedTo(entries, x.ws, r, at, x) /\ r \in T!Report /\ at \in T!Time
  BY HandledEntry
<1>2. at # T!Never
  BY <1>1 DEF T!Time, T!Never
<1>3. x \notin T!Of(entries, x.ws) /\ x # T!Seen(x.ws, r, at)
  <2>1. T!Seen(x.ws, r, at).notified = T!Never
    BY DEF T!Seen
  <2>2. QED
    BY <1>2, <2>1 DEF T!Of
<1> HIDE DEF r, at
<1>4. PICK e \in T!Of(entries, x.ws) :
        e.build = r.build /\ x = T!Judged(T!Adopted(e, r), threshold[r.attention], at)
  BY <1>1, <1>3 DEF EvaluatedTo
<1>5. e \in entries /\ e.ws = x.ws /\ e \in T!Entry
  BY DEF T!Of, TrackerType, T!TypeOK
<1>6. T!Asks(r) /\ threshold[r.attention] \in Nat
  BY <1>1 DEF EvaluatedTo, T!ThresholdAssumption, T!Asks, T!Report
<1>7. /\ x.build = r.build /\ x.updated = r.updated
      /\ e.updated = r.updated => e.notified = T!Never
  BY <1>1, <1>4, <1>5, <1>6, JudgedEntry
<1>8. T!KeyOf(x) \in T!Key
  BY <1>1, <1>7 DEF T!KeyOf, T!Key, T!Entry, T!Report
<1>9. QED
  BY <1>4, <1>5, <1>6, <1>7, <1>8 DEF r

\* The first run starts with nothing.
LEMMA TrackerInitType == T!LimitsAssumption /\ T!Init => TrackerType
<1> SUFFICES ASSUME T!LimitsAssumption, T!Init PROVE TrackerType
  OBVIOUS
<1>1. upstream \in [Workspace -> T!Report]
  BY DEF T!Init, T!Report, T!LimitsAssumption
<1>2. QED
  BY <1>1 DEF T!Init, TrackerType, T!TypeOK, OneEntry, T!Time, T!Moment, T!Never, T!ChannelSize,
              T!LimitsAssumption

\* What the file has, and what it gives back, is one entry per workspace.
LEMMA PersistedEntries ==
    ASSUME T!LimitsAssumption, TrackerType
    PROVE  T!Persisted(entries) \subseteq T!Entry /\ OneEntry(T!Persisted(entries))
<1>1. entries \subseteq T!Entry /\ OneEntry(entries)
  BY DEF TrackerType, T!TypeOK
<1>2. \A e \in entries : [e EXCEPT !.updated = 0] \in T!Entry /\ [e EXCEPT !.updated = 0].ws = e.ws
  BY <1>1 DEF T!Entry, T!LimitsAssumption
<1>3. \A x \in T!Persisted(entries) : \E e \in entries : x = [e EXCEPT !.updated = 0]
  BY DEF T!Persisted
<1>4. \A x \in T!Persisted(entries) : x \in T!Entry /\ \E e \in entries : /\ x.ws = e.ws
                                                              /\ x = [e EXCEPT !.updated = 0]
  BY <1>2, <1>3
<1>5. T!Persisted(entries) \subseteq T!Entry
  BY <1>4
<1>6. \A x, y \in T!Persisted(entries) : x.ws = y.ws => x = y
  BY <1>1, <1>4 DEF OneEntry
<1>7. QED
  BY <1>5, <1>6 DEF OneEntry

\* The confirmation that NewTracker makes up is a time.
LEMMA ConfirmedEntry ==
    ASSUME T!LimitsAssumption, NEW e \in T!Entry, NEW last \in T!Entry, now \in T!Time
    PROVE  /\ T!Confirmed(e, last) \in T!Entry
           /\ T!Confirmed(e, last).ws = e.ws /\ T!Confirmed(e, last).build = e.build
           /\ T!Confirmed(e, last).updated = e.updated
<1>1. now \in T!Moment /\ last.first \in T!Moment
  BY DEF T!Moment, T!Entry
<1>2. /\ [e EXCEPT !.confirmed = now] \in T!Entry /\ [e EXCEPT !.confirmed = last.first] \in T!Entry
      /\ \A c : /\ [e EXCEPT !.confirmed = c].ws = e.ws
                /\ [e EXCEPT !.confirmed = c].build = e.build
                /\ [e EXCEPT !.confirmed = c].updated = e.updated
  BY <1>1 DEF T!Entry
<1>3. T!Confirmed(e, last) \in {e, [e EXCEPT !.confirmed = now],
        [e EXCEPT !.confirmed = last.first]}
  BY DEF T!Confirmed
<1>4. QED
  BY <1>2, <1>3

\* The next run starts with what the file has: a confirmation is all it adds.
LEMMA RestartEntries ==
    ASSUME T!LimitsAssumption, TrackerType, T!Restart
    PROVE  /\ disk' \subseteq T!Entry /\ OneEntry(disk)'
           /\ entries' \subseteq T!Entry /\ OneEntry(entries)'
           /\ \A x \in entries' : \E e \in disk' :
                x.ws = e.ws /\ x.build = e.build /\ x.updated = e.updated
<1>1. disk' \subseteq T!Entry /\ OneEntry(disk)'
  <2>1. disk' = disk \/ disk' = T!Persisted(entries)
    BY DEF T!Restart
  <2>2. QED
    BY <2>1, PersistedEntries DEF TrackerType, T!TypeOK, OneEntry
<1>2. CASE disk' = {}
  <2>1. entries' = {}
    BY <1>2 DEF T!Restart
  <2>2. QED
    BY <1>1, <2>1 DEF OneEntry
<1>3. CASE disk' # {}
  <2>1. PICK last \in disk' : entries' = {T!Confirmed(e, last) : e \in disk'}
    BY <1>3 DEF T!Restart
  <2>2. \A e \in disk' : /\ T!Confirmed(e, last) \in T!Entry
                         /\ T!Confirmed(e, last).ws = e.ws /\ T!Confirmed(e, last).build = e.build
                         /\ T!Confirmed(e, last).updated = e.updated
    BY <1>1, <2>1, ConfirmedEntry DEF TrackerType, T!TypeOK
  <2>3. \A e, f \in disk' : e.ws = f.ws => e = f
    BY <1>1 DEF OneEntry
  <2>4. entries' \subseteq T!Entry
    BY <2>1, <2>2
  <2>5. \A x, y \in entries' : x.ws = y.ws => x = y
    BY <2>1, <2>2, <2>3
  <2>6. OneEntry(entries)'
    BY <2>5 DEF OneEntry
  <2>7. QED
    BY <1>1, <2>1, <2>2, <2>4, <2>6
<1>4. QED
  BY <1>2, <1>3

\* Every step keeps the types, and one entry per workspace.
LEMMA TrackerNextType ==
    ASSUME T!LimitsAssumption, T!ThresholdAssumption, TrackerType, [T!Next]_(T!vars)
    PROVE  TrackerType'
<1>0. T!TypeOK /\ results \in Seq(Result) /\ OneEntry(entries) /\ OneEntry(disk)
  BY DEF TrackerType
<1>1. CASE T!Tick
  BY <1>0, <1>1 DEF T!Tick, TrackerType, T!TypeOK, OneEntry, T!pollerVars, T!trackerVars, T!Time,
                    T!LimitsAssumption
<1>2. ASSUME NEW w \in Workspace, T!UpstreamChanges(w) PROVE TrackerType'
  <2>1. upstream \in [Workspace -> T!Report] /\ upstream[w] \in T!Report
    BY <1>0 DEF T!TypeOK
  <2>2. PICK r \in T!Report : upstream' = [upstream EXCEPT ![w] = r]
    <3>1. CASE upstream' = [upstream EXCEPT ![w].present = FALSE]
      <4>1. [upstream[w] EXCEPT !.present = FALSE] \in T!Report
        BY <2>1 DEF T!Report
      <4>2. QED
        BY <3>1, <4>1
    <3>2. ASSUME NEW a \in T!Kind \cup {"none"}, upstream' = [upstream EXCEPT ![w].attention = a]
          PROVE  \E r \in T!Report : upstream' = [upstream EXCEPT ![w] = r]
      <4>1. [upstream[w] EXCEPT !.attention = a] \in T!Report
        BY <2>1 DEF T!Report
      <4>2. QED
        BY <3>2, <4>1
    <3>3. CASE upstream[w].updated <= MaxUpdates
               /\ upstream' = [upstream EXCEPT ![w].updated = @ + 1]
      <4>1. [upstream[w] EXCEPT !.updated = @ + 1] \in T!Report
        BY <2>1, <3>3 DEF T!Report, T!LimitsAssumption
      <4>2. QED
        BY <3>3, <4>1
    <3>4. CASE /\ upstream[w].updated <= MaxUpdates /\ upstream[w].build < MaxBuilds
               /\ upstream' = [upstream EXCEPT ![w].updated = @ + 1, ![w].build = @ + 1]
      <4>1. [upstream[w] EXCEPT !.updated = @ + 1, !.build = @ + 1] \in T!Report
        BY <2>1, <3>4 DEF T!Report, T!LimitsAssumption
      <4>2. upstream' = [upstream EXCEPT ![w] =
                           [upstream[w] EXCEPT !.updated = @ + 1, !.build = @ + 1]]
        BY <2>1, <3>4 DEF T!Report
      <4>3. QED
        BY <4>1, <4>2
    <3>5. QED
      BY <1>2, <3>1, <3>2, <3>3, <3>4 DEF T!UpstreamChanges
  <2>3. upstream' \in [Workspace -> T!Report]
    BY <2>1, <2>2
  <2>4. QED
    BY <1>0, <1>2, <2>3 DEF T!UpstreamChanges, TrackerType, T!TypeOK, OneEntry, T!pollerVars,
                            T!trackerVars
<1>3. CASE T!FetchWorkspaces
  <2> DEFINE first == [w \in Workspace |->
                         [present |-> upstream[w].present, updated |-> upstream[w].updated]]
  <2>1. first \in [Workspace -> T!Listing]
    BY <1>0 DEF T!TypeOK, T!Report, T!Listing
  <2>2. listed' = {first}
    BY <1>3 DEF T!FetchWorkspaces
  <2> HIDE DEF first
  <2>3. QED
    BY <1>0, <1>3, <2>1, <2>2 DEF T!FetchWorkspaces, TrackerType, T!TypeOK, OneEntry, T!serverVars,
                                  T!trackerVars
<1>4. CASE T!FetchSummaries
  <2>1. PICK first \in listed :
          results' = T!Offered(results,
             [reports |-> [w \in Workspace |->
                             [upstream[w] EXCEPT !.present = first[w].present,
                                                 !.updated = first[w].updated]],
              at |-> now])
    BY <1>4 DEF T!FetchSummaries
  <2> DEFINE reports == [w \in Workspace |->
                           [upstream[w] EXCEPT !.present = first[w].present,
                                               !.updated = first[w].updated]]
             result == [reports |-> reports, at |-> now]
  <2>2. \A w \in Workspace : /\ upstream[w] \in T!Report
                             /\ first[w].present \in BOOLEAN
                             /\ first[w].updated \in 1 .. MaxUpdates + 1
    BY <1>0 DEF T!TypeOK, T!Listing
  <2>3. \A w \in Workspace : [upstream[w] EXCEPT !.present = first[w].present,
                                                 !.updated = first[w].updated] \in T!Report
    BY <2>2 DEF T!Report
  <2>4. reports \in [Workspace -> T!Report]
    BY <2>3
  <2> HIDE DEF reports
  <2>5. result \in Result
    BY <1>0, <2>4 DEF Result, T!TypeOK
  <2>6. results' = T!Offered(results, result)
    BY <2>1 DEF reports
  <2> HIDE DEF result
  <2>7. results' \in Seq(Result) /\ Len(results') \in 0 .. T!ChannelSize
    <3>1. Len(results) \in 0 .. T!ChannelSize
      BY <1>0 DEF T!TypeOK
    <3>2. QED
      BY <1>0, <2>5, <2>6, <3>1 DEF T!Offered, T!ChannelSize
  <2>8. \A n \in 1 .. Len(results') :
          results'[n].at \in T!Time /\ results'[n].reports \in [Workspace -> T!Report]
    BY <2>7, ResultsAre
  <2>9. QED
    BY <1>0, <1>4, <2>7, <2>8 DEF T!FetchSummaries, TrackerType, T!TypeOK, OneEntry, T!serverVars,
                                  T!trackerVars
<1>5. ASSUME results # <<>>, results' = Tail(results)
      PROVE  /\ results' \in Seq(Result) /\ Len(results') \in 0 .. T!ChannelSize
             /\ \A n \in 1 .. Len(results') :
                  results'[n].at \in T!Time /\ results'[n].reports \in [Workspace -> T!Report]
  <2>1. results' \in Seq(Result) /\ Len(results') = Len(results) - 1 /\ Len(results) \in Nat \ {0}
    BY <1>5, HeadIs DEF TrackerType
  <2>2. Len(results') \in 0 .. T!ChannelSize
    BY <1>0, <2>1 DEF T!TypeOK, T!ChannelSize
  <2>3. QED
    BY <2>1, <2>2, ResultsAre
<1>6. CASE T!SkipFirst
  BY <1>0, <1>5, <1>6 DEF T!SkipFirst, TrackerType, T!TypeOK, OneEntry, T!serverVars
<1>7. CASE T!HandleResult
  <2>1. entries' \subseteq T!Entry
    BY <1>7, HandledEntry DEF TrackerType
  <2>2. OneEntry(entries)'
    BY <1>7, HandledOnce
  <2>3. results # <<>> /\ Head(results).at \in T!Time
    BY <1>7, HeadIs DEF T!HandleResult
  <2>4. notices' \subseteq T!Key
    <3>1. notices' = {T!KeyOf(e) : e \in {x \in entries' \ entries : x.notified = Head(results).at}}
      BY <1>7 DEF T!HandleResult, T!Due
    <3>2. \A x \in entries' \ entries : x.notified = Head(results).at => T!KeyOf(x) \in T!Key
      BY <1>7, NotifiedEntry
    <3>3. QED
      BY <3>1, <3>2
  <2>5. told' \subseteq [key : T!Key, run : 0 .. MaxRuns]
    <3>1. /\ told' \subseteq told \cup {[key |-> k, run |-> runs] : k \in notices'}
          /\ told \subseteq [key : T!Key, run : 0 .. MaxRuns] /\ runs \in 0 .. MaxRuns
      BY <1>0, <1>7 DEF T!HandleResult, T!TypeOK
    <3>2. QED
      BY <2>4, <3>1
  <2>6. /\ results' = Tail(results) /\ lastPoll' \in T!Moment
        /\ UNCHANGED <<T!serverVars, listed, silent, disk, runs>>
    BY <1>7, <2>3 DEF T!HandleResult, T!Moment
  <2>7. /\ results' \in Seq(Result) /\ Len(results') \in 0 .. T!ChannelSize
        /\ \A n \in 1 .. Len(results') :
             results'[n].at \in T!Time /\ results'[n].reports \in [Workspace -> T!Report]
    BY <1>5, <2>3, <2>6
  <2>8. QED
    BY <1>0, <2>1, <2>2, <2>4, <2>5, <2>6, <2>7 DEF TrackerType, T!TypeOK, OneEntry, T!serverVars
<1>8. CASE T!SaveState
  <2>1. disk' \subseteq T!Entry /\ OneEntry(disk)'
    <3>1. disk' = disk \/ disk' = T!Persisted(entries)
      BY <1>8 DEF T!SaveState
    <3>2. QED
      BY <1>0, <3>1, PersistedEntries DEF T!TypeOK, OneEntry
  <2>2. QED
    BY <1>0, <1>8, <2>1 DEF T!SaveState, TrackerType, T!TypeOK, OneEntry, T!serverVars, T!pollerVars
<1>9. CASE T!Restart
  <2>1. /\ disk' \subseteq T!Entry /\ OneEntry(disk)'
        /\ entries' \subseteq T!Entry /\ OneEntry(entries)'
    BY <1>9, RestartEntries
  <2>2. results' = <<>> /\ runs' \in 0 .. MaxRuns
    BY <1>0, <1>9 DEF T!Restart, T!TypeOK, T!LimitsAssumption
  <2>3. QED
    BY <1>0, <1>9, <2>1, <2>2 DEF T!Restart, TrackerType, T!TypeOK, T!serverVars, T!Moment,
                                  T!ChannelSize
<1>10. CASE UNCHANGED T!vars
  BY <1>0, <1>10 DEF T!vars, TrackerType, T!TypeOK, OneEntry, T!serverVars, T!pollerVars,
                     T!trackerVars
<1>11. QED
  BY <1>1, <1>2, <1>3, <1>4, <1>6, <1>7, <1>8, <1>9, <1>10 DEF T!Next

\* The poller, the event loop and the tracker keep the types of their variables,
\* for every threshold.
THEOREM TrackerTypeCorrect ==
    ASSUME T!LimitsAssumption, T!ThresholdAssumption
    PROVE  T!Spec => []T!TypeOK
<1>1. TrackerType => T!TypeOK
  BY DEF TrackerType
<1>2. T!Init => TrackerType
  BY TrackerInitType
<1>3. TrackerType /\ [T!Next]_(T!vars) => TrackerType'
  BY TrackerNextType
<1>4. QED
  BY <1>1, <1>2, <1>3, PTL DEF T!Spec
-----------------------------------------------------------------------------
(* Nobody waits twice the longest threshold *)

\* The file has no update, and the first result of a run judges what it gave back
\* as an entry that is updated.
FromFile ==
    /\ \A e \in disk : e.updated = 0
    /\ lastPoll = T!Never => \A e \in entries : e.updated = 0

\* An entry that is not announced was seen for the first time by the last result,
\* or got its confirmation in time and has not waited for long since then.
Patient ==
    \A e \in entries :
        lastPoll # T!Never /\ e.notified = T!Never =>
           IF e.confirmed = T!Never
             THEN e.first = lastPoll
             ELSE e.confirmed - e.first < T!Longest /\ lastPoll - e.confirmed < T!Longest

WaitInv == TrackerType /\ FromFile /\ Patient

\* Both kinds of attention are to be announced.
AlwaysAnnounced == \A k \in T!Kind : threshold[k] > 0

\* The longest wait is a positive number that bounds every threshold.
LEMMA LongestIs ==
    ASSUME T!ThresholdAssumption, AlwaysAnnounced
    PROVE  /\ T!Longest \in Nat \ {0}
           /\ \A k \in T!Kind : threshold[k] \in Nat \ {0} /\ threshold[k] <= T!Longest
  BY DEF T!ThresholdAssumption, AlwaysAnnounced, T!Longest, T!Kind

\* An evaluated result leaves no entry that waits for too long.
LEMMA HandledPatient ==
    ASSUME T!LimitsAssumption, T!ThresholdAssumption, AlwaysAnnounced, WaitInv, T!HandleResult
    PROVE  FromFile' /\ Patient'
<1>0. TrackerType /\ entries \subseteq T!Entry /\ lastPoll \in T!Moment /\ FromFile /\ Patient
  BY DEF WaitInv, TrackerType, T!TypeOK
<1>1. /\ lastPoll' = Head(results).at /\ lastPoll' \in T!Time /\ lastPoll' # T!Never
      /\ lastPoll' \in Int /\ UNCHANGED disk
  BY <1>0, HeadIs DEF T!HandleResult, T!Time, T!Never, T!LimitsAssumption
<1>2. T!Longest \in Nat \ {0}
  BY LongestIs
<1>3. FromFile'
  BY <1>0, <1>1 DEF FromFile
<1>4. ASSUME NEW x \in entries', x.notified = T!Never
      PROVE  IF x.confirmed = T!Never
               THEN x.first = lastPoll'
               ELSE x.confirmed - x.first < T!Longest /\ lastPoll' - x.confirmed < T!Longest
  <2> DEFINE r == Head(results).reports[x.ws]
             limit == threshold[r.attention]
  <2>1. x \in T!Entry /\ EvaluatedTo(entries, x.ws, r, lastPoll', x) /\ r \in T!Report
    BY <1>0, <1>1, HandledEntry
  <2>2. r.attention \in T!Kind
    BY <2>1 DEF EvaluatedTo, T!Asks, T!Report
  <2>3. limit \in Nat \ {0} /\ limit <= T!Longest
    BY <2>2, LongestIs
  <2> HIDE DEF r
  <2>4. CASE x = T!Seen(x.ws, r, lastPoll')
    BY <2>4 DEF T!Seen
  <2>5. ASSUME NEW e \in T!Of(entries, x.ws), x = T!Judged(T!Adopted(e, r), limit, lastPoll')
        PROVE  IF x.confirmed = T!Never
                 THEN x.first = lastPoll'
                 ELSE x.confirmed - x.first < T!Longest /\ lastPoll' - x.confirmed < T!Longest
    <3>1. e \in entries /\ e \in T!Entry
      BY <1>0 DEF T!Of
    <3> HIDE DEF limit
    <3>2. /\ x.first = e.first
          /\ e.updated = r.updated /\ e.notified # T!Never => x = e
          /\ IF e.updated = r.updated /\ e.confirmed # T!Never
               THEN x.confirmed = e.confirmed /\ lastPoll' - x.confirmed < limit
               ELSE x.confirmed = lastPoll' /\ lastPoll' - x.first < limit
      BY <1>1, <1>4, <2>1, <2>3, <2>5, <3>1, JudgedEntry
    <3>3. x.first \in Int /\ (x.confirmed # T!Never => x.confirmed \in Int)
      BY <2>1 DEF T!Entry, T!Moment, T!Time, T!LimitsAssumption
    <3>4. CASE e.updated = r.updated /\ e.confirmed # T!Never
      <4>1. e.notified = T!Never
        BY <1>4, <3>2, <3>4
      <4>2. lastPoll # T!Never
        BY <1>0, <2>1, <3>1, <3>4 DEF FromFile, T!Report
      <4>3. e.confirmed - e.first < T!Longest
        BY <1>0, <3>1, <3>4, <4>1, <4>2 DEF Patient
      <4>4. QED
        BY <1>1, <1>2, <2>3, <3>2, <3>3, <3>4, <4>3
    <3>5. CASE ~(e.updated = r.updated /\ e.confirmed # T!Never)
      BY <1>1, <1>2, <2>3, <3>2, <3>3, <3>5
    <3>6. QED
      BY <3>4, <3>5
  <2>6. QED
    BY <2>1, <2>3, <2>4, <2>5 DEF EvaluatedTo
<1>5. QED
  BY <1>3, <1>4 DEF Patient

\* Every step keeps the invariant.
LEMMA NextWait ==
    ASSUME T!LimitsAssumption, T!ThresholdAssumption, AlwaysAnnounced, WaitInv, [T!Next]_(T!vars)
    PROVE  WaitInv'
<1>0. TrackerType' /\ TrackerType /\ FromFile /\ Patient
  BY TrackerNextType DEF WaitInv
<1>1. CASE UNCHANGED <<entries, disk, lastPoll>>
  BY <1>0, <1>1 DEF WaitInv, FromFile, Patient
<1>2. CASE T!HandleResult
  BY <1>0, <1>2, HandledPatient DEF WaitInv
<1>3. \A e \in T!Persisted(entries) : e.updated = 0
  <2>1. \A e \in entries : [e EXCEPT !.updated = 0].updated = 0
    BY <1>0 DEF TrackerType, T!TypeOK, T!Entry
  <2>2. QED
    BY <2>1 DEF T!Persisted
<1>4. CASE T!SaveState
  <2>1. \A e \in disk' : e.updated = 0
    BY <1>0, <1>3, <1>4 DEF T!SaveState, FromFile
  <2>2. QED
    BY <1>0, <1>4, <2>1 DEF T!SaveState, WaitInv, FromFile, Patient, T!pollerVars
<1>5. CASE T!Restart
  <2>1. \A e \in disk' : e.updated = 0
    BY <1>0, <1>3, <1>5 DEF T!Restart, FromFile
  <2>2. \A x \in entries' : x.updated = 0
    BY <1>0, <1>5, <2>1, RestartEntries
  <2>3. lastPoll' = T!Never
    BY <1>5 DEF T!Restart
  <2>4. QED
    BY <1>0, <2>1, <2>2, <2>3 DEF WaitInv, FromFile, Patient
<1>6. QED
  BY <1>1, <1>2, <1>4, <1>5 DEF T!Next, T!Tick, T!UpstreamChanges, T!FetchWorkspaces,
                                T!FetchSummaries,
                               T!SkipFirst, T!vars, T!trackerVars

\* Confirmed within one threshold and announced within the next.
LEMMA PatienceIsBounded ==
    ASSUME T!LimitsAssumption, T!ThresholdAssumption, AlwaysAnnounced
    PROVE  WaitInv => WaitIsBounded
<1> SUFFICES ASSUME WaitInv, NEW e \in entries, lastPoll # T!Never, e.notified = T!Never
             PROVE  lastPoll - e.first < 2 * T!Longest
  BY DEF WaitIsBounded, T!WaitIsBounded
<1>1. T!Longest \in Nat \ {0}
  BY LongestIs
<1>2. lastPoll \in Int /\ e.first \in Int /\ (e.confirmed # T!Never => e.confirmed \in Int)
  BY DEF WaitInv, TrackerType, T!TypeOK, T!Entry, T!Moment, T!Time, T!LimitsAssumption
<1>3. CASE e.confirmed = T!Never
  <2>1. e.first = lastPoll
    BY <1>3 DEF WaitInv, Patient
  <2>2. QED
    BY <1>1, <1>2, <2>1
<1>4. CASE e.confirmed # T!Never
  <2>1. e.confirmed - e.first < T!Longest /\ lastPoll - e.confirmed < T!Longest
    BY <1>4 DEF WaitInv, Patient
  <2>2. QED
    BY <1>1, <1>2, <1>4, <2>1
<1>5. QED
  BY <1>3, <1>4

\* Nobody is in the list before the first poll.
LEMMA InitWait == T!LimitsAssumption /\ T!Init => WaitInv
  BY TrackerInitType DEF T!Init, WaitInv, FromFile, Patient

\* However often a workspace is updated, whichever polls are lost, and across
\* restarts, nobody waits twice the longest threshold unannounced - as long as both
\* kinds of attention are to be announced: while a workspace asks for attention of
\* a kind with threshold 0 its entry is not looked at.
THEOREM WaitIsBoundedAlways ==
    ASSUME T!LimitsAssumption, T!ThresholdAssumption, AlwaysAnnounced
    PROVE  T!Spec => []WaitIsBounded
<1>1. WaitInv /\ [T!Next]_(T!vars) => WaitInv'
  BY NextWait
<1>2. QED
  BY <1>1, InitWait, PatienceIsBounded, PTL DEF T!Spec

-----------------------------------------------------------------------------
(* Nobody is told twice *)

NotAfter(a, b) == a.build <= b.build /\ a.updated <= b.updated

\* Nothing overtakes on the way from the server through the two requests, the
\* channel and the tracker to the file: builds and updates only grow.
EntriesBehind ==
    \A e \in entries :
        /\ NotAfter(e, upstream[e.ws])
        /\ \A first \in listed : e.updated <= first[e.ws].updated
        /\ \A n \in 1 .. Len(results) : NotAfter(e, results[n].reports[e.ws])
ResultsBehind ==
    \A w \in Workspace, n \in 1 .. Len(results) :
        /\ NotAfter(results[n].reports[w], upstream[w])
        /\ \A first \in listed : results[n].reports[w].updated <= first[w].updated
ResultsOrdered ==
    \A w \in Workspace, n \in 1 .. Len(results) :
        \A m \in 1 .. n : NotAfter(results[m].reports[w], results[n].reports[w])
ListingBehind ==
    \A first \in listed, w \in Workspace : first[w].updated <= upstream[w].updated
FileBehind == \A e \in disk : e.updated = 0 /\ e.build <= upstream[e.ws].build

\* What the tracker told somebody in this run it still knows: the entry is a later
\* one, or it is announced.
Remembers ==
    \A t \in told :
        /\ t.run <= runs
        /\ t.run = runs =>
              \E e \in entries : /\ e.ws = t.key.ws /\ NotAfter(t.key, e)
                                 /\ T!KeyOf(e) = t.key => e.notified # T!Never

Pipeline == EntriesBehind /\ ResultsBehind /\ ResultsOrdered /\ ListingBehind /\ FileBehind
ToldInv == TrackerType /\ Pipeline /\ Remembers

\* Builds and updates are numbers wherever they are.
LEMMA Numbers ==
    ASSUME T!LimitsAssumption, TrackerType
    PROVE  /\ \A w \in Workspace : upstream[w].build \in Int /\ upstream[w].updated \in Int
           /\ \A first \in listed, w \in Workspace : first[w].updated \in Int
           /\ \A w \in Workspace, n \in 1 .. Len(results) :
                results[n].reports[w].build \in Int /\ results[n].reports[w].updated \in Int
           /\ \A e \in entries \cup disk :
                e.ws \in Workspace /\ e.build \in Int /\ e.updated \in Int
<1>1. \A r \in T!Report : r.build \in Int /\ r.updated \in Int
  BY DEF T!Report, T!LimitsAssumption
<1>2. \A e \in T!Entry : e.ws \in Workspace /\ e.build \in Int /\ e.updated \in Int
  BY DEF T!Entry, T!LimitsAssumption
<1>3. \A first \in listed, w \in Workspace : first[w].updated \in Int
  BY DEF TrackerType, T!TypeOK, T!Listing, T!LimitsAssumption
<1>4. \A w \in Workspace, n \in 1 .. Len(results) : results[n].reports[w] \in T!Report
  BY DEF TrackerType, T!TypeOK
<1>5. upstream \in [Workspace -> T!Report] /\ entries \cup disk \subseteq T!Entry
  BY DEF TrackerType, T!TypeOK
<1>6. QED
  BY <1>1, <1>2, <1>3, <1>4, <1>5

\* A change of a workspace never takes back a build or an update.
LEMMA UpstreamGrows ==
    ASSUME T!LimitsAssumption, TrackerType, NEW w \in Workspace, T!UpstreamChanges(w)
    PROVE  \A v \in Workspace : NotAfter(upstream[v], upstream'[v])
<1>1. upstream \in [Workspace -> T!Report] /\ upstream[w] \in T!Report
  BY DEF TrackerType, T!TypeOK
<1>2. \A v \in Workspace : upstream[v].build \in Int /\ upstream[v].updated \in Int
  BY Numbers
<1>3. CASE upstream' = [upstream EXCEPT ![w].present = FALSE]
  BY <1>1, <1>2, <1>3 DEF NotAfter, T!Report
<1>4. ASSUME NEW a \in T!Kind \cup {"none"}, upstream' = [upstream EXCEPT ![w].attention = a]
      PROVE  \A v \in Workspace : NotAfter(upstream[v], upstream'[v])
  BY <1>1, <1>2, <1>4 DEF NotAfter, T!Report
<1>5. CASE upstream' = [upstream EXCEPT ![w].updated = @ + 1]
  BY <1>1, <1>2, <1>5 DEF NotAfter, T!Report
<1>6. CASE upstream' = [upstream EXCEPT ![w].updated = @ + 1, ![w].build = @ + 1]
  BY <1>1, <1>2, <1>6 DEF NotAfter, T!Report
<1>7. QED
  BY <1>3, <1>4, <1>5, <1>6 DEF T!UpstreamChanges

\* The entries after a result are of that result, or older.
LEMMA HandledBehind ==
    ASSUME T!LimitsAssumption, T!ThresholdAssumption, TrackerType, Pipeline, T!HandleResult,
           NEW x \in entries'
    PROVE  /\ x.ws \in Workspace /\ NotAfter(x, results[1].reports[x.ws])
           /\ x.build \in Int /\ x.updated \in Int
<1> DEFINE r == Head(results).reports[x.ws]
<1>1. /\ x \in T!Entry /\ EvaluatedTo(entries, x.ws, r, Head(results).at, x) /\ r \in T!Report
      /\ Head(results).at \in T!Time
  BY HandledEntry
<1>2. x.ws \in Workspace /\ x.build \in Int /\ x.updated \in Int
  BY <1>1 DEF T!Entry, T!LimitsAssumption
<1>3. Head(results) = results[1] /\ 1 \in 1 .. Len(results)
  BY HeadIs DEF T!HandleResult
<1>4. r.build \in Int /\ r.updated \in Int
  BY <1>1 DEF T!Report, T!LimitsAssumption
<1>5. CASE x \in T!Of(entries, x.ws)
  BY <1>2, <1>3, <1>5 DEF T!Of, Pipeline, EntriesBehind
<1>6. CASE x = T!Seen(x.ws, r, Head(results).at)
  <2>1. x.build = r.build /\ x.updated = r.updated
    BY <1>6 DEF T!Seen
  <2>2. QED
    BY <1>2, <1>3, <2>1 DEF NotAfter
<1>7. ASSUME NEW e \in T!Of(entries, x.ws), T!Asks(r), e.build = r.build,
             x = T!Judged(T!Adopted(e, r), threshold[r.attention], Head(results).at)
      PROVE  NotAfter(x, results[1].reports[x.ws])
  <2>1. e \in T!Entry /\ threshold[r.attention] \in Nat
    BY <1>1, <1>7 DEF T!Of, TrackerType, T!TypeOK, T!ThresholdAssumption, T!Asks, T!Report
  <2> HIDE DEF r
  <2>2. x.build = r.build /\ x.updated = r.updated
    BY <1>1, <1>7, <2>1, JudgedEntry
  <2>3. NotAfter(x, r)
    BY <1>4, <2>2 DEF NotAfter
  <2>4. QED
    BY <1>3, <2>3 DEF r
<1>8. \/ x \in T!Of(entries, x.ws) \/ x = T!Seen(x.ws, r, Head(results).at)
      \/ T!Asks(r) /\ \E e \in T!Of(entries, x.ws) :
           e.build = r.build /\ x = T!Judged(T!Adopted(e, r), threshold[r.attention],
                   Head(results).at)
  BY <1>1 DEF EvaluatedTo
<1>9. NotAfter(x, results[1].reports[x.ws])
  BY <1>5, <1>6, <1>7, <1>8
<1>10. QED
  BY <1>2, <1>9

\* The rest of the channel, once the event loop has taken a result.
LEMMA TailBehind ==
    ASSUME TrackerType, Pipeline, results # <<>>, results' = Tail(results),
           UNCHANGED <<upstream, listed>>
    PROVE  /\ ResultsBehind' /\ ResultsOrdered' /\ ListingBehind'
           /\ \A n \in 1 .. Len(results') : n + 1 \in 1 .. Len(results)
                                            /\ results'[n] = results[n + 1]
<1>1. \A n \in 1 .. Len(results') : n + 1 \in 1 .. Len(results) /\ results'[n] = results[n + 1]
  BY HeadIs
<1>2. ResultsBehind' /\ ListingBehind'
  BY <1>1 DEF Pipeline, ResultsBehind, ListingBehind
<1>3. ResultsOrdered'
  <2> SUFFICES ASSUME NEW w \in Workspace, NEW n \in 1 .. Len(results'), NEW m \in 1 .. n
               PROVE  NotAfter(results'[m].reports[w], results'[n].reports[w])
    BY DEF ResultsOrdered
  <2>1. m \in 1 .. Len(results') /\ m + 1 \in 1 .. n + 1
    BY HeadIs
  <2>2. /\ results'[m] = results[m + 1] /\ results'[n] = results[n + 1]
        /\ n + 1 \in 1 .. Len(results)
    BY <1>1, <2>1
  <2>3. QED
    BY <2>1, <2>2 DEF Pipeline, ResultsOrdered
<1>4. QED
  BY <1>1, <1>2, <1>3

\* Every step keeps the order of the pipeline.
LEMMA NextPipeline ==
    ASSUME T!LimitsAssumption, T!ThresholdAssumption, TrackerType, Pipeline, [T!Next]_(T!vars)
    PROVE  Pipeline'
<1>0. /\ T!TypeOK /\ EntriesBehind /\ ResultsBehind /\ ResultsOrdered /\ ListingBehind
      /\ FileBehind
  BY DEF TrackerType, Pipeline
<1>1. CASE UNCHANGED <<upstream, listed, results, entries, disk>>
  BY <1>0, <1>1 DEF Pipeline, EntriesBehind, ResultsBehind, ResultsOrdered, ListingBehind,
                    FileBehind
<1>2. ASSUME NEW v \in Workspace, T!UpstreamChanges(v) PROVE Pipeline'
  <2>1. UNCHANGED <<listed, results, entries, disk>>
    BY <1>2 DEF T!UpstreamChanges, T!pollerVars, T!trackerVars
  <2>2. \A w \in Workspace : NotAfter(upstream[w], upstream'[w])
    BY <1>2, UpstreamGrows
  <2>3. \A w \in Workspace : /\ upstream[w].build \in Int /\ upstream[w].updated \in Int
                             /\ upstream'[w].build \in Int /\ upstream'[w].updated \in Int
    <3>1. TrackerType'
      BY <1>2, TrackerNextType DEF T!Next
    <3>2. upstream' \in [Workspace -> T!Report]
      BY <3>1 DEF TrackerType, T!TypeOK
    <3>3. \A r \in T!Report : r.build \in Int /\ r.updated \in Int
      BY DEF T!Report, T!LimitsAssumption
    <3>4. QED
      BY <3>2, <3>3, Numbers
  <2>4. EntriesBehind' /\ FileBehind'
    <3>1. \A e \in entries : NotAfter(e, upstream'[e.ws])
      BY <1>0, <2>2, <2>3, Numbers DEF EntriesBehind, NotAfter
    <3>2. \A e \in disk : e.updated = 0 /\ e.build <= upstream'[e.ws].build
      BY <1>0, <2>2, <2>3, Numbers DEF FileBehind, NotAfter
    <3>3. QED
      BY <1>0, <2>1, <3>1, <3>2 DEF EntriesBehind, FileBehind
  <2>5. ResultsBehind' /\ ListingBehind'
    <3>1. \A w \in Workspace, n \in 1 .. Len(results) :
            NotAfter(results[n].reports[w], upstream'[w])
      BY <1>0, <2>2, <2>3, Numbers DEF ResultsBehind, NotAfter
    <3>2. \A first \in listed, w \in Workspace : first[w].updated <= upstream'[w].updated
      BY <1>0, <2>2, <2>3, Numbers DEF ListingBehind, NotAfter
    <3>3. QED
      BY <1>0, <2>1, <3>1, <3>2 DEF ResultsBehind, ListingBehind
  <2>6. QED
    BY <1>0, <2>1, <2>4, <2>5 DEF Pipeline, ResultsOrdered
<1>3. CASE T!FetchWorkspaces
  <2>1. /\ UNCHANGED <<upstream, results, entries, disk>>
        /\ \A first \in listed', w \in Workspace : first[w].updated = upstream[w].updated
    BY <1>3 DEF T!FetchWorkspaces, T!serverVars, T!trackerVars
  <2>2. \A w \in Workspace : upstream[w].updated \in Int
    BY Numbers
  <2>3. ListingBehind'
    BY <2>1, <2>2 DEF ListingBehind
  <2>4. EntriesBehind'
    BY <1>0, <2>1, Numbers DEF EntriesBehind, NotAfter
  <2>5. ResultsBehind'
    BY <1>0, <2>1 DEF ResultsBehind, NotAfter
  <2>6. QED
    BY <1>0, <2>1, <2>3, <2>4, <2>5 DEF Pipeline, ResultsOrdered, FileBehind
<1>4. CASE T!FetchSummaries
  <2>1. PICK first \in listed :
          results' = T!Offered(results,
             [reports |-> [w \in Workspace |->
                             [upstream[w] EXCEPT !.present = first[w].present,
                                                 !.updated = first[w].updated]],
              at |-> now])
    BY <1>4 DEF T!FetchSummaries
  <2> DEFINE reports == [w \in Workspace |->
                           [upstream[w] EXCEPT !.present = first[w].present,
                                               !.updated = first[w].updated]]
             result == [reports |-> reports, at |-> now]
  <2>2. \A w \in Workspace : reports[w].build = upstream[w].build
                             /\ reports[w].updated = first[w].updated
    BY <1>0 DEF T!TypeOK, T!Report
  <2>3. result.reports = reports
    OBVIOUS
  <2>4. results' = T!Offered(results, result)
    BY <2>1
  <2> HIDE DEF reports, result
  <2>5. UNCHANGED <<upstream, entries, disk>> /\ listed' = {}
    BY <1>4 DEF T!FetchSummaries, T!serverVars, T!trackerVars
  <2>6. \A n \in 1 .. Len(results') :
          \/ n \in 1 .. Len(results) /\ results'[n] = results[n]
          \/ n = Len(results') /\ results'[n] = result
    BY <2>4 DEF T!Offered, TrackerType
  <2>7. /\ \A e \in entries : NotAfter(e, reports[e.ws])
        /\ \A w \in Workspace : NotAfter(reports[w], upstream[w])
        /\ \A w \in Workspace, n \in 1 .. Len(results) : NotAfter(results[n].reports[w], reports[w])
    <3>1. \A e \in entries : NotAfter(e, reports[e.ws])
      BY <1>0, <2>2, Numbers DEF EntriesBehind, NotAfter
    <3>2. \A w \in Workspace : NotAfter(reports[w], upstream[w])
      BY <1>0, <2>2, Numbers DEF ListingBehind, NotAfter
    <3>3. \A w \in Workspace, n \in 1 .. Len(results) : NotAfter(results[n].reports[w], reports[w])
      BY <1>0, <2>2, Numbers DEF ResultsBehind, NotAfter
    <3>4. QED
      BY <3>1, <3>2, <3>3
  <2>8. EntriesBehind' /\ ResultsBehind' /\ ListingBehind' /\ FileBehind'
    <3>1. EntriesBehind'
      BY <1>0, <2>3, <2>5, <2>6, <2>7 DEF EntriesBehind
    <3>2. ResultsBehind'
      BY <1>0, <2>3, <2>5, <2>6, <2>7 DEF ResultsBehind
    <3>3. QED
      BY <1>0, <2>5, <3>1, <3>2 DEF ListingBehind, FileBehind
  <2>9. ResultsOrdered'
    <3> SUFFICES ASSUME NEW w \in Workspace, NEW n \in 1 .. Len(results'), NEW m \in 1 .. n
                 PROVE  NotAfter(results'[m].reports[w], results'[n].reports[w])
      BY DEF ResultsOrdered
    <3>1. Len(results') \in Nat
      BY <1>4, TrackerNextType DEF T!Next, TrackerType
    <3>2. m \in 1 .. Len(results') /\ m <= n
      BY <3>1
    <3>3. CASE n \in 1 .. Len(results) /\ results'[n] = results[n]
      <4>1. m \in 1 .. Len(results) /\ m \in 1 .. n
        BY <3>3 DEF TrackerType
      <4>2. results'[m] = results[m]
        <5>1. CASE m = n
          BY <3>3, <5>1
        <5>2. CASE m # n
          <6>1. m # Len(results')
            BY <3>1, <3>2, <5>2
          <6>2. QED
            BY <2>6, <3>2, <6>1
        <5>3. QED
          BY <5>1, <5>2
      <4>3. QED
        BY <1>0, <3>3, <4>1, <4>2 DEF ResultsOrdered
    <3>4. CASE results'[n] = result
      <4>1. CASE m \in 1 .. Len(results) /\ results'[m] = results[m]
        BY <2>3, <2>7, <3>4, <4>1
      <4>2. CASE results'[m] = result
        <5>1. reports[w].build \in Int /\ reports[w].updated \in Int
          BY <2>2, Numbers
        <5>2. QED
          BY <2>3, <3>4, <4>2, <5>1 DEF NotAfter
      <4>3. QED
        BY <2>6, <3>2, <4>1, <4>2
    <3>5. QED
      BY <2>6, <3>3, <3>4
  <2>10. QED
    BY <2>8, <2>9 DEF Pipeline
<1>5. CASE T!SkipFirst
  <2>1. /\ results # <<>> /\ results' = Tail(results)
        /\ UNCHANGED <<upstream, listed, entries, disk>>
    BY <1>5 DEF T!SkipFirst, T!serverVars
  <2>2. /\ ResultsBehind' /\ ResultsOrdered' /\ ListingBehind'
        /\ \A n \in 1 .. Len(results') : n + 1 \in 1 .. Len(results)
                                         /\ results'[n] = results[n + 1]
    BY <2>1, TailBehind
  <2>3. EntriesBehind'
    BY <1>0, <2>1, <2>2 DEF EntriesBehind
  <2>4. QED
    BY <1>0, <2>1, <2>2, <2>3 DEF Pipeline, FileBehind
<1>6. CASE T!HandleResult
  <2>1. /\ results # <<>> /\ results' = Tail(results)
        /\ UNCHANGED <<upstream, listed, disk>>
    BY <1>6 DEF T!HandleResult, T!serverVars
  <2>2. /\ ResultsBehind' /\ ResultsOrdered' /\ ListingBehind'
        /\ \A n \in 1 .. Len(results') : n + 1 \in 1 .. Len(results)
                                         /\ results'[n] = results[n + 1]
    BY <2>1, TailBehind
  <2>3. Len(results) \in Nat \ {0} /\ 1 \in 1 .. Len(results)
    BY <2>1, HeadIs
  <2>4. ASSUME NEW x \in entries'
        PROVE  /\ NotAfter(x, upstream[x.ws])
               /\ \A first \in listed : x.updated <= first[x.ws].updated
               /\ \A n \in 1 .. Len(results') : NotAfter(x, results'[n].reports[x.ws])
    <3>1. /\ x.ws \in Workspace /\ NotAfter(x, results[1].reports[x.ws])
          /\ x.build \in Int /\ x.updated \in Int
      BY <1>6, HandledBehind
    <3>2. /\ results[1].reports[x.ws].build \in Int /\ results[1].reports[x.ws].updated \in Int
          /\ upstream[x.ws].build \in Int /\ upstream[x.ws].updated \in Int
          /\ \A first \in listed : first[x.ws].updated \in Int
      BY <2>3, <3>1, Numbers
    <3>3. NotAfter(x, upstream[x.ws])
      BY <1>0, <2>3, <3>1, <3>2 DEF ResultsBehind, NotAfter
    <3>4. \A first \in listed : x.updated <= first[x.ws].updated
      BY <1>0, <2>3, <3>1, <3>2 DEF ResultsBehind, NotAfter
    <3>5. ASSUME NEW n \in 1 .. Len(results')
          PROVE  NotAfter(x, results'[n].reports[x.ws])
      <4>1. n + 1 \in 1 .. Len(results) /\ results'[n] = results[n + 1] /\ 1 \in 1 .. n + 1
        BY <2>2, <2>3
      <4>2. NotAfter(results[1].reports[x.ws], results[n + 1].reports[x.ws])
        BY <1>0, <3>1, <4>1 DEF ResultsOrdered
      <4>3. /\ results[n + 1].reports[x.ws].build \in Int
            /\ results[n + 1].reports[x.ws].updated \in Int
        BY <3>1, <4>1, Numbers
      <4>4. QED
        BY <3>1, <3>2, <4>1, <4>2, <4>3 DEF NotAfter
    <3>6. QED
      BY <3>3, <3>4, <3>5
  <2>5. EntriesBehind'
    BY <2>1, <2>4 DEF EntriesBehind
  <2>6. QED
    BY <1>0, <2>1, <2>2, <2>5 DEF Pipeline, FileBehind
<1>7. ASSUME disk' = disk \/ disk' = T!Persisted(entries), UNCHANGED upstream PROVE FileBehind'
  <2>1. \A e \in T!Persisted(entries) : e.updated = 0 /\ e.build <= upstream[e.ws].build
    <3>1. \A e \in entries : /\ [e EXCEPT !.updated = 0].updated = 0
                             /\ [e EXCEPT !.updated = 0].build = e.build
                             /\ [e EXCEPT !.updated = 0].ws = e.ws
      BY <1>0 DEF T!TypeOK, T!Entry
    <3>2. \A e \in entries : e.build <= upstream[e.ws].build
      BY <1>0 DEF EntriesBehind, NotAfter
    <3>3. \A x \in T!Persisted(entries) : \E e \in entries : x = [e EXCEPT !.updated = 0]
      BY DEF T!Persisted
    <3>4. ASSUME NEW x \in T!Persisted(entries)
          PROVE  x.updated = 0 /\ x.build <= upstream[x.ws].build
      <4>1. PICK e \in entries : x = [e EXCEPT !.updated = 0]
        BY <3>3
      <4>2. x.updated = 0 /\ x.build = e.build /\ x.ws = e.ws
        BY <3>1, <4>1
      <4>3. QED
        BY <3>2, <4>2
    <3>5. QED
      BY <3>4
  <2>2. QED
    BY <1>0, <1>7, <2>1 DEF FileBehind
<1>8. CASE T!SaveState
  <2>1. UNCHANGED <<upstream, listed, results, entries>>
    BY <1>8 DEF T!SaveState, T!serverVars, T!pollerVars
  <2>2. FileBehind'
    BY <1>7, <1>8, <2>1 DEF T!SaveState
  <2>3. QED
    BY <1>0, <2>1, <2>2 DEF Pipeline, EntriesBehind, ResultsBehind, ResultsOrdered, ListingBehind
<1>9. CASE T!Restart
  <2>1. listed' = {} /\ results' = <<>> /\ UNCHANGED upstream
    BY <1>9 DEF T!Restart, T!serverVars
  <2>2. FileBehind'
    BY <1>7, <1>9, <2>1 DEF T!Restart
  <2>3. EntriesBehind'
    <3>1. ASSUME NEW x \in entries' PROVE NotAfter(x, upstream[x.ws])
      <4>1. PICK e \in disk' : x.ws = e.ws /\ x.build = e.build /\ x.updated = e.updated
        BY <1>9, RestartEntries
      <4>2. e \in T!Entry
        BY <1>9, RestartEntries
      <4>3. upstream[e.ws].updated \in 1 .. MaxUpdates + 1
        BY <1>0, <4>2 DEF T!TypeOK, T!Entry, T!Report
      <4>4. QED
        BY <2>1, <2>2, <4>1, <4>3 DEF FileBehind, NotAfter, T!LimitsAssumption
    <3>2. QED
      BY <2>1, <3>1 DEF EntriesBehind
  <2>4. QED
    BY <2>1, <2>2, <2>3 DEF Pipeline, ResultsBehind, ResultsOrdered, ListingBehind
<1>10. QED
  BY <1>1, <1>2, <1>3, <1>4, <1>5, <1>6, <1>8, <1>9
     DEF T!Next, T!Tick, T!pollerVars, T!trackerVars, T!vars, T!serverVars

\* What the tracker told in an earlier moment of the run it still knows after a
\* result in which the workspace asks for attention.
LEMMA HandledKeeps ==
    ASSUME T!LimitsAssumption, T!ThresholdAssumption, ToldInv, T!HandleResult,
           NEW k \in T!Key, T!Asks(Head(results).reports[k.ws]),
           NEW e \in entries, e.ws = k.ws, NotAfter(k, e), T!KeyOf(e) = k => e.notified # T!Never
    PROVE  \E x \in entries' : /\ x.ws = k.ws /\ NotAfter(k, x)
                               /\ T!KeyOf(x) = k => x.notified # T!Never
<1> DEFINE r == Head(results).reports[k.ws]
           at == Head(results).at
<1>0. TrackerType /\ EntriesBehind /\ entries \subseteq T!Entry
  BY DEF ToldInv, Pipeline, TrackerType, T!TypeOK
<1>1. Head(results) = results[1] /\ 1 \in 1 .. Len(results) /\ r \in T!Report /\ at \in T!Time
  BY <1>0, HeadIs DEF T!HandleResult, T!Key
<1>2. /\ e \in T!Of(entries, k.ws) /\ e \in T!Entry /\ k.ws \in Workspace
      /\ e.build \in Int /\ e.updated \in Int
      /\ k.build \in Int /\ k.updated \in Int /\ r.build \in Int /\ r.updated \in Int
  BY <1>0, <1>1 DEF T!Of, T!Entry, T!Key, T!Report, T!LimitsAssumption
<1>3. NotAfter(e, r)
  BY <1>0, <1>1 DEF EntriesBehind
<1>4. \A x : EvaluatedTo(entries, k.ws, r, at, x) => x \in entries'
  BY <1>0, <1>2, HandledEntries
<1>5. T!Asks(r)
  OBVIOUS
<1> HIDE DEF r, at
<1>6. CASE threshold[r.attention] = 0
  <2>1. e \in entries'
    BY <1>2, <1>4, <1>5, <1>6 DEF EvaluatedTo
  <2>2. QED
    BY <2>1
<1>7. CASE threshold[r.attention] # 0 /\ \A f \in T!Of(entries, k.ws) : f.build # r.build
  <2> DEFINE x == T!Seen(k.ws, r, at)
  <2>1. x \in entries'
    BY <1>4, <1>5, <1>7 DEF EvaluatedTo
  <2>2. x.ws = k.ws /\ x.build = r.build /\ x.updated = r.updated
    BY DEF T!Seen
  <2> HIDE DEF x
  <2>3. NotAfter(k, x)
    BY <1>2, <1>3, <2>2 DEF NotAfter
  <2>4. T!KeyOf(x) # k
    <3>1. e.build < r.build
      BY <1>2, <1>3, <1>7 DEF NotAfter
    <3>2. k.build # x.build
      BY <1>2, <2>2, <3>1 DEF NotAfter
    <3>3. T!KeyOf(x).build = x.build
      BY DEF T!KeyOf
    <3>4. QED
      BY <3>2, <3>3
  <2>5. QED
    BY <2>1, <2>2, <2>3, <2>4
<1>8. ASSUME threshold[r.attention] # 0,
             NEW f \in T!Of(entries, k.ws), f.build = r.build
      PROVE  \E x \in entries' : /\ x.ws = k.ws /\ NotAfter(k, x)
                                 /\ T!KeyOf(x) = k => x.notified # T!Never
  <2>1. f = e /\ e.build = r.build
    BY <1>0, <1>2, <1>8 DEF T!Of, TrackerType, OneEntry
  <2> DEFINE x == T!Judged(T!Adopted(e, r), threshold[r.attention], at)
  <2>2. x \in entries'
    BY <1>2, <1>4, <1>5, <1>8, <2>1 DEF EvaluatedTo
  <2>3. threshold[r.attention] \in Nat
    BY <1>1, <1>5 DEF T!ThresholdAssumption, T!Asks, T!Report
  <2>4. /\ x.ws = e.ws /\ x.build = e.build /\ x.updated = r.updated
        /\ e.updated = r.updated /\ e.notified # T!Never => x = e
    BY <1>1, <1>2, <2>3, JudgedEntry
  <2> HIDE DEF x
  <2>5. NotAfter(k, x)
    BY <1>2, <1>3, <2>4 DEF NotAfter
  <2>6. ASSUME T!KeyOf(x) = k PROVE x.notified # T!Never
    <3>1. k.updated = x.updated /\ k.build = x.build
      BY <2>6 DEF T!KeyOf
    <3>2. e.updated = r.updated
      BY <1>2, <1>3, <2>4, <3>1 DEF NotAfter
    <3>3. T!KeyOf(e) = T!KeyOf(x)
      BY <2>4, <3>2 DEF T!KeyOf
    <3>4. x = e
      BY <2>4, <2>6, <3>2, <3>3
    <3>5. QED
      BY <2>6, <3>3, <3>4
  <2>7. QED
    BY <2>2, <2>4, <2>5, <2>6
<1>9. QED
  BY <1>6, <1>7, <1>8

\* Every key of a notice is that of an entry that has just been announced.
LEMMA NoticesAre ==
    ASSUME T!LimitsAssumption, T!ThresholdAssumption, TrackerType, T!HandleResult,
           NEW k \in notices'
    PROVE  \E x \in entries' : x \notin entries /\ x.notified = Head(results).at /\ k = T!KeyOf(x)
<1>1. notices' = T!Due(entries, entries', Head(results).at)
  BY DEF T!HandleResult
<1>2. \A S, U, at : \A y \in T!Due(S, U, at) :
        \E x \in U : x \notin S /\ x.notified = at /\ y = T!KeyOf(x)
  BY DEF T!Due
<1>3. QED
  BY <1>1, <1>2

\* An evaluated result forgets nothing that it may not forget.
LEMMA HandledRemembers ==
    ASSUME T!LimitsAssumption, T!ThresholdAssumption, ToldInv, T!HandleResult
    PROVE  Remembers'
<1>0. /\ TrackerType /\ Remembers /\ runs' = runs /\ runs \in Int
      /\ told \subseteq [key : T!Key, run : 0 .. MaxRuns]
  <2>1. TrackerType /\ Remembers
    BY DEF ToldInv
  <2>2. runs \in Int /\ told \subseteq [key : T!Key, run : 0 .. MaxRuns]
    BY <2>1 DEF TrackerType, T!TypeOK, T!LimitsAssumption
  <2>3. runs' = runs
    BY DEF T!HandleResult
  <2>4. QED
    BY <2>1, <2>2, <2>3
<1>6. told' = {t \in told : T!Asks(Head(results).reports[t.key.ws])}
                \cup {[key |-> k, run |-> runs] : k \in notices'}
  BY DEF T!HandleResult
<1> SUFFICES ASSUME NEW t \in told'
             PROVE  /\ t.run <= runs
                    /\ t.run = runs =>
                         \E x \in entries' : /\ x.ws = t.key.ws /\ NotAfter(t.key, x)
                                             /\ T!KeyOf(x) = t.key => x.notified # T!Never
  BY <1>0 DEF Remembers
<1> DEFINE Remains ==
             /\ t.run <= runs
             /\ t.run = runs =>
                  \E x \in entries' : /\ x.ws = t.key.ws /\ NotAfter(t.key, x)
                                      /\ T!KeyOf(x) = t.key => x.notified # T!Never
<1>1. ASSUME t \in told, T!Asks(Head(results).reports[t.key.ws]) PROVE Remains
  <2>1. t.run <= runs /\ t.key \in T!Key
    BY <1>0, <1>1 DEF Remembers
  <2>2. ASSUME t.run = runs
        PROVE  \E x \in entries' : /\ x.ws = t.key.ws /\ NotAfter(t.key, x)
                                   /\ T!KeyOf(x) = t.key => x.notified # T!Never
    <3>1. PICK e \in entries : /\ e.ws = t.key.ws /\ NotAfter(t.key, e)
                               /\ T!KeyOf(e) = t.key => e.notified # T!Never
      BY <1>0, <1>1, <2>2 DEF Remembers
    <3>2. QED
      BY <1>1, <2>1, <3>1, HandledKeeps
  <2>3. QED
    BY <2>1, <2>2
<1>2. ASSUME NEW k \in notices', t = [key |-> k, run |-> runs]
      PROVE  Remains
  <2>1. PICK x \in entries' : x \notin entries /\ x.notified = Head(results).at /\ k = T!KeyOf(x)
    BY <1>0, <1>2, NoticesAre
  <2>2. Head(results).at \in T!Time
    BY <1>0, HeadIs DEF T!HandleResult
  <2>3. x.notified # T!Never
    BY <2>1, <2>2 DEF T!Time, T!Never, T!LimitsAssumption
  <2>4. x.build \in Int /\ x.updated \in Int
    BY <1>0, HandledEntry DEF T!Entry, T!LimitsAssumption
  <2>5. t.key = T!KeyOf(x) /\ t.run = runs /\ t.key.ws = x.ws /\ NotAfter(t.key, x)
    BY <1>2, <2>1, <2>4 DEF T!KeyOf, NotAfter
  <2>6. QED
    BY <1>0, <2>3, <2>5
<1>3. \/ t \in told /\ T!Asks(Head(results).reports[t.key.ws])
      \/ \E k \in notices' : t = [key |-> k, run |-> runs]
  BY <1>6
<1> HIDE DEF Remains
<1>4. Remains
  BY <1>1, <1>2, <1>3
<1>5. QED
  BY <1>4 DEF Remains

\* Every step keeps what the tracker told in mind.
LEMMA NextRemembers ==
    ASSUME T!LimitsAssumption, T!ThresholdAssumption, ToldInv, [T!Next]_(T!vars)
    PROVE  Remembers'
<1>1. CASE UNCHANGED <<told, entries, runs>>
  BY <1>1 DEF ToldInv, Remembers
<1>2. CASE T!HandleResult
  BY <1>2, HandledRemembers
<1>3. CASE T!Restart
  <2>1. runs' = runs + 1 /\ told' = told /\ runs \in Int
    BY <1>3 DEF T!Restart, ToldInv, TrackerType, T!TypeOK, T!LimitsAssumption
  <2>2. \A t \in told : t.run \in Int /\ t.run <= runs
    BY DEF ToldInv, TrackerType, T!TypeOK, Remembers, T!LimitsAssumption
  <2>3. QED
    BY <2>1, <2>2 DEF Remembers
<1>4. QED
  BY <1>1, <1>2, <1>3
     DEF T!Next, T!Tick, T!UpstreamChanges, T!FetchWorkspaces, T!FetchSummaries, T!SkipFirst,
         T!SaveState,
         T!pollerVars, T!trackerVars, T!vars, T!serverVars

\* A result sends no notice that was sent in the same run, unless the workspace
\* stopped asking for attention in between.
LEMMA HandledIsNew ==
    ASSUME T!LimitsAssumption, T!ThresholdAssumption, ToldInv, T!HandleResult, NEW k \in notices'
    PROVE  [key |-> k, run |-> runs] \notin told
<1>0. TrackerType /\ EntriesBehind /\ Remembers /\ entries \subseteq T!Entry
  BY DEF ToldInv, Pipeline, TrackerType, T!TypeOK
<1>1. PICK x \in entries' : x \notin entries /\ x.notified = Head(results).at /\ k = T!KeyOf(x)
  BY <1>0, NoticesAre
<1> DEFINE r == Head(results).reports[x.ws]
<1>2. /\ T!KeyOf(x) \in T!Key /\ x.build = r.build /\ x.updated = r.updated
      /\ \E e \in entries : /\ e.ws = x.ws /\ e.build = r.build
                            /\ e.updated = r.updated => e.notified = T!Never
  BY <1>0, <1>1, NotifiedEntry
<1>3. PICK e \in entries : /\ e.ws = x.ws /\ e.build = r.build
                           /\ e.updated = r.updated => e.notified = T!Never
  BY <1>2
<1>4. Head(results) = results[1] /\ 1 \in 1 .. Len(results)
  BY <1>0, HeadIs DEF T!HandleResult
<1>5. NotAfter(e, r)
  BY <1>0, <1>3, <1>4 DEF EntriesBehind
<1> HIDE DEF r
<1>6. k.ws = x.ws /\ k.build = r.build /\ k.updated = r.updated
      /\ k.updated \in Int /\ e.updated \in Int
  BY <1>0, <1>1, <1>2 DEF T!KeyOf, T!Key, T!Entry, T!LimitsAssumption
<1>7. SUFFICES ASSUME [key |-> k, run |-> runs] \in told PROVE FALSE
  OBVIOUS
<1>8. PICK f \in entries : /\ f.ws = k.ws /\ NotAfter(k, f)
                           /\ T!KeyOf(f) = k => f.notified # T!Never
  <2>1. \A t \in told : t.run = runs =>
          \E f \in entries : /\ f.ws = t.key.ws /\ NotAfter(t.key, f)
                             /\ T!KeyOf(f) = t.key => f.notified # T!Never
    BY <1>0 DEF Remembers
  <2>2. QED
    BY <1>7, <2>1
<1>9. f = e
  BY <1>0, <1>3, <1>6, <1>8 DEF TrackerType, OneEntry
<1>10. e.updated = r.updated
  BY <1>5, <1>6, <1>8, <1>9 DEF NotAfter
<1>11. T!KeyOf(e) = k
  BY <1>1, <1>2, <1>3, <1>10 DEF T!KeyOf
<1>12. QED
  BY <1>3, <1>8, <1>9, <1>10, <1>11

\* Nobody was told of anything yet.
LEMMA InitTold ==
    ASSUME T!LimitsAssumption, T!ThresholdAssumption
    PROVE  T!Init => ToldInv
<1> SUFFICES ASSUME T!Init PROVE ToldInv
  OBVIOUS
<1>1. TrackerType
  BY TrackerInitType
<1>2. entries = {} /\ results = <<>> /\ listed = {} /\ disk = {} /\ told = {}
  BY DEF T!Init
<1>3. QED
  BY <1>1, <1>2 DEF ToldInv, Pipeline, EntriesBehind, ResultsBehind, ResultsOrdered,
                    ListingBehind, FileBehind, Remembers

\* Every step keeps the order of what is on its way and what was told.
LEMMA NextTold ==
    ASSUME T!LimitsAssumption, T!ThresholdAssumption
    PROVE  ToldInv /\ [T!Next]_(T!vars) => ToldInv'
<1> SUFFICES ASSUME ToldInv, [T!Next]_(T!vars) PROVE ToldInv'
  OBVIOUS
<1>1. TrackerType' /\ Pipeline'
  BY TrackerNextType, NextPipeline DEF ToldInv
<1>2. QED
  BY <1>1, NextRemembers DEF ToldInv

\* No step announces what was announced in this run.
LEMMA NothingTwice ==
    ASSUME T!LimitsAssumption, T!ThresholdAssumption
    PROVE  ToldInv /\ [T!Next]_(T!vars) =>
             [\A k \in notices' \ notices : [key |-> k, run |-> runs] \notin told]_(T!vars)
<1> SUFFICES ASSUME ToldInv, [T!Next]_(T!vars), ~UNCHANGED T!vars, NEW k \in notices',
                    k \notin notices
             PROVE  [key |-> k, run |-> runs] \notin told
  OBVIOUS
<1>1. CASE T!HandleResult
  BY <1>1, HandledIsNew
<1>2. CASE notices' \in {notices, {}}
  BY <1>2
<1>3. QED
  BY <1>1, <1>2
     DEF T!Next, T!Tick, T!UpstreamChanges, T!FetchWorkspaces, T!FetchSummaries, T!SkipFirst,
         T!SaveState,
         T!Restart, T!pollerVars, T!trackerVars, T!vars, T!serverVars

\* Whatever is updated while a result waits in the channel, and across restarts,
\* nobody is told twice in one run of the same state of a workspace that goes on
\* asking for attention (Tracker.ProcessWorkspaces).
THEOREM NoRepeatEver ==
    ASSUME T!LimitsAssumption, T!ThresholdAssumption
    PROVE  T!Spec => NoRepeat
  BY InitTold, NextTold, NothingTwice, PTL DEF T!Spec, NoRepeat, T!NoRepeat

-----------------------------------------------------------------------------
(* The backend of both *)

\* A step of the backend is one of the buffers or one of the tracker.
LEMMA BackendSteps ==
    ASSUME [BackendNext]_<<part, allVars, trackerVars>>
    PROVE  [FallbackNext]_allVars /\ [T!Next]_(T!vars)
  BY DEF BackendNext, trackerVars, T!vars, T!serverVars, T!pollerVars, T!trackerVars

\* The buffers and the tracker of one backend keep their promises, whichever of them
\* moves (run.go starts both and they share nothing): an entry is kept until it is
\* stored, nobody waits too long, and nobody is told twice.
THEOREM BackendIsSound ==
    ASSUME T!LimitsAssumption, T!ThresholdAssumption, AlwaysAnnounced
    PROVE  BackendSpec => [](KeptUntilStored /\ WaitIsBounded) /\ NoRepeat
<1>1. BackendInit => KeepInv /\ WaitInv /\ ToldInv
  BY InitKeep, InitWait, InitTold DEF BackendInit
<1>2. KeepInv /\ WaitInv /\ ToldInv /\ [BackendNext]_<<part, allVars, trackerVars>>
        => (KeepInv /\ WaitInv /\ ToldInv)'
  BY BackendSteps, NextKeep, NextWait, NextTold
<1>3. KeepInv => KeptUntilStored
  BY DEF KeepInv, AllKept, Keeps, Promised, Kept, SameStored, KeptUntilStored
<1>4. ToldInv /\ [BackendNext]_<<part, allVars, trackerVars>> =>
        [\A k \in notices' \ notices : [key |-> k, run |-> runs] \notin told]_(T!vars)
  BY BackendSteps, NothingTwice
<1>5. QED
  BY <1>1, <1>2, <1>3, <1>4, PatienceIsBounded, PTL DEF BackendSpec, NoRepeat, T!NoRepeat
=============================================================================
