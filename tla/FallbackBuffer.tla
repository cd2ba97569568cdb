--------------------------- MODULE FallbackBuffer ---------------------------
(***************************************************************************)
(* The buffer the program uses when Redis is configured: the RedisBuffer   *)
(* (internal/buffer/redis_buffer.go) and, while the health check of        *)
(* internal/buffer/fallback_buffer.go cannot reach Redis, the MemoryBuffer *)
(* this module extends.  Both write the same rows of MySQL.                *)
(*                                                                         *)
(* In Redis a process has a sorted set of the indexes to write (queue), a  *)
(* hash with the last version of every entry (body) and the position its   *)
(* reader started from (redisIndex).  They outlive the program.  A flush   *)
(* reads queue and body in one script, writes MySQL, removes from the      *)
(* queue what it had read in a second script, and calls onFlush.  The      *)
(* commands of Enqueue are a pipeline and no transaction: a flush may run  *)
(* between two of them.                                                    *)
(***************************************************************************)
EXTENDS MemoryBuffer

CONSTANTS
    Worker,       \* goroutines that may run RedisBuffer.FlushProcess or FlushAll
    NoWorker,     \* flushMu is free
    RetryMax,
    MaxSwitches,  \* bound on the changes of health
    MaxRestarts   \* bound on the restarts of the program

ASSUME WorkerAssumption ==
    /\ NoWorker \notin Worker
    /\ RetryMax \in Nat \ {0}
    /\ {MaxSwitches, MaxRestarts} \subseteq Nat

VARIABLES
    healthy,
    position,     \* the position the reader of a process knows
    writing,      \* the Enqueue of the reader: none or what it is to write, where
    \* Redis
    queue, body, redisIndex,
    \* the RedisBuffer
    active, retryCnt, flushMu, dead,
    \* local variables of the goroutines inside its FlushAll / FlushProcess
    wpc, wtodo, on, members, fetched,
    stale,        \* history: indexes whose last version has no promise: its write or
                  \* its burial failed, or a flush or the other buffer had an older one
    switches, restarts

readerVars == <<position, writing>>
redisVars  == <<queue, body, redisIndex>>
workerVars == <<wpc, wtodo, on, members, fetched>>
redisBufferVars == <<active, retryCnt, flushMu, dead>>
countVars  == <<switches, restarts>>
allVars == <<vars, healthy, readerVars, redisVars, redisBufferVars, workerVars,
             stale, countVars>>

NoWrite == [to |-> "none", index |-> 0, version |-> 0]

FallbackTypeOK ==
    /\ TypeOK
    /\ healthy \in BOOLEAN
    /\ position \in [Process -> Position]
    /\ writing \in [Process -> [to : {"none", "memory", "queue", "body"},
                                index : Index, version : Version]]
    /\ queue \in [Process -> SUBSET Index]
    /\ body \in [Process -> [Index -> Slot]]
    /\ redisIndex \in [Process -> Position]
    /\ active \subseteq Process
    /\ retryCnt \in [Process -> 0 .. RetryMax]
    /\ flushMu \in Worker \cup {NoWorker}
    /\ dead \subseteq Process \X Index \X Version
    /\ wpc \in [Worker -> {"idle", "ready", "upsert", "remove", "drop", "onFlush"}]
    /\ wtodo \in [Worker -> SUBSET Process]
    /\ on \in [Worker -> Process]
    /\ members \in [Worker -> SUBSET Index]
    /\ fetched \in [Worker -> [Index -> Slot]]
    /\ stale \in [Process -> SUBSET Index]
    /\ switches \in 0 .. MaxSwitches
    /\ restarts \in 0 .. MaxRestarts

\* NewFallbackBuffer starts healthy; at the first start the database and Redis
\* are empty.
FallbackInit ==
    /\ Init
    /\ checkpoint = [p \in Process |-> NoIndex]
    /\ healthy = TRUE
    /\ position = checkpoint
    /\ writing = [p \in Process |-> NoWrite]
    /\ queue = [p \in Process |-> {}]
    /\ body = [p \in Process |-> NoEntries]
    /\ redisIndex = [p \in Process |-> NoIndex]
    /\ active = {}
    /\ retryCnt = [p \in Process |-> 0]
    /\ flushMu = NoWorker
    /\ dead = {}
    /\ wpc = [w \in Worker |-> "idle"]
    /\ wtodo = [w \in Worker |-> {}]
    /\ on \in [Worker -> Process]
    /\ members = [w \in Worker |-> {}]
    /\ fetched = [w \in Worker |-> NoEntries]
    /\ stale = [p \in Process |-> {}]
    /\ switches = 0
    /\ restarts = 0

-----------------------------------------------------------------------------
(* Enqueue *)

\* The reader of p subscribes again: the stored position, or none if it could
\* not be read.
Subscribe(p) ==
    /\ writing[p] = NoWrite
    /\ position' \in {[position EXCEPT ![p] = n] : n \in {checkpoint[p], NoIndex}}
    /\ UNCHANGED <<vars, healthy, writing, redisVars, redisBufferVars, workerVars,
                   stale, countVars>>

\* FallbackBuffer.Enqueue looks at the health and only then writes.
Choose(p, i, v) ==
    /\ writing[p] = NoWrite
    /\ writing' = [writing EXCEPT ![p] =
         [to |-> IF healthy THEN "queue" ELSE "memory", index |-> i, version |-> v]]
    /\ UNCHANGED <<vars, healthy, position, redisVars, redisBufferVars, workerVars,
                   stale, countVars>>

\* An older version of the entry is in the other buffer, or on its way from
\* there to MySQL.
InRedis(p, i) ==
    \/ i \in queue[p]
    \/ \E w \in Worker : wpc[w] = "upsert" /\ on[w] = p /\ i \in members[w]
InMemory(p, i) ==
    \/ pending[p][i] # NoEntry
    \/ \E f \in Flusher : Flushes(f, p) /\ batch[f][i] # NoEntry

WriteMemory(p) ==
    LET i == writing[p].index
    IN  /\ writing[p].to = "memory"
        /\ Enqueue(p, i, position[p], writing[p].version)
        /\ stale' = [stale EXCEPT ![p] = IF InRedis(p, i) THEN @ \cup {i} ELSE @ \ {i}]
        /\ writing' = [writing EXCEPT ![p] = NoWrite]
        /\ UNCHANGED <<healthy, position, redisVars, redisBufferVars, workerVars,
                       countVars>>

\* The pipeline of RedisBuffer.Enqueue: ZADD, which queues what the hash has under
\* the index until HSET replaces it: an older version, if the last one went to the
\* memory ...
AddToQueue(p) ==
    LET i == writing[p].index
    IN  /\ writing[p].to = "queue"
        /\ queue' = [queue EXCEPT ![p] = @ \cup {i}]
        /\ stale' = [stale EXCEPT ![p] =
                       IF body[p][i] < latest[p][i] THEN @ \cup {i} ELSE @]
        /\ writing' = [writing EXCEPT ![p].to = "body"]
        /\ UNCHANGED <<vars, healthy, position, body, redisIndex, redisBufferVars,
                       workerVars, countVars>>

\* A flush that has read the queue will remove the entry from it, whatever is in
\* the hash by then.
Doomed(p, i) ==
    \E w \in Worker :
        wpc[w] \in {"upsert", "remove", "drop"} /\ on[w] = p /\ i \in members[w]

\* ... and HSET.
SetBody(p) ==
    LET i == writing[p].index
    IN  /\ writing[p].to = "body"
        /\ body' = [body EXCEPT ![p][i] = writing[p].version]
        /\ latest' = [latest EXCEPT ![p][i] = writing[p].version]
        /\ racy' = [racy EXCEPT ![p] = @ \ {i}]
        /\ writing' = [writing EXCEPT ![p] = NoWrite]
        /\ UNCHANGED <<bufferVars, storeVars, localVars, healthy, position, queue,
                       retryCnt, flushMu, dead, workerVars, countVars>>

Known(p) == position[p]

\* The pipeline has succeeded: the process is active, and SET keeps the position
\* its reader started from.  (SET may fail unnoticed.)
WriteRedis(p) ==
    LET i == writing[p].index
    IN  /\ SetBody(p)
        /\ active' = active \cup {p}
        /\ redisIndex' \in {redisIndex,
             [redisIndex EXCEPT ![p] = IF Known(p) = NoIndex THEN @ ELSE Known(p)]}
        /\ stale' = [stale EXCEPT ![p] =
                       IF InMemory(p, i) \/ Doomed(p, i) \/ i \notin queue[p]
                         THEN @ \cup {i} ELSE @ \ {i}]

\* The pipeline fails, before or after any of its commands: Enqueue gives up.
WriteFails(p) ==
    LET i == writing[p].index
    IN  /\ stale' = [stale EXCEPT ![p] = @ \cup {i}]
        /\ \/ SetBody(p)
           \/ /\ writing[p].to \in {"queue", "body"}
              /\ writing' = [writing EXCEPT ![p] = NoWrite]
              /\ latest' = [latest EXCEPT ![p][i] = writing[p].version]
              /\ UNCHANGED <<bufferVars, storeVars, localVars, racy, healthy, position,
                             queue, body, retryCnt, flushMu, dead, workerVars,
                             countVars>>
        /\ UNCHANGED <<active, redisIndex>>

-----------------------------------------------------------------------------
(* RedisBuffer.FlushProcess *)

Work(w, ps) ==
    /\ wpc[w] = "idle"
    /\ ps # {}
    /\ wpc' = [wpc EXCEPT ![w] = "ready"]
    /\ wtodo' = [wtodo EXCEPT ![w] = ps]
    /\ UNCHANGED <<on, members, fetched>>

NothingElse == UNCHANGED <<vars, healthy, readerVars, stale, countVars>>

\* flushLoop, at every tick of its own ticker.
FlushLoop(w) ==
    /\ Work(w, active)
    /\ NothingElse
    /\ UNCHANGED <<redisVars, redisBufferVars>>

\* The queue has reached the threshold, or a stream closes while Redis is healthy.
FlushEarly(w, p) ==
    /\ Work(w, {p})
    /\ NothingElse
    /\ UNCHANGED <<redisVars, redisBufferVars>>

\* FlushProcess returns: a nil error lets FlushAll go on, any other ends it.
Leave(w, p, ok) ==
    LET left == IF ok THEN wtodo[w] \ {p} ELSE {}
    IN  /\ wtodo' = [wtodo EXCEPT ![w] = left]
        /\ wpc' = [wpc EXCEPT ![w] = IF left = {} THEN "idle" ELSE "ready"]
        /\ members' = [members EXCEPT ![w] = {}]
        /\ fetched' = [fetched EXCEPT ![w] = NoEntries]

Unlock_OnSuccess(ok) == flushMu' = IF ok THEN NoWorker ELSE flushMu
Unlock(ok) == flushMu' = NoWorker

\* luaFetch, under flushMu.  A member without a body is fetched, too.
Fetch(w, p) ==
    /\ wpc[w] = "ready" /\ p \in wtodo[w]
    /\ flushMu = NoWorker
    /\ IF \A i \in queue[p] : body[p][i] = NoEntry
         THEN /\ Leave(w, p, TRUE)
              /\ UNCHANGED <<on, flushMu, stale>>
         ELSE /\ flushMu' = w
              /\ wpc' = [wpc EXCEPT ![w] = "upsert"]
              /\ on' = [on EXCEPT ![w] = p]
              /\ members' = [members EXCEPT ![w] = queue[p]]
              /\ fetched' = [fetched EXCEPT ![w] =
                   [i \in Index |-> IF i \in queue[p] THEN body[p][i] ELSE NoEntry]]
              /\ UNCHANGED wtodo
    /\ UNCHANGED <<vars, healthy, readerVars, redisVars, active, retryCnt, dead,
                   stale, countVars>>

FetchFails(w, p) ==
    /\ wpc[w] = "ready" /\ p \in wtodo[w]
    /\ flushMu = NoWorker
    /\ Leave(w, p, FALSE)
    /\ NothingElse
    /\ UNCHANGED <<redisVars, redisBufferVars, on>>

Over(p, slots) == [store EXCEPT ![p] =
    [i \in Index |-> IF slots[i] # NoEntry THEN slots[i] ELSE @[i]]]

Upsert(w, p) ==
    /\ wpc[w] = "upsert" /\ on[w] = p
    /\ store' = Over(p, fetched[w])
    /\ wpc' = [wpc EXCEPT ![w] = "remove"]
    /\ UNCHANGED <<bufferVars, checkpoint, localVars, historyVars, healthy, readerVars,
                   redisVars, redisBufferVars, wtodo, on, members, fetched, stale, countVars>>

\* The last of RetryMax failures in a row writes the entries to a file.
Buried_Dropped(p, slots) == {}
Buried(p, slots) == {<<p, i, slots[i]>> : i \in Held(slots)}

Exhausted(p) == retryCnt[p] + 1 >= RetryMax

\* A failed call may have been applied.  The file may not be writable; the entries
\* leave the queue all the same.
UpsertFails(w, p) ==
    /\ wpc[w] = "upsert" /\ on[w] = p
    /\ store' \in {store, Over(p, fetched[w])}
    /\ retryCnt' = [retryCnt EXCEPT ![p] = @ + 1]
    /\ IF Exhausted(p)
         THEN /\ \/ /\ dead' = dead \cup Buried(p, fetched[w])
                    /\ UNCHANGED stale
                 \/ /\ stale' = [stale EXCEPT ![p] = @ \cup Held(fetched[w])]
                    /\ UNCHANGED dead
              /\ wpc' = [wpc EXCEPT ![w] = "drop"]
              /\ UNCHANGED <<flushMu, wtodo, members, fetched>>
         ELSE /\ Leave(w, p, FALSE)
              /\ Unlock(FALSE)
              /\ UNCHANGED <<dead, stale>>
    /\ UNCHANGED <<bufferVars, checkpoint, localVars, historyVars, healthy, readerVars,
                   redisVars, active, on, countVars>>

Removed(p, S) == queue[p] \ S

\* After luaRemove, called once the entries are stored or buried.
AfterRemove(w, p) ==
    /\ wpc[w] \in {"remove", "drop"} /\ on[w] = p
    /\ retryCnt' = [retryCnt EXCEPT ![p] = 0]
    /\ IF wpc[w] = "remove"
         THEN /\ wpc' = [wpc EXCEPT ![w] = "onFlush"]
              /\ UNCHANGED <<flushMu, wtodo, members, fetched>>
         ELSE /\ Leave(w, p, FALSE)
              /\ Unlock(FALSE)
    /\ UNCHANGED <<vars, healthy, readerVars, body, redisIndex, active, dead, on,
                   stale, countVars>>

Remove(w, p) ==
    /\ AfterRemove(w, p)
    /\ queue' = [queue EXCEPT ![p] = Removed(p, members[w])]

\* The error is logged.
RemoveFails(w, p) ==
    /\ AfterRemove(w, p)
    /\ UNCHANGED queue

\* onFlush stores the position that Redis has, or leaves the stored one; its
\* error is logged.
CallOnFlush(w, p) ==
    /\ wpc[w] = "onFlush" /\ on[w] = p
    /\ checkpoint' \in {checkpoint,
         [checkpoint EXCEPT ![p] = IF redisIndex[p] = NoIndex THEN @ ELSE redisIndex[p]]}
    /\ Leave(w, p, TRUE)
    /\ Unlock(TRUE)
    /\ UNCHANGED <<bufferVars, store, localVars, historyVars, healthy, readerVars,
                   redisVars, active, retryCnt, dead, on, stale, countVars>>

-----------------------------------------------------------------------------
(* The health check, and the program *)

\* A ping fails: from now on entries go to the memory.
BecomesUnhealthy ==
    /\ healthy /\ switches < MaxSwitches
    /\ healthy' = FALSE
    /\ switches' = switches + 1
    /\ UNCHANGED <<vars, readerVars, redisVars, redisBufferVars, workerVars,
                   stale, restarts>>

\* A ping succeeds again: entries go to Redis at once, and a goroutine flushes
\* what the memory holds.
BecomesHealthy(f) ==
    /\ ~healthy
    /\ healthy' = TRUE
    /\ IF \E p \in Process : created[p]
         THEN CallFlushAll(f) ELSE UNCHANGED vars
    /\ UNCHANGED <<readerVars, redisVars, redisBufferVars, workerVars,
                   stale, countVars>>

\* The program dies and starts again; Redis and MySQL stay.
Restart ==
    /\ restarts < MaxRestarts
    /\ restarts' = restarts + 1
    /\ created' = [p \in Process |-> FALSE]
    /\ lastEntryIndex' = [p \in Process |-> NoIndex]
    /\ pending' = [p \in Process |-> NoEntries]
    /\ timer' = [p \in Process |-> "none"]
    /\ flushing' = [p \in Process |-> FALSE]
    /\ pc' = [f \in Flusher |-> "idle"]
    /\ todo' = [f \in Flusher |-> {}]
    /\ batch' = [f \in Flusher |-> NoEntries]
    /\ fresh' = [f \in Flusher |-> {}]
    /\ pos' = [f \in Flusher |-> NoIndex]
    /\ healthy' = TRUE
    /\ position' = checkpoint
    /\ writing' = [p \in Process |-> NoWrite]
    /\ active' = {}
    /\ retryCnt' = [p \in Process |-> 0]
    /\ flushMu' = NoWorker
    /\ wpc' = [w \in Worker |-> "idle"]
    /\ wtodo' = [w \in Worker |-> {}]
    /\ members' = [w \in Worker |-> {}]
    /\ fetched' = [w \in Worker |-> NoEntries]
    \* what the memory held is gone
    /\ racy' = [p \in Process |-> racy[p] \cup {i \in Index : InMemory(p, i)}]
    /\ UNCHANGED <<storeVars, target, latest, redisVars, dead, on, stale,
                   switches>>

WriteStep(p) == WriteMemory(p) \/ AddToQueue(p) \/ WriteRedis(p) \/ WriteFails(p)

WorkStep(w, p) ==
    \/ Fetch(w, p) \/ FetchFails(w, p)
    \/ Upsert(w, p) \/ UpsertFails(w, p)
    \/ Remove(w, p) \/ RemoveFails(w, p)
    \/ CallOnFlush(w, p)

\* The goroutines of the MemoryBuffer; a closing stream flushes it only while
\* Redis is not healthy.
MemoryStep ==
    /\ \E f \in Flusher, p \in Process :
         \/ TimerFires(f, p)
         \/ ~healthy /\ CallFlushProcess(f, p)
         \/ FlushStep(f, p)
    /\ UNCHANGED <<healthy, readerVars, redisVars, redisBufferVars, workerVars,
                   stale, countVars>>

FallbackNext ==
    \/ \E p \in Process, i \in Index :
         \E v \in {latest[p][i], latest[p][i] + 1} : v \in Version /\ Choose(p, i, v)
    \/ \E p \in Process : Subscribe(p) \/ WriteStep(p)
    \/ \E w \in Worker : FlushLoop(w)
    \/ \E w \in Worker, p \in Process : FlushEarly(w, p) \/ WorkStep(w, p)
    \/ MemoryStep
    \/ BecomesUnhealthy
    \/ \E f \in Flusher : BecomesHealthy(f)
    \/ Restart

FallbackSpec == FallbackInit /\ [][FallbackNext]_allVars

\* The ticker of flushLoop fires and goroutines run.  A script of Redis that is
\* tried again and again works at last; MySQL may fail for ever.
FallbackFairness ==
    /\ WF_allVars(\E w \in Worker : FlushLoop(w))
    /\ \A w \in Worker : WF_allVars(\E p \in Process : WorkStep(w, p))
    /\ \A p \in Process : /\ SF_allVars(\E w \in Worker : Fetch(w, p))
                          /\ SF_allVars(\E w \in Worker : Remove(w, p))

FairFallbackSpec == FallbackSpec /\ FallbackFairness

-----------------------------------------------------------------------------
(* Properties *)

\* Through failures of MySQL and of Redis scripts, changes of health and
\* restarts, the last version of an entry is pending, queued in Redis, stored, or
\* in the file of dead letters, but for those without a promise: see racy, stale.
KeptUntilStored ==
    \A p \in Process, i \in Index :
        latest[p][i] # NoEntry /\ i \notin racy[p] \cup stale[p] =>
           \/ pending[p][i] = latest[p][i]
           \/ i \in queue[p] /\ body[p][i] = latest[p][i]
           \/ store[p][i] # NoEntry /\ hash[store[p][i]] = hash[latest[p][i]]
           \/ <<p, i, latest[p][i]>> \in dead

\* What is queued for an active process leaves the queue: it is stored, or
\* buried after RetryMax failures.
QueueDrains ==
    \A p \in Process, i \in Index :
        p \in active /\ i \in queue[p] /\ body[p][i] # NoEntry
          ~> i \notin queue[p] \/ p \notin active

-----------------------------------------------------------------------------
(* What the design document says and the code does not do, see README.md.  *)

\* Once entries go to Redis again, the memory has been flushed: it never writes
\* an older version of an entry over a newer one.
MemoryIsDrained ==
    [][\A f \in Flusher, p \in Process, i \in Index :
         healthy /\ pc[f] = "upsert" /\ target[f] = p => store'[p][i] >= store[p][i]]_allVars
=============================================================================
