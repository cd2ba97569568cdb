--------------------------- MODULE ProcessLogSync ---------------------------
(***************************************************************************)
(* From the normalized log of a process to MySQL: subscribeProcessLogs,    *)
(* consumeProcessLogs and scheduleProcessReconnect of internal/sync/sync.go *)
(* above the MemoryBuffer, with the upstream server that writes the log    *)
(* and the crash and restart of this program.                              *)
(*                                                                         *)
(* A subscriber reads the stored position, checks the map of streams,      *)
(* dials, and only then enters the map (the mutex is not held while it     *)
(* dials); from there on it is the reader of its connection.  The upstream *)
(* server replays the whole log to every new connection.                   *)
(*                                                                         *)
(* All three callers ask for "running" processes only, so the branches for *)
(* historical processes (and their semaphore) are never taken.             *)
(***************************************************************************)
EXTENDS MemoryBuffer, Sequences

CONSTANTS
    Reader,     \* goroutines that subscribe to a log and read it
    NoReader,   \* no stream in the map
    MaxFaults   \* bound on the failing calls and the crashes

ASSUME ReaderAssumption ==
    Reader \subseteq Flusher /\ NoReader \notin Reader /\ MaxFaults \in Nat

VARIABLES
    log,         \* the patches the upstream server has for a process, in order
    alive,       \* the process runs
    running,     \* kw_execution_processes says that it runs
    registered,  \* processLogStreams
    rpc, of,     \* where a reader is, and for which process
    origin,      \* who subscribes: the session stream or the reconnect timer
    known,       \* the position the reader read when it subscribed
    at,          \* how much of the log the reader has received
    seen,        \* processEntriesByIndex of the reader
    faults       \* calls of MySQL that failed, and crashes of the program

upstreamVars == <<log, alive>>
readerVars == <<rpc, of, origin, known, at, seen>>
syncVars == <<running, registered, upstreamVars, readerVars>>
stepVars == <<vars, syncVars>>
allVars == <<stepVars, faults>>

Subscribing == {"read", "check", "dial", "register"}

\* The version of an entry on the upstream server.
Current(p, i) ==
    LET versions == {log[p][n][2] : n \in {m \in 1 .. Len(log[p]) : log[p][m][1] = i}}
    IN  IF versions = {} THEN NoEntry ELSE CHOOSE v \in versions : \A w \in versions : w <= v

SyncTypeOK ==
    /\ TypeOK
    /\ log \in [Process -> Seq(Index \X Version)]
    /\ alive \in [Process -> BOOLEAN]
    /\ running \in [Process -> BOOLEAN]
    /\ registered \in [Process -> Reader \cup {NoReader}]
    /\ rpc \in [Reader -> {"idle", "reading", "closing", "broken", "waiting"} \cup Subscribing]
    /\ of \in [Reader -> Process]
    /\ origin \in [Reader -> {"session", "reconnect"}]
    /\ known \in [Reader -> Position]
    /\ \A r \in Reader : at[r] \in 0 .. Len(log[of[r]])
    /\ seen \in [Reader -> [Index -> Slot]]
    /\ faults \in 0 .. MaxFaults

\* The first start of the program: an empty database, no log yet.
SyncInit ==
    /\ Init
    /\ checkpoint = [p \in Process |-> NoIndex]
    /\ log = [p \in Process |-> <<>>]
    /\ alive = [p \in Process |-> TRUE]
    /\ running = [p \in Process |-> FALSE]
    /\ registered = [p \in Process |-> NoReader]
    /\ rpc = [r \in Reader |-> "idle"]
    /\ of \in [Reader -> Process]
    /\ origin = [r \in Reader |-> "session"]
    /\ known = [r \in Reader |-> NoIndex]
    /\ at = [r \in Reader |-> 0]
    /\ seen = [r \in Reader |-> NoEntries]
    /\ faults = 0

-----------------------------------------------------------------------------
(* The upstream server *)

\* A new entry, or a new version of an old one.  Indexes grow; those of the
\* entries this program does not keep (ShouldSync) are gaps.
UpstreamWrites(p, i, v) ==
    /\ alive[p]
    /\ v = Current(p, i) + 1
    /\ Current(p, i) = NoEntry => \A j \in Index : Current(p, j) # NoEntry => j < i
    /\ log' = [log EXCEPT ![p] = Append(@, <<i, v>>)]
    /\ UNCHANGED <<vars, alive, running, registered, readerVars>>

UpstreamFinishes(p) ==
    /\ alive[p]
    /\ alive' = [alive EXCEPT ![p] = FALSE]
    /\ UNCHANGED <<vars, log, running, registered, readerVars>>

-----------------------------------------------------------------------------
(* subscribeProcessLogs *)

Phase(r, next) == rpc' = [rpc EXCEPT ![r] = next]

\* The session stream delivers the status of p; its goroutine makes one
\* subscription at a time.
SessionReports(r, p) ==
    /\ rpc[r] = "idle" /\ pc[r] = "idle"
    /\ \A s \in Reader : rpc[s] \in Subscribing => origin[s] = "reconnect"
    /\ running' = [running EXCEPT ![p] = alive[p]]
    /\ IF alive[p]
         THEN /\ Phase(r, "read")
              /\ of' = [of EXCEPT ![r] = p]
              /\ origin' = [origin EXCEPT ![r] = "session"]
         ELSE UNCHANGED <<rpc, of, origin>>
    /\ UNCHANGED <<vars, registered, upstreamVars, known, at, seen>>

\* GetSubscription; a failed read is logged and taken for "no position".
ReadSubscription(r) ==
    /\ rpc[r] = "read"
    /\ \E position \in {checkpoint[of[r]], NoIndex} :
         known' = [known EXCEPT ![r] = position]
    /\ Phase(r, "check")
    /\ UNCHANGED <<vars, running, registered, upstreamVars,
                   of, origin, at, seen>>

Unclaimed(p) == registered[p] = NoReader

CheckStreams(r) ==
    /\ rpc[r] = "check"
    /\ Phase(r, IF Unclaimed(of[r]) THEN "dial" ELSE "idle")
    /\ UNCHANGED <<vars, running, registered, upstreamVars,
                   of, origin, known, at, seen>>

\* UpsertSubscription keeps the stored position when it is given none.
Coalesced_Overwrite(new, old) == new
Coalesced(new, old) == IF new = NoIndex THEN old ELSE new

\* upsertProcessSubscription(..., nil, status): a change of status.
UpsertStatus(p) ==
    checkpoint' = [checkpoint EXCEPT ![p] = Coalesced(NoIndex, @)]

DialSucceeds(r) ==
    /\ rpc[r] = "dial"
    /\ Phase(r, "register")
    /\ UNCHANGED <<vars, running, registered, upstreamVars,
                   of, origin, known, at, seen>>

\* The caller gives up, whoever it is.
DialFails(r) ==
    /\ rpc[r] = "dial"
    /\ Phase(r, "idle")
    /\ UpsertStatus(of[r])
    /\ UNCHANGED <<bufferVars, store, localVars, historyVars, running, registered,
                   upstreamVars, of, origin, known, at, seen>>

\* The stream enters the map, whatever is there by now, and its reader starts.
Register(r) ==
    /\ rpc[r] = "register"
    /\ UpsertStatus(of[r])
    /\ registered' = [registered EXCEPT ![of[r]] = r]
    /\ Phase(r, "reading")
    /\ UNCHANGED <<bufferVars, store, localVars, historyVars, running, upstreamVars,
                   of, origin, known, at, seen>>

-----------------------------------------------------------------------------
(* consumeProcessLogs *)

Later(m, n) == IF m < n THEN n ELSE m

\* Entries before the position are skipped: the one read at the start or, when
\* it is larger, the one the buffer has reached since.
Skipped(r, i) == i < Later(known[r], lastEntryIndex[of[r]])

\* The next patch of the log: skipped, a repetition, or buffered (and
\* handed to the publisher, MessagePush).
Receive(r) ==
    /\ rpc[r] = "reading"
    /\ at[r] < Len(log[of[r]])
    /\ at' = [at EXCEPT ![r] = @ + 1]
    /\ LET p == of[r]
           i == log[p][at[r] + 1][1]
           v == log[p][at[r] + 1][2]
       IN  IF Skipped(r, i) \/ seen[r][i] = v
             THEN UNCHANGED <<vars, seen>>
             ELSE /\ Enqueue(p, i, known[r], v)
                  /\ seen' = [seen EXCEPT ![r][i] = v]
    /\ UNCHANGED <<running, registered, upstreamVars, rpc, of, origin, known>>

\* The deferred function starts with a flush of the process.
DeferredFlush_Missing(r) == UNCHANGED <<pc, todo, target, batch, fresh, pos>>
DeferredFlush(r) == Start(r, {of[r]})

\* ReadMessage fails, and what was not read yet is lost.  The stream is opened
\* again after "close 1006" or "unexpected EOF" ("broken"), not after a clean end
\* or any other error ("closing").
StreamEnds(r) ==
    /\ rpc[r] = "reading"
    /\ \E how \in {"closing", "broken"} : Phase(r, how)
    /\ DeferredFlush(r)
    /\ UNCHANGED <<bufferVars, storeVars, historyVars, running, registered,
                   upstreamVars, of, origin, known, at, seen>>

Freed_OnlyClosed(r) ==
    IF rpc[r] = "closing" THEN [registered EXCEPT ![of[r]] = NoReader] ELSE registered
Freed(r) == [registered EXCEPT ![of[r]] = NoReader]

\* After the flush: leave the map (whoever is in it), record the status, and
\* come back in two seconds when the connection broke.
Unregister(r) ==
    /\ rpc[r] \in {"closing", "broken"}
    /\ pc[r] = "idle"
    /\ registered' = Freed(r)
    /\ UpsertStatus(of[r])
    /\ Phase(r, IF rpc[r] = "broken" THEN "waiting" ELSE "idle")
    /\ at' = [at EXCEPT ![r] = 0]
    /\ seen' = [seen EXCEPT ![r] = NoEntries]
    /\ UNCHANGED <<bufferVars, store, localVars, historyVars, running, upstreamVars,
                   of, origin, known>>

\* The reconnect timer: subscribe again if the database says that the process
\* runs; a status that cannot be read ends it.
Reconnect(r) ==
    /\ rpc[r] = "waiting"
    /\ \/ running[of[r]] /\ Phase(r, "read")
       \/ Phase(r, "idle")
    /\ origin' = [origin EXCEPT ![r] = "reconnect"]
    /\ UNCHANGED <<vars, running, registered, upstreamVars,
                   of, known, at, seen>>

-----------------------------------------------------------------------------
\* The program dies and starts again: MySQL, the upstream server and what the
\* browsers have got stay.
Crash ==
    /\ created' = [p \in Process |-> FALSE]
    /\ lastEntryIndex' = [p \in Process |-> NoIndex]
    /\ pending' = [p \in Process |-> NoEntries]
    /\ timer' = [p \in Process |-> "none"]
    /\ flushing' = [p \in Process |-> FALSE]
    /\ pc' = [f \in Flusher |-> "idle"]
    /\ todo' = [f \in Flusher |-> {}]
    /\ batch' = [f \in Flusher |-> NoEntries]
    /\ fresh' = [f \in Flusher |-> {}]
    /\ pos' = [f \in Flusher |-> NoIndex]
    /\ latest' = [p \in Process |-> NoEntries]
    /\ racy' = [p \in Process |-> {}]
    /\ registered' = [p \in Process |-> NoReader]
    /\ rpc' = [r \in Reader |-> "idle"]
    /\ known' = [r \in Reader |-> NoIndex]
    /\ at' = [r \in Reader |-> 0]
    /\ seen' = [r \in Reader |-> NoEntries]
    /\ UNCHANGED <<storeVars, target, running, upstreamVars, of, origin>>

BufferStep(f, p) ==
    /\ \/ f \notin Reader /\ TimerFires(f, p)
       \/ FlushStep(f, p)
    /\ UNCHANGED syncVars

ReaderStep(r) ==
    \/ ReadSubscription(r)
    \/ CheckStreams(r)
    \/ DialSucceeds(r)
    \/ DialFails(r)
    \/ Register(r)
    \/ Receive(r)
    \/ Unregister(r)
    \/ Reconnect(r)

SyncStep ==
    \/ \E p \in Process, i \in Index, v \in Version : UpstreamWrites(p, i, v)
    \/ \E p \in Process : UpstreamFinishes(p)
    \/ \E r \in Reader, p \in Process : SessionReports(r, p)
    \/ \E r \in Reader : ReaderStep(r) \/ StreamEnds(r)
    \/ \E f \in Flusher, p \in Process : BufferStep(f, p)

\* A step in which nothing fails: no call of the store returns an error, and the
\* stored position and status are read.  (Connections still break and dials fail.)
Succeeds ==
    /\ \A f \in Flusher : pc'[f] = "reset" => pc[f] = "reset"
    /\ \A r \in Reader : rpc[r] = "read" /\ rpc'[r] = "check" => known'[r] = checkpoint[of[r]]
    /\ \A r \in Reader : rpc[r] = "waiting" /\ rpc'[r] = "idle" => ~running[of[r]]

SyncNext ==
    \/ /\ SyncStep
       /\ faults' = IF Succeeds THEN faults ELSE faults + 1
       /\ faults' <= MaxFaults
    \/ Crash /\ faults < MaxFaults /\ faults' = faults + 1

SyncSpec == SyncInit /\ [][SyncNext]_allVars

\* A reader keeps running, also inside the flush it makes when its stream ends.
\* Nothing obliges the upstream server to write, to finish or to report, and no
\* timer has to fire.
SyncFairness ==
    \A r \in Reader : /\ WF_stepVars(ReaderStep(r))
                     /\ WF_stepVars(\E p \in Process : BufferStep(r, p))

FairSyncSpec == SyncSpec /\ SyncFairness

-----------------------------------------------------------------------------
(* Properties *)

\* While nothing fails, every entry before the stored position is stored: what
\* a later subscription skips is in the table.
SkippedIsStored ==
    \A p \in Process, i \in Index :
        faults = 0 /\ i < checkpoint[p] /\ Current(p, i) # NoEntry => store[p][i] # NoEntry

\* Whatever fails, a stored position is not erased by the changes of status
\* that subscribing, failing and closing write into the same row.
PositionNeverErased ==
    [][\A p \in Process : checkpoint[p] # NoIndex => checkpoint'[p] # NoIndex]_allVars

\* While nothing fails, buffered entries have somebody who will flush them: the
\* reader that is to close the stream, a timer, or a flush on its way.
NothingStranded ==
    \A p \in Process :
        faults = 0 /\ Held(pending[p]) # {} =>
           \/ flushing[p] \/ timer[p] = "armed"
           \/ \E f \in Flusher : p \in todo[f]
           \/ \E r \in Reader : of[r] = p /\ rpc[r] = "reading"

\* The slot of a stream that ended is given back.
StreamIsReleased ==
    \A r \in Reader :
        rpc[r] \in {"closing", "broken"} ~> registered[of[r]] # r

-----------------------------------------------------------------------------
(* What the documents say and the code does not do, see README.md.          *)

\* A stream that was read to its end leaves the table as the log is, once the
\* flush at its end is over and nothing of the process is pending or in flight.
EndIsConsistent ==
    \A r \in Reader :
        LET p == of[r]
        IN  /\ faults = 0 /\ rpc[r] = "closing" /\ ~alive[p] /\ at[r] = Len(log[p])
            /\ pc[r] = "idle" /\ ~flushing[p] /\ Held(pending[p]) = {}
            => \A i \in Index : store[p][i] = Current(p, i)
=============================================================================
