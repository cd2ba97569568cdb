------------------------ MODULE ProcessLogSyncProofs ------------------------
(***************************************************************************)
(* Theorems about ProcessLogSync: through crashes, failing calls, broken   *)
(* streams and readers that race for a process, the stored position of a   *)
(* log points at a stored entry and is never erased.                       *)
(***************************************************************************)
EXTENDS ProcessLogSync, MemoryBufferProofs, SequenceTheorems, WellFoundedInduction

-----------------------------------------------------------------------------
(* What a step of the readers does to the buffer *)

\* A reader that is not attached to a stream has received nothing of it.
Detached == {"idle", "waiting"} \cup Subscribing

\* The variables of the readers and of the upstream server.
ReaderVarsOK ==
    /\ log \in [Process -> Seq(Index \X Version)]
    /\ alive \in [Process -> BOOLEAN]
    /\ running \in [Process -> BOOLEAN]
    /\ registered \in [Process -> Reader \cup {NoReader}]
    /\ rpc \in [Reader -> {"idle", "reading", "closing", "broken", "waiting"} \cup Subscribing]
    /\ of \in [Reader -> Process]
    /\ origin \in [Reader -> {"session", "reconnect"}]
    /\ known \in [Reader -> Position]
    /\ at \in [Reader -> Nat]
    /\ \A r \in Reader : at[r] <= Len(log[of[r]])
    /\ \A r \in Reader : rpc[r] \in Detached => at[r] = 0
    /\ seen \in [Reader -> [Index -> Slot]]

ReaderType == TypeOK /\ ReaderVarsOK /\ faults \in 0 .. MaxFaults

\* A change of status leaves every position as it is.
LEMMA StatusKeepsPosition ==
    ASSUME TypeOK, NEW p \in Process, UpsertStatus(p)
    PROVE  checkpoint' = checkpoint
  BY DEF UpsertStatus, Coalesced, TypeOK, NoIndex

\* The next patch of a log is an index with a version.
LEMMA ReceivedPatch ==
    ASSUME ReaderType, NEW r \in Reader, at[r] < Len(log[of[r]])
    PROVE  /\ log[of[r]][at[r] + 1] \in Index \X Version
           /\ log[of[r]][at[r] + 1][1] \in Index
           /\ log[of[r]][at[r] + 1][2] \in Version
<1>1. of[r] \in Process /\ log[of[r]] \in Seq(Index \X Version) /\ at[r] \in Nat
  BY DEF ReaderType, ReaderVarsOK
<1>2. at[r] + 1 \in 1 .. Len(log[of[r]])
  BY <1>1, LenProperties
<1>3. log[of[r]][at[r] + 1] \in Index \X Version
  BY <1>1, <1>2, ElementOfSeq
<1>4. QED
  BY <1>3

\* A reader of a stream enqueues a patch.
Buffers(r, i, v) ==
    /\ r \in Reader /\ i \in Index /\ v \in Version
    /\ rpc[r] = "reading"
    /\ Enqueue(of[r], i, known[r], v)

\* For the buffer a step is one of its own steps, or a reader that enqueues.
LEMMA BufferView ==
    ASSUME ReaderType, SyncStep
    PROVE  [Next]_vars \/ \E r \in Reader, i \in Index, v \in Version : Buffers(r, i, v)
<1> USE ReaderAssumption
<1>0. TypeOK /\ \A r \in Reader : of[r] \in Process
  BY DEF ReaderType, ReaderVarsOK
<1>1. CASE \E p \in Process, i \in Index, v \in Version : UpstreamWrites(p, i, v)
  BY <1>1 DEF UpstreamWrites
<1>2. CASE \E p \in Process : UpstreamFinishes(p)
  BY <1>2 DEF UpstreamFinishes
<1>3. CASE \E r \in Reader, p \in Process : SessionReports(r, p)
  BY <1>3 DEF SessionReports
<1>4. ASSUME NEW r \in Reader, ReaderStep(r)
      PROVE [Next]_vars \/ \E s \in Reader, i \in Index, v \in Version : Buffers(s, i, v)
  <2>1. CASE ReadSubscription(r) \/ CheckStreams(r) \/ DialSucceeds(r) \/ Reconnect(r)
    BY <2>1 DEF ReadSubscription, CheckStreams, DialSucceeds, Reconnect
  <2>2. CASE DialFails(r) \/ Register(r) \/ Unregister(r)
    <3>1. UpsertStatus(of[r]) /\ UNCHANGED <<bufferVars, store, localVars, historyVars>>
      BY <2>2 DEF DialFails, Register, Unregister
    <3>2. checkpoint' = checkpoint
      BY <1>0, <3>1, StatusKeepsPosition
    <3>3. QED
      BY <3>1, <3>2 DEF vars, storeVars
  <2>3. CASE Receive(r)
    <3> DEFINE i == log[of[r]][at[r] + 1][1]
               v == log[of[r]][at[r] + 1][2]
    <3>1. i \in Index /\ v \in Version
      BY <2>3, ReceivedPatch DEF Receive
    <3>2. rpc[r] = "reading" /\ (UNCHANGED vars \/ Enqueue(of[r], i, known[r], v))
      BY <2>3 DEF Receive
    <3>3. QED
      BY <3>1, <3>2 DEF Buffers
  <2>4. QED
    BY <1>4, <2>1, <2>2, <2>3 DEF ReaderStep
<1>5. ASSUME NEW r \in Reader, StreamEnds(r)
      PROVE [Next]_vars
  <2>1. r \in Flusher /\ CallFlushProcess(r, of[r])
    BY <1>5 DEF StreamEnds, DeferredFlush, CallFlushProcess
  <2>2. QED
    BY <1>0, <2>1 DEF Next
<1>6. ASSUME NEW f \in Flusher, NEW p \in Process, BufferStep(f, p)
      PROVE [Next]_vars
  BY <1>6 DEF BufferStep, Next
<1>7. QED
  BY <1>1, <1>2, <1>3, <1>4, <1>5, <1>6 DEF SyncStep

-----------------------------------------------------------------------------
(* Types *)

\* The buffer of a program that starts again has its types.
LEMMA CrashType == TypeOK /\ Crash => TypeOK'
<1>1. NoEntries \in [Index -> Slot] /\ NoIndex \in Position
  BY DEF NoEntries, Slot, Position
<1>2. QED
  BY <1>1 DEF Crash, TypeOK, storeVars

\* The buffer keeps its types in every step of the readers.
LEMMA BufferType == ReaderType /\ SyncStep => TypeOK'
<1> SUFFICES ASSUME ReaderType, SyncStep PROVE TypeOK'
  OBVIOUS
<1>0. TypeOK /\ \A r \in Reader : of[r] \in Process /\ known[r] \in Position
  BY DEF ReaderType, ReaderVarsOK
<1>1. CASE [Next]_vars
  BY <1>0, <1>1, NextType
<1>2. ASSUME NEW r \in Reader, NEW i \in Index, NEW v \in Version, Buffers(r, i, v)
      PROVE TypeOK'
  BY <1>0, <1>2, EnqueueType DEF Buffers
<1>3. QED
  BY <1>1, <1>2, BufferView

\* Appending a patch keeps a log a log, and no shorter.
LEMMA AppendedPatch ==
    ASSUME ReaderVarsOK, NEW p \in Process, NEW i \in Index, NEW v \in Version,
           log' = [log EXCEPT ![p] = Append(@, <<i, v>>)]
    PROVE  /\ log' \in [Process -> Seq(Index \X Version)]
           /\ \A q \in Process : Len(log[q]) <= Len(log'[q])
<1>1. log \in [Process -> Seq(Index \X Version)] /\ log[p] \in Seq(Index \X Version)
  BY DEF ReaderVarsOK
<1>2. /\ Append(log[p], <<i, v>>) \in Seq(Index \X Version)
      /\ Len(Append(log[p], <<i, v>>)) = Len(log[p]) + 1
  BY <1>1, AppendProperties
<1>3. \A q \in Process : Len(log[q]) \in Nat
  BY <1>1, LenProperties
<1>4. QED
  BY <1>1, <1>2, <1>3

\* Every step of the readers and of the upstream server keeps their types.
LEMMA ReaderVarsStep == ReaderType /\ SyncStep => ReaderVarsOK'
<1> SUFFICES ASSUME ReaderType, SyncStep PROVE ReaderVarsOK'
  OBVIOUS
<1>0. TypeOK /\ ReaderVarsOK
  BY DEF ReaderType
<1>a. \A p \in Process : Len(log[p]) \in Nat
  BY <1>0, LenProperties DEF ReaderVarsOK
<1>1. ASSUME NEW p \in Process, NEW i \in Index, NEW v \in Version, UpstreamWrites(p, i, v)
      PROVE ReaderVarsOK'
  <2>1. /\ log' = [log EXCEPT ![p] = Append(@, <<i, v>>)]
        /\ UNCHANGED <<alive, running, registered, readerVars>>
    BY <1>1 DEF UpstreamWrites
  <2>2. /\ log' \in [Process -> Seq(Index \X Version)]
        /\ \A q \in Process : Len(log[q]) <= Len(log'[q])
    BY <1>0, <2>1, AppendedPatch
  <2>3. \A q \in Process : Len(log'[q]) \in Nat
    BY <2>2, LenProperties
  <2>4. \A r \in Reader : at[r] <= Len(log'[of[r]])
    BY <1>0, <1>a, <2>2, <2>3 DEF ReaderVarsOK
  <2>5. QED
    BY <1>0, <2>1, <2>2, <2>4 DEF ReaderVarsOK, readerVars
<1>2. ASSUME NEW p \in Process, UpstreamFinishes(p)
      PROVE ReaderVarsOK'
  BY <1>0, <1>2 DEF UpstreamFinishes, ReaderVarsOK, readerVars
<1>3. ASSUME NEW r \in Reader, NEW p \in Process, SessionReports(r, p)
      PROVE ReaderVarsOK'
  <2>1. /\ rpc[r] = "idle" /\ at[r] = 0
        /\ running' = [running EXCEPT ![p] = alive[p]]
        /\ UNCHANGED <<registered, log, alive, known, at, seen>>
    BY <1>0, <1>3 DEF SessionReports, ReaderVarsOK, upstreamVars, Detached
  <2>2. running' \in [Process -> BOOLEAN]
    BY <1>0, <2>1, Zenon DEF ReaderVarsOK
  <2>3. CASE UNCHANGED <<rpc, of, origin>>
    BY <1>0, <2>1, <2>2, <2>3 DEF ReaderVarsOK
  <2>4. CASE /\ rpc' = [rpc EXCEPT ![r] = "read"]
             /\ of' = [of EXCEPT ![r] = p]
             /\ origin' = [origin EXCEPT ![r] = "session"]
    <3>1. /\ of' \in [Reader -> Process]
          /\ rpc' \in [Reader -> {"idle", "reading", "closing", "broken", "waiting"}
                                 \cup Subscribing]
          /\ origin' \in [Reader -> {"session", "reconnect"}]
      BY <1>0, <2>4 DEF ReaderVarsOK, Subscribing
    <3>2. \A s \in Reader : at'[s] <= Len(log'[of'[s]])
      BY <1>0, <1>a, <2>1, <2>4 DEF ReaderVarsOK
    <3>3. \A s \in Reader : rpc'[s] \in Detached => at'[s] = 0
      BY <1>0, <2>1, <2>4 DEF ReaderVarsOK
    <3>4. QED
      BY <1>0, <2>1, <2>2, <3>1, <3>2, <3>3 DEF ReaderVarsOK
  <2>5. QED
    BY <1>3, <2>3, <2>4 DEF SessionReports, Phase
<1>4. ASSUME NEW r \in Reader, ReadSubscription(r)
      PROVE ReaderVarsOK'
  <2>1. checkpoint[of[r]] \in Position /\ NoIndex \in Position
    BY <1>0 DEF TypeOK, ReaderVarsOK, Position
  <2>2. QED
    BY <1>0, <1>4, <2>1 DEF ReadSubscription, Phase, ReaderVarsOK, upstreamVars, Detached,
                            Subscribing
<1>5. ASSUME NEW r \in Reader, CheckStreams(r) \/ DialSucceeds(r) \/ DialFails(r)
      PROVE ReaderVarsOK'
  BY <1>0, <1>5 DEF CheckStreams, DialSucceeds, DialFails, Phase, ReaderVarsOK, upstreamVars,
                    Detached, Subscribing
<1>6. ASSUME NEW r \in Reader, Register(r)
      PROVE ReaderVarsOK'
  BY <1>0, <1>6 DEF Register, Phase, ReaderVarsOK, upstreamVars, Detached, Subscribing
<1>7. ASSUME NEW r \in Reader, Receive(r)
      PROVE ReaderVarsOK'
  <2>1. /\ rpc[r] = "reading" /\ at[r] < Len(log[of[r]])
        /\ at' = [at EXCEPT ![r] = @ + 1]
        /\ seen' = seen \/ seen' = [seen EXCEPT ![r][log[of[r]][at[r] + 1][1]] =
                                              log[of[r]][at[r] + 1][2]]
        /\ UNCHANGED <<running, registered, upstreamVars, rpc, of, origin, known>>
    BY <1>7 DEF Receive
  <2>2. log[of[r]][at[r] + 1][1] \in Index /\ log[of[r]][at[r] + 1][2] \in Slot
    BY <2>1, ReceivedPatch DEF Slot
  <2>3. seen' \in [Reader -> [Index -> Slot]]
    <3>1. seen \in [Reader -> [Index -> Slot]]
      BY <1>0 DEF ReaderVarsOK
    <3>2. QED
      BY <2>1, <2>2, <3>1
  <2>4. at[r] \in Nat /\ at[r] + 1 <= Len(log[of[r]])
    BY <1>0, <1>a, <2>1 DEF ReaderVarsOK
  <2>5. at' \in [Reader -> Nat] /\ \A s \in Reader : at'[s] <= Len(log[of[s]])
    BY <1>0, <2>1, <2>4 DEF ReaderVarsOK
  <2>6. \A s \in Reader : rpc[s] \in Detached => at'[s] = 0
    BY <1>0, <2>1 DEF ReaderVarsOK, Detached, Subscribing
  <2>7. QED
    BY <1>0, <2>1, <2>3, <2>5, <2>6 DEF ReaderVarsOK, upstreamVars
<1>8. ASSUME NEW r \in Reader, Unregister(r)
      PROVE ReaderVarsOK'
  <2>1. NoEntries \in [Index -> Slot]
    BY DEF NoEntries, Slot
  <2>2. QED
    BY <1>0, <1>a, <1>8, <2>1 DEF Unregister, Freed, Phase, ReaderVarsOK, upstreamVars, Detached,
                            Subscribing
<1>9. ASSUME NEW r \in Reader, Reconnect(r)
      PROVE ReaderVarsOK'
  BY <1>0, <1>9 DEF Reconnect, Phase, ReaderVarsOK, upstreamVars, Detached, Subscribing
<1>10. ASSUME NEW r \in Reader, StreamEnds(r)
       PROVE ReaderVarsOK'
  BY <1>0, <1>10 DEF StreamEnds, Phase, ReaderVarsOK, upstreamVars, Detached, Subscribing
<1>11. ASSUME NEW f \in Flusher, NEW p \in Process, BufferStep(f, p)
       PROVE ReaderVarsOK'
  BY <1>0, <1>11 DEF BufferStep, syncVars, upstreamVars, readerVars, ReaderVarsOK
<1>12. QED
  BY <1>1, <1>2, <1>3, <1>4, <1>5, <1>6, <1>7, <1>8, <1>9, <1>10, <1>11
     DEF SyncStep, ReaderStep

\* The first start of the program.
LEMMA SyncInitType == SyncInit => ReaderType
<1> SUFFICES ASSUME SyncInit PROVE ReaderType
  OBVIOUS
<1>1. TypeOK
  BY InitType DEF SyncInit
<1>2. <<>> \in Seq(Index \X Version) /\ NoEntries \in [Index -> Slot] /\ NoIndex \in Position
  BY DEF NoEntries, Slot, Position
<1>3. \A r \in Reader : Len(log[of[r]]) = 0
  BY DEF SyncInit
<1>4. ReaderVarsOK
  BY <1>2, <1>3 DEF SyncInit, ReaderVarsOK, Detached, Subscribing
<1>5. faults \in 0 .. MaxFaults
  BY ReaderAssumption DEF SyncInit
<1>6. QED
  BY <1>1, <1>4, <1>5 DEF ReaderType

\* Steps, failing calls and crashes keep the types.
LEMMA SyncNextType == ReaderType /\ [SyncNext]_allVars => ReaderType'
<1> SUFFICES ASSUME ReaderType, [SyncNext]_allVars PROVE ReaderType'
  OBVIOUS
<1>0. TypeOK /\ ReaderVarsOK /\ faults \in 0 .. MaxFaults /\ MaxFaults \in Nat
  BY ReaderAssumption DEF ReaderType
<1>1. CASE SyncStep /\ faults' = (IF Succeeds THEN faults ELSE faults + 1) /\ faults' <= MaxFaults
  <2>1. faults' \in 0 .. MaxFaults
    BY <1>0, <1>1
  <2>2. QED
    BY <1>1, <2>1, BufferType, ReaderVarsStep DEF ReaderType
<1>2. CASE Crash /\ faults < MaxFaults /\ faults' = faults + 1
  <2>1. NoEntries \in [Index -> Slot] /\ NoIndex \in Position
    BY DEF NoEntries, Slot, Position
  <2>2. \A p \in Process : Len(log[p]) \in Nat
    BY <1>0, LenProperties DEF ReaderVarsOK
  <2>3. ReaderVarsOK'
    BY <1>0, <1>2, <2>1, <2>2 DEF Crash, ReaderVarsOK, upstreamVars, Detached, Subscribing
  <2>4. TypeOK'
    BY <1>0, <1>2, CrashType
  <2>5. faults' \in 0 .. MaxFaults
    BY <1>0, <1>2
  <2>6. QED
    BY <2>3, <2>4, <2>5 DEF ReaderType
<1>3. CASE UNCHANGED allVars
  BY <1>0, <1>3
     DEF ReaderType, allVars, stepVars, vars, bufferVars, storeVars, localVars, historyVars,
         syncVars,
         upstreamVars, readerVars, TypeOK, ReaderVarsOK
<1>4. QED
  BY <1>1, <1>2, <1>3 DEF SyncNext

\* Through crashes and failing calls every variable of the readers and of the
\* buffer keeps its type, and a reader never is past the end of its log.
THEOREM SyncTypeCorrect == SyncSpec => []SyncTypeOK
<1>1. ReaderType => SyncTypeOK
  <2> SUFFICES ASSUME ReaderType PROVE SyncTypeOK
    OBVIOUS
  <2>1. \A r \in Reader : Len(log[of[r]]) \in Nat
    BY LenProperties DEF ReaderType, ReaderVarsOK
  <2>2. QED
    BY <2>1 DEF ReaderType, ReaderVarsOK, SyncTypeOK
<1>2. QED
  BY <1>1, SyncInitType, SyncNextType, PTL DEF SyncSpec

-----------------------------------------------------------------------------
(* Positions *)

\* What is to be written exists, and a flush that goes on to record a position
\* has one.  With Positions this carries the buffer from step to step; unlike
\* Inv it says nothing of versions, which a replay after a crash does not keep.
WritesExist == \A f \in Flusher : pc[f] = "upsert" => \A i \in fresh[f] : batch[f][i] # NoEntry
PositionReached == \A f \in Flusher : pc[f] = "onFlush" => pos[f] # NoIndex

BufferPositions == Positions /\ WritesExist /\ PositionReached

\* No stored entry leaves the table.
EntriesStay == \A p \in Process, i \in Index : store[p][i] # NoEntry => store'[p][i] # NoEntry

\* A reader may enqueue with any position that is stored.
LEMMA EnqueuePositions ==
    ASSUME TypeOK, BufferPositions, NEW p \in Process, NEW i \in Index, NEW position \in Position,
           NEW v \in Version, Stored(p, position), Enqueue(p, i, position, v)
    PROVE  BufferPositions' /\ EntriesStay
<1>1. UNCHANGED <<store, checkpoint, pc, target, batch, fresh, pos>>
  BY DEF Enqueue, storeVars, localVars
<1>2. lastEntryIndex' = lastEntryIndex \/ lastEntryIndex' = [lastEntryIndex EXCEPT ![p] = position]
  BY DEF Enqueue, FirstPosition
<1>3. Positions'
  BY <1>1, <1>2 DEF BufferPositions, Positions, Stored, Flushes, TypeOK
<1>4. QED
  BY <1>1, <1>3 DEF BufferPositions, WritesExist, PositionReached, EntriesStay

\* A step that changes no position and no entry and enters no flush.
LEMMA FramePositions ==
    ASSUME BufferPositions,
           UNCHANGED <<lastEntryIndex, store, checkpoint, batch, fresh, pos>>,
           \A g \in Flusher, q \in Process : Flushes(g, q)' => Flushes(g, q),
           \A g \in Flusher : pc'[g] \in {"upsert", "onFlush"} => pc'[g] = pc[g]
    PROVE  BufferPositions' /\ EntriesStay
<1>1. Positions'
  BY DEF BufferPositions, Positions, Stored
<1>2. QED
  BY <1>1 DEF BufferPositions, WritesExist, PositionReached, EntriesStay

\* A flush starts from the position of the buffer.
LEMMA BeginPositions ==
    ASSUME TypeOK, OneFlushPerProcess, BufferPositions, NEW f \in Flusher, NEW p \in Process,
           FlushBegins(f, p)
    PROVE  BufferPositions' /\ EntriesStay
<1>1. /\ pos' = [pos EXCEPT ![f] = lastEntryIndex[p]]
      /\ batch' = [batch EXCEPT ![f] = pending[p]]
      /\ pc' = [pc EXCEPT ![f] = "list"]
      /\ UNCHANGED <<lastEntryIndex, store, checkpoint, fresh>>
  BY DEF FlushBegins, storeVars
<1>2. \A g \in Flusher, q \in Process :
        Flushes(g, q)' => (g = f /\ q = p) \/ (g # f /\ Flushes(g, q))
  BY BeginFlushes
<1>3. Positions'
  BY <1>1, <1>2 DEF BufferPositions, Positions, Stored, TypeOK
<1>4. WritesExist' /\ PositionReached' /\ EntriesStay
  BY <1>1 DEF BufferPositions, WritesExist, PositionReached, EntriesStay, TypeOK
<1>5. QED
  BY <1>3, <1>4 DEF BufferPositions

\* The filter lets through only entries of the batch.
LEMMA ListPositions ==
    ASSUME TypeOK, BufferPositions, NEW f \in Flusher, NEW p \in Process, ListEntries(f, p)
    PROVE  BufferPositions' /\ EntriesStay
<1> DEFINE wanted == {i \in Index : ShouldPersist(store[p][i], batch[f][i])}
<1>1. /\ UNCHANGED <<lastEntryIndex, store, checkpoint, batch, pos>>
      /\ \/ fresh' = [fresh EXCEPT ![f] = wanted]
            /\ \E l \in {"finish", "upsert"} : pc' = [pc EXCEPT ![f] = l]
         \/ fresh' = fresh /\ pc' = [pc EXCEPT ![f] = "reset"]
  BY DEF ListEntries, bufferVars, storeVars
<1>2. Positions'
  BY <1>1, StoreCallFlushes DEF BufferPositions, Positions, Stored
<1>3. \A i \in wanted : batch[f][i] # NoEntry
  BY DEF ShouldPersist
<1>4. WritesExist'
  BY <1>1, <1>3 DEF BufferPositions, WritesExist, TypeOK
<1>5. PositionReached' /\ EntriesStay
  BY <1>1 DEF BufferPositions, PositionReached, EntriesStay, TypeOK
<1>6. QED
  BY <1>2, <1>4, <1>5 DEF BufferPositions

\* The write of a batch adds entries, among them the one at the new position.
LEMMA UpsertPositions ==
    ASSUME TypeOK, BufferPositions, NEW f \in Flusher, NEW p \in Process, UpsertEntries(f, p)
    PROVE  BufferPositions' /\ EntriesStay
<1>1. /\ UNCHANGED <<lastEntryIndex, checkpoint, batch, fresh>>
      /\ pc[f] = "upsert" /\ Flushes(f, p)
      /\ \/ /\ store' = Written(f, p) /\ pc' = [pc EXCEPT ![f] = "onFlush"]
            /\ \E n \in Index : /\ AdvancesTo(pos[f], fresh[f], n)
                                /\ pos' = [pos EXCEPT ![f] = n]
         \/ /\ store' = store \/ store' = Written(f, p)
            /\ pc' = [pc EXCEPT ![f] = "reset"] /\ pos' = pos
  BY DEF UpsertEntries, bufferVars, Flushes, InFlight
<1>2. \A q \in Process, j \in Index :
        Written(f, p)[q][j] = IF q = p /\ j \in fresh[f] THEN batch[f][j] ELSE store[q][j]
  BY DEF Written, TypeOK
<1>3. fresh[f] \subseteq Index /\ \A j \in fresh[f] : batch[f][j] # NoEntry
  BY <1>1 DEF BufferPositions, WritesExist, TypeOK
<1>4. EntriesStay
  BY <1>1, <1>2, <1>3 DEF EntriesStay
<1>5. PositionReached' /\ WritesExist'
  <2>1. \A g \in Flusher : pc'[g] = (IF g = f THEN pc'[f] ELSE pc[g])
    BY <1>1 DEF TypeOK
  <2>2. pc'[f] # "upsert" /\ (pc'[f] = "onFlush" => pos'[f] \in Index)
    BY <1>1 DEF TypeOK
  <2>3. \A g \in Flusher : g # f => pos'[g] = pos[g]
    BY <1>1 DEF TypeOK
  <2>4. NoIndex \notin Index
    BY BoundsAssumption DEF Index, NoIndex
  <2>5. PositionReached'
    BY <2>1, <2>2, <2>3, <2>4 DEF BufferPositions, PositionReached
  <2>6. WritesExist'
    BY <1>1, <2>1, <2>2 DEF BufferPositions, WritesExist
  <2>7. QED
    BY <2>5, <2>6
<1>6. \A q \in Process : Stored(q, checkpoint[q])' /\ Stored(q, lastEntryIndex[q])'
  BY <1>1, <1>4 DEF BufferPositions, Positions, EntriesStay, Stored, TypeOK, Position
<1>7. ASSUME NEW g \in Flusher, NEW q \in Process, Flushes(g, q)'
      PROVE  Stored(q, pos[g])'
  <2>1. Flushes(g, q) /\ Stored(q, pos[g])
    BY <1>7, StoreCallFlushes DEF BufferPositions, Positions
  <2>2. CASE pos'[g] = pos[g]
    BY <1>4, <2>1, <2>2 DEF EntriesStay, Stored, TypeOK, Position
  <2>3. CASE pos'[g] # pos[g]
    <3>1. g = f
      BY <1>1, <2>3 DEF TypeOK
    <3>2. q = p
      BY <1>1, <2>1, <3>1 DEF Flushes
    <3>3. store' = Written(f, p) /\ AdvancesTo(pos[f], fresh[f], pos'[f]) /\ pos'[f] \in Index
      BY <1>1, <2>3, <3>1 DEF TypeOK
    <3>4. pos'[f] \in fresh[f]
      BY <2>3, <3>1, <3>3, AdvancesInto DEF TypeOK
    <3>5. QED
      BY <1>2, <1>3, <3>1, <3>2, <3>3, <3>4 DEF Stored
  <2>4. QED
    BY <2>2, <2>3
<1>8. QED
  BY <1>4, <1>5, <1>6, <1>7 DEF BufferPositions, Positions

\* The position of the flush becomes the stored one.
LEMMA OnFlushPositions ==
    ASSUME TypeOK, BufferPositions, NEW f \in Flusher, NEW p \in Process, OnFlush(f, p)
    PROVE  BufferPositions' /\ EntriesStay
<1>1. /\ UNCHANGED <<lastEntryIndex, store, batch, fresh, pos>>
      /\ pc[f] = "onFlush" /\ Flushes(f, p)
      /\ pc' = [pc EXCEPT ![f] = "finish"] \/ pc' = [pc EXCEPT ![f] = "reset"]
      /\ checkpoint' = checkpoint \/ checkpoint' = [checkpoint EXCEPT ![p] = pos[f]]
  BY DEF OnFlush, bufferVars, Flushes, InFlight
<1>2. Positions'
  <2>1. Stored(p, pos[f])
    BY <1>1 DEF BufferPositions, Positions
  <2>2. QED
    BY <1>1, <2>1, StoreCallFlushes DEF BufferPositions, Positions, Stored, TypeOK
<1>3. QED
  BY <1>1, <1>2 DEF BufferPositions, WritesExist, PositionReached, EntriesStay, TypeOK

\* The position of the flush becomes the one of the buffer, whatever its outcome.
LEMMA EndPositions ==
    ASSUME TypeOK, BufferPositions, NEW f \in Flusher, NEW p \in Process,
           FlushFinishes(f, p) \/ ResetProcessState(f, p)
    PROVE  BufferPositions' /\ EntriesStay
<1>1. /\ UNCHANGED <<store, checkpoint>>
      /\ lastEntryIndex' = [lastEntryIndex EXCEPT ![p] = pos[f]]
      /\ \E l \in {"idle", "ready"} : pc' = [pc EXCEPT ![f] = l]
      /\ Forget(f)
  BY DEF FlushFinishes, ResetProcessState, Return, storeVars
<1>2. /\ Flushes(f, p)
      /\ \A g \in Flusher, q \in Process : Flushes(g, q)' => g # f /\ Flushes(g, q)
  BY EndFlushes
<1>3. Positions'
  BY <1>1, <1>2 DEF BufferPositions, Positions, Stored, Forget, TypeOK
<1>4. QED
  BY <1>1, <1>3
     DEF BufferPositions, WritesExist, PositionReached, EntriesStay, Forget, TypeOK

\* Every step of the buffer keeps its positions stored.
LEMMA NextPositions ==
    ASSUME TypeOK, OneFlushPerProcess, BufferPositions, [Next]_vars
    PROVE  BufferPositions' /\ EntriesStay
<1>1. ASSUME NEW p \in Process, NEW i \in Index, NEW position \in {NoIndex, checkpoint[p]},
             NEW v \in Version, Enqueue(p, i, position, v)
      PROVE BufferPositions' /\ EntriesStay
  <2>1. position \in Position /\ Stored(p, position)
    BY DEF BufferPositions, Positions, Stored, TypeOK, Position
  <2>2. QED
    BY <1>1, <2>1, EnqueuePositions
<1>2. ASSUME NEW f \in Flusher, NEW ps, Start(f, ps),
             UNCHANGED <<lastEntryIndex, store, checkpoint>>
      PROVE BufferPositions' /\ EntriesStay
  <2>1. \A g \in Flusher, q \in Process : Flushes(g, q)' => Flushes(g, q)
    BY <1>2, StartFlushes
  <2>2. /\ \A g \in Flusher : pc'[g] \in {"upsert", "onFlush"} => pc'[g] = pc[g]
        /\ UNCHANGED <<batch, fresh, pos>>
    BY <1>2 DEF Start, TypeOK
  <2>3. QED
    BY <1>2, <2>1, <2>2, FramePositions
<1>3. ASSUME NEW f \in Flusher, NEW p \in Process, FlushSkips(f, p)
      PROVE BufferPositions' /\ EntriesStay
  <2>1. \A g \in Flusher, q \in Process : Flushes(g, q)' => Flushes(g, q)
    BY <1>3, SkipFlushes
  <2>2. \E l \in {"idle", "ready"} : pc' = [pc EXCEPT ![f] = l]
    BY <1>3 DEF FlushSkips, Return
  <2>3. /\ \A g \in Flusher : pc'[g] \in {"upsert", "onFlush"} => pc'[g] = pc[g]
        /\ UNCHANGED <<lastEntryIndex, store, checkpoint, batch, fresh, pos>>
    BY <1>3, <2>2 DEF FlushSkips, TypeOK, bufferVars, storeVars
  <2>4. QED
    BY <2>1, <2>3, FramePositions
<1>4. ASSUME NEW f \in Flusher, NEW p \in Process, FlushStep(f, p), ~FlushSkips(f, p)
      PROVE BufferPositions' /\ EntriesStay
  BY <1>4, BeginPositions, ListPositions, UpsertPositions, OnFlushPositions, EndPositions
     DEF FlushStep
<1>5. CASE UNCHANGED vars
  BY <1>5, FramePositions DEF vars, bufferVars, storeVars, localVars, Flushes
<1>6. QED
  <2>1. \A f \in Flusher, p \in Process :
           TimerFires(f, p) \/ CallFlushProcess(f, p)
           => Start(f, {p}) /\ UNCHANGED <<lastEntryIndex, store, checkpoint>>
    BY DEF TimerFires, CallFlushProcess, bufferVars, storeVars
  <2>2. \A f \in Flusher :
           CallFlushAll(f) => /\ Start(f, {p \in Process : created[p]})
                              /\ UNCHANGED <<lastEntryIndex, store, checkpoint>>
    BY DEF CallFlushAll, bufferVars, storeVars
  <2>3. QED
    BY <1>1, <1>2, <1>3, <1>4, <1>5, <2>1, <2>2 DEF Next

-----------------------------------------------------------------------------
(* Readers, crashes and positions *)

\* The position a reader works with is one that was stored when it was read.
KnownIsStored == \A r \in Reader : rpc[r] \notin {"idle", "read"} => Stored(of[r], known[r])

PositionInv == ReaderType /\ OneFlushPerProcess /\ BufferPositions /\ KnownIsStored

\* The invariant holds at the first start of the program.
LEMMA InitPosition == SyncInit => PositionInv
<1> SUFFICES ASSUME SyncInit PROVE PositionInv
  OBVIOUS
<1>1. ReaderType /\ OneFlushPerProcess
  BY SyncInitType, InitOneFlush DEF SyncInit
<1>2. Positions
  BY InitInv DEF SyncInit, Inv
<1>3. WritesExist /\ PositionReached /\ KnownIsStored
  BY DEF SyncInit, Init, WritesExist, PositionReached, KnownIsStored
<1>4. QED
  BY <1>1, <1>2, <1>3 DEF PositionInv, BufferPositions

\* A step of the readers keeps the buffer's part.
LEMMA StepPositions ==
    ASSUME PositionInv, SyncStep
    PROVE  OneFlushPerProcess' /\ BufferPositions' /\ EntriesStay
<1>1. TypeOK /\ OneFlushPerProcess /\ BufferPositions /\ ReaderVarsOK
  BY DEF PositionInv, ReaderType
<1>2. CASE [Next]_vars
  BY <1>1, <1>2, NextOneFlush, NextPositions
<1>3. ASSUME NEW r \in Reader, NEW i \in Index, NEW v \in Version, Buffers(r, i, v)
      PROVE  OneFlushPerProcess' /\ BufferPositions' /\ EntriesStay
  <2>1. /\ of[r] \in Process /\ known[r] \in Position /\ Stored(of[r], known[r])
        /\ Enqueue(of[r], i, known[r], v)
    BY <1>1, <1>3 DEF Buffers, PositionInv, KnownIsStored, ReaderVarsOK
  <2>2. OneFlushPerProcess'
    BY <1>1, <2>1, EnqueueFlushes, SameFlushes
  <2>3. QED
    BY <1>1, <2>1, <2>2, EnqueuePositions
<1>4. QED
  BY <1>2, <1>3, BufferView DEF PositionInv

\* A reader works with a process and a position it keeps until it subscribes
\* again; the position is the stored one, or none when it could not be read.
LEMMA KnownStep ==
    ASSUME ReaderType, SyncStep
    PROVE  \A r \in Reader :
             \/ /\ rpc'[r] \notin {"idle", "read"}
                /\ rpc[r] \notin {"idle", "read"} /\ of'[r] = of[r] /\ known'[r] = known[r]
             \/ rpc'[r] \in {"idle", "read"}
             \/ /\ rpc[r] = "read" /\ of'[r] = of[r] /\ known'[r] \in {checkpoint[of[r]], NoIndex}
<1>0. ReaderVarsOK /\ TypeOK
  BY DEF ReaderType
<1>1. ASSUME NEW s \in Reader, ReaderStep(s) \/ StreamEnds(s)
      PROVE  /\ of' = of
             /\ \/ \E l \in {"idle", "read", "check", "dial", "register", "reading",
                              "closing", "broken", "waiting"} :
                       /\ rpc' = [rpc EXCEPT ![s] = l]
                       /\ l \in {"idle", "read"} \/ rpc[s] \notin {"idle", "read"}
                       /\ known' = known
                \/ /\ rpc[s] = "read"
                   /\ rpc' = [rpc EXCEPT ![s] = "check"]
                   /\ \E n \in {checkpoint[of[s]], NoIndex} : known' = [known EXCEPT ![s] = n]
  <2>1. CASE Receive(s)
    BY <1>0, <2>1 DEF Receive, ReaderVarsOK
  <2>2. CASE ~Receive(s)
    BY <1>1, <2>2 DEF ReaderStep, ReadSubscription, CheckStreams, DialSucceeds, DialFails,
                      Register, Unregister, Reconnect, StreamEnds, Phase
  <2>3. QED
    BY <2>1, <2>2
<1>2. ASSUME NEW s \in Reader, NEW p \in Process, SessionReports(s, p)
      PROVE  /\ rpc[s] = "idle" /\ known' = known
             /\ \/ UNCHANGED <<rpc, of>>
                \/ rpc' = [rpc EXCEPT ![s] = "read"] /\ of' = [of EXCEPT ![s] = p]
  BY <1>2 DEF SessionReports, Phase
<1>3. CASE UNCHANGED <<rpc, of, known>>
  BY <1>3
<1>4. SyncStep => \/ UNCHANGED <<rpc, of, known>>
                  \/ \E s \in Reader : ReaderStep(s) \/ StreamEnds(s)
                  \/ \E s \in Reader, p \in Process : SessionReports(s, p)
  BY DEF SyncStep, UpstreamWrites, UpstreamFinishes, BufferStep, syncVars, readerVars
<1>5. CASE \E s \in Reader : ReaderStep(s) \/ StreamEnds(s)
  BY <1>0, <1>1, <1>5 DEF ReaderVarsOK
<1>6. CASE \E s \in Reader, p \in Process : SessionReports(s, p)
  BY <1>0, <1>2, <1>6 DEF ReaderVarsOK
<1>7. QED
  BY <1>3, <1>4, <1>5, <1>6

\* A position is known once it was read, and nothing makes it wrong again.
LEMMA StepKnown ==
    ASSUME PositionInv, SyncStep
    PROVE  KnownIsStored'
<1>0. ReaderVarsOK /\ TypeOK /\ KnownIsStored /\ EntriesStay
  BY StepPositions DEF PositionInv, ReaderType
<1>1. \A r \in Reader :
        \/ /\ rpc'[r] \notin {"idle", "read"}
           /\ rpc[r] \notin {"idle", "read"} /\ of'[r] = of[r] /\ known'[r] = known[r]
        \/ rpc'[r] \in {"idle", "read"}
        \/ /\ rpc[r] = "read" /\ of'[r] = of[r] /\ known'[r] \in {checkpoint[of[r]], NoIndex}
  BY KnownStep DEF PositionInv
<1>2. ASSUME NEW r \in Reader, rpc'[r] \notin {"idle", "read"}
      PROVE  Stored(of[r], known[r])'
  <2>1. of'[r] = of[r] /\ Stored(of[r], known'[r])
    <3>1. /\ Stored(of[r], checkpoint[of[r]]) /\ Stored(of[r], NoIndex)
          /\ rpc[r] \notin {"idle", "read"} => Stored(of[r], known[r])
      BY <1>0 DEF KnownIsStored, PositionInv, BufferPositions, Positions, Stored, ReaderVarsOK
    <3>2. CASE known'[r] = known[r] /\ rpc[r] \notin {"idle", "read"}
      BY <1>1, <1>2, <3>1, <3>2
    <3>3. CASE known'[r] \in {checkpoint[of[r]], NoIndex}
      BY <1>1, <1>2, <3>1, <3>3
    <3>4. QED
      BY <1>1, <1>2, <3>2, <3>3
  <2>2. of[r] \in Process /\ known'[r] \in Position
    BY <1>0, <1>1, <1>2 DEF ReaderVarsOK, TypeOK, Position
  <2>3. QED
    BY <1>0, <2>1, <2>2 DEF EntriesStay, Stored, Position
<1>3. QED
  BY <1>2 DEF KnownIsStored

\* A crash loses what is in memory, and with it every position but the stored one.
LEMMA CrashPositions ==
    ASSUME PositionInv, Crash
    PROVE  OneFlushPerProcess' /\ BufferPositions' /\ KnownIsStored'
<1>1. /\ \A p \in Process : Stored(p, checkpoint[p])
      /\ UNCHANGED <<store, checkpoint>>
  BY DEF PositionInv, BufferPositions, Positions, Crash, storeVars
<1>2. OneFlushPerProcess'
  BY DEF Crash, OneFlushPerProcess, Flushes, InFlight
<1>3. Positions'
  BY <1>1 DEF Crash, Positions, Stored, Flushes, InFlight
<1>4. WritesExist' /\ PositionReached' /\ KnownIsStored'
  BY DEF Crash, WritesExist, PositionReached, KnownIsStored
<1>5. QED
  BY <1>2, <1>3, <1>4 DEF BufferPositions

\* Every step keeps the invariant.
LEMMA NextPosition == PositionInv /\ [SyncNext]_allVars => PositionInv'
<1> SUFFICES ASSUME PositionInv, [SyncNext]_allVars PROVE PositionInv'
  OBVIOUS
<1>1. ReaderType'
  BY SyncNextType DEF PositionInv
<1>2. CASE SyncStep
  BY <1>1, <1>2, StepPositions, StepKnown DEF PositionInv
<1>3. CASE Crash
  BY <1>1, <1>3, CrashPositions DEF PositionInv
<1>4. CASE UNCHANGED allVars
  BY <1>1, <1>4
     DEF PositionInv, allVars, stepVars, vars, bufferVars, storeVars, localVars, historyVars,
         syncVars, readerVars, OneFlushPerProcess, Flushes, BufferPositions, Positions, Stored,
         WritesExist, PositionReached, KnownIsStored
<1>5. QED
  BY <1>2, <1>3, <1>4 DEF SyncNext

\* The stored position of a log points at a stored entry, however streams break,
\* calls fail, readers race for a process and the program dies.
THEOREM PositionsAreStored == SyncSpec => []CheckpointIsStored
<1>1. PositionInv => CheckpointIsStored
  BY DEF PositionInv, BufferPositions, Positions, Stored, CheckpointIsStored
<1>2. QED
  BY <1>1, InitPosition, NextPosition, PTL DEF SyncSpec

\* Also when flushes of several readers race and the program restarts, a
\* process is flushed by one goroutine at a time.
THEOREM FlushExclusionSurvives == SyncSpec => []OneFlushPerProcess
<1>1. PositionInv => OneFlushPerProcess
  BY DEF PositionInv
<1>2. QED
  BY <1>1, InitPosition, NextPosition, PTL DEF SyncSpec

\* Only a flush that reached a position writes one; all other writes of the row
\* leave it.
LEMMA StepNeverErases ==
    PositionInv /\ [SyncNext]_allVars =>
      [\A p \in Process : checkpoint[p] # NoIndex => checkpoint'[p] # NoIndex]_allVars
<1> SUFFICES ASSUME PositionInv, SyncNext, NEW p \in Process, checkpoint[p] # NoIndex
             PROVE  checkpoint'[p] # NoIndex
  OBVIOUS
<1>0. TypeOK /\ PositionReached
  BY DEF PositionInv, ReaderType, BufferPositions
<1>1. CASE checkpoint' = checkpoint
  BY <1>1
<1>2. CASE \E f \in Flusher, q \in Process : OnFlush(f, q)
  <2>1. PICK f \in Flusher, q \in Process : OnFlush(f, q)
    BY <1>2
  <2>2. /\ pos[f] # NoIndex
        /\ checkpoint' = checkpoint \/ checkpoint' = [checkpoint EXCEPT ![q] = pos[f]]
    BY <1>0, <2>1 DEF OnFlush, PositionReached
  <2>3. QED
    BY <1>0, <2>2 DEF TypeOK
<1>3. [Next]_vars => checkpoint' = checkpoint \/ \E f \in Flusher, q \in Process : OnFlush(f, q)
  BY DEF Next, FlushStep, Enqueue, TimerFires, CallFlushProcess, CallFlushAll, FlushSkips,
         FlushBegins, ListEntries, UpsertEntries, FlushFinishes, ResetProcessState, vars, storeVars
<1>4. CASE SyncStep
  <2>1. CASE [Next]_vars
    BY <1>1, <1>2, <1>3, <2>1
  <2>2. ASSUME NEW r \in Reader, NEW i \in Index, NEW v \in Version, Buffers(r, i, v)
        PROVE checkpoint'[p] # NoIndex
    BY <2>2 DEF Buffers, Enqueue, storeVars
  <2>3. QED
    BY <1>4, <2>1, <2>2, BufferView DEF PositionInv
<1>5. CASE Crash
  BY <1>1, <1>5 DEF Crash, storeVars
<1>6. QED
  BY <1>4, <1>5 DEF SyncNext

\* A stored position is not erased by a change of status, by a flush that has
\* nothing to record, by a failing call or by a crash.
THEOREM PositionSurvives == SyncSpec => PositionNeverErased
  BY InitPosition, NextPosition, StepNeverErases, PTL DEF SyncSpec, PositionNeverErased

-----------------------------------------------------------------------------
(* Who will flush what is buffered *)

\* A goroutine that is not inside FlushAll has no process left to flush, and no
\* call of the store has failed yet.
NothingTodo == \A f \in Flusher : pc[f] = "idle" => todo[f] = {}
NoReset == faults = 0 => \A f \in Flusher : pc[f] # "reset"

\* Somebody will flush the process.
Attended(p) ==
    \/ flushing[p] \/ timer[p] = "armed"
    \/ \E f \in Flusher : p \in todo[f]
    \/ \E r \in Reader : of[r] = p /\ rpc[r] = "reading"

StrandInv == ReaderType /\ NothingTodo /\ NoReset /\ NothingStranded

\* Every step but a reset gives a goroutine's whole list away, or takes from it
\* the process it flushed.
LEMMA TodoStep ==
    ASSUME ReaderType, NothingTodo, SyncStep
    PROVE  NothingTodo'
<1>0. TypeOK
  BY DEF ReaderType
<1>1. ASSUME NEW f \in Flusher, NEW ps \in SUBSET Process, Start(f, ps)
      PROVE NothingTodo'
  BY <1>0, <1>1 DEF Start, NothingTodo, TypeOK
<1>2. ASSUME NEW f \in Flusher, NEW p \in Process, Return(f, p)
      PROVE NothingTodo'
  BY <1>0, <1>2 DEF Return, NothingTodo, TypeOK
<1>3. ASSUME NEW f \in Flusher, NEW p \in Process, FlushStep(f, p), ~Return(f, p)
      PROVE NothingTodo'
  <2>1. CASE FlushBegins(f, p) \/ ListEntries(f, p) \/ UpsertEntries(f, p) \/ OnFlush(f, p)
    <3>1. todo' = todo /\ \E l \in InFlight : pc' = [pc EXCEPT ![f] = l]
      BY <2>1 DEF FlushBegins, ListEntries, UpsertEntries, OnFlush, InFlight
    <3>2. QED
      BY <1>0, <3>1 DEF NothingTodo, TypeOK, InFlight
  <2>2. CASE ResetProcessState(f, p)
    BY <1>0, <2>2 DEF ResetProcessState, NothingTodo, TypeOK
  <2>3. QED
    BY <1>3, <2>1, <2>2 DEF FlushStep, FlushSkips, FlushFinishes
<1>4. CASE UNCHANGED <<pc, todo>>
  BY <1>4 DEF NothingTodo
<1>5. CASE [Next]_vars
  <2>1. \A f \in Flusher, p \in Process :
          TimerFires(f, p) \/ CallFlushProcess(f, p) => Start(f, {p})
    BY DEF TimerFires, CallFlushProcess
  <2>2. \A f \in Flusher : CallFlushAll(f) => Start(f, {p \in Process : created[p]})
    BY DEF CallFlushAll
  <2>3. \A p \in Process, i \in Index, n \in Position, v \in Version :
          Enqueue(p, i, n, v) => UNCHANGED <<pc, todo>>
    BY DEF Enqueue, localVars
  <2>4. \A p \in Process, i \in Index : {NoIndex, checkpoint[p]} \subseteq Position
    BY <1>0 DEF TypeOK, Position
  <2>5. QED
    BY <1>1, <1>2, <1>3, <1>4, <1>5, <2>1, <2>2, <2>3, <2>4
       DEF Next, vars, localVars
<1>6. CASE \E r \in Reader, i \in Index, v \in Version : Buffers(r, i, v)
  BY <1>4, <1>6 DEF Buffers, Enqueue, localVars
<1>7. QED
  BY <1>5, <1>6, BufferView

\* A step of a reader leaves every stream being read that was, unless it ends.
LEMMA ReadingStep ==
    ASSUME ReaderType, SyncStep, NEW s \in Reader, rpc[s] = "reading"
    PROVE  of'[s] = of[s] /\ (rpc'[s] = "reading" \/ StreamEnds(s))
<1>0. ReaderVarsOK
  BY DEF ReaderType
<1>1. CASE \E p \in Process, i \in Index, v \in Version : UpstreamWrites(p, i, v)
  BY <1>1 DEF UpstreamWrites, readerVars
<1>2. CASE \E p \in Process : UpstreamFinishes(p)
  BY <1>2 DEF UpstreamFinishes, readerVars
<1>3. ASSUME NEW r \in Reader, NEW p \in Process, SessionReports(r, p)
      PROVE  of'[s] = of[s] /\ rpc'[s] = "reading"
  BY <1>0, <1>3 DEF SessionReports, Phase, ReaderVarsOK
<1>4. ASSUME NEW r \in Reader, ReaderStep(r)
      PROVE  of'[s] = of[s] /\ rpc'[s] = "reading"
  BY <1>0, <1>4 DEF ReaderStep, ReadSubscription, CheckStreams, DialSucceeds, DialFails, Register,
                    Receive, Unregister, Reconnect, Phase, ReaderVarsOK
<1>5. ASSUME NEW r \in Reader, StreamEnds(r)
      PROVE  of'[s] = of[s] /\ (rpc'[s] = "reading" \/ r = s)
  BY <1>0, <1>5 DEF StreamEnds, Phase, ReaderVarsOK
<1>6. CASE \E f \in Flusher, p \in Process : BufferStep(f, p)
  BY <1>6 DEF BufferStep, syncVars, readerVars
<1>7. QED
  BY <1>1, <1>2, <1>3, <1>4, <1>5, <1>6 DEF SyncStep

\* A flush, which has failed in no call, leaves nothing pending or leaves the
\* process to somebody.
LEMMA FlushAttends ==
    ASSUME TypeOK, NEW f \in Flusher, NEW p \in Process, FlushStep(f, p), pc[f] # "reset",
           NEW q \in Process, Attended(q) \/ Held(pending[q]) = {},
           UNCHANGED <<of, rpc>>
    PROVE  Attended(q)' \/ Held(pending'[q]) = {}
<1>1. CASE FlushSkips(f, p)
  <2>1. /\ UNCHANGED <<flushing, timer, pending>>
        /\ todo' = [todo EXCEPT ![f] = @ \ {p}]
        /\ Held(pending[p]) = {} \/ flushing[p]
    BY <1>1 DEF FlushSkips, Return, bufferVars, Free
  <2>2. QED
    BY <2>1 DEF Attended, TypeOK
<1>2. CASE FlushBegins(f, p)
  <2>1. /\ flushing' = [flushing EXCEPT ![p] = TRUE]
        /\ timer' = [timer EXCEPT ![p] = "none"]
        /\ UNCHANGED <<pending, todo>>
    BY <1>2 DEF FlushBegins
  <2>2. flushing'[p] /\ (q # p => flushing'[q] = flushing[q] /\ timer'[q] = timer[q])
    BY <2>1 DEF TypeOK
  <2>3. QED
    BY <2>1, <2>2 DEF Attended
<1>3. CASE ListEntries(f, p) \/ UpsertEntries(f, p) \/ OnFlush(f, p)
  <2>1. UNCHANGED <<flushing, timer, pending, todo>>
    BY <1>3 DEF ListEntries, UpsertEntries, OnFlush, bufferVars
  <2>2. QED
    BY <2>1 DEF Attended
<1>4. CASE FlushFinishes(f, p)
  <2>1. /\ pending' = [pending EXCEPT ![p] = NoEntries]
        /\ flushing' = [flushing EXCEPT ![p] = FALSE]
        /\ todo' = [todo EXCEPT ![f] = @ \ {p}]
        /\ UNCHANGED timer
    BY <1>4 DEF FlushFinishes, Release, Return
  <2>2. CASE q = p
    BY <2>1, <2>2 DEF Held, NoEntries, TypeOK
  <2>3. CASE q # p
    <3>1. pending'[q] = pending[q] /\ flushing'[q] = flushing[q]
      BY <2>1, <2>3 DEF TypeOK
    <3>2. \A g \in Flusher : q \in todo[g] => q \in todo'[g]
      BY <2>1, <2>3 DEF TypeOK
    <3>3. QED
      BY <2>1, <3>1, <3>2 DEF Attended
  <2>4. QED
    BY <2>2, <2>3
<1>5. QED
  BY <1>1, <1>2, <1>3, <1>4 DEF FlushStep, ResetProcessState

\* What is buffered has somebody to flush it, or is flushed.
LEMMA StepAttends ==
    ASSUME ReaderType, NothingTodo, SyncStep, \A f \in Flusher : pc[f] # "reset",
           NEW q \in Process, Attended(q) \/ Held(pending[q]) = {}
    PROVE  Attended(q)' \/ Held(pending'[q]) = {}
<1>0. TypeOK /\ ReaderVarsOK
  BY DEF ReaderType
<1>1. ASSUME NEW f \in Flusher, NEW p \in Process, BufferStep(f, p)
      PROVE  Attended(q)' \/ Held(pending'[q]) = {}
  <2>1. UNCHANGED <<of, rpc>>
    BY <1>1 DEF BufferStep, syncVars, readerVars
  <2>2. CASE FlushStep(f, p)
    BY <1>0, <2>1, <2>2, FlushAttends
  <2>3. CASE TimerFires(f, p)
    <3>1. /\ timer' = [timer EXCEPT ![p] = "fired"]
          /\ todo' = [todo EXCEPT ![f] = {p}]
          /\ todo[f] = {}
          /\ UNCHANGED <<flushing, pending>>
      BY <2>3 DEF TimerFires, Start, NothingTodo
    <3>2. p \in todo'[f] /\ \A g \in Flusher : todo[g] \subseteq todo'[g]
      BY <1>0, <3>1 DEF TypeOK
    <3>3. q # p => timer'[q] = timer[q]
      BY <1>0, <3>1 DEF TypeOK
    <3>4. QED
      BY <2>1, <3>1, <3>2, <3>3 DEF Attended
  <2>4. QED
    BY <1>1, <2>2, <2>3 DEF BufferStep
<1>2. ASSUME NEW r \in Reader, StreamEnds(r)
      PROVE  Attended(q)' \/ Held(pending'[q]) = {}
  <2>1. /\ todo' = [todo EXCEPT ![r] = {of[r]}]
        /\ r \in Flusher /\ todo[r] = {}
        /\ UNCHANGED <<flushing, timer, pending>>
        /\ of' = of
    BY <1>2, ReaderAssumption
       DEF StreamEnds, DeferredFlush, Start, NothingTodo, bufferVars
  <2>2. of[r] \in todo'[r] /\ \A g \in Flusher : todo[g] \subseteq todo'[g]
    BY <1>0, <2>1 DEF TypeOK
  <2>3. \A s \in Reader : s # r => rpc'[s] = rpc[s]
    BY <1>0, <1>2 DEF StreamEnds, Phase, ReaderVarsOK
  <2>4. QED
    BY <2>1, <2>2, <2>3 DEF Attended
<1>3. ASSUME NEW r \in Reader, Receive(r)
      PROVE  Attended(q)' \/ Held(pending'[q]) = {}
  <2>1. rpc[r] = "reading" /\ UNCHANGED <<rpc, of>>
    BY <1>3 DEF Receive
  <2>2. /\ UNCHANGED <<flushing, todo>>
        /\ timer[q] = "armed" => timer'[q] = "armed"
        /\ q # of[r] => pending'[q] = pending[q]
    BY <1>0, <1>3 DEF Receive, Enqueue, TypeOK, ReaderVarsOK, vars, bufferVars, localVars
  <2>3. QED
    BY <2>1, <2>2 DEF Attended
<1>4. CASE UNCHANGED <<flushing, timer, pending, todo>> /\ \A s \in Reader : ~StreamEnds(s)
  <2>1. \A s \in Reader : rpc[s] = "reading" => of'[s] = of[s] /\ rpc'[s] = "reading"
    BY <1>4, ReadingStep
  <2>2. QED
    BY <1>4, <2>1 DEF Attended
<1>5. \/ UNCHANGED <<flushing, timer, pending, todo>>
      \/ \E r \in Reader : StreamEnds(r) \/ Receive(r)
      \/ \E f \in Flusher, p \in Process : BufferStep(f, p)
  <2>1. \/ \E r \in Reader : StreamEnds(r) \/ Receive(r)
        \/ \E f \in Flusher, p \in Process : BufferStep(f, p)
        \/ \E p \in Process, i \in Index, v \in Version : UpstreamWrites(p, i, v)
        \/ \E p \in Process : UpstreamFinishes(p)
        \/ \E r \in Reader, p \in Process : SessionReports(r, p)
        \/ \E r \in Reader : ReadSubscription(r) \/ CheckStreams(r) \/ DialSucceeds(r)
                             \/ DialFails(r) \/ Register(r) \/ Unregister(r) \/ Reconnect(r)
    BY DEF SyncStep, ReaderStep
  <2>2. QED
    BY <2>1 DEF UpstreamWrites, UpstreamFinishes, SessionReports, ReadSubscription, CheckStreams,
                DialSucceeds, DialFails, Register, Unregister, Reconnect, vars, bufferVars,
                localVars
<1>6. QED
  BY <1>1, <1>2, <1>3, <1>4, <1>5

\* The invariant holds at the first start.
LEMMA InitStrand == SyncInit => StrandInv
  BY SyncInitType
     DEF StrandInv, SyncInit, Init, NothingTodo, NoReset, NothingStranded, Held, NoEntries

\* Every step keeps it.
LEMMA NextStrand == StrandInv /\ [SyncNext]_allVars => StrandInv'
<1> SUFFICES ASSUME StrandInv, [SyncNext]_allVars PROVE StrandInv'
  OBVIOUS
<1>0. ReaderType /\ NothingTodo /\ NoReset /\ NothingStranded /\ faults \in Nat
  BY ReaderAssumption DEF StrandInv, ReaderType
<1>1. ReaderType'
  BY <1>0, SyncNextType
<1>2. CASE SyncStep /\ faults' = IF Succeeds THEN faults ELSE faults + 1
  <2>1. NothingTodo'
    BY <1>0, <1>2, TodoStep
  <2>2. ASSUME faults' = 0
        PROVE  /\ \A f \in Flusher : pc'[f] # "reset"
               /\ \A q \in Process : Attended(q)' \/ Held(pending'[q]) = {}
    <3>1. faults = 0 /\ Succeeds
      BY <1>0, <1>2, <2>2
    <3>2. \A q \in Process : Attended(q) \/ Held(pending[q]) = {}
      BY <1>0, <3>1 DEF NothingStranded, Attended
    <3>3. \A f \in Flusher : pc[f] # "reset"
      BY <1>0, <3>1 DEF NoReset
    <3>4. QED
      BY <1>0, <1>2, <3>1, <3>2, <3>3, StepAttends DEF Succeeds
  <2>3. NothingStranded'
    BY <2>2 DEF NothingStranded, Attended
  <2>4. QED
    BY <1>1, <2>1, <2>2, <2>3 DEF StrandInv, NoReset
<1>3. CASE Crash /\ faults' = faults + 1
  <2>1. faults' # 0
    BY <1>0, <1>3
  <2>2. NothingTodo'
    BY <1>3 DEF Crash, NothingTodo
  <2>3. QED
    BY <1>1, <2>1, <2>2 DEF StrandInv, NoReset, NothingStranded
<1>4. CASE UNCHANGED allVars
  BY <1>0, <1>1, <1>4
     DEF StrandInv, allVars, stepVars, vars, bufferVars, localVars, syncVars, readerVars,
         NothingTodo, NoReset, NothingStranded
<1>5. QED
  BY <1>2, <1>3, <1>4 DEF SyncNext

\* While nothing fails, whatever is buffered has somebody who will flush it: no
\* order of timers, flushes, closing streams and new entries leaves it stranded.
THEOREM NothingIsStranded == SyncSpec => []NothingStranded
<1>1. StrandInv => NothingStranded
  BY DEF StrandInv
<1>2. QED
  BY <1>1, InitStrand, NextStrand, PTL DEF SyncSpec

-----------------------------------------------------------------------------
(* The entries of a log *)

\* The order of the natural numbers, as a relation.
LEMMA OrderOfNat ==
    /\ IsWellFoundedOn({ss \in Nat \X Nat : ss[1] < ss[2]}, Nat)
    /\ \A x, y \in Nat : x < y => <<x, y>> \in {ss \in Nat \X Nat : ss[1] < ss[2]}
<1>1. IsWellFoundedOn({ss \in Nat \X Nat : ss[1] < ss[2]}, Nat)
  BY NatLessThanWellFounded DEF OpToRel
<1>2. ASSUME NEW x \in Nat, NEW y \in Nat, x < y
      PROVE  <<x, y>> \in {ss \in Nat \X Nat : ss[1] < ss[2]}
  BY <1>2
<1>3. QED
  BY <1>1, <1>2

\* A nonempty set of natural numbers has a smallest one.
LEMMA SmallestOf ==
    ASSUME NEW T, T \subseteq Nat, T # {}
    PROVE  \E x \in T : \A y \in T : x <= y
<1> DEFINE R == {ss \in Nat \X Nat : ss[1] < ss[2]}
<1>1. IsWellFoundedOn(R, Nat) /\ \A x, y \in Nat : x < y => <<x, y>> \in R
  BY OrderOfNat
<1> HIDE DEF R
<1>2. \E x \in T : \A y \in T : ~(<<y, x>> \in R)
  <2>1. IsWellFoundedOn(R, Nat)
    BY <1>1
  <2>2. QED
    BY <2>1, WFMin, Zenon
<1>3. PICK x \in T : \A y \in T : ~(<<y, x>> \in R)
  BY <1>2
<1>4. \A y \in T : ~(y < x)
  BY <1>1, <1>3
<1>5. QED
  BY <1>4

\* A bounded nonempty set of numbers has a largest one.
LEMMA LargestOf ==
    ASSUME NEW n \in Nat, NEW S, S \subseteq 0 .. n, S # {}
    PROVE  \E x \in S : \A y \in S : y <= x
<1> DEFINE T == {n - y : y \in S}
<1>0. \A y \in S : n - y \in Nat
  OBVIOUS
<1>1. T \subseteq Nat /\ T # {}
  BY <1>0
<1>2. PICK k \in T : \A l \in T : k <= l
  BY <1>1, SmallestOf
<1>3. PICK x \in S : k = n - x
  OBVIOUS
<1>4. ASSUME NEW y \in S PROVE y <= x
  <2>1. n - x <= n - y
    BY <1>2, <1>3
  <2>2. QED
    BY <2>1
<1>5. QED
  BY <1>4

\* The log of p holds entry i.
Occurs(p, i) == \E n \in 1 .. Len(log[p]) : log[p][n][1] = i

\* An entry has a version upstream exactly when the log holds it.
LEMMA CurrentOccurs ==
    ASSUME ReaderVarsOK, NEW p \in Process, NEW i \in Index
    PROVE  Current(p, i) # NoEntry <=> Occurs(p, i)
<1> DEFINE places == {m \in 1 .. Len(log[p]) : log[p][m][1] = i}
           versions == {log[p][n][2] : n \in places}
<1>1. \A n \in 1 .. Len(log[p]) : log[p][n] \in Index \X Version
  BY LenProperties, ElementOfSeq DEF ReaderVarsOK
<1>2. versions \subseteq 0 .. MaxVersion
  BY <1>1 DEF Version
<1>3. versions = {} <=> ~Occurs(p, i)
  BY DEF Occurs
<1>4. versions # {} => \E v \in versions : \A w \in versions : w <= v
  BY <1>2, LargestOf, BoundsAssumption
<1>5. Current(p, i) = IF versions = {} THEN NoEntry
                      ELSE CHOOSE v \in versions : \A w \in versions : w <= v
  BY DEF Current
<1>6. NoEntry \notin 0 .. MaxVersion
  BY BoundsAssumption DEF NoEntry
<1>7. QED
  <2> HIDE DEF versions
  <2>1. QED
    BY <1>2, <1>3, <1>4, <1>5, <1>6

\* A log first gets its entries in the order of their indexes.
Ordered ==
    \A p \in Process, i \in Index : \A m \in 1 .. Len(log[p]) :
        Occurs(p, i) /\ i < log[p][m][1] => \E n \in 1 .. m - 1 : log[p][n][1] = i

\* What the upstream server appends.
LEMMA WrittenLog ==
    ASSUME ReaderVarsOK, NEW p \in Process, NEW i \in Index, NEW v \in Version,
           UpstreamWrites(p, i, v)
    PROVE  /\ \A q \in Process, j \in Index :
                 Occurs(q, j)' <=> Occurs(q, j) \/ (q = p /\ j = i)
           /\ ~Occurs(p, i) => \A j \in Index : Occurs(p, j) => j < i
           /\ Len(log'[p]) = Len(log[p]) + 1 /\ log'[p][Len(log[p]) + 1] = <<i, v>>
           /\ \A q \in Process : \A n \in 1 .. Len(log[q]) : log'[q][n] = log[q][n]
           /\ \A q \in Process : q # p => log'[q] = log[q]
<1>1. \A q \in Process : log[q] \in Seq(Index \X Version) /\ Len(log[q]) \in Nat
  BY LenProperties DEF ReaderVarsOK
<1>2. log' = [log EXCEPT ![p] = Append(@, <<i, v>>)]
  BY DEF UpstreamWrites
<1>3. /\ Len(log'[p]) = Len(log[p]) + 1
      /\ log'[p][Len(log[p]) + 1] = <<i, v>>
      /\ \A n \in 1 .. Len(log[p]) : log'[p][n] = log[p][n]
  <2>1. log'[p] = Append(log[p], <<i, v>>)
    BY <1>2 DEF ReaderVarsOK
  <2>2. QED
    BY <1>1, <2>1, AppendProperties
<1>4. \A q \in Process : q # p => log'[q] = log[q]
  BY <1>2 DEF ReaderVarsOK
<1>5. ASSUME NEW j \in Index
      PROVE  Occurs(p, j)' <=> Occurs(p, j) \/ j = i
  <2>1. 1 .. Len(log'[p]) = 1 .. Len(log[p]) \cup {Len(log[p]) + 1}
    BY <1>1, <1>3
  <2>2. log'[p][Len(log[p]) + 1][1] = i
    BY <1>3
  <2>3. QED
    BY <1>3, <2>1, <2>2 DEF Occurs
<1>6. \A q \in Process, j \in Index : q # p => (Occurs(q, j)' <=> Occurs(q, j))
  BY <1>4 DEF Occurs
<1>7. ~Occurs(p, i) => \A j \in Index : Occurs(p, j) => j < i
  BY CurrentOccurs DEF UpstreamWrites
<1>8. QED
  BY <1>3, <1>4, <1>5, <1>6, <1>7

\* Logs stay in order.
LEMMA StepOrdered ==
    ASSUME ReaderVarsOK, Ordered, SyncStep
    PROVE  Ordered'
<1>1. CASE UNCHANGED log
  BY <1>1 DEF Ordered, Occurs
<1>2. ASSUME NEW p \in Process, NEW i \in Index, NEW v \in Version, UpstreamWrites(p, i, v)
      PROVE  Ordered'
  <2> SUFFICES ASSUME NEW q \in Process, NEW j \in Index, NEW m \in 1 .. Len(log'[q]),
                      Occurs(q, j)', j < log'[q][m][1]
               PROVE  \E n \in 1 .. m - 1 : log'[q][n][1] = j
    BY DEF Ordered
  <2>0. Len(log[q]) \in Nat
    BY LenProperties DEF ReaderVarsOK
  <2>1. CASE q # p
    BY <1>2, <2>1, WrittenLog DEF Ordered
  <2>2. CASE q = p /\ m \in 1 .. Len(log[p])
    <3>1. log'[p][m] = log[p][m]
      BY <1>2, <2>2, WrittenLog
    <3>2. Occurs(p, j)
      <4>1. CASE j # i \/ Occurs(p, i)
        BY <1>2, <2>2, <4>1, WrittenLog
      <4>2. CASE j = i /\ ~Occurs(p, i)
        <5>1. Occurs(p, log[p][m][1])
          BY <2>2 DEF Occurs
        <5>2. log[p][m][1] \in Index
          BY <2>2, ElementOfSeq, LenProperties DEF ReaderVarsOK
        <5>3. log[p][m][1] < i
          BY <1>2, <4>2, <5>1, <5>2, WrittenLog
        <5>4. QED
          BY <2>2, <3>1, <4>2, <5>2, <5>3 DEF Index
      <4>3. QED
        BY <4>1, <4>2
    <3>3. PICK n \in 1 .. m - 1 : log[p][n][1] = j
      BY <2>2, <3>1, <3>2 DEF Ordered
    <3>4. log'[p][n] = log[p][n]
      BY <1>2, <2>0, <2>2, WrittenLog
    <3>5. QED
      BY <2>2, <3>3, <3>4
  <2>3. CASE q = p /\ m = Len(log[p]) + 1
    <3>1. log'[p][m][1] = i
      BY <1>2, <2>3, WrittenLog
    <3>2. j # i
      BY <2>3, <3>1 DEF Index
    <3>3. Occurs(p, j)
      BY <1>2, <2>3, <3>2, WrittenLog
    <3>4. PICK n \in 1 .. Len(log[p]) : log[p][n][1] = j
      BY <3>3 DEF Occurs
    <3>5. log'[p][n][1] = j
      BY <1>2, <3>4, WrittenLog
    <3>6. QED
      BY <2>0, <2>3, <3>5
  <2>4. QED
    BY <1>2, <2>0, <2>1, <2>2, <2>3, WrittenLog
<1>3. UNCHANGED log \/ \E p \in Process, i \in Index, v \in Version : UpstreamWrites(p, i, v)
  BY DEF SyncStep, ReaderStep, UpstreamFinishes, SessionReports, ReadSubscription, CheckStreams,
         DialSucceeds, DialFails, Register, Receive, Unregister, Reconnect, StreamEnds,
         BufferStep, syncVars, upstreamVars
<1>4. QED
  BY <1>1, <1>2, <1>3

-----------------------------------------------------------------------------
(* What a flush and a reader know while nothing fails *)

\* Entries come from the log.
FromLog ==
    \A p \in Process, i \in Index :
        ~Occurs(p, i) => /\ store[p][i] = NoEntry
                         /\ pending[p][i] = NoEntry
                         /\ \A f \in Flusher : Flushes(f, p) => batch[f][i] = NoEntry

\* Every entry of the log before position n is stored.
Covered(p, n) == \A i \in Index : i < n /\ Occurs(p, i) => store[p][i] # NoEntry

\* It is so for every position that is stored or that a goroutine works with.
AllCovered ==
    /\ \A p \in Process : Covered(p, checkpoint[p]) /\ Covered(p, lastEntryIndex[p])
    /\ \A f \in Flusher, p \in Process : Flushes(f, p) => Covered(p, pos[f])
    /\ \A r \in Reader : rpc[r] \notin {"idle", "read"} => Covered(of[r], known[r])

\* With an entry a map holds all entries of the log before it.
Closed(p, slots) ==
    \A i, j \in Index : slots[j] # NoEntry /\ i < j /\ Occurs(p, i) => slots[i] # NoEntry

\* A buffer without a position has kept whatever its readers received.
Unplaced(p) ==
    /\ Closed(p, pending[p])
    /\ \A i \in Index : store[p][i] # NoEntry => pending[p][i] # NoEntry
    /\ \A r \in Reader : rpc[r] = "reading" /\ of[r] = p =>
          /\ \A n \in 1 .. at[r] : pending[p][log[p][n][1]] # NoEntry
          /\ \A i \in Index : seen[r][i] # NoEntry => pending[p][i] # NoEntry
    /\ \A f \in Flusher : Flushes(f, p) =>
          /\ Closed(p, batch[f])
          /\ \A i \in Index : batch[f][i] # NoEntry => pending[p][i] # NoEntry

AllUnplaced == \A p \in Process : lastEntryIndex[p] = NoIndex => Unplaced(p)

\* A flush has something to write, starts at the position of the buffer and
\* reaches one.
Flight(f, p) ==
    /\ \E i \in Index : batch[f][i] # NoEntry
    /\ pc[f] \in {"list", "upsert"} => pos[f] = lastEntryIndex[p]
    /\ pc[f] = "upsert" =>
          \A i \in Index : batch[f][i] # NoEntry => i \in fresh[f] \/ store[p][i] # NoEntry
    /\ pc[f] \in {"onFlush", "finish"} => pos[f] # NoIndex
    /\ pc[f] # "reset"

\* A process without a state has nothing, and what is stored got there through
\* a flush that ended or is past its write.
Flights ==
    /\ \A f \in Flusher, p \in Process : Flushes(f, p) => Flight(f, p)
    /\ \A p \in Process : ~created[p] => /\ \A i \in Index : pending[p][i] = NoEntry
                                       /\ lastEntryIndex[p] = NoIndex
                                       /\ ~flushing[p]
    /\ \A p \in Process, i \in Index :
          store[p][i] # NoEntry /\ lastEntryIndex[p] = NoIndex
          => \E f \in Flusher : Flushes(f, p) /\ pc[f] \in {"onFlush", "finish"}

\* A reader that is not attached to a stream remembers no entry of it.
Clean == \A r \in Reader : rpc[r] \in Detached => seen[r] = NoEntries

Calm == FromLog /\ AllCovered /\ AllUnplaced /\ Flights

\* The bounds of indexes and positions.
LEMMA IndexOrder ==
    /\ Index \subseteq Nat /\ Position \subseteq Int /\ NoIndex \notin Index
    /\ \A n \in Position : n = NoIndex \/ n \in Index
    /\ \A i \in Index : ~(i < NoIndex)
  BY BoundsAssumption DEF Index, Position, NoIndex

\* A new entry comes after every position that is stored.
LEMMA WritesCalm ==
    ASSUME PositionInv, Ordered, Calm,
           NEW p \in Process, NEW i \in Index, NEW v \in Version, UpstreamWrites(p, i, v)
    PROVE  Calm'
<1>0. /\ TypeOK /\ ReaderVarsOK /\ KnownIsStored
      /\ \A q \in Process : Stored(q, checkpoint[q]) /\ Stored(q, lastEntryIndex[q])
      /\ \A f \in Flusher, q \in Process : Flushes(f, q) => Stored(q, pos[f])
  BY DEF PositionInv, ReaderType, BufferPositions, Positions
<1>1. UNCHANGED vars /\ UNCHANGED readerVars
  BY DEF UpstreamWrites
<1>a. UNCHANGED <<created, lastEntryIndex, pending, flushing, store, checkpoint, pc, target,
                  batch, fresh, pos, rpc, of, known, at, seen>>
  BY <1>1 DEF vars, bufferVars, storeVars, localVars, readerVars
<1>2. \A q \in Process, j \in Index : Occurs(q, j)' <=> Occurs(q, j) \/ (q = p /\ j = i)
  BY <1>0, WrittenLog
<1>3. ~Occurs(p, i) => \A j \in Index : Occurs(p, j) => j < i
  BY <1>0, WrittenLog
<1>4. \A f \in Flusher, q \in Process : Flushes(f, q)' <=> Flushes(f, q)
  BY <1>a DEF Flushes
<1>5. FromLog'
  BY <1>2, <1>4, <1>a DEF Calm, FromLog
<1>6. ASSUME NEW q \in Process, NEW n \in Position, Stored(q, n), Covered(q, n)
      PROVE  Covered(q, n)'
  <2> SUFFICES ASSUME NEW j \in Index, j < n, Occurs(q, j)'
               PROVE  store[q][j] # NoEntry
    BY <1>a DEF Covered
  <2>1. CASE Occurs(q, j)
    BY <1>6, <2>1 DEF Covered
  <2>2. CASE q = p /\ j = i /\ ~Occurs(p, i)
    <3>1. n \in Index /\ store[q][n] # NoEntry
      BY <1>6, IndexOrder DEF Stored
    <3>2. Occurs(q, n)
      BY <3>1 DEF Calm, FromLog
    <3>3. n < i
      BY <1>3, <2>2, <3>1, <3>2
    <3>4. QED
      BY <2>2, <3>1, <3>3, IndexOrder
  <2>3. QED
    BY <1>2, <2>1, <2>2
<1>7. AllCovered'
  <2>1. \A q \in Process : Covered(q, checkpoint[q])' /\ Covered(q, lastEntryIndex[q])'
    BY <1>0, <1>6, <1>a DEF Calm, AllCovered, TypeOK, Covered
  <2>2. \A f \in Flusher, q \in Process : Flushes(f, q) => Covered(q, pos[f])'
    BY <1>0, <1>6, <1>a DEF Calm, AllCovered, TypeOK, Covered
  <2>3. \A r \in Reader : rpc[r] \notin {"idle", "read"} => Covered(of[r], known[r])'
    BY <1>0, <1>6, <1>a DEF Calm, AllCovered, ReaderVarsOK, KnownIsStored, Covered
  <2>4. QED
    BY <1>4, <1>a, <2>1, <2>2, <2>3 DEF AllCovered
<1>8. ASSUME NEW q \in Process, NEW slots, Closed(q, slots),
             \A j \in Index : slots[j] # NoEntry => Occurs(q, j)
      PROVE  Closed(q, slots)'
  <2> SUFFICES ASSUME NEW a \in Index, NEW b \in Index, slots[b] # NoEntry, a < b,
                      Occurs(q, a)'
               PROVE  slots[a] # NoEntry
    BY DEF Closed
  <2>1. CASE Occurs(q, a)
    BY <1>8, <2>1 DEF Closed
  <2>2. CASE q = p /\ a = i /\ ~Occurs(p, i)
    <3>1. b < i
      BY <1>3, <1>8, <2>2
    <3>2. QED
      BY <2>2, <3>1, IndexOrder
  <2>3. QED
    BY <1>2, <2>1, <2>2
<1>9. AllUnplaced'
  <2> SUFFICES ASSUME NEW q \in Process, lastEntryIndex[q] = NoIndex
               PROVE  Unplaced(q)'
    BY <1>a DEF AllUnplaced
  <2>0. Unplaced(q) /\ FromLog
    BY DEF Calm, AllUnplaced
  <2>1. Closed(q, pending[q])'
    <3>1. Closed(q, pending[q])
      BY <2>0 DEF Unplaced
    <3>2. \A j \in Index : pending[q][j] # NoEntry => Occurs(q, j)
      BY <2>0 DEF FromLog
    <3>3. QED
      BY <1>8, <1>a, <3>1, <3>2 DEF Closed
  <2>2. \A f \in Flusher : Flushes(f, q) => Closed(q, batch[f])'
    <3> SUFFICES ASSUME NEW f \in Flusher, Flushes(f, q)
                 PROVE  Closed(q, batch[f])'
      OBVIOUS
    <3>1. Closed(q, batch[f])
      BY <2>0 DEF Unplaced
    <3>2. \A j \in Index : batch[f][j] # NoEntry => Occurs(q, j)
      BY <2>0 DEF FromLog
    <3>3. QED
      BY <1>8, <1>a, <3>1, <3>2 DEF Closed
  <2>3. \A r \in Reader : rpc[r] = "reading" /\ of[r] = q =>
          /\ \A n \in 1 .. at[r] : pending[q][log'[q][n][1]] # NoEntry
          /\ \A j \in Index : seen[r][j] # NoEntry => pending[q][j] # NoEntry
    <3>1. \A r \in Reader : of[r] = q => 1 .. at[r] \subseteq 1 .. Len(log[q])
      BY <1>0, LenProperties DEF ReaderVarsOK
    <3>2. \A n \in 1 .. Len(log[q]) : log'[q][n] = log[q][n]
      BY <1>0, WrittenLog
    <3>3. QED
      BY <2>0, <3>1, <3>2 DEF Unplaced
  <2>4. QED
    BY <1>4, <1>a, <2>0, <2>1, <2>2, <2>3 DEF Unplaced
<1>10. Flights'
  BY <1>4, <1>a DEF Calm, Flights, Flight
<1>11. QED
  BY <1>5, <1>7, <1>9, <1>10 DEF Calm

\* A patch is skipped because the entry is stored, or received once already;
\* otherwise it follows all entries that are pending.
LEMMA ReceiveCalm ==
    ASSUME PositionInv, Ordered, Calm, NEW r \in Reader, Receive(r)
    PROVE  Calm'
<1> DEFINE p == of[r]
           m == at[r] + 1
           i == log[p][m][1]
           v == log[p][m][2]
<1>0. TypeOK /\ ReaderVarsOK /\ OneFlushPerProcess /\ FromLog /\ AllCovered /\ AllUnplaced
      /\ Flights
  BY DEF PositionInv, ReaderType, Calm
<1>1. /\ p \in Process /\ i \in Index /\ v \in Version /\ known[r] \in Position
      /\ m \in 1 .. Len(log[p]) /\ at[r] \in Nat /\ Occurs(p, i)
  <2>1. p \in Process /\ i \in Index /\ v \in Version /\ known[r] \in Position /\ at[r] \in Nat
    BY <1>0, ReceivedPatch DEF PositionInv, Receive, ReaderVarsOK
  <2>2. Len(log[p]) \in Nat
    BY <1>0, <2>1, LenProperties DEF ReaderVarsOK
  <2>3. m \in 1 .. Len(log[p])
    BY <2>1, <2>2 DEF Receive
  <2>4. QED
    BY <2>1, <2>3 DEF Occurs
<1>2. /\ rpc[r] = "reading" /\ at' = [at EXCEPT ![r] = m]
      /\ UNCHANGED <<log, rpc, of, known>>
  BY DEF Receive, upstreamVars
<1>3. /\ Covered(p, known[r])
      /\ lastEntryIndex[p] = NoIndex => Unplaced(p)
  BY <1>0, <1>1, <1>2 DEF AllCovered, AllUnplaced
<1>4. \A q \in Process, j \in Index : Occurs(q, j)' <=> Occurs(q, j)
  BY <1>2 DEF Occurs
<1>5. CASE UNCHANGED <<vars, seen>> /\ (Skipped(r, i) \/ seen[r][i] = v)
  <2>1. UNCHANGED <<created, lastEntryIndex, pending, flushing, store, checkpoint, pc, target,
                    batch, fresh, pos, seen>>
    BY <1>5 DEF vars, bufferVars, storeVars, localVars
  <2>2. \A f \in Flusher, q \in Process : Flushes(f, q)' <=> Flushes(f, q)
    BY <2>1 DEF Flushes
  <2>3. lastEntryIndex[p] = NoIndex => pending[p][i] # NoEntry
    <3> SUFFICES ASSUME lastEntryIndex[p] = NoIndex PROVE pending[p][i] # NoEntry
      OBVIOUS
    <3>1. CASE seen[r][i] = v
      <4>1. v # NoEntry
        BY <1>1, BoundsAssumption DEF Version, NoEntry
      <4>2. QED
        BY <1>1, <1>2, <1>3, <3>1, <4>1 DEF Unplaced
    <3>2. CASE Skipped(r, i)
      <4>1. i < known[r]
        BY <1>1, <3>2, IndexOrder DEF Skipped, Later, NoIndex
      <4>2. store[p][i] # NoEntry
        BY <1>1, <1>3, <4>1 DEF Covered
      <4>3. QED
        BY <1>1, <1>3, <4>2 DEF Unplaced
    <3>3. QED
      BY <1>5, <3>1, <3>2
  <2>4. FromLog' /\ AllCovered' /\ Flights'
    <3>1. FromLog'
      BY <1>0, <1>4, <2>1, <2>2 DEF FromLog
    <3>2. AllCovered'
      BY <1>0, <1>2, <1>4, <2>1, <2>2 DEF AllCovered, Covered, ReaderVarsOK
    <3>3. Flights'
      BY <1>0, <2>1, <2>2 DEF Flights, Flight
    <3>4. QED
      BY <3>1, <3>2, <3>3
  <2>5. ASSUME NEW q \in Process, lastEntryIndex[q] = NoIndex
        PROVE  Unplaced(q)'
    <3>1. Unplaced(q)
      BY <1>0, <2>5 DEF AllUnplaced
    <3>2. Closed(q, pending[q])' /\ \A f \in Flusher : Flushes(f, q) => Closed(q, batch[f])'
      BY <1>4, <2>1, <3>1 DEF Unplaced, Closed
    <3>3. \A s \in Reader : rpc[s] = "reading" /\ of[s] = q =>
            \A n \in 1 .. at'[s] : pending[q][log[q][n][1]] # NoEntry
      <4> SUFFICES ASSUME NEW s \in Reader, rpc[s] = "reading", of[s] = q, NEW n \in 1 .. at'[s]
                   PROVE  pending[q][log[q][n][1]] # NoEntry
        OBVIOUS
      <4>1. CASE s # r
        BY <1>0, <1>2, <3>1, <4>1 DEF Unplaced, ReaderVarsOK
      <4>2. CASE s = r
        <5>1. at'[s] = m /\ (n = m \/ n \in 1 .. at[r])
          BY <1>0, <1>1, <1>2, <4>2 DEF ReaderVarsOK
        <5>2. QED
          BY <2>3, <2>5, <3>1, <4>2, <5>1 DEF Unplaced
      <4>3. QED
        BY <4>1, <4>2
    <3>4. QED
      BY <1>2, <2>1, <2>2, <3>1, <3>2, <3>3 DEF Unplaced
  <2>6. QED
    BY <2>1, <2>4, <2>5 DEF Calm, AllUnplaced
<1>6. CASE Enqueue(p, i, known[r], v) /\ seen' = [seen EXCEPT ![r][i] = v]
  <2>1. /\ UNCHANGED <<flushing, store, checkpoint, pc, target, batch, fresh, pos>>
        /\ pending' = [pending EXCEPT ![p][i] = v]
        /\ IF created[p] THEN UNCHANGED <<created, lastEntryIndex>>
           ELSE /\ created' = [created EXCEPT ![p] = TRUE]
                /\ lastEntryIndex' = [lastEntryIndex EXCEPT ![p] = known[r]]
    BY <1>6 DEF Enqueue, storeVars, localVars, FirstPosition
  <2>2. \A f \in Flusher, q \in Process : Flushes(f, q)' <=> Flushes(f, q)
    BY <2>1 DEF Flushes
  <2>3. v # NoEntry /\ NoEntry \notin Version
    BY <1>1, BoundsAssumption DEF Version, NoEntry
  <2>4. /\ pending'[p][i] # NoEntry
        /\ \A q \in Process, j \in Index : pending[q][j] # NoEntry => pending'[q][j] # NoEntry
        /\ \A q \in Process, j \in Index :
             pending'[q][j] # NoEntry => pending[q][j] # NoEntry \/ (q = p /\ j = i)
    <3>1. \A q \in Process, j \in Index :
            pending'[q][j] = IF q = p /\ j = i THEN v ELSE pending[q][j]
      BY <1>0, <1>1, <2>1 DEF TypeOK
    <3>2. QED
      BY <1>1, <2>3, <3>1
  <2>5. \A q \in Process : q # p => /\ lastEntryIndex'[q] = lastEntryIndex[q]
                                   /\ created'[q] = created[q] /\ pending'[q] = pending[q]
    BY <1>0, <1>1, <2>1 DEF TypeOK
  <2>6. /\ created'[p]
        /\ \/ lastEntryIndex'[p] = lastEntryIndex[p]
           \/ /\ ~created[p] /\ lastEntryIndex[p] = NoIndex
              /\ lastEntryIndex'[p] = known[r]
              /\ \A f \in Flusher : ~Flushes(f, p)
    BY <1>0, <1>1, <2>1 DEF TypeOK, Flights, OneFlushPerProcess
  <2>7. FromLog'
    BY <1>0, <1>1, <1>4, <2>1, <2>2, <2>4 DEF FromLog
  <2>8. AllCovered'
    <3>1. \A q \in Process : Covered(q, lastEntryIndex'[q])
      BY <1>0, <1>3, <2>5, <2>6 DEF AllCovered
    <3>2. \A q \in Process : Covered(q, checkpoint[q])' /\ Covered(q, lastEntryIndex[q])'
      BY <1>0, <1>4, <2>1, <3>1 DEF AllCovered, Covered
    <3>3. \A f \in Flusher, q \in Process : Flushes(f, q)' => Covered(q, pos[f])'
      BY <1>0, <1>4, <2>1, <2>2 DEF AllCovered, Covered
    <3>4. \A s \in Reader : rpc'[s] \notin {"idle", "read"} => Covered(of[s], known[s])'
      BY <1>0, <1>2, <1>4, <2>1 DEF AllCovered, Covered, ReaderVarsOK
    <3>5. QED
      BY <3>2, <3>3, <3>4 DEF AllCovered
  <2>9. Flights'
    <3>1. \A f \in Flusher, q \in Process : Flushes(f, q) => Flight(f, q)'
      BY <1>0, <2>1, <2>5, <2>6 DEF Flights, Flight
    <3>2. \A q \in Process : ~created'[q] => /\ \A j \in Index : pending'[q][j] = NoEntry
                                            /\ lastEntryIndex'[q] = NoIndex
                                            /\ ~flushing'[q]
      BY <1>0, <2>1, <2>5, <2>6 DEF Flights
    <3>3. \A q \in Process : lastEntryIndex'[q] = NoIndex => lastEntryIndex[q] = NoIndex
      BY <2>5, <2>6
    <3>4. QED
      BY <1>0, <2>1, <2>2, <3>1, <3>2, <3>3 DEF Flights
  <2>10. ASSUME NEW q \in Process, lastEntryIndex'[q] = NoIndex
         PROVE  Unplaced(q)'
    <3>1. Unplaced(q)
      BY <1>0, <2>5, <2>6, <2>10 DEF AllUnplaced
    <3>2. Closed(q, pending[q])'
      <4> SUFFICES ASSUME NEW a \in Index, NEW b \in Index, pending'[q][b] # NoEntry, a < b,
                          Occurs(q, a)
                   PROVE  pending'[q][a] # NoEntry
        BY <1>4 DEF Closed
      <4>1. CASE pending[q][b] # NoEntry
        BY <2>4, <3>1, <4>1 DEF Unplaced, Closed
      <4>2. CASE q = p /\ b = i
        <5>1. PICK n \in 1 .. m - 1 : log[p][n][1] = a
          BY <1>1, <4>2 DEF Ordered
        <5>2. n \in 1 .. at[r]
          BY <1>1, <5>1
        <5>3. \A l \in 1 .. at[r] : pending[q][log[q][l][1]] # NoEntry
          BY <1>2, <3>1, <4>2 DEF Unplaced
        <5>4. pending[q][a] # NoEntry
          BY <4>2, <5>1, <5>2, <5>3
        <5>5. QED
          BY <2>4, <5>4
      <4>3. QED
        BY <2>4, <4>1, <4>2
    <3>3. \A f \in Flusher : Flushes(f, q) =>
            /\ Closed(q, batch[f])'
            /\ \A j \in Index : batch[f][j] # NoEntry => pending'[q][j] # NoEntry
      BY <1>4, <2>1, <2>4, <3>1 DEF Unplaced, Closed
    <3>4. ASSUME NEW s \in Reader, rpc[s] = "reading", of[s] = q
          PROVE  /\ \A n \in 1 .. at'[s] : pending'[q][log[q][n][1]] # NoEntry
                 /\ \A j \in Index : seen'[s][j] # NoEntry => pending'[q][j] # NoEntry
      <4>0. \A n \in 1 .. at[s] : log[q][n][1] \in Index
        <5>1. log[q] \in Seq(Index \X Version) /\ 1 .. at[s] \subseteq 1 .. Len(log[q])
          BY <1>0, <3>4, LenProperties DEF ReaderVarsOK
        <5>2. QED
          BY <5>1, ElementOfSeq
      <4>1. CASE s # r
        BY <1>0, <1>2, <1>6, <2>4, <3>1, <3>4, <4>0, <4>1 DEF Unplaced, ReaderVarsOK
      <4>2. CASE s = r
        <5>1. at'[s] = m /\ \A n \in 1 .. m : n = m \/ n \in 1 .. at[r]
          BY <1>0, <1>1, <1>2, <4>2 DEF ReaderVarsOK
        <5>2. \A j \in Index : seen'[s][j] = IF j = i THEN v ELSE seen[s][j]
          BY <1>0, <1>1, <1>6, <4>2 DEF ReaderVarsOK
        <5>3. QED
          BY <2>4, <3>1, <3>4, <4>0, <4>2, <5>1, <5>2 DEF Unplaced
      <4>3. QED
        BY <4>1, <4>2
    <3>5. QED
      BY <1>2, <2>1, <2>2, <2>4, <3>1, <3>2, <3>3, <3>4 DEF Unplaced
  <2>11. QED
    BY <2>7, <2>8, <2>9, <2>10 DEF Calm, AllUnplaced
<1>7. QED
  BY <1>5, <1>6 DEF Receive

\* A step of the readers that leaves the logs and the buffer alone, or moves a
\* goroutine that is in no flush: positions are read from the table, and a
\* stream that is attached has received nothing.
LEMMA FrameCalm ==
    ASSUME ReaderVarsOK, Calm,
           UNCHANGED <<log, created, lastEntryIndex, pending, flushing, store, checkpoint,
                       target, batch, fresh, pos>>,
           \A f \in Flusher, q \in Process : Flushes(f, q)' <=> Flushes(f, q),
           \A f \in Flusher, q \in Process : Flushes(f, q) => pc'[f] = pc[f],
           \A r \in Reader : rpc'[r] \notin {"idle", "read"} => Covered(of'[r], known'[r]),
           \A r \in Reader : rpc'[r] = "reading" =>
              \/ rpc[r] = "reading" /\ of'[r] = of[r] /\ at'[r] = at[r] /\ seen'[r] = seen[r]
              \/ at'[r] = 0 /\ seen'[r] = NoEntries
    PROVE  Calm'
<1>1. FromLog /\ AllCovered /\ AllUnplaced /\ Flights
  BY DEF Calm
<1>2. \A q \in Process, j \in Index : Occurs(q, j)' <=> Occurs(q, j)
  BY DEF Occurs
<1>3. FromLog'
  BY <1>1, <1>2 DEF FromLog
<1>4. AllCovered'
  <2>1. \A q \in Process : Covered(q, checkpoint[q])' /\ Covered(q, lastEntryIndex[q])'
    BY <1>1, <1>2 DEF AllCovered, Covered
  <2>2. \A f \in Flusher, q \in Process : Flushes(f, q)' => Covered(q, pos[f])'
    BY <1>1, <1>2 DEF AllCovered, Covered
  <2>3. ASSUME NEW r \in Reader, rpc'[r] \notin {"idle", "read"}
        PROVE  Covered(of[r], known[r])'
    <3>1. Covered(of'[r], known'[r])
      BY <2>3
    <3>2. QED
      BY <3>1 DEF Covered, Occurs
  <2>4. QED
    BY <2>1, <2>2, <2>3 DEF AllCovered
<1>5. ASSUME NEW q \in Process, lastEntryIndex[q] = NoIndex
      PROVE  Unplaced(q)'
  <2>1. Unplaced(q)
    BY <1>1, <1>5 DEF AllUnplaced
  <2>2. Closed(q, pending[q])' /\ \A f \in Flusher : Flushes(f, q) => Closed(q, batch[f])'
    BY <1>2, <2>1 DEF Unplaced, Closed
  <2>3. \A r \in Reader : rpc'[r] = "reading" /\ of'[r] = q =>
          /\ \A n \in 1 .. at'[r] : pending[q][log[q][n][1]] # NoEntry
          /\ \A i \in Index : seen'[r][i] # NoEntry => pending[q][i] # NoEntry
    BY <2>1 DEF Unplaced, NoEntries
  <2>4. QED
    BY <2>1, <2>2, <2>3 DEF Unplaced
<1>6. Flights'
  BY <1>1 DEF Flights, Flight
<1>7. QED
  BY <1>3, <1>4, <1>5, <1>6 DEF Calm, AllUnplaced

\* A flush starts with what is pending, at the position of the buffer.
LEMMA BeginCalm ==
    ASSUME PositionInv, Calm, UNCHANGED <<log, rpc, of, known, at, seen>>,
           NEW f \in Flusher, NEW p \in Process, FlushBegins(f, p)
    PROVE  Calm'
<1>0. TypeOK /\ OneFlushPerProcess /\ FromLog /\ AllCovered /\ AllUnplaced /\ Flights
  BY DEF PositionInv, ReaderType, Calm
<1>1. /\ pos' = [pos EXCEPT ![f] = lastEntryIndex[p]]
      /\ batch' = [batch EXCEPT ![f] = pending[p]]
      /\ pc' = [pc EXCEPT ![f] = "list"]
      /\ UNCHANGED <<created, lastEntryIndex, pending, store, checkpoint, fresh>>
      /\ \E i \in Index : pending[p][i] # NoEntry
  BY DEF FlushBegins, storeVars, Held
<1>2. /\ \A g \in Flusher, q \in Process :
            Flushes(g, q)' => (g = f /\ q = p) \/ (g # f /\ Flushes(g, q))
      /\ \A q \in Process : ~Flushes(f, q)
      /\ \A g \in Flusher \ {f}, q \in Process : Flushes(g, q)' <=> Flushes(g, q)
      /\ flushing' = [flushing EXCEPT ![p] = TRUE]
  BY <1>0, BeginFlushes
<1>3. /\ batch'[f] = pending[p] /\ pos'[f] = lastEntryIndex[p] /\ pc'[f] = "list"
      /\ \A g \in Flusher : g # f => /\ batch'[g] = batch[g] /\ pos'[g] = pos[g]
                                    /\ pc'[g] = pc[g]
  BY <1>0, <1>1 DEF TypeOK
<1>4. \A q \in Process, j \in Index : Occurs(q, j)' <=> Occurs(q, j)
  BY DEF Occurs
<1>5. FromLog'
  BY <1>0, <1>1, <1>2, <1>3, <1>4 DEF FromLog
<1>6. AllCovered'
  <2>1. /\ \A q \in Process : Covered(q, checkpoint[q])' /\ Covered(q, lastEntryIndex[q])'
        /\ \A r \in Reader : rpc[r] \notin {"idle", "read"} => Covered(of[r], known[r])'
    BY <1>0, <1>1, <1>4 DEF AllCovered, Covered, Occurs
  <2>2. ASSUME NEW g \in Flusher, NEW q \in Process, Flushes(g, q)'
        PROVE  Covered(q, pos[g])'
    <3>1. Covered(q, pos'[g])
      BY <1>0, <1>2, <1>3, <2>2 DEF AllCovered
    <3>2. QED
      BY <1>1, <1>4, <3>1 DEF Covered
  <2>3. QED
    BY <2>1, <2>2 DEF AllCovered
<1>7. ASSUME NEW q \in Process, lastEntryIndex[q] = NoIndex
      PROVE  Unplaced(q)'
  <2>1. Unplaced(q)
    BY <1>0, <1>7 DEF AllUnplaced
  <2>2. Closed(q, pending[q])'
    BY <1>1, <1>4, <2>1 DEF Unplaced, Closed
  <2>3. ASSUME NEW g \in Flusher, Flushes(g, q)'
        PROVE  /\ Closed(q, batch[g])'
               /\ \A i \in Index : batch'[g][i] # NoEntry => pending[q][i] # NoEntry
    <3>1. /\ Closed(q, batch'[g])
          /\ \A i \in Index : batch'[g][i] # NoEntry => pending[q][i] # NoEntry
      BY <1>2, <1>3, <2>1, <2>3 DEF Unplaced
    <3>2. QED
      BY <1>4, <3>1 DEF Closed
  <2>4. QED
    BY <1>1, <2>1, <2>2, <2>3 DEF Unplaced
<1>8. Flights'
  <2>1. \A g \in Flusher, q \in Process : Flushes(g, q)' => Flight(g, q)'
    BY <1>0, <1>1, <1>2, <1>3 DEF Flights, Flight
  <2>2. \A q \in Process : ~created'[q] => /\ \A j \in Index : pending'[q][j] = NoEntry
                                          /\ lastEntryIndex'[q] = NoIndex
                                          /\ ~flushing'[q]
    BY <1>0, <1>1, <1>2 DEF Flights, TypeOK
  <2>3. \A g \in Flusher, q \in Process : Flushes(g, q) => Flushes(g, q)' /\ pc'[g] = pc[g]
    BY <1>2, <1>3
  <2>4. QED
    BY <1>0, <1>1, <2>1, <2>2, <2>3 DEF Flights
<1>9. QED
  BY <1>1, <1>5, <1>6, <1>7, <1>8 DEF Calm, AllUnplaced

\* With nothing to write the batch is stored already, so the buffer has a position.
LEMMA ListCalm ==
    ASSUME PositionInv, Calm, UNCHANGED <<log, rpc, of, known, at, seen>>,
           NEW f \in Flusher, NEW p \in Process, ListEntries(f, p), pc'[f] # "reset"
    PROVE  Calm'
<1> DEFINE wanted == {i \in Index : ShouldPersist(store[p][i], batch[f][i])}
<1>0. TypeOK /\ OneFlushPerProcess /\ FromLog /\ AllCovered /\ AllUnplaced /\ Flights
  BY DEF PositionInv, ReaderType, Calm
<1>1. /\ UNCHANGED <<created, lastEntryIndex, pending, flushing, store, checkpoint, batch, pos>>
      /\ pc[f] = "list" /\ Flushes(f, p)
      /\ pc' = [pc EXCEPT ![f] = IF wanted = {} THEN "finish" ELSE "upsert"]
      /\ fresh' = [fresh EXCEPT ![f] = wanted]
  <2>1. /\ UNCHANGED <<created, lastEntryIndex, pending, flushing, store, checkpoint, batch, pos>>
        /\ pc[f] = "list" /\ Flushes(f, p)
    BY DEF ListEntries, bufferVars, storeVars, Flushes, InFlight
  <2>2. pc' # [pc EXCEPT ![f] = "reset"]
    BY <1>0 DEF TypeOK
  <2>3. fresh' = [fresh EXCEPT ![f] = wanted] /\ fresh'[f] = wanted
    BY <1>0, <2>2 DEF ListEntries, TypeOK
  <2>4. pc' = [pc EXCEPT ![f] = IF fresh'[f] = {} THEN "finish" ELSE "upsert"]
    BY <2>2 DEF ListEntries
  <2>5. QED
    BY <2>1, <2>3, <2>4
<1>2. \A g \in Flusher, q \in Process : Flushes(g, q)' <=> Flushes(g, q)
  BY <1>0, StoreCallFlushes
<1>3. /\ pc'[f] = IF wanted = {} THEN "finish" ELSE "upsert"
      /\ fresh'[f] = wanted
      /\ \A g \in Flusher : g # f => pc'[g] = pc[g] /\ fresh'[g] = fresh[g]
  BY <1>0, <1>1 DEF TypeOK
<1>4. \A q \in Process, j \in Index : Occurs(q, j)' <=> Occurs(q, j)
  BY DEF Occurs
<1>5. FromLog'
  BY <1>0, <1>1, <1>2, <1>4 DEF FromLog
<1>6. AllCovered'
  BY <1>0, <1>1, <1>2, <1>4 DEF AllCovered, Covered, Occurs
<1>7. ASSUME NEW q \in Process, lastEntryIndex[q] = NoIndex
      PROVE  Unplaced(q)'
  <2>1. Unplaced(q)
    BY <1>0, <1>7 DEF AllUnplaced
  <2>2. Closed(q, pending[q])' /\ \A g \in Flusher : Flushes(g, q) => Closed(q, batch[g])'
    BY <1>1, <1>4, <2>1 DEF Unplaced, Closed
  <2>3. QED
    BY <1>1, <1>2, <2>1, <2>2 DEF Unplaced
<1>8. Flights'
  <2>1. Flight(f, p)
    BY <1>0, <1>1 DEF Flights
  <2>2. wanted = {} => pos[f] # NoIndex
    <3> SUFFICES ASSUME wanted = {} PROVE lastEntryIndex[p] # NoIndex
      BY <1>1, <2>1 DEF Flight
    <3>1. PICK i \in Index : batch[f][i] # NoEntry
      BY <2>1 DEF Flight
    <3>2. store[p][i] # NoEntry
      BY <3>1 DEF ShouldPersist
    <3>3. \A g \in Flusher : Flushes(g, p) => g = f
      BY <1>0, <1>1 DEF OneFlushPerProcess
    <3>4. QED
      BY <1>0, <1>1, <3>2, <3>3 DEF Flights
  <2>3. \A i \in Index : batch[f][i] # NoEntry => i \in wanted \/ store[p][i] # NoEntry
    BY DEF ShouldPersist
  <2>4. Flight(f, p)'
    <3> HIDE DEF wanted
    <3>1. QED
      BY <1>1, <1>3, <2>1, <2>2, <2>3 DEF Flight
  <2>5. \A g \in Flusher, q \in Process : Flushes(g, q)' => Flight(g, q)'
    <3>1. ASSUME NEW g \in Flusher, NEW q \in Process, Flushes(g, q), g # f
          PROVE  Flight(g, q)'
      BY <1>0, <1>1, <1>3, <3>1 DEF Flights, Flight
    <3>2. \A q \in Process : Flushes(f, q) => q = p
      BY <1>1 DEF Flushes
    <3>3. QED
      BY <1>2, <2>4, <3>1, <3>2
  <2>6. \A g \in Flusher : pc[g] \in {"onFlush", "finish"} => pc'[g] = pc[g]
    BY <1>1, <1>3
  <2>7. QED
    BY <1>0, <1>1, <1>2, <2>5, <2>6 DEF Flights
<1>9. QED
  BY <1>1, <1>5, <1>6, <1>7, <1>8 DEF Calm, AllUnplaced

\* The write adds the entries of the batch that are not stored yet, and the
\* position advances over entries that are in the table by then.
LEMMA UpsertCalm ==
    ASSUME PositionInv, Calm, UNCHANGED <<log, rpc, of, known, at, seen>>,
           NEW f \in Flusher, NEW p \in Process, UpsertEntries(f, p), pc'[f] # "reset"
    PROVE  Calm'
<1>0. /\ TypeOK /\ OneFlushPerProcess /\ FromLog /\ AllCovered /\ AllUnplaced /\ Flights
      /\ Positions /\ WritesExist /\ ReaderVarsOK
  BY DEF PositionInv, ReaderType, Calm, BufferPositions
<1>1. /\ UNCHANGED <<created, lastEntryIndex, pending, flushing, checkpoint, batch, fresh>>
      /\ pc[f] = "upsert" /\ Flushes(f, p)
      /\ store' = Written(f, p) /\ pc' = [pc EXCEPT ![f] = "onFlush"]
  <2>1. /\ UNCHANGED <<created, lastEntryIndex, pending, flushing, checkpoint, batch, fresh>>
        /\ pc[f] = "upsert" /\ Flushes(f, p)
    BY DEF UpsertEntries, bufferVars, Flushes, InFlight
  <2>2. pc' # [pc EXCEPT ![f] = "reset"]
    BY <1>0 DEF TypeOK
  <2>3. QED
    BY <2>1, <2>2 DEF UpsertEntries
<1>2. PICK n \in Index : AdvancesTo(pos[f], fresh[f], n) /\ pos' = [pos EXCEPT ![f] = n]
  <2>1. pc' # [pc EXCEPT ![f] = "reset"]
    BY <1>0 DEF TypeOK
  <2>2. QED
    BY <2>1 DEF UpsertEntries
<1>3. \A g \in Flusher, q \in Process : Flushes(g, q)' <=> Flushes(g, q)
  BY <1>0, StoreCallFlushes
<1>4. /\ pc'[f] = "onFlush" /\ pos'[f] = n
      /\ \A g \in Flusher : g # f => pc'[g] = pc[g] /\ pos'[g] = pos[g]
  BY <1>0, <1>1, <1>2 DEF TypeOK
<1>5. \A q \in Process, j \in Index :
        store'[q][j] = IF q = p /\ j \in fresh[f] THEN batch[f][j] ELSE store[q][j]
  BY <1>0, <1>1 DEF Written, TypeOK
<1>6. fresh[f] \subseteq Index /\ \A j \in fresh[f] : batch[f][j] # NoEntry
  BY <1>0, <1>1 DEF WritesExist, TypeOK
<1>7. \A q \in Process, j \in Index : store[q][j] # NoEntry => store'[q][j] # NoEntry
  BY <1>5, <1>6
<1>8. \A q \in Process, j \in Index : Occurs(q, j)' <=> Occurs(q, j)
  BY DEF Occurs
<1>9. /\ \A g \in Flusher : Flushes(g, p) => g = f
      /\ \A q \in Process : Flushes(f, q) => q = p
  BY <1>0, <1>1 DEF OneFlushPerProcess, Flushes
<1>10. Flight(f, p) /\ pos[f] = lastEntryIndex[p]
  BY <1>0, <1>1 DEF Flights, Flight
<1>11. FromLog'
  BY <1>0, <1>1, <1>3, <1>5, <1>8 DEF FromLog
<1>12. ASSUME NEW i \in Index, i < n, Occurs(p, i)
       PROVE  store'[p][i] # NoEntry
  <2>1. CASE lastEntryIndex[p] = NoIndex
    <3>1. Closed(p, batch[f])
      BY <1>0, <1>1, <2>1 DEF AllUnplaced, Unplaced
    <3>2. n \in fresh[f]
      BY <1>2, <1>10, <2>1 DEF AdvancesTo
    <3>3. batch[f][i] # NoEntry
      BY <1>6, <1>12, <3>1, <3>2 DEF Closed
    <3>4. i \in fresh[f] \/ store[p][i] # NoEntry
      BY <1>1, <1>10, <3>3 DEF Flight
    <3>5. QED
      BY <1>5, <1>6, <1>7, <3>4
  <2>2. CASE lastEntryIndex[p] # NoIndex
    <3>1. pos[f] \in Index /\ store[p][pos[f]] # NoEntry /\ Covered(p, pos[f])
      BY <1>0, <1>1, <1>10, <2>2, IndexOrder DEF Positions, Stored, AllCovered, TypeOK
    <3>2. (pos[f] + 1 .. n) \subseteq fresh[f]
      BY <1>2, <1>10, <2>2 DEF AdvancesTo
    <3>3. i \in Nat /\ n \in Nat /\ pos[f] \in Nat
      BY <3>1, IndexOrder
    <3>4. CASE i = pos[f]
      BY <1>7, <3>1, <3>4
    <3>5. CASE i < pos[f]
      BY <1>7, <1>12, <3>1, <3>5 DEF Covered
    <3>6. CASE i > pos[f]
      <4>1. i \in pos[f] + 1 .. n
        BY <1>12, <3>3, <3>6
      <4>2. QED
        BY <1>5, <1>6, <3>2, <4>1
    <3>7. QED
      BY <3>3, <3>4, <3>5, <3>6
  <2>3. QED
    BY <2>1, <2>2
<1>13. AllCovered'
  <2>1. \A q \in Process : Covered(q, checkpoint[q])' /\ Covered(q, lastEntryIndex[q])'
    BY <1>0, <1>1, <1>7, <1>8 DEF AllCovered, Covered
  <2>2. ASSUME NEW g \in Flusher, NEW q \in Process, Flushes(g, q)
        PROVE  Covered(q, pos[g])'
    <3>1. CASE g = f
      BY <1>4, <1>8, <1>9, <1>12, <2>2, <3>1 DEF Covered
    <3>2. CASE g # f
      <4>1. Covered(q, pos[g]) /\ pos'[g] = pos[g]
        BY <1>0, <1>4, <2>2, <3>2 DEF AllCovered
      <4>2. QED
        BY <1>7, <1>8, <4>1 DEF Covered
    <3>3. QED
      BY <3>1, <3>2
  <2>3. \A r \in Reader : rpc[r] \notin {"idle", "read"} => Covered(of[r], known[r])'
    BY <1>0, <1>7, <1>8 DEF AllCovered, Covered, ReaderVarsOK
  <2>4. QED
    BY <1>3, <2>1, <2>2, <2>3 DEF AllCovered
<1>14. ASSUME NEW q \in Process, lastEntryIndex[q] = NoIndex
       PROVE  Unplaced(q)'
  <2>1. Unplaced(q)
    BY <1>0, <1>14 DEF AllUnplaced
  <2>2. Closed(q, pending[q])' /\ \A g \in Flusher : Flushes(g, q) => Closed(q, batch[g])'
    BY <1>1, <1>8, <2>1 DEF Unplaced, Closed
  <2>3. \A i \in Index : store'[q][i] # NoEntry => pending[q][i] # NoEntry
    <3>1. \A i \in Index : q = p /\ batch[f][i] # NoEntry => pending[q][i] # NoEntry
      BY <1>1, <2>1 DEF Unplaced
    <3>2. \A i \in Index : store[q][i] # NoEntry => pending[q][i] # NoEntry
      BY <2>1 DEF Unplaced
    <3>3. QED
      BY <1>5, <1>6, <3>1, <3>2
  <2>4. QED
    BY <1>1, <1>3, <2>1, <2>2, <2>3 DEF Unplaced
<1>15. Flights'
  <2>1. Flight(f, p)'
    BY <1>1, <1>4, <1>10, IndexOrder DEF Flight
  <2>2. ASSUME NEW g \in Flusher, NEW q \in Process, Flushes(g, q), g # f
        PROVE  Flight(g, q)'
    <3>1. Flight(g, q)
      BY <1>0, <2>2 DEF Flights
    <3>2. QED
      BY <1>1, <1>4, <1>7, <2>2, <3>1 DEF Flight
  <2>3. \A g \in Flusher, q \in Process : Flushes(g, q)' => Flight(g, q)'
    BY <1>3, <1>9, <2>1, <2>2
  <2>4. \A q \in Process, i \in Index :
          store'[q][i] # NoEntry /\ lastEntryIndex[q] = NoIndex
          => \E g \in Flusher : Flushes(g, q) /\ pc'[g] \in {"onFlush", "finish"}
    <3>1. \A g \in Flusher : pc[g] \in {"onFlush", "finish"} => pc'[g] = pc[g]
      BY <1>1, <1>4
    <3>2. QED
      BY <1>0, <1>1, <1>4, <1>5, <3>1 DEF Flights
  <2>5. QED
    BY <1>0, <1>1, <1>3, <2>3, <2>4 DEF Flights
<1>16. QED
  BY <1>1, <1>11, <1>13, <1>14, <1>15 DEF Calm, AllUnplaced

\* The position that is recorded is the one the flush has reached.
LEMMA OnFlushCalm ==
    ASSUME PositionInv, Calm, UNCHANGED <<log, rpc, of, known, at, seen>>,
           NEW f \in Flusher, NEW p \in Process, OnFlush(f, p), pc'[f] # "reset"
    PROVE  Calm'
<1>0. /\ TypeOK /\ FromLog /\ AllCovered /\ AllUnplaced /\ Flights /\ ReaderVarsOK
  BY DEF PositionInv, ReaderType, Calm
<1>1. /\ UNCHANGED <<created, lastEntryIndex, pending, flushing, store, batch, fresh, pos>>
      /\ pc[f] = "onFlush" /\ Flushes(f, p)
      /\ checkpoint' = [checkpoint EXCEPT ![p] = pos[f]] /\ pc' = [pc EXCEPT ![f] = "finish"]
  <2>1. /\ UNCHANGED <<created, lastEntryIndex, pending, flushing, store, batch, fresh, pos>>
        /\ pc[f] = "onFlush" /\ Flushes(f, p)
    BY DEF OnFlush, bufferVars, Flushes, InFlight
  <2>2. pc' # [pc EXCEPT ![f] = "reset"]
    BY <1>0 DEF TypeOK
  <2>3. QED
    BY <2>1, <2>2 DEF OnFlush
<1>2. \A g \in Flusher, q \in Process : Flushes(g, q)' <=> Flushes(g, q)
  BY <1>0, StoreCallFlushes
<1>3. pc'[f] = "finish" /\ \A g \in Flusher : g # f => pc'[g] = pc[g]
  BY <1>0, <1>1 DEF TypeOK
<1>4. \A q \in Process, j \in Index : Occurs(q, j)' <=> Occurs(q, j)
  BY DEF Occurs
<1>5. FromLog'
  BY <1>0, <1>1, <1>2, <1>4 DEF FromLog
<1>6. AllCovered'
  <2>1. \A q \in Process : Covered(q, checkpoint'[q])
    BY <1>0, <1>1 DEF AllCovered, TypeOK
  <2>2. \A q \in Process : Covered(q, checkpoint[q])'
    BY <1>1, <1>4, <2>1 DEF Covered
  <2>3. \A q \in Process : Covered(q, lastEntryIndex[q])'
    BY <1>0, <1>1, <1>4 DEF AllCovered, Covered
  <2>4. \A g \in Flusher, q \in Process : Flushes(g, q) => Covered(q, pos[g])'
    BY <1>0, <1>1, <1>4 DEF AllCovered, Covered
  <2>5. \A r \in Reader : rpc[r] \notin {"idle", "read"} => Covered(of[r], known[r])'
    BY <1>0, <1>1, <1>4 DEF AllCovered, Covered, ReaderVarsOK
  <2>6. QED
    BY <1>2, <2>2, <2>3, <2>4, <2>5 DEF AllCovered
<1>7. ASSUME NEW q \in Process, lastEntryIndex[q] = NoIndex
      PROVE  Unplaced(q)'
  <2>1. Unplaced(q)
    BY <1>0, <1>7 DEF AllUnplaced
  <2>2. Closed(q, pending[q])' /\ \A g \in Flusher : Flushes(g, q) => Closed(q, batch[g])'
    BY <1>1, <1>4, <2>1 DEF Unplaced, Closed
  <2>3. QED
    BY <1>1, <1>2, <2>1, <2>2 DEF Unplaced
<1>8. Flights'
  <2>1. \A g \in Flusher, q \in Process : Flushes(g, q)' => Flight(g, q)'
    BY <1>0, <1>1, <1>2, <1>3 DEF Flights, Flight
  <2>2. \A g \in Flusher : pc[g] \in {"onFlush", "finish"} => pc'[g] \in {"onFlush", "finish"}
    BY <1>3
  <2>3. QED
    BY <1>0, <1>1, <1>2, <2>1, <2>2 DEF Flights
<1>9. QED
  BY <1>1, <1>5, <1>6, <1>7, <1>8 DEF Calm, AllUnplaced

\* The buffer gets its position back, and forgets the batch.
LEMMA FinishCalm ==
    ASSUME PositionInv, Calm, UNCHANGED <<log, rpc, of, known, at, seen>>,
           NEW f \in Flusher, NEW p \in Process, FlushFinishes(f, p)
    PROVE  Calm'
<1>0. /\ TypeOK /\ OneFlushPerProcess /\ FromLog /\ AllCovered /\ AllUnplaced /\ Flights
      /\ ReaderVarsOK
  BY DEF PositionInv, ReaderType, Calm
<1>1. /\ UNCHANGED <<created, store, checkpoint>>
      /\ pending' = [pending EXCEPT ![p] = NoEntries]
      /\ lastEntryIndex' = [lastEntryIndex EXCEPT ![p] = pos[f]]
      /\ pc[f] = "finish"
      /\ \A g \in Flusher : g # f => /\ pc'[g] = pc[g] /\ batch'[g] = batch[g]
                                    /\ fresh'[g] = fresh[g] /\ pos'[g] = pos[g]
  BY <1>0 DEF FlushFinishes, storeVars, Return, Forget, TypeOK
<1>2. /\ flushing' = [flushing EXCEPT ![p] = FALSE]
      /\ Flushes(f, p)
      /\ \A q \in Process : ~Flushes(f, q)'
      /\ \A g \in Flusher \ {f}, q \in Process : Flushes(g, q)' <=> Flushes(g, q)
  BY <1>0, EndFlushes
<1>3. /\ \A g \in Flusher : Flushes(g, p) => g = f
      /\ \A q \in Process : Flushes(f, q) => q = p
      /\ pos[f] # NoIndex
  BY <1>0, <1>1, <1>2 DEF OneFlushPerProcess, Flushes, Flights, Flight
<1>4. \A q \in Process, j \in Index : Occurs(q, j)' <=> Occurs(q, j)
  BY DEF Occurs
<1>5. /\ lastEntryIndex'[p] = pos[f] /\ flushing'[p] = FALSE
      /\ \A j \in Index : pending'[p][j] = NoEntry
      /\ \A q \in Process : q # p => /\ lastEntryIndex'[q] = lastEntryIndex[q]
                                    /\ pending'[q] = pending[q] /\ flushing'[q] = flushing[q]
  BY <1>0, <1>1, <1>2 DEF TypeOK, NoEntries
<1>6. \A g \in Flusher, q \in Process : Flushes(g, q)' => g # f /\ q # p /\ Flushes(g, q)
  BY <1>2, <1>3
<1>7. FromLog'
  BY <1>0, <1>1, <1>4, <1>5, <1>6 DEF FromLog
<1>8. AllCovered'
  <2>1. \A q \in Process : Covered(q, lastEntryIndex'[q])
    BY <1>0, <1>2, <1>5 DEF AllCovered
  <2>2. \A q \in Process : Covered(q, checkpoint[q])' /\ Covered(q, lastEntryIndex[q])'
    BY <1>0, <1>1, <1>4, <2>1 DEF AllCovered, Covered
  <2>3. ASSUME NEW g \in Flusher, NEW q \in Process, Flushes(g, q)'
        PROVE  Covered(q, pos[g])'
    <3>1. Covered(q, pos[g]) /\ pos'[g] = pos[g]
      BY <1>0, <1>1, <1>6, <2>3 DEF AllCovered
    <3>2. QED
      BY <1>1, <1>4, <3>1 DEF Covered
  <2>4. \A r \in Reader : rpc[r] \notin {"idle", "read"} => Covered(of[r], known[r])'
    BY <1>0, <1>1, <1>4 DEF AllCovered, Covered, ReaderVarsOK
  <2>5. QED
    BY <2>2, <2>3, <2>4 DEF AllCovered
<1>9. ASSUME NEW q \in Process, lastEntryIndex'[q] = NoIndex
      PROVE  Unplaced(q)'
  <2>0. q # p
    BY <1>3, <1>5, <1>9
  <2>1. Unplaced(q) /\ pending'[q] = pending[q]
    BY <1>0, <1>5, <1>9, <2>0 DEF AllUnplaced
  <2>2. Closed(q, pending[q])'
    BY <1>4, <2>1 DEF Unplaced, Closed
  <2>3. ASSUME NEW g \in Flusher, Flushes(g, q)'
        PROVE  /\ Closed(q, batch[g])'
               /\ \A i \in Index : batch'[g][i] # NoEntry => pending'[q][i] # NoEntry
    <3>1. Flushes(g, q) /\ batch'[g] = batch[g]
      BY <1>1, <1>6, <2>3
    <3>2. QED
      BY <1>4, <2>1, <3>1 DEF Unplaced, Closed
  <2>4. QED
    BY <1>1, <2>1, <2>2, <2>3 DEF Unplaced
<1>10. Flights'
  <2>1. ASSUME NEW g \in Flusher, NEW q \in Process, Flushes(g, q)'
        PROVE  Flight(g, q)'
    <3>1. Flight(g, q) /\ g # f /\ q # p
      BY <1>0, <1>6, <2>1 DEF Flights
    <3>2. QED
      BY <1>1, <1>5, <3>1 DEF Flight
  <2>2. created[p]
    BY <1>0, <1>2 DEF Flights, OneFlushPerProcess
  <2>3. \A q \in Process : ~created'[q] => /\ \A j \in Index : pending'[q][j] = NoEntry
                                          /\ lastEntryIndex'[q] = NoIndex
                                          /\ ~flushing'[q]
    BY <1>0, <1>1, <1>5, <2>2 DEF Flights
  <2>4. ASSUME NEW q \in Process, NEW i \in Index, store'[q][i] # NoEntry,
               lastEntryIndex'[q] = NoIndex
        PROVE  \E g \in Flusher : Flushes(g, q)' /\ pc'[g] \in {"onFlush", "finish"}
    <3>1. q # p /\ lastEntryIndex[q] = NoIndex
      BY <1>3, <1>5, <2>4
    <3>2. PICK g \in Flusher : Flushes(g, q) /\ pc[g] \in {"onFlush", "finish"}
      BY <1>0, <1>1, <2>4, <3>1 DEF Flights
    <3>3. g # f
      BY <1>3, <3>1, <3>2
    <3>4. QED
      BY <1>1, <1>2, <3>2, <3>3
  <2>5. QED
    BY <2>1, <2>3, <2>4 DEF Flights
<1>11. QED
  BY <1>7, <1>8, <1>9, <1>10 DEF Calm, AllUnplaced

\* A reader works with the position it read, and everything before it is stored.
LEMMA ReadersCovered ==
    ASSUME PositionInv, Calm, SyncStep
    PROVE  \A r \in Reader : rpc'[r] \notin {"idle", "read"} => Covered(of'[r], known'[r])
<1>1. AllCovered /\ ReaderVarsOK
  BY DEF Calm, PositionInv, ReaderType
<1>2. \A q \in Process : Covered(q, NoIndex)
  BY IndexOrder DEF Covered
<1>3. QED
  BY <1>1, <1>2, KnownStep DEF AllCovered, ReaderVarsOK, PositionInv

\* A stream is attached to a reader that has received nothing.
LEMMA ReadersAttached ==
    ASSUME ReaderVarsOK, Clean, SyncStep, NEW r \in Reader, rpc'[r] = "reading", ~Receive(r)
    PROVE  \/ rpc[r] = "reading" /\ of'[r] = of[r] /\ at'[r] = at[r] /\ seen'[r] = seen[r]
           \/ at'[r] = 0 /\ seen'[r] = NoEntries
<1>1. CASE UNCHANGED readerVars
  BY <1>1 DEF readerVars
<1>2. ASSUME NEW s \in Reader, Register(s)
      PROVE  \/ rpc[r] = "reading" /\ of'[r] = of[r] /\ at'[r] = at[r] /\ seen'[r] = seen[r]
             \/ at'[r] = 0 /\ seen'[r] = NoEntries
  BY <1>2 DEF Register, Phase, ReaderVarsOK, Clean, Detached, Subscribing
<1>3. ASSUME NEW s \in Reader, Receive(s)
      PROVE  rpc[r] = "reading" /\ of'[r] = of[r] /\ at'[r] = at[r] /\ seen'[r] = seen[r]
  BY <1>3 DEF Receive, ReaderVarsOK
<1>4. ASSUME NEW s \in Reader,
             \/ ReadSubscription(s) \/ CheckStreams(s) \/ DialSucceeds(s) \/ DialFails(s)
             \/ Unregister(s) \/ Reconnect(s) \/ StreamEnds(s)
             \/ \E p \in Process : SessionReports(s, p)
      PROVE  rpc[r] = "reading" /\ of'[r] = of[r] /\ at'[r] = at[r] /\ seen'[r] = seen[r]
  BY <1>4 DEF ReadSubscription, CheckStreams, DialSucceeds, DialFails, Unregister, Reconnect,
              StreamEnds, SessionReports, Phase, ReaderVarsOK
<1>5. QED
  BY <1>1, <1>2, <1>3, <1>4 DEF SyncStep, ReaderStep, UpstreamWrites, UpstreamFinishes,
                               BufferStep, syncVars

\* A reader forgets what it has seen when it leaves its stream.
LEMMA StepClean ==
    ASSUME ReaderVarsOK, Clean, SyncStep
    PROVE  Clean'
<1>1. CASE UNCHANGED readerVars
  BY <1>1 DEF Clean, readerVars
<1>2. ASSUME NEW s \in Reader, Receive(s)
      PROVE  Clean'
  BY <1>2 DEF Receive, Clean, ReaderVarsOK, Detached, Subscribing
<1>3. ASSUME NEW s \in Reader,
             \/ ReadSubscription(s) \/ CheckStreams(s) \/ DialSucceeds(s) \/ DialFails(s)
             \/ Register(s) \/ Reconnect(s) \/ StreamEnds(s)
             \/ \E p \in Process : SessionReports(s, p)
      PROVE  Clean'
  BY <1>3 DEF ReadSubscription, CheckStreams, DialSucceeds, DialFails, Register, Reconnect,
              StreamEnds, SessionReports, Phase, ReaderVarsOK, Clean, Detached, Subscribing
<1>4. ASSUME NEW s \in Reader, Unregister(s)
      PROVE  Clean'
  BY <1>4 DEF Unregister, Phase, ReaderVarsOK, Clean, Detached, Subscribing
<1>5. QED
  BY <1>1, <1>2, <1>3, <1>4 DEF SyncStep, ReaderStep, UpstreamWrites, UpstreamFinishes,
                               BufferStep, syncVars

\* A step in which no call of the store fails keeps all of this.
LEMMA StepCalm ==
    ASSUME PositionInv, Ordered, Clean, Calm, SyncStep, \A f \in Flusher : pc'[f] # "reset",
           \A f \in Flusher : pc[f] # "reset"
    PROVE  Calm'
<1>0. TypeOK /\ ReaderVarsOK
  BY DEF PositionInv, ReaderType
<1>1. CASE \E p \in Process, i \in Index, v \in Version : UpstreamWrites(p, i, v)
  BY <1>1, WritesCalm
<1>2. CASE \E r \in Reader : Receive(r)
  BY <1>2, ReceiveCalm
<1>3. ASSUME NEW f \in Flusher, NEW p \in Process, BufferStep(f, p), FlushStep(f, p),
             ~FlushSkips(f, p)
      PROVE  Calm'
  <2>1. UNCHANGED <<log, rpc, of, known, at, seen>>
    BY <1>3 DEF BufferStep, syncVars, upstreamVars, readerVars
  <2>2. ~ResetProcessState(f, p)
    BY DEF ResetProcessState
  <2>3. QED
    BY <1>3, <2>1, <2>2, BeginCalm, ListCalm, UpsertCalm, OnFlushCalm, FinishCalm
       DEF FlushStep
<1>4. ASSUME \A r \in Reader : ~Receive(r),
             UNCHANGED <<log, created, lastEntryIndex, pending, flushing, store, checkpoint,
                         target, batch, fresh, pos>>,
             \A f \in Flusher, q \in Process : Flushes(f, q)' <=> Flushes(f, q),
             \A f \in Flusher, q \in Process : Flushes(f, q) => pc'[f] = pc[f]
      PROVE  Calm'
  BY <1>0, <1>4, ReadersCovered, ReadersAttached, FrameCalm
<1>5. CASE (\E f \in Flusher, p \in Process : BufferStep(f, p) /\ FlushSkips(f, p))
           /\ \A r \in Reader : ~Receive(r)
  <2>1. PICK f \in Flusher, p \in Process : BufferStep(f, p) /\ FlushSkips(f, p)
    BY <1>5
  <2>2. UNCHANGED <<log, created, lastEntryIndex, pending, flushing, store, checkpoint,
                    target, batch, fresh, pos>>
    BY <2>1 DEF BufferStep, syncVars, upstreamVars, FlushSkips, bufferVars, storeVars
  <2>3. /\ \A g \in Flusher, q \in Process : Flushes(g, q)' <=> Flushes(g, q)
        /\ \A g \in Flusher, q \in Process : Flushes(g, q) => pc'[g] = pc[g]
    BY <1>0, <2>1, SkipFlushes DEF FlushSkips, Return, Flushes, InFlight, TypeOK
  <2>4. QED
    BY <1>4, <1>5, <2>2, <2>3
<1>6. ASSUME NEW f \in Flusher, NEW p \in Process, Start(f, {p}),
             UNCHANGED <<log, created, lastEntryIndex, pending, flushing, store, checkpoint>>,
             \A r \in Reader : ~Receive(r)
      PROVE  Calm'
  <2>1. /\ \A g \in Flusher, q \in Process : Flushes(g, q)' <=> Flushes(g, q)
        /\ \A g \in Flusher, q \in Process : Flushes(g, q) => pc'[g] = pc[g]
        /\ UNCHANGED <<target, batch, fresh, pos>>
    BY <1>0, <1>6, StartFlushes DEF Start, Flushes, InFlight, TypeOK
  <2>2. QED
    BY <1>4, <1>6, <2>1
<1>7. CASE (\E f \in Flusher, p \in Process : BufferStep(f, p) /\ TimerFires(f, p))
           /\ \A r \in Reader : ~Receive(r)
  BY <1>6, <1>7 DEF BufferStep, TimerFires, storeVars, syncVars, upstreamVars
<1>8. CASE (\E r \in Reader : StreamEnds(r)) /\ \A r \in Reader : ~Receive(r)
  <2>1. \A r \in Reader : r \in Flusher /\ of[r] \in Process
    BY <1>0, ReaderAssumption DEF ReaderVarsOK
  <2>2. QED
    BY <1>6, <1>8, <2>1 DEF StreamEnds, DeferredFlush, bufferVars, storeVars, upstreamVars
<1>9. ASSUME \A r \in Reader : ~Receive(r), UNCHANGED <<bufferVars, store, localVars, log>>,
             checkpoint' = checkpoint
      PROVE  Calm'
  BY <1>4, <1>9 DEF bufferVars, localVars, Flushes
<1>10. CASE (\E r \in Reader : DialFails(r) \/ Register(r) \/ Unregister(r))
            /\ \A r \in Reader : ~Receive(r)
  <2>1. \E p \in Process : UpsertStatus(p)
    BY <1>0, <1>10 DEF DialFails, Register, Unregister, ReaderVarsOK
  <2>2. QED
    BY <1>0, <1>9, <1>10, <2>1, StatusKeepsPosition
       DEF DialFails, Register, Unregister, upstreamVars
<1>11. CASE ((\E p \in Process : UpstreamFinishes(p))
             \/ \E r \in Reader : \/ ReadSubscription(r) \/ CheckStreams(r) \/ DialSucceeds(r)
                                 \/ Reconnect(r) \/ \E p \in Process : SessionReports(r, p))
            /\ \A r \in Reader : ~Receive(r)
  BY <1>9, <1>11 DEF UpstreamFinishes, ReadSubscription, CheckStreams, DialSucceeds, Reconnect,
                     SessionReports, vars, storeVars, upstreamVars
<1>12. QED
  BY <1>1, <1>2, <1>3, <1>5, <1>7, <1>8, <1>10, <1>11 DEF SyncStep, ReaderStep, BufferStep

-----------------------------------------------------------------------------
(* Nothing is skipped that is not stored *)

SkipInv == PositionInv /\ NoReset /\ Ordered /\ Clean /\ (faults = 0 => Calm)

\* The invariant holds at the first start: nothing is stored, nothing is read.
LEMMA InitSkip == SyncInit => SkipInv
<1> SUFFICES ASSUME SyncInit PROVE SkipInv
  OBVIOUS
<1>1. PositionInv /\ NoReset /\ Clean
  BY InitPosition DEF SyncInit, Init, NoReset, Clean
<1>2. \A p \in Process, i \in Index : ~Occurs(p, i)
  BY DEF SyncInit, Occurs
<1>3. Ordered
  BY <1>2 DEF Ordered
<1>4. /\ \A p \in Process, i \in Index : pending[p][i] = NoEntry /\ store[p][i] = NoEntry
      /\ \A f \in Flusher, p \in Process : ~Flushes(f, p)
      /\ \A r \in Reader : rpc[r] = "idle"
      /\ \A p \in Process : lastEntryIndex[p] = NoIndex /\ ~flushing[p]
  BY IndexOrder DEF SyncInit, Init, NoEntries, Flushes, InFlight, Index, NoIndex
<1>5. Calm
  BY <1>2, <1>4 DEF Calm, FromLog, AllCovered, Covered, AllUnplaced, Unplaced, Closed, Flights
<1>6. QED
  BY <1>1, <1>3, <1>5 DEF SkipInv

\* Every step keeps it.
LEMMA NextSkip == SkipInv /\ [SyncNext]_allVars => SkipInv'
<1> SUFFICES ASSUME SkipInv, [SyncNext]_allVars PROVE SkipInv'
  OBVIOUS
<1>0. /\ PositionInv /\ NoReset /\ Ordered /\ Clean /\ ReaderVarsOK /\ faults \in Nat
      /\ PositionInv'
  BY ReaderAssumption, NextPosition DEF SkipInv, PositionInv, ReaderType
<1>1. CASE SyncStep /\ faults' = IF Succeeds THEN faults ELSE faults + 1
  <2>1. Ordered' /\ Clean'
    BY <1>0, <1>1, StepOrdered, StepClean
  <2>2. ASSUME faults' = 0
        PROVE  Calm' /\ \A f \in Flusher : pc'[f] # "reset"
    <3>1. faults = 0 /\ Succeeds
      BY <1>0, <1>1, <2>2
    <3>2. Calm /\ \A f \in Flusher : pc[f] # "reset" /\ pc'[f] # "reset"
      BY <3>1 DEF SkipInv, NoReset, Succeeds
    <3>3. QED
      BY <1>0, <1>1, <3>2, StepCalm
  <2>3. QED
    BY <1>0, <2>1, <2>2 DEF SkipInv, NoReset
<1>2. CASE Crash /\ faults' = faults + 1
  <2>1. faults' # 0
    BY <1>0, <1>2
  <2>2. Ordered'
    BY <1>0, <1>2 DEF Crash, upstreamVars, Ordered, Occurs
  <2>3. Clean'
    BY <1>2 DEF Crash, Clean
  <2>4. QED
    BY <1>0, <2>1, <2>2, <2>3 DEF SkipInv, NoReset
<1>3. CASE UNCHANGED allVars
  <2>1. UNCHANGED <<vars, syncVars, faults>>
    BY <1>3 DEF allVars, stepVars
  <2>2. UNCHANGED <<log, created, lastEntryIndex, pending, flushing, store, checkpoint, pc,
                    target, batch, fresh, pos, rpc, of, known, at, seen, faults>>
    BY <2>1 DEF vars, bufferVars, storeVars, localVars, syncVars, upstreamVars, readerVars
  <2>3. Ordered' /\ Clean' /\ NoReset'
    BY <1>0, <2>2 DEF Ordered, Occurs, Clean, NoReset
  <2>4. \A q \in Process, j \in Index : Occurs(q, j)' <=> Occurs(q, j)
    BY <2>2 DEF Occurs
  <2>5. faults = 0 => Calm'
    <3> SUFFICES ASSUME faults = 0 PROVE Calm'
      OBVIOUS
    <3>1. Calm
      BY DEF SkipInv
    <3>2. \A f \in Flusher, q \in Process : Flushes(f, q)' <=> Flushes(f, q)
      BY <2>2 DEF Flushes
    <3>3. \A r \in Reader : rpc'[r] \notin {"idle", "read"} => Covered(of'[r], known'[r])
      BY <2>2, <3>1 DEF Calm, AllCovered
    <3>4. QED
      BY <1>0, <2>2, <3>1, <3>2, <3>3, FrameCalm
  <2>6. QED
    BY <1>0, <2>2, <2>3, <2>5 DEF SkipInv
<1>4. QED
  BY <1>1, <1>2, <1>3 DEF SyncNext

\* While nothing fails, every entry before the stored position is stored: what a
\* later subscription skips is in the table, however the readers of a process
\* race, whenever timers fire and wherever a stream breaks.
THEOREM NothingIsSkipped == SyncSpec => []SkippedIsStored
<1>1. SkipInv => SkippedIsStored
  <2> SUFFICES ASSUME SkipInv, NEW p \in Process, NEW i \in Index,
                      faults = 0, i < checkpoint[p], Current(p, i) # NoEntry
               PROVE  store[p][i] # NoEntry
    BY DEF SkippedIsStored
  <2>1. Occurs(p, i)
    BY CurrentOccurs DEF SkipInv, PositionInv, ReaderType
  <2>2. QED
    BY <2>1 DEF SkipInv, Calm, AllCovered, Covered
<1>2. QED
  BY <1>1, InitSkip, NextSkip, PTL DEF SyncSpec
=============================================================================
