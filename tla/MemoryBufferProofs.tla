-------------------------- MODULE MemoryBufferProofs --------------------------
(***************************************************************************)
(* Theorems about MemoryBuffer, for every set of processes and goroutines, *)
(* every number of indexes and of Enqueue calls, and every hash.           *)
(***************************************************************************)
EXTENDS MemoryBuffer, TLAPS

-----------------------------------------------------------------------------
(* Types *)

\* Every variable starts in its type.
LEMMA InitType == Init => TypeOK
  BY BoundsAssumption
     DEF Init, TypeOK, Index, Version, Slot, Position, NoIndex, NoEntry, NoEntries, InFlight

\* An entry keeps the types whatever position its reader knows.
LEMMA EnqueueType ==
    ASSUME TypeOK, NEW p \in Process, NEW i \in Index, NEW position \in Position,
           NEW v \in Version, Enqueue(p, i, position, v)
    PROVE  TypeOK'
<1>1. FirstPosition(position) \in Position
  BY DEF FirstPosition
<1>2. v \in Slot
  BY DEF Slot
<1>3. QED
  BY <1>1, <1>2 DEF Enqueue, TypeOK, storeVars, localVars

\* Every step of Enqueue, of the timers and of FlushProcess keeps the types.
LEMMA NextType == TypeOK /\ [Next]_vars => TypeOK'
<1> SUFFICES ASSUME TypeOK, [Next]_vars PROVE TypeOK'
  OBVIOUS
<1> USE BoundsAssumption
<1>1. ASSUME NEW p \in Process, NEW i \in Index, NEW known \in {NoIndex, checkpoint[p]},
             NEW v \in Version, Enqueue(p, i, known, v)
      PROVE TypeOK'
  <2>1. known \in Position
    BY DEF TypeOK, Position
  <2>2. QED
    BY <1>1, <2>1, EnqueueType
<1>2. ASSUME NEW f \in Flusher, NEW p \in Process, TimerFires(f, p)
      PROVE TypeOK'
  BY <1>2 DEF TimerFires, Start, TypeOK, storeVars, historyVars
<1>3. ASSUME NEW f \in Flusher, NEW p \in Process, CallFlushProcess(f, p)
      PROVE TypeOK'
  BY <1>3 DEF CallFlushProcess, Start, TypeOK, bufferVars, storeVars, historyVars
<1>4. ASSUME NEW f \in Flusher, CallFlushAll(f)
      PROVE TypeOK'
  BY <1>4 DEF CallFlushAll, Start, TypeOK, bufferVars, storeVars, historyVars
<1>5. ASSUME NEW f \in Flusher, NEW p \in Process, FlushSkips(f, p)
      PROVE TypeOK'
  BY <1>5 DEF FlushSkips, Return, TypeOK, bufferVars, storeVars, historyVars
<1>6. ASSUME NEW f \in Flusher, NEW p \in Process, FlushBegins(f, p)
      PROVE TypeOK'
  BY <1>6 DEF FlushBegins, TypeOK, storeVars, historyVars, InFlight
<1>7. ASSUME NEW f \in Flusher, NEW p \in Process, ListEntries(f, p)
      PROVE TypeOK'
  <2>1. fresh' \in [Flusher -> SUBSET Index]
    <3> DEFINE wanted == {i \in Index : ShouldPersist(store[p][i], batch[f][i])}
    <3>1. fresh' = [fresh EXCEPT ![f] = wanted] \/ fresh' = fresh
      BY <1>7 DEF ListEntries
    <3>2. wanted \in SUBSET Index
      OBVIOUS
    <3>3. QED
      BY <3>1, <3>2 DEF TypeOK
  <2>2. pc' \in [Flusher -> {"idle", "ready"} \cup InFlight]
    BY <1>7 DEF ListEntries, TypeOK, InFlight
  <2>3. QED
    BY <1>7, <2>1, <2>2 DEF ListEntries, TypeOK, bufferVars, storeVars, historyVars
<1>8. ASSUME NEW f \in Flusher, NEW p \in Process, UpsertEntries(f, p)
      PROVE TypeOK'
  <2>1. store' \in [Process -> [Index -> Slot]]
    <3>1. Written(f, p) \in [Process -> [Index -> Slot]]
      BY DEF Written, TypeOK
    <3>2. QED
      BY <1>8, <3>1 DEF UpsertEntries, TypeOK
  <2>2. pos' \in [Flusher -> Position]
    BY <1>8 DEF UpsertEntries, TypeOK, Position
  <2>3. QED
    BY <1>8, <2>1, <2>2 DEF UpsertEntries, TypeOK, bufferVars, historyVars, InFlight
<1>9. ASSUME NEW f \in Flusher, NEW p \in Process, OnFlush(f, p)
      PROVE TypeOK'
  BY <1>9 DEF OnFlush, TypeOK, bufferVars, historyVars, InFlight
<1>10. ASSUME NEW f \in Flusher, NEW p \in Process, FlushFinishes(f, p)
       PROVE TypeOK'
  <2>1. NoEntries \in [Index -> Slot]
    BY DEF NoEntries, Slot
  <2>2. NoIndex \in Position
    BY DEF Position
  <2>3. QED
    BY <1>10, <2>1, <2>2
       DEF FlushFinishes, Return, Forget, Release, TypeOK, storeVars, historyVars
<1>11. ASSUME NEW f \in Flusher, NEW p \in Process, ResetProcessState(f, p)
       PROVE TypeOK'
  <2>1. NoEntries \in [Index -> Slot] /\ NoIndex \in Position
    BY DEF NoEntries, Slot, Position
  <2>2. QED
    BY <1>11, <2>1 DEF ResetProcessState, Forget, Release, TypeOK, storeVars, historyVars
<1>12. CASE UNCHANGED vars
  BY <1>12 DEF vars, bufferVars, storeVars, localVars, historyVars, TypeOK
<1>13. QED
  BY <1>1, <1>2, <1>3, <1>4, <1>5, <1>6, <1>7, <1>8, <1>9, <1>10, <1>11, <1>12
     DEF Next, FlushStep

\* Every variable of the buffer keeps its type.
THEOREM TypeCorrect == Spec => []TypeOK
  BY InitType, NextType, PTL DEF Spec
-----------------------------------------------------------------------------
(* One flush per process *)

\* No process is being flushed when the program starts.
LEMMA InitOneFlush == Init => OneFlushPerProcess
  BY DEF Init, OneFlushPerProcess, Flushes, InFlight

\* Steps that neither enter nor leave a flush.
LEMMA SameFlushes ==
    ASSUME OneFlushPerProcess, UNCHANGED flushing,
           \A g \in Flusher, q \in Process : Flushes(g, q)' <=> Flushes(g, q)
    PROVE  OneFlushPerProcess'
  BY DEF OneFlushPerProcess

\* Enqueue neither starts nor ends a flush.
LEMMA EnqueueFlushes ==
    ASSUME NEW p \in Process, NEW i \in Index, NEW known, NEW v, Enqueue(p, i, known, v)
    PROVE  /\ UNCHANGED flushing
           /\ \A g \in Flusher, q \in Process : Flushes(g, q)' <=> Flushes(g, q)
  BY DEF Enqueue, localVars, Flushes

\* A goroutine that is about to call FlushProcess does not flush yet.
LEMMA StartFlushes ==
    ASSUME TypeOK, NEW f \in Flusher, NEW ps, Start(f, ps)
    PROVE  \A g \in Flusher, q \in Process : Flushes(g, q)' <=> Flushes(g, q)
  BY DEF Start, Flushes, TypeOK, InFlight

\* FlushProcess that returns early has not entered a flush.
LEMMA SkipFlushes ==
    ASSUME TypeOK, NEW f \in Flusher, NEW p \in Process, FlushSkips(f, p)
    PROVE  /\ UNCHANGED flushing
           /\ \A g \in Flusher, q \in Process : Flushes(g, q)' <=> Flushes(g, q)
<1>1. pc[f] = "ready" /\ pc' \in {[pc EXCEPT ![f] = "idle"], [pc EXCEPT ![f] = "ready"]}
  BY DEF FlushSkips, Return
<1>2. UNCHANGED <<flushing, target>>
  BY DEF FlushSkips, bufferVars
<1>3. QED
  BY <1>1, <1>2 DEF Flushes, TypeOK, InFlight

\* Calls of the store move a goroutine inside its flush and never out of it.
LEMMA StoreCallFlushes ==
    ASSUME TypeOK, NEW f \in Flusher, NEW p \in Process,
           ListEntries(f, p) \/ UpsertEntries(f, p) \/ OnFlush(f, p)
    PROVE  /\ UNCHANGED flushing
           /\ \A g \in Flusher, q \in Process : Flushes(g, q)' <=> Flushes(g, q)
<1>1. pc[f] \in InFlight /\ \E l \in InFlight : pc' = [pc EXCEPT ![f] = l]
  BY DEF ListEntries, UpsertEntries, OnFlush, InFlight
<1>2. UNCHANGED <<flushing, target>>
  BY DEF ListEntries, UpsertEntries, OnFlush, bufferVars
<1>3. QED
  BY <1>1, <1>2 DEF Flushes, TypeOK

\* FlushBegins makes its goroutine the only one that flushes the process.
LEMMA BeginFlushes ==
    ASSUME TypeOK, OneFlushPerProcess, NEW f \in Flusher, NEW p \in Process,
           FlushBegins(f, p)
    PROVE  /\ flushing' = [flushing EXCEPT ![p] = TRUE]
           /\ Flushes(f, p)'
           /\ \A g \in Flusher : ~Flushes(g, p)
           /\ \A q \in Process : ~Flushes(f, q)
           /\ \A q \in Process \ {p} : ~Flushes(f, q)'
           /\ \A g \in Flusher \ {f}, q \in Process : Flushes(g, q)' <=> Flushes(g, q)
<1>1. /\ pc[f] = "ready" /\ ~flushing[p]
      /\ pc' = [pc EXCEPT ![f] = "list"]
      /\ target' = [target EXCEPT ![f] = p]
      /\ flushing' = [flushing EXCEPT ![p] = TRUE]
  BY DEF FlushBegins, Free
<1>2. \A g \in Flusher : ~Flushes(g, p)
  BY <1>1 DEF OneFlushPerProcess
<1>3. QED
  BY <1>1, <1>2 DEF Flushes, TypeOK, InFlight

\* The end of a flush leaves no goroutine that flushes the process.
LEMMA EndFlushes ==
    ASSUME TypeOK, NEW f \in Flusher, NEW p \in Process,
           FlushFinishes(f, p) \/ ResetProcessState(f, p)
    PROVE  /\ flushing' = [flushing EXCEPT ![p] = FALSE]
           /\ Flushes(f, p)
           /\ \A q \in Process : ~Flushes(f, q)'
           /\ \A g \in Flusher \ {f}, q \in Process : Flushes(g, q)' <=> Flushes(g, q)
<1>1. /\ pc[f] \in InFlight /\ target[f] = p
      /\ \E l \in {"idle", "ready"} : pc' = [pc EXCEPT ![f] = l]
      /\ UNCHANGED target
      /\ flushing' = [flushing EXCEPT ![p] = FALSE]
  BY DEF FlushFinishes, ResetProcessState, Return, Release, InFlight
<1>2. QED
  BY <1>1 DEF Flushes, TypeOK, InFlight

\* Every step keeps the flushing flag a lock.
LEMMA NextOneFlush ==
    TypeOK /\ OneFlushPerProcess /\ [Next]_vars => OneFlushPerProcess'
<1> SUFFICES ASSUME TypeOK, OneFlushPerProcess, [Next]_vars
             PROVE  OneFlushPerProcess'
  OBVIOUS
<1>1. ASSUME NEW p \in Process, NEW i \in Index, NEW known \in {NoIndex, checkpoint[p]},
             NEW v \in {latest[p][i], latest[p][i] + 1}, v \in Version, Enqueue(p, i, known, v)
      PROVE OneFlushPerProcess'
  BY <1>1, EnqueueFlushes, SameFlushes
<1>2. ASSUME NEW f \in Flusher, NEW p \in Process, TimerFires(f, p) \/ CallFlushProcess(f, p)
      PROVE OneFlushPerProcess'
  <2>1. Start(f, {p}) /\ UNCHANGED flushing
    BY <1>2 DEF TimerFires, CallFlushProcess, bufferVars
  <2>2. QED
    BY <2>1, StartFlushes, SameFlushes
<1>3. ASSUME NEW f \in Flusher, CallFlushAll(f)
      PROVE OneFlushPerProcess'
  <2>1. Start(f, {p \in Process : created[p]}) /\ UNCHANGED flushing
    BY <1>3 DEF CallFlushAll, bufferVars
  <2>2. QED
    BY <2>1, StartFlushes, SameFlushes
<1>4. ASSUME NEW f \in Flusher, NEW p \in Process, FlushSkips(f, p)
      PROVE OneFlushPerProcess'
  BY <1>4, SkipFlushes, SameFlushes
<1>5. ASSUME NEW f \in Flusher, NEW p \in Process,
             ListEntries(f, p) \/ UpsertEntries(f, p) \/ OnFlush(f, p)
      PROVE OneFlushPerProcess'
  BY <1>5, StoreCallFlushes, SameFlushes
<1>6. ASSUME NEW f \in Flusher, NEW p \in Process, FlushBegins(f, p)
      PROVE OneFlushPerProcess'
  <2>1. ASSUME NEW g \in Flusher, NEW h \in Flusher, NEW q \in Process,
               Flushes(g, q)', Flushes(h, q)'
        PROVE  g = h
    BY <1>6, <2>1, BeginFlushes DEF OneFlushPerProcess
  <2>2. ASSUME NEW q \in Process
        PROVE  flushing'[q] <=> \E g \in Flusher : Flushes(g, q)'
    <3>1. CASE q = p
      BY <1>6, <3>1, BeginFlushes DEF TypeOK
    <3>2. CASE q # p
      <4>1. flushing'[q] = flushing[q]
        BY <1>6, <3>2, BeginFlushes DEF TypeOK
      <4>2. \A g \in Flusher : Flushes(g, q)' <=> Flushes(g, q)
        BY <1>6, <3>2, BeginFlushes
      <4>3. QED
        BY <4>1, <4>2 DEF OneFlushPerProcess
    <3>3. QED
      BY <3>1, <3>2
  <2>3. QED
    BY <2>1, <2>2 DEF OneFlushPerProcess
<1>7. ASSUME NEW f \in Flusher, NEW p \in Process,
             FlushFinishes(f, p) \/ ResetProcessState(f, p)
      PROVE OneFlushPerProcess'
  <2>1. ASSUME NEW g \in Flusher, NEW h \in Flusher, NEW q \in Process,
               Flushes(g, q)', Flushes(h, q)'
        PROVE  g = h
    BY <1>7, <2>1, EndFlushes DEF OneFlushPerProcess
  <2>2. ASSUME NEW q \in Process
        PROVE  flushing'[q] <=> \E g \in Flusher : Flushes(g, q)'
    <3>1. CASE q = p
      <4>1. ~flushing'[p]
        BY <1>7, EndFlushes DEF TypeOK
      <4>2. \A g \in Flusher \ {f} : ~Flushes(g, p)
        BY <1>7, EndFlushes DEF OneFlushPerProcess
      <4>3. \A g \in Flusher : ~Flushes(g, p)'
        BY <1>7, <4>2, EndFlushes
      <4>4. QED
        BY <3>1, <4>1, <4>3
    <3>2. CASE q # p
      <4>1. flushing'[q] = flushing[q]
        BY <1>7, <3>2, EndFlushes DEF TypeOK
      <4>2. ~Flushes(f, q)
        BY <1>7, <3>2, EndFlushes DEF Flushes
      <4>3. \A g \in Flusher : Flushes(g, q)' <=> Flushes(g, q)
        BY <1>7, <4>2, EndFlushes
      <4>4. QED
        BY <4>1, <4>3 DEF OneFlushPerProcess
    <3>3. QED
      BY <3>1, <3>2
  <2>3. QED
    BY <2>1, <2>2 DEF OneFlushPerProcess
<1>8. CASE UNCHANGED vars
  BY <1>8 DEF vars, bufferVars, localVars, OneFlushPerProcess, Flushes
<1>9. QED
  BY <1>1, <1>2, <1>3, <1>4, <1>5, <1>6, <1>7, <1>8 DEF Next, FlushStep

\* The flushing flag is a lock: it is set exactly while one goroutine flushes
\* the process, however many timers, closing streams and FlushAll calls meet.
THEOREM FlushExclusion == Spec => []OneFlushPerProcess
<1>1. Spec => []TypeOK
  BY TypeCorrect
<1>2. QED
  BY <1>1, InitOneFlush, NextOneFlush, PTL DEF Spec
-----------------------------------------------------------------------------
(* What a flush knows of the entries it carries *)

\* Versions only grow from the table to the buffer to the producer, and what is
\* pending is the newest version unless that one was enqueued during a flush.
EntryInv(p, i) ==
    /\ store[p][i] <= (IF latest[p][i] = NoEntry THEN 0 ELSE latest[p][i])
    /\ pending[p][i] <= latest[p][i]
    /\ pending[p][i] # NoEntry => store[p][i] <= pending[p][i]
    /\ pending[p][i] # NoEntry /\ i \notin racy[p] => pending[p][i] = latest[p][i]

\* The copy a flush works on lies between the table and the pending map, is
\* still pending unless the entry was enqueued again, and is stored once the
\* flush is past the write.
BatchInv(f, p, i) ==
    /\ batch[f][i] # NoEntry => store[p][i] <= batch[f][i]
    /\ batch[f][i] <= pending[p][i]
    /\ i \notin racy[p] => pending[p][i] = batch[f][i]
    /\ pc[f] = "upsert" => (i \in fresh[f] <=> ShouldPersist(store[p][i], batch[f][i]))
    /\ pc[f] \in {"onFlush", "finish"} => ~ShouldPersist(store[p][i], batch[f][i])

\* No position, stored or held in memory, points at a missing entry.
Stored(p, n) == n # NoIndex => store[p][n] # NoEntry

Entries   == \A p \in Process, i \in Index : EntryInv(p, i)
Batches   == \A f \in Flusher, p \in Process, i \in Index :
                 Flushes(f, p) => BatchInv(f, p, i)
Positions == /\ \A p \in Process : Stored(p, checkpoint[p]) /\ Stored(p, lastEntryIndex[p])
             /\ \A f \in Flusher, p \in Process : Flushes(f, p) => Stored(p, pos[f])

Inv == TypeOK /\ OneFlushPerProcess /\ Entries /\ Batches /\ Positions /\ NoQuietLoss

\* The invariant holds when the program starts.
LEMMA InitInv == Init => Inv
<1> SUFFICES ASSUME Init PROVE Inv
  OBVIOUS
<1>1. TypeOK /\ OneFlushPerProcess
  BY InitType, InitOneFlush
<1>2. Entries /\ Positions
  BY BoundsAssumption
     DEF Init, Entries, EntryInv, Positions, Stored, Flushes, InFlight, NoEntries,
         NoEntry, NoIndex, Index, Position
<1>3. Batches /\ NoQuietLoss
  BY DEF Init, Batches, NoQuietLoss, Flushes, InFlight, NoEntries
<1>4. QED
  BY <1>1, <1>2, <1>3 DEF Inv

\* A step that changes no entry and no position, and neither enters nor leaves
\* a flush.
LEMMA FrameInv ==
    ASSUME Inv,
           UNCHANGED <<lastEntryIndex, pending, store, checkpoint, latest,
                       racy, batch, fresh, pos>>,
           \A g \in Flusher, q \in Process :
              Flushes(g, q)' => Flushes(g, q) /\ pc'[g] = pc[g]
    PROVE  Entries' /\ Batches' /\ Positions' /\ NoQuietLoss'
<1>1. Entries' /\ NoQuietLoss'
  BY DEF Inv, Entries, EntryInv, NoQuietLoss
<1>2. Batches'
  BY DEF Inv, Batches, BatchInv, ShouldPersist
<1>3. Positions'
  BY DEF Inv, Positions, Stored
<1>4. QED
  BY <1>1, <1>2, <1>3

\* Enqueue of a newer version, or of the same one again, keeps the invariant.
LEMMA EnqueueInv ==
    ASSUME Inv, NEW p \in Process, NEW i \in Index, NEW known \in {NoIndex, checkpoint[p]},
           NEW v \in Version, v >= latest[p][i], Enqueue(p, i, known, v)
    PROVE  Entries' /\ Batches' /\ Positions' /\ NoQuietLoss'
<1> USE DEF Inv
<1>1. /\ pending' = [pending EXCEPT ![p][i] = v]
      /\ latest' = [latest EXCEPT ![p][i] = v]
      /\ UNCHANGED <<store, checkpoint, pc, target, batch, fresh, pos>>
      /\ v \in Int /\ v >= 0
  BY BoundsAssumption DEF Enqueue, storeVars, localVars, Version
<1>2. \A q \in Process, j \in Index :
        pending'[q][j] = IF q = p /\ j = i THEN v ELSE pending[q][j]
  BY <1>1 DEF TypeOK
<1>3. \A q \in Process, j \in Index :
        latest'[q][j] = IF q = p /\ j = i THEN v ELSE latest[q][j]
  BY <1>1 DEF TypeOK
<1>4. \A q \in Process, j \in Index :
        /\ store[q][j] \in Int /\ pending[q][j] \in Int /\ latest[q][j] \in Int
        /\ EntryInv(q, j)
  BY BoundsAssumption DEF TypeOK, Slot, Version, NoEntry, Entries
<1>5. Entries'
  <2> SUFFICES ASSUME NEW q \in Process, NEW j \in Index
               PROVE  EntryInv(q, j)'
    BY DEF Entries
  <2>1. CASE q = p /\ j = i
    <3>1. store[p][i] <= v
      BY <1>1, <1>4 DEF EntryInv
    <3>2. pending'[q][j] = v /\ latest'[q][j] = v /\ store'[q][j] = store[p][i] /\ v # NoEntry
      BY <1>1, <1>2, <1>3, <2>1 DEF NoEntry
    <3>3. QED
      BY <1>1, <3>1, <3>2 DEF EntryInv
  <2>2. CASE ~(q = p /\ j = i)
    <3>1. j \in racy'[q] <=> j \in racy[q]
      BY <2>2 DEF Enqueue, TypeOK
    <3>2. QED
      BY <1>1, <1>2, <1>3, <1>4, <2>2, <3>1 DEF EntryInv
  <2>3. QED
    BY <2>1, <2>2
<1>6. \A q \in Process, j \in Index :
        q # p \/ j # i => (j \in racy'[q] <=> j \in racy[q])
  BY DEF Enqueue, TypeOK
<1>7. flushing[p] => i \in racy'[p]
  BY DEF Enqueue, TypeOK
<1>8. Batches'
  <2> SUFFICES ASSUME NEW g \in Flusher, NEW q \in Process, NEW j \in Index,
                      Flushes(g, q)'
               PROVE  BatchInv(g, q, j)'
    BY DEF Batches
  <2>1. Flushes(g, q) /\ BatchInv(g, q, j) /\ flushing[q]
    BY <1>1 DEF Flushes, Batches, OneFlushPerProcess
  <2>2. CASE q = p /\ j = i
    <3>1. batch[g][j] <= v
      <4>1. batch[g][j] <= pending[p][i] /\ pending[p][i] <= latest[p][i] /\ batch[g][j] \in Int
        BY <1>4, <2>1, <2>2, BoundsAssumption
           DEF BatchInv, EntryInv, TypeOK, Slot, Version, NoEntry
      <4>2. QED
        BY <1>1, <1>4, <4>1
    <3>2. QED
      BY <1>1, <1>2, <1>7, <2>1, <2>2, <3>1 DEF BatchInv, ShouldPersist
  <2>3. CASE ~(q = p /\ j = i)
    BY <1>1, <1>2, <1>6, <2>1, <2>3 DEF BatchInv, ShouldPersist
  <2>4. QED
    BY <2>2, <2>3
<1>9. Positions'
  <2>1. lastEntryIndex' = lastEntryIndex \/ lastEntryIndex' = [lastEntryIndex EXCEPT ![p] = known]
    BY DEF Enqueue, FirstPosition
  <2>2. QED
    BY <1>1, <2>1 DEF Positions, Stored, Flushes, TypeOK
<1>10. NoQuietLoss'
  BY <1>1, <1>2, <1>3, <1>6 DEF NoQuietLoss
<1>11. QED
  BY <1>5, <1>8, <1>9, <1>10

\* Copying what is pending into the batch of a flush keeps the invariant.
LEMMA BeginInv ==
    ASSUME Inv, NEW f \in Flusher, NEW p \in Process, FlushBegins(f, p)
    PROVE  Entries' /\ Batches' /\ Positions' /\ NoQuietLoss'
<1> USE DEF Inv
<1>1. /\ batch' = [batch EXCEPT ![f] = pending[p]]
      /\ pos' = [pos EXCEPT ![f] = lastEntryIndex[p]]
      /\ pc' = [pc EXCEPT ![f] = "list"]
      /\ UNCHANGED <<lastEntryIndex, pending, store, checkpoint, fresh, latest, racy>>
  BY DEF FlushBegins, storeVars, historyVars
<1>2. Entries' /\ NoQuietLoss'
  BY <1>1 DEF Entries, EntryInv, NoQuietLoss
<1>3. Batches'
  <2> SUFFICES ASSUME NEW g \in Flusher, NEW q \in Process, NEW j \in Index,
                      Flushes(g, q)'
               PROVE  BatchInv(g, q, j)'
    BY DEF Batches
  <2>1. CASE g = f
    <3>1. q = p
      BY <2>1, BeginFlushes
    <3>2. batch'[f] = pending[p] /\ pc'[f] = "list"
      BY <1>1 DEF TypeOK
    <3>3. pending[p][j] \in Int
      BY BoundsAssumption DEF TypeOK, Slot, Version, NoEntry
    <3>4. QED
      BY <1>1, <2>1, <3>1, <3>2, <3>3 DEF BatchInv, Entries, EntryInv
  <2>2. CASE g # f
    <3>1. Flushes(g, q) /\ BatchInv(g, q, j)
      BY <2>2, BeginFlushes DEF Batches
    <3>2. batch'[g] = batch[g] /\ pc'[g] = pc[g]
      BY <1>1, <2>2 DEF TypeOK
    <3>3. QED
      BY <1>1, <3>1, <3>2 DEF BatchInv, ShouldPersist
  <2>3. QED
    BY <2>1, <2>2
<1>4. Positions'
  BY <1>1, BeginFlushes DEF Positions, Stored, TypeOK
<1>5. QED
  BY <1>2, <1>3, <1>4

\* Filtering the batch against the table, or failing to, keeps the invariant.
LEMMA ListInv ==
    ASSUME Inv, NEW f \in Flusher, NEW p \in Process, ListEntries(f, p)
    PROVE  Entries' /\ Batches' /\ Positions' /\ NoQuietLoss'
<1> USE DEF Inv
<1> DEFINE wanted == {i \in Index : ShouldPersist(store[p][i], batch[f][i])}
<1>1. /\ UNCHANGED <<lastEntryIndex, pending, store, checkpoint, batch, pos,
                     latest, racy>>
      /\ pc[f] = "list" /\ Flushes(f, p)
      /\ \/ /\ fresh' = [fresh EXCEPT ![f] = wanted]
            /\ pc' = [pc EXCEPT ![f] = IF wanted = {} THEN "finish" ELSE "upsert"]
         \/ fresh' = fresh /\ pc' = [pc EXCEPT ![f] = "reset"]
  <2>1. wanted \in SUBSET Index
    OBVIOUS
  <2>2. fresh' = [fresh EXCEPT ![f] = wanted] => fresh'[f] = wanted
    BY <2>1 DEF TypeOK
  <2>3. QED
    BY <2>2 DEF ListEntries, bufferVars, storeVars, historyVars, Flushes, InFlight
<1> HIDE DEF wanted
<1>2. Entries' /\ NoQuietLoss'
  BY <1>1 DEF Entries, EntryInv, NoQuietLoss
<1>3. Batches'
  <2> SUFFICES ASSUME NEW g \in Flusher, NEW q \in Process, NEW j \in Index,
                      Flushes(g, q)'
               PROVE  BatchInv(g, q, j)'
    BY DEF Batches
  <2>1. Flushes(g, q) /\ BatchInv(g, q, j)
    BY StoreCallFlushes DEF Batches
  <2>2. CASE g = f
    <3>1. q = p
      BY <1>1, <2>1, <2>2 DEF Flushes
    <3>2. j \in wanted <=> ShouldPersist(store[p][j], batch[f][j])
      BY DEF wanted
    <3>3. \/ fresh'[f] = wanted /\ pc'[f] = "upsert"
          \/ wanted = {} /\ pc'[f] = "finish"
          \/ pc'[f] = "reset"
      BY <1>1 DEF TypeOK
    <3>4. QED
      BY <1>1, <2>1, <2>2, <3>1, <3>2, <3>3 DEF BatchInv, ShouldPersist
  <2>3. CASE g # f
    <3>1. fresh'[g] = fresh[g] /\ pc'[g] = pc[g]
      BY <1>1, <2>3 DEF TypeOK
    <3>2. QED
      BY <1>1, <2>1, <3>1 DEF BatchInv, ShouldPersist
  <2>4. QED
    BY <2>2, <2>3
<1>4. Positions'
  BY <1>1, StoreCallFlushes DEF Positions, Stored
<1>5. QED
  BY <1>2, <1>3, <1>4

\* advanceEntryIndex stays where it is or moves to a written index.
LEMMA AdvancesInto ==
    ASSUME NEW cur \in Position, NEW S, NEW n \in Index, AdvancesTo(cur, S, n), n # cur
    PROVE  n \in S
<1>1. cur \in Int /\ n \in Int
  BY BoundsAssumption DEF Position, Index, NoIndex
<1>2. CASE cur = NoIndex
  BY <1>2 DEF AdvancesTo
<1>3. CASE cur # NoIndex
  <2>1. cur <= n /\ (cur + 1 .. n) \subseteq S
    BY <1>3 DEF AdvancesTo
  <2>2. n \in cur + 1 .. n
    BY <1>1, <2>1
  <2>3. QED
    BY <2>1, <2>2
<1>4. QED
  BY <1>2, <1>3

\* The write of a batch, seen by one entry: it keeps its version or takes the
\* newer one of the batch, and then it differed from the stored one.
LEMMA WrittenEntries ==
    ASSUME Inv, NEW f \in Flusher, NEW p \in Process, pc[f] = "upsert", Flushes(f, p)
    PROVE  /\ \A q \in Process, j \in Index :
                 Written(f, p)[q][j] =
                    IF q = p /\ ShouldPersist(store[p][j], batch[f][j])
                      THEN batch[f][j] ELSE store[q][j]
           /\ \A q \in Process, j \in Index :
                 /\ store[q][j] <= Written(f, p)[q][j]
                 /\ store[q][j] # NoEntry => Written(f, p)[q][j] # NoEntry
           /\ \A j \in fresh[f] : Written(f, p)[p][j] # NoEntry
<1> USE DEF Inv, ShouldPersist
<1>0. \A j \in Index : BatchInv(f, p, j)
  BY DEF Batches
<1>1. \A j \in Index : (j \in fresh[f]) <=> ShouldPersist(store[p][j], batch[f][j])
  BY <1>0 DEF BatchInv
<1>2. \A q \in Process, j \in Index :
        Written(f, p)[q][j] = IF q = p /\ j \in fresh[f] THEN batch[f][j] ELSE store[q][j]
  BY DEF Written, TypeOK
<1>3. \A q \in Process, j \in Index : store[q][j] \in Int /\ batch[f][j] \in Int
  BY BoundsAssumption DEF TypeOK, Slot, Version, NoEntry
<1>4. fresh[f] \subseteq Index
  BY DEF TypeOK
<1>5. ASSUME NEW q \in Process, NEW j \in Index
      PROVE  /\ Written(f, p)[q][j] =
                   IF q = p /\ ShouldPersist(store[p][j], batch[f][j])
                     THEN batch[f][j] ELSE store[q][j]
             /\ store[q][j] <= Written(f, p)[q][j]
             /\ store[q][j] # NoEntry => Written(f, p)[q][j] # NoEntry
  <2>1. CASE q = p /\ j \in fresh[f]
    <3>1. Written(f, p)[q][j] = batch[f][j] /\ ShouldPersist(store[p][j], batch[f][j])
      BY <1>1, <1>2, <2>1
    <3>2. batch[f][j] # NoEntry /\ store[p][j] <= batch[f][j]
      BY <1>0, <3>1 DEF BatchInv
    <3>3. QED
      BY <2>1, <3>1, <3>2
  <2>2. CASE ~(q = p /\ j \in fresh[f])
    <3>1. Written(f, p)[q][j] = store[q][j]
      BY <1>2, <2>2
    <3>2. ~(q = p /\ ShouldPersist(store[p][j], batch[f][j]))
      BY <1>1, <2>2
    <3>3. store[q][j] <= store[q][j]
      BY <1>3
    <3>4. QED
      BY <3>1, <3>2, <3>3
  <2>3. QED
    BY <2>1, <2>2
<1>6. \A j \in fresh[f] : Written(f, p)[p][j] # NoEntry
  <2>1. ASSUME NEW j \in fresh[f]
        PROVE  Written(f, p)[p][j] # NoEntry
    <3>1. j \in Index
      BY <1>4
    <3>2. ShouldPersist(store[p][j], batch[f][j])
      BY <1>1, <3>1
    <3>3. QED
      BY <1>2, <3>1, <3>2
  <2>2. QED
    BY <2>1
<1>7. QED
  BY <1>5, <1>6

\* Writing the batch keeps the invariant, whether or not the call reports an error.
LEMMA UpsertInv ==
    ASSUME Inv, NEW f \in Flusher, NEW p \in Process, UpsertEntries(f, p)
    PROVE  Entries' /\ Batches' /\ Positions' /\ NoQuietLoss'
<1> USE DEF Inv
<1>1. /\ UNCHANGED <<lastEntryIndex, pending, checkpoint, batch, fresh,
                     latest, racy>>
      /\ pc[f] = "upsert" /\ Flushes(f, p)
      /\ \/ /\ store' = Written(f, p) /\ pc' = [pc EXCEPT ![f] = "onFlush"]
            /\ \E n \in Index : /\ AdvancesTo(pos[f], fresh[f], n)
                                /\ pos' = [pos EXCEPT ![f] = n]
         \/ /\ store' = store \/ store' = Written(f, p)
            /\ pc' = [pc EXCEPT ![f] = "reset"] /\ pos' = pos
  BY DEF UpsertEntries, bufferVars, historyVars, Flushes, InFlight
<1>2. \A q \in Process, j \in Index :
        \/ store'[q][j] = store[q][j]
        \/ /\ q = p /\ store'[q][j] = batch[f][j]
           /\ ShouldPersist(store[p][j], batch[f][j])
  BY <1>1, WrittenEntries
<1>3. \A q \in Process, j \in Index :
        store[q][j] # NoEntry => store'[q][j] # NoEntry
  BY <1>1, WrittenEntries
<1>4. \A j \in Index : BatchInv(f, p, j)
  BY <1>1 DEF Batches
<1>5. \A q \in Process, j \in Index :
        store[q][j] \in Int /\ pending[q][j] \in Int /\ batch[f][j] \in Int /\ latest[q][j] \in Int
  BY BoundsAssumption DEF TypeOK, Slot, Version, NoEntry
<1>6. Entries'
  <2> SUFFICES ASSUME NEW q \in Process, NEW j \in Index
               PROVE  EntryInv(q, j)'
    BY DEF Entries
  <2>1. EntryInv(q, j)
    BY DEF Entries
  <2>2. CASE store'[q][j] = store[q][j]
    BY <1>1, <2>1, <2>2 DEF EntryInv
  <2>3. CASE store'[q][j] # store[q][j]
    <3>1. q = p /\ store'[q][j] = batch[f][j] /\ BatchInv(f, p, j)
      BY <1>2, <1>4, <2>3
    <3>2. batch[f][j] <= pending[p][j] /\ pending[p][j] <= latest[p][j]
      BY <2>1, <3>1 DEF EntryInv, BatchInv
    <3>3. batch[f][j] \in Int /\ batch[f][j] >= 0
      BY <1>2, <1>5, <2>3, BoundsAssumption
         DEF ShouldPersist, TypeOK, Slot, Version, NoEntry
    <3>4. QED
      BY <1>1, <1>5, <2>1, <3>1, <3>2, <3>3 DEF EntryInv, NoEntry
  <2>4. QED
    BY <2>2, <2>3
<1>7. Batches'
  <2> SUFFICES ASSUME NEW g \in Flusher, NEW q \in Process, NEW j \in Index,
                      Flushes(g, q)'
               PROVE  BatchInv(g, q, j)'
    BY DEF Batches
  <2>1. Flushes(g, q) /\ BatchInv(g, q, j)
    BY StoreCallFlushes DEF Batches
  <2>2. CASE g = f
    <3>1. q = p
      BY <1>1, <2>1, <2>2 DEF Flushes
    <3>2. \/ store' = Written(f, p) /\ pc'[f] = "onFlush"
          \/ pc'[f] = "reset"
      BY <1>1 DEF TypeOK
    <3>3. store' = Written(f, p) => ~ShouldPersist(store'[p][j], batch[f][j])
      BY <1>1, WrittenEntries DEF ShouldPersist
    <3>4. batch[f][j] # NoEntry => store'[p][j] <= batch[f][j]
      BY <1>2, <1>5, <2>1, <2>2, <3>1 DEF BatchInv
    <3>5. QED
      BY <1>1, <2>1, <2>2, <3>1, <3>2, <3>3, <3>4 DEF BatchInv
  <2>3. CASE g # f
    <3>1. q # p
      BY <1>1, <2>1, <2>3 DEF OneFlushPerProcess
    <3>2. store'[q][j] = store[q][j]
      BY <1>2, <3>1
    <3>3. pc'[g] = pc[g]
      BY <1>1, <2>3 DEF TypeOK
    <3>4. QED
      BY <1>1, <2>1, <3>2, <3>3 DEF BatchInv
  <2>4. QED
    BY <2>2, <2>3
<1>8. Positions'
  <2>1. \A q \in Process : Stored(q, checkpoint[q])' /\ Stored(q, lastEntryIndex[q])'
    BY <1>1, <1>3 DEF Positions, Stored, TypeOK, Position
  <2>2. ASSUME NEW g \in Flusher, NEW q \in Process, Flushes(g, q)'
        PROVE  Stored(q, pos[g])'
    <3>1. Flushes(g, q) /\ Stored(q, pos[g])
      BY <2>2, StoreCallFlushes DEF Positions
    <3>2. CASE pos'[g] = pos[g]
      BY <1>3, <3>1, <3>2 DEF Stored, TypeOK, Position
    <3>3. CASE pos'[g] # pos[g]
      <4>1. g = f
        BY <1>1, <3>3 DEF TypeOK
      <4>2. q = p
        BY <1>1, <3>1, <4>1 DEF Flushes
      <4>3. store' = Written(f, p) /\ AdvancesTo(pos[f], fresh[f], pos'[f]) /\ pos'[f] \in Index
        BY <1>1, <3>3, <4>1 DEF TypeOK
      <4>4. pos'[f] \in fresh[f]
        BY <3>3, <4>1, <4>3, AdvancesInto DEF TypeOK
      <4>5. QED
        BY <1>1, <4>1, <4>2, <4>3, <4>4, WrittenEntries DEF Stored
    <3>4. QED
      BY <3>2, <3>3
  <2>3. QED
    BY <2>1, <2>2 DEF Positions
<1>9. NoQuietLoss'
  <2> SUFFICES ASSUME NEW q \in Process, NEW j \in Index,
                      latest[q][j] # NoEntry, j \notin racy[q],
                      pending[q][j] # latest[q][j]
               PROVE  store'[q][j] # NoEntry /\ hash[store'[q][j]] = hash[latest[q][j]]
    BY <1>1 DEF NoQuietLoss
  <2>1. store[q][j] # NoEntry /\ hash[store[q][j]] = hash[latest[q][j]]
    BY DEF NoQuietLoss
  <2>2. store'[q][j] = store[q][j]
    <3>1. CASE q = p
      <4>1. batch[f][j] = pending[p][j]
        BY <1>4, <3>1 DEF BatchInv
      <4>2. pending[p][j] = NoEntry
        BY <1>1, <3>1 DEF Entries, EntryInv
      <4>3. QED
        BY <1>2, <3>1, <4>1, <4>2 DEF ShouldPersist
    <3>2. QED
      BY <1>2, <3>1
  <2>3. QED
    BY <2>1, <2>2
<1>10. QED
  BY <1>6, <1>7, <1>8, <1>9

\* Writing the position keeps the invariant, whether or not the call reports an error.
LEMMA OnFlushInv ==
    ASSUME Inv, NEW f \in Flusher, NEW p \in Process, OnFlush(f, p)
    PROVE  Entries' /\ Batches' /\ Positions' /\ NoQuietLoss'
<1> USE DEF Inv
<1>1. /\ UNCHANGED <<lastEntryIndex, pending, store, batch, fresh, pos,
                     latest, racy>>
      /\ pc[f] = "onFlush" /\ Flushes(f, p)
      /\ pc' = [pc EXCEPT ![f] = "finish"] \/ pc' = [pc EXCEPT ![f] = "reset"]
      /\ checkpoint' = checkpoint \/ checkpoint' = [checkpoint EXCEPT ![p] = pos[f]]
  BY DEF OnFlush, bufferVars, historyVars, Flushes, InFlight
<1>2. Entries' /\ NoQuietLoss'
  BY <1>1 DEF Entries, EntryInv, NoQuietLoss
<1>3. Batches'
  <2> SUFFICES ASSUME NEW g \in Flusher, NEW q \in Process, NEW j \in Index,
                      Flushes(g, q)'
               PROVE  BatchInv(g, q, j)'
    BY DEF Batches
  <2>1. Flushes(g, q) /\ BatchInv(g, q, j)
    BY StoreCallFlushes DEF Batches
  <2>2. pc'[g] = pc[g] \/ (g = f /\ pc'[g] \in {"finish", "reset"})
    BY <1>1 DEF TypeOK
  <2>3. QED
    BY <1>1, <2>1, <2>2 DEF BatchInv, ShouldPersist
<1>4. Positions'
  <2>1. Stored(p, pos[f])
    BY <1>1 DEF Positions
  <2>2. QED
    BY <1>1, <2>1, StoreCallFlushes DEF Positions, Stored, TypeOK
<1>5. QED
  BY <1>2, <1>3, <1>4

\* Emptying the pending map after a flush keeps the invariant: what it wipes is
\* stored, or was enqueued during the flush.
LEMMA FinishInv ==
    ASSUME Inv, NEW f \in Flusher, NEW p \in Process, FlushFinishes(f, p)
    PROVE  Entries' /\ Batches' /\ Positions' /\ NoQuietLoss'
<1> USE DEF Inv
<1>1. /\ UNCHANGED <<store, checkpoint, latest, racy>>
      /\ batch' = [batch EXCEPT ![f] = NoEntries]
      /\ fresh' = [fresh EXCEPT ![f] = {}]
      /\ pos' = [pos EXCEPT ![f] = NoIndex]
      /\ pending' = [pending EXCEPT ![p] = NoEntries]
      /\ lastEntryIndex' = [lastEntryIndex EXCEPT ![p] = pos[f]]
      /\ pc[f] = "finish" /\ Flushes(f, p)
      /\ \E l \in {"idle", "ready"} : pc' = [pc EXCEPT ![f] = l]
  BY DEF FlushFinishes, Return, Forget, storeVars, historyVars, Flushes, InFlight
<1>2. \A q \in Process, j \in Index :
        pending'[q][j] = IF q = p THEN NoEntry ELSE pending[q][j]
  BY <1>1 DEF TypeOK, NoEntries
<1>3. \A q \in Process, j \in Index : NoEntry <= latest[q][j]
  <2>1. \A q \in Process, j \in Index : latest[q][j] \in Slot
    BY DEF TypeOK
  <2>2. \A x \in Slot : NoEntry <= x
    BY BoundsAssumption DEF Slot, Version, NoEntry
  <2>3. QED
    BY <2>1, <2>2
<1>4. Entries'
  <2> SUFFICES ASSUME NEW q \in Process, NEW j \in Index
               PROVE  EntryInv(q, j)'
    BY DEF Entries
  <2>1. EntryInv(q, j)
    BY DEF Entries
  <2>2. pending'[q][j] = NoEntry \/ pending'[q][j] = pending[q][j]
    BY <1>2
  <2>3. QED
    BY <1>1, <1>3, <2>1, <2>2 DEF EntryInv
<1>5. Batches'
  <2> SUFFICES ASSUME NEW g \in Flusher, NEW q \in Process, NEW j \in Index,
                      Flushes(g, q)'
               PROVE  BatchInv(g, q, j)'
    BY DEF Batches
  <2>1. g # f /\ Flushes(g, q) /\ BatchInv(g, q, j)
    BY EndFlushes DEF Batches
  <2>2. q # p
    BY <1>1, <2>1 DEF OneFlushPerProcess
  <2>3. pc'[g] = pc[g] /\ batch'[g] = batch[g] /\ fresh'[g] = fresh[g]
    BY <1>1, <2>1 DEF TypeOK
  <2>4. QED
    BY <1>1, <1>2, <2>1, <2>2, <2>3 DEF BatchInv, ShouldPersist
<1>6. Positions'
  <2>1. Stored(p, pos[f])
    BY <1>1 DEF Positions
  <2>2. QED
    BY <1>1, <2>1, EndFlushes DEF Positions, Stored, TypeOK
<1>7. NoQuietLoss'
  <2> SUFFICES ASSUME NEW q \in Process, NEW j \in Index,
                      latest[q][j] # NoEntry, j \notin racy[q],
                      pending'[q][j] # latest[q][j]
               PROVE  store[q][j] # NoEntry /\ hash[store[q][j]] = hash[latest[q][j]]
    BY <1>1 DEF NoQuietLoss
  <2>1. CASE pending[q][j] # latest[q][j]
    BY <2>1 DEF NoQuietLoss
  <2>2. CASE pending[q][j] = latest[q][j]
    <3>1. q = p
      BY <1>2, <2>2
    <3>2. BatchInv(f, p, j)
      BY <1>1 DEF Batches
    <3>3. batch[f][j] = latest[p][j]
      BY <2>2, <3>1, <3>2 DEF BatchInv
    <3>4. QED
      BY <1>1, <3>1, <3>2, <3>3 DEF BatchInv, ShouldPersist
  <2>3. QED
    BY <2>1, <2>2
<1>8. QED
  BY <1>4, <1>5, <1>6, <1>7

\* Putting the batch back after an error keeps the invariant.
LEMMA ResetInv ==
    ASSUME Inv, NEW f \in Flusher, NEW p \in Process, ResetProcessState(f, p)
    PROVE  Entries' /\ Batches' /\ Positions' /\ NoQuietLoss'
<1> USE DEF Inv
<1>1. /\ UNCHANGED <<store, checkpoint, latest, racy>>
      /\ batch' = [batch EXCEPT ![f] = NoEntries]
      /\ fresh' = [fresh EXCEPT ![f] = {}]
      /\ pos' = [pos EXCEPT ![f] = NoIndex]
      /\ pending' = [pending EXCEPT ![p] = batch[f]]
      /\ lastEntryIndex' = [lastEntryIndex EXCEPT ![p] = pos[f]]
      /\ pc[f] = "reset" /\ Flushes(f, p)
      /\ pc' = [pc EXCEPT ![f] = "idle"]
  BY DEF ResetProcessState, Forget, storeVars, historyVars, Flushes, InFlight
<1>2. \A q \in Process, j \in Index :
        pending'[q][j] = IF q = p THEN batch[f][j] ELSE pending[q][j]
  BY <1>1 DEF TypeOK
<1>3. \A j \in Index : BatchInv(f, p, j)
  BY <1>1 DEF Batches
<1>4. \A q \in Process, j \in Index :
        /\ store[q][j] \in Int /\ pending[q][j] \in Int /\ batch[f][j] \in Int
        /\ latest[q][j] \in Int
  BY BoundsAssumption DEF TypeOK, Slot, Version, NoEntry
<1>5. Entries'
  <2> SUFFICES ASSUME NEW q \in Process, NEW j \in Index
               PROVE  EntryInv(q, j)'
    BY DEF Entries
  <2>1. EntryInv(q, j) /\ BatchInv(f, p, j)
    BY <1>3 DEF Entries
  <2>2. CASE q = p
    BY <1>1, <1>2, <1>4, <2>1, <2>2 DEF EntryInv, BatchInv
  <2>3. CASE q # p
    BY <1>1, <1>2, <2>1, <2>3 DEF EntryInv
  <2>4. QED
    BY <2>2, <2>3
<1>6. Batches'
  <2> SUFFICES ASSUME NEW g \in Flusher, NEW q \in Process, NEW j \in Index,
                      Flushes(g, q)'
               PROVE  BatchInv(g, q, j)'
    BY DEF Batches
  <2>1. g # f /\ Flushes(g, q) /\ BatchInv(g, q, j)
    BY EndFlushes DEF Batches
  <2>2. q # p
    BY <1>1, <2>1 DEF OneFlushPerProcess
  <2>3. pc'[g] = pc[g] /\ batch'[g] = batch[g] /\ fresh'[g] = fresh[g]
    BY <1>1, <2>1 DEF TypeOK
  <2>4. QED
    BY <1>1, <1>2, <2>1, <2>2, <2>3 DEF BatchInv, ShouldPersist
<1>7. Positions'
  <2>1. Stored(p, pos[f])
    BY <1>1 DEF Positions
  <2>2. QED
    BY <1>1, <2>1, EndFlushes DEF Positions, Stored, TypeOK
<1>8. NoQuietLoss'
  BY <1>1, <1>2, <1>3 DEF NoQuietLoss, BatchInv
<1>9. QED
  BY <1>5, <1>6, <1>7, <1>8

\* Every step keeps the invariant.
LEMMA NextInv == Inv /\ [Next]_vars => Inv'
<1> SUFFICES ASSUME Inv, [Next]_vars
             PROVE  Entries' /\ Batches' /\ Positions' /\ NoQuietLoss'
  BY NextType, NextOneFlush DEF Inv
<1>1. ASSUME NEW p \in Process, NEW i \in Index, NEW known \in {NoIndex, checkpoint[p]},
             NEW v \in {latest[p][i], latest[p][i] + 1}, v \in Version, Enqueue(p, i, known, v)
      PROVE Entries' /\ Batches' /\ Positions' /\ NoQuietLoss'
  <2>1. latest[p][i] \in Int
    BY BoundsAssumption DEF Inv, TypeOK, Slot, Version, NoEntry
  <2>2. v = latest[p][i] \/ v = latest[p][i] + 1
    OBVIOUS
  <2>3. v >= latest[p][i]
    BY <2>1, <2>2
  <2>4. QED
    BY <1>1, <2>3, EnqueueInv
<1>2. ASSUME NEW f \in Flusher, NEW ps, Start(f, ps),
             UNCHANGED <<bufferVars, storeVars, historyVars>>
                \/ UNCHANGED <<lastEntryIndex, pending, storeVars, historyVars>>
      PROVE Entries' /\ Batches' /\ Positions' /\ NoQuietLoss'
  <2>1. \A g \in Flusher, q \in Process :
           Flushes(g, q)' => Flushes(g, q) /\ pc'[g] = pc[g]
    BY <1>2 DEF Start, Flushes, Inv, TypeOK, InFlight
  <2>2. QED
    BY <1>2, <2>1, FrameInv DEF Start, bufferVars, storeVars, historyVars
<1>3. ASSUME NEW f \in Flusher, NEW p \in Process, FlushSkips(f, p)
      PROVE Entries' /\ Batches' /\ Positions' /\ NoQuietLoss'
  <2>1. pc[f] = "ready" /\ pc' \in {[pc EXCEPT ![f] = "idle"], [pc EXCEPT ![f] = "ready"]}
    BY <1>3 DEF FlushSkips, Return
  <2>2. \A g \in Flusher, q \in Process :
           Flushes(g, q)' => Flushes(g, q) /\ pc'[g] = pc[g]
    BY <1>3, <2>1 DEF FlushSkips, Flushes, Inv, TypeOK, InFlight
  <2>3. QED
    BY <1>3, <2>2, FrameInv DEF FlushSkips, bufferVars, storeVars, historyVars
<1>4. ASSUME NEW f \in Flusher, NEW p \in Process, FlushStep(f, p), ~FlushSkips(f, p)
      PROVE Entries' /\ Batches' /\ Positions' /\ NoQuietLoss'
  BY <1>4, BeginInv, ListInv, UpsertInv, OnFlushInv, FinishInv, ResetInv DEF FlushStep
<1>5. CASE UNCHANGED vars
  BY <1>5, FrameInv DEF vars, bufferVars, storeVars, localVars, historyVars, Flushes
<1>6. QED
  <2>1. \A f \in Flusher, p \in Process :
           TimerFires(f, p) \/ CallFlushProcess(f, p)
           => Start(f, {p}) /\ UNCHANGED <<lastEntryIndex, pending, storeVars, historyVars>>
    BY DEF TimerFires, CallFlushProcess, bufferVars
  <2>2. \A f \in Flusher :
           CallFlushAll(f) => /\ Start(f, {p \in Process : created[p]})
                              /\ UNCHANGED <<bufferVars, storeVars, historyVars>>
    BY DEF CallFlushAll
  <2>3. QED
    BY <1>1, <1>2, <1>3, <1>4, <1>5, <2>1, <2>2 DEF Next

\* The inductive invariant from which the theorems below follow.
THEOREM Invariance == Spec => []Inv
  BY InitInv, NextInv, PTL DEF Spec

\* The stored position never runs ahead of the entries it stands for.
THEOREM CheckpointSafety == Spec => []CheckpointIsStored
<1>1. Inv => CheckpointIsStored
  BY DEF Inv, Positions, Stored, CheckpointIsStored
<1>2. QED
  BY <1>1, Invariance, PTL

\* What is enqueued outside a flush is pending or stored.
THEOREM QuietEntriesSurvive == Spec => []NoQuietLoss
<1>1. Inv => NoQuietLoss
  BY DEF Inv
<1>2. QED
  BY <1>1, Invariance, PTL

\* No write of a batch puts an older version of an entry over a newer one.
LEMMA StepNeverRegresses ==
    Inv /\ [Next]_vars =>
      [\A p \in Process, i \in Index : store'[p][i] >= store[p][i]]_vars
<1> SUFFICES ASSUME Inv, Next, NEW p \in Process, NEW i \in Index
             PROVE  store'[p][i] >= store[p][i]
  OBVIOUS
<1>1. store[p][i] \in Int
  BY BoundsAssumption DEF Inv, TypeOK, Slot, Version, NoEntry
<1>2. CASE \E f \in Flusher, q \in Process : UpsertEntries(f, q)
  <2>1. PICK f \in Flusher, q \in Process : UpsertEntries(f, q)
    BY <1>2
  <2>2. pc[f] = "upsert" /\ Flushes(f, q) /\ (store' = store \/ store' = Written(f, q))
    BY <2>1 DEF UpsertEntries, Flushes, InFlight
  <2>3. store[p][i] <= store'[p][i]
    BY <1>1, <2>2, WrittenEntries
  <2>4. store'[p][i] \in Int
    BY NextType, BoundsAssumption DEF Inv, TypeOK, Slot, Version, NoEntry
  <2>5. QED
    BY <1>1, <2>3, <2>4
<1>3. CASE store' = store
  BY <1>1, <1>3
<1>4. QED
  BY <1>2, <1>3
     DEF Next, FlushStep, Enqueue, TimerFires, CallFlushProcess, CallFlushAll, FlushSkips,
         FlushBegins, ListEntries, OnFlush, FlushFinishes, ResetProcessState, storeVars

\* However goroutines interleave and whatever calls fail, an entry in the table
\* is never overwritten by an older version of itself.
THEOREM StoreMonotone == Spec => StoreNeverRegresses
  BY Invariance, StepNeverRegresses, PTL DEF Spec, StoreNeverRegresses
=============================================================================
