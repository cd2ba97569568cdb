---------------------------- MODULE MemoryBuffer ----------------------------
(***************************************************************************)
(* The in-memory write-behind buffer of internal/buffer/memory_buffer.go   *)
(* and the two MySQL tables it writes: kw_process_entries (store) and      *)
(* kw_sync_subscriptions.last_entry_index (checkpoint).                    *)
(*                                                                         *)
(* Enqueue is called by the goroutine that reads a log stream; a flush     *)
(* runs in whichever goroutine the timer, a closing stream or FlushAll     *)
(* started.  The mutex of the buffer is held only while the in-memory      *)
(* state is read or written, so each locked section, each call of the      *)
(* store and each call of onFlush is one step.                             *)
(*                                                                         *)
(* The contents of an entry are a version number, which grows with every   *)
(* change of the entry upstream; hash[v] is the ContentHash of version v.  *)
(* Versions that share a hash differ in a field the hash does not cover    *)
(* (a tool status).                                                        *)
(***************************************************************************)
EXTENDS Integers, FiniteSets

CONSTANTS
    Process,     \* process ids
    Flusher,     \* goroutines that may run FlushProcess or FlushAll
    MaxIndex,    \* entry indexes are 0..MaxIndex
    MaxVersion,  \* bound on the changes of one entry
    hash         \* ContentHash of every version

Index   == 0 .. MaxIndex
Version == 0 .. MaxVersion
NoIndex == -1                   \* a nil *int
NoEntry == -1                   \* no entry under this index
Slot    == Version \cup {NoEntry}
Position == Index \cup {NoIndex}

ASSUME BoundsAssumption == MaxIndex \in Nat /\ MaxVersion \in Nat
ASSUME HashAssumption   == DOMAIN hash = Version

VARIABLES
    \* the buffer: one memoryBufferState per process
    created, lastEntryIndex, pending, timer, flushing,
    \* the database
    store, checkpoint,
    \* local variables of the goroutines inside FlushAll / FlushProcess
    pc, todo, target, batch, fresh, pos,
    \* history: the last version enqueued under an index, and the indexes
    \* whose last Enqueue found a flush in flight
    latest, racy

bufferVars  == <<created, lastEntryIndex, pending, timer, flushing>>
storeVars   == <<store, checkpoint>>
localVars   == <<pc, todo, target, batch, fresh, pos>>
historyVars == <<latest, racy>>
vars == <<bufferVars, storeVars, localVars, historyVars>>

NoEntries == [i \in Index |-> NoEntry]
Held(slots) == {i \in Index : slots[i] # NoEntry}

InFlight == {"list", "upsert", "onFlush", "finish", "reset"}
Flushes(f, p) == pc[f] \in InFlight /\ target[f] = p

TypeOK ==
    /\ created \in [Process -> BOOLEAN]
    /\ lastEntryIndex \in [Process -> Position]
    /\ pending \in [Process -> [Index -> Slot]]
    /\ timer \in [Process -> {"none", "armed", "fired"}]
    /\ flushing \in [Process -> BOOLEAN]
    /\ store \in [Process -> [Index -> Slot]]
    /\ checkpoint \in [Process -> Position]
    /\ pc \in [Flusher -> {"idle", "ready"} \cup InFlight]
    /\ todo \in [Flusher -> SUBSET Process]
    /\ target \in [Flusher -> Process]
    /\ batch \in [Flusher -> [Index -> Slot]]
    /\ fresh \in [Flusher -> SUBSET Index]
    /\ pos \in [Flusher -> Position]
    /\ latest \in [Process -> [Index -> Slot]]
    /\ racy \in [Process -> SUBSET Index]

\* The program starts with what an earlier run left in the database: nothing
\* for a process, or its entries up to the checkpoint (as version 0).
Init ==
    /\ created = [p \in Process |-> FALSE]
    /\ lastEntryIndex = [p \in Process |-> NoIndex]
    /\ pending = [p \in Process |-> NoEntries]
    /\ timer = [p \in Process |-> "none"]
    /\ flushing = [p \in Process |-> FALSE]
    /\ checkpoint \in [Process -> Position]
    /\ store = [p \in Process |->
                  [i \in Index |-> IF i <= checkpoint[p] THEN 0 ELSE NoEntry]]
    /\ pc = [f \in Flusher |-> "idle"]
    /\ todo = [f \in Flusher |-> {}]
    /\ target \in [Flusher -> Process]
    /\ batch = [f \in Flusher |-> NoEntries]
    /\ fresh = [f \in Flusher |-> {}]
    /\ pos = [f \in Flusher |-> NoIndex]
    /\ latest = [p \in Process |-> NoEntries]
    /\ racy = [p \in Process |-> {}]

-----------------------------------------------------------------------------
(* Enqueue and the timer *)

\* The position of a new process state is the one its caller read when it
\* subscribed.
FirstPosition(known) == known

\* The entry replaces whatever is pending under its index.
Enqueue(p, i, known, v) ==
    /\ IF created[p]
         THEN UNCHANGED <<created, lastEntryIndex>>
         ELSE /\ created' = [created EXCEPT ![p] = TRUE]
              /\ lastEntryIndex' = [lastEntryIndex EXCEPT ![p] = FirstPosition(known)]
    /\ pending' = [pending EXCEPT ![p][i] = v]
    /\ timer' = [timer EXCEPT ![p] = IF @ = "none" THEN "armed" ELSE @]
    /\ latest' = [latest EXCEPT ![p][i] = v]
    /\ racy' = [racy EXCEPT ![p] = IF flushing[p] THEN @ \cup {i} ELSE @ \ {i}]
    /\ UNCHANGED <<flushing, storeVars, localVars>>

Start(f, ps) ==
    /\ pc[f] = "idle"
    /\ ps # {}
    /\ pc' = [pc EXCEPT ![f] = "ready"]
    /\ todo' = [todo EXCEPT ![f] = ps]
    /\ UNCHANGED <<target, batch, fresh, pos>>

\* The timer fires: its goroutine is about to call FlushProcess, and
\* state.timer still points at it.
TimerFires(f, p) ==
    /\ timer[p] = "armed"
    /\ timer' = [timer EXCEPT ![p] = "fired"]
    /\ Start(f, {p})
    /\ UNCHANGED <<created, lastEntryIndex, pending, flushing, storeVars, historyVars>>

\* A log stream closes and flushes its process.
CallFlushProcess(f, p) ==
    /\ Start(f, {p})
    /\ UNCHANGED <<bufferVars, storeVars, historyVars>>

\* FlushAll takes the ids of the processes under the lock, then flushes them
\* one after the other, in no particular order.
CallFlushAll(f) ==
    /\ Start(f, {p \in Process : created[p]})
    /\ UNCHANGED <<bufferVars, storeVars, historyVars>>

-----------------------------------------------------------------------------
(* FlushProcess *)

\* Control leaves FlushProcess with a nil error: FlushAll goes on.
Return(f, p) ==
    /\ todo' = [todo EXCEPT ![f] = @ \ {p}]
    /\ pc' = [pc EXCEPT ![f] = IF todo[f] \ {p} = {} THEN "idle" ELSE "ready"]

\* The local variables of FlushProcess go out of scope.
Forget(f) ==
    /\ batch' = [batch EXCEPT ![f] = NoEntries]
    /\ fresh' = [fresh EXCEPT ![f] = {}]
    /\ pos' = [pos EXCEPT ![f] = NoIndex]

\* No other goroutine flushes p.
Free_Ignored(p) == TRUE
Free(p) == ~flushing[p]

\* Nothing to flush, or another goroutine is flushing this process.
FlushSkips(f, p) ==
    /\ pc[f] = "ready"
    /\ p \in todo[f]
    /\ Held(pending[p]) = {} \/ ~Free(p)
    /\ Return(f, p)
    /\ UNCHANGED <<bufferVars, storeVars, target, batch, fresh, pos, historyVars>>

\* Mark the process, stop its timer, copy what is pending.
FlushBegins(f, p) ==
    /\ pc[f] = "ready"
    /\ p \in todo[f]
    /\ Held(pending[p]) # {}
    /\ Free(p)
    /\ flushing' = [flushing EXCEPT ![p] = TRUE]
    /\ timer' = [timer EXCEPT ![p] = "none"]
    /\ target' = [target EXCEPT ![f] = p]
    /\ batch' = [batch EXCEPT ![f] = pending[p]]
    /\ pos' = [pos EXCEPT ![f] = lastEntryIndex[p]]
    /\ pc' = [pc EXCEPT ![f] = "list"]
    /\ UNCHANGED <<created, lastEntryIndex, pending, storeVars, todo, fresh, historyVars>>

\* shouldPersistProcessEntryUpdate compares the content hashes only.
ShouldPersist_Once(existing, entry) == entry # NoEntry /\ existing = NoEntry
ShouldPersist(existing, entry) ==
    entry # NoEntry /\ (existing = NoEntry \/ hash[existing] # hash[entry])

\* ListProcessEntriesByIndexes and the filter; with nothing to write the
\* store and the callback are not called.
ListEntries(f, p) ==
    /\ pc[f] = "list" /\ target[f] = p
    /\ \/ /\ fresh' = [fresh EXCEPT ![f] =
                        {i \in Index : ShouldPersist(store[p][i], batch[f][i])}]
          /\ pc' = [pc EXCEPT ![f] = IF fresh'[f] = {} THEN "finish" ELSE "upsert"]
       \/ /\ pc' = [pc EXCEPT ![f] = "reset"]
          /\ UNCHANGED fresh
    /\ UNCHANGED <<bufferVars, storeVars, todo, target, batch, pos, historyVars>>

Written(f, p) ==
    [store EXCEPT ![p] = [i \in Index |-> IF i \in fresh[f] THEN batch[f][i] ELSE @[i]]]

AdvancesTo_NextIndex(cur, S, n) ==
    IF cur = NoIndex
      THEN n - 1 \in S /\ \A m \in S : m < n
      ELSE cur < n /\ (cur + 1 .. n - 1) \subseteq S /\ n \notin S

AdvancesTo_Largest(cur, S, n) == n \in S /\ \A m \in S : m <= n

\* n is what advanceEntryIndex returns for position cur and the indexes S.
AdvancesTo(cur, S, n) ==
    IF cur = NoIndex
      THEN n \in S /\ \A m \in S : m <= n
      ELSE cur <= n /\ (cur + 1 .. n) \subseteq S /\ n + 1 \notin S

\* One INSERT of the whole batch.  A call that fails may still have been
\* applied: the error can be that of the connection after the commit.
UpsertEntries(f, p) ==
    /\ pc[f] = "upsert" /\ target[f] = p
    /\ \/ /\ store' = Written(f, p)
          /\ \E n \in Index : /\ AdvancesTo(pos[f], fresh[f], n)
                              /\ pos' = [pos EXCEPT ![f] = n]
          /\ pc' = [pc EXCEPT ![f] = "onFlush"]
       \/ /\ store' \in {store, Written(f, p)}
          /\ pc' = [pc EXCEPT ![f] = "reset"]
          /\ UNCHANGED pos
    /\ UNCHANGED <<bufferVars, checkpoint, todo, target, batch, fresh, historyVars>>

\* onFlush upserts the subscription row with the new position; an error may
\* again hide a write that was applied.
OnFlush(f, p) ==
    /\ pc[f] = "onFlush" /\ target[f] = p
    /\ \/ /\ checkpoint' = [checkpoint EXCEPT ![p] = pos[f]]
          /\ pc' = [pc EXCEPT ![f] = "finish"]
       \/ /\ checkpoint' \in {checkpoint, [checkpoint EXCEPT ![p] = pos[f]]}
          /\ pc' = [pc EXCEPT ![f] = "reset"]
    /\ UNCHANGED <<bufferVars, store, todo, target, batch, fresh, pos, historyVars>>

\* The end of a flush, whatever its outcome.
Release_Missing(p) == UNCHANGED flushing
Release(p) == flushing' = [flushing EXCEPT ![p] = FALSE]

\* The pending map is replaced by an empty one, with whatever was enqueued
\* since FlushBegins.
FlushFinishes(f, p) ==
    /\ pc[f] = "finish" /\ target[f] = p
    /\ pending' = [pending EXCEPT ![p] = NoEntries]
    /\ Release(p)
    /\ lastEntryIndex' = [lastEntryIndex EXCEPT ![p] = pos[f]]
    /\ Return(f, p)
    /\ Forget(f)
    /\ UNCHANGED <<created, timer, storeVars, target, historyVars>>

\* resetProcessState puts the copied entries back and arms the timer; the
\* error ends FlushAll.
ResetProcessState(f, p) ==
    /\ pc[f] = "reset" /\ target[f] = p
    /\ pending' = [pending EXCEPT ![p] = batch[f]]
    /\ Release(p)
    /\ lastEntryIndex' = [lastEntryIndex EXCEPT ![p] = pos[f]]
    /\ timer' = [timer EXCEPT ![p] = IF @ = "none" THEN "armed" ELSE @]
    /\ todo' = [todo EXCEPT ![f] = {}]
    /\ pc' = [pc EXCEPT ![f] = "idle"]
    /\ Forget(f)
    /\ UNCHANGED <<created, storeVars, target, historyVars>>

-----------------------------------------------------------------------------
(* Callers enqueue the next version of an entry, or the same one again when   *)
(* a stream is replayed; the position they know is the stored one, or nil     *)
(* when it could not be read.                                                 *)

FlushStep(f, p) ==
    \/ FlushSkips(f, p)
    \/ FlushBegins(f, p)
    \/ ListEntries(f, p)
    \/ UpsertEntries(f, p)
    \/ OnFlush(f, p)
    \/ FlushFinishes(f, p)
    \/ ResetProcessState(f, p)

Next ==
    \/ \E p \in Process, i \in Index :
         \E known \in {NoIndex, checkpoint[p]}, v \in {latest[p][i], latest[p][i] + 1} :
            v \in Version /\ Enqueue(p, i, known, v)
    \/ \E f \in Flusher, p \in Process : TimerFires(f, p) \/ CallFlushProcess(f, p)
    \/ \E f \in Flusher : CallFlushAll(f)
    \/ \E f \in Flusher, p \in Process : FlushStep(f, p)

Spec == Init /\ [][Next]_vars

\* A goroutine inside a flush keeps running (every call of the database driver
\* returns, with a result or an error), and an armed timer fires.  Nothing
\* obliges a caller to enqueue or to flush.
Fairness ==
    /\ \A f \in Flusher : WF_vars(\E p \in Process : FlushStep(f, p))
    /\ \A p \in Process : WF_vars(\E f \in Flusher : TimerFires(f, p))

FairSpec == Spec /\ Fairness

-----------------------------------------------------------------------------
(* Properties *)

\* Between FlushBegins and its end a process belongs to one goroutine, and it
\* is marked as flushing exactly then: the flag is the only lock a flush holds
\* while it talks to MySQL.
OneFlushPerProcess ==
    /\ \A f, g \in Flusher, p \in Process :
         Flushes(f, p) /\ Flushes(g, p) => f = g
    /\ \A p \in Process : flushing[p] <=> \E f \in Flusher : Flushes(f, p)

\* The stored position never points at an entry that is not in the table: the
\* subscription row is written after the entries, whatever calls fail.
CheckpointIsStored ==
    \A p \in Process :
        checkpoint[p] # NoIndex => store[p][checkpoint[p]] # NoEntry

\* An entry that was enqueued while its process was not being flushed is not
\* lost: until a newer one replaces it, it is pending or its content is stored.
\* (An entry enqueued during a flush has no such promise: see racy.)
NoQuietLoss ==
    \A p \in Process, i \in Index :
        /\ latest[p][i] # NoEntry
        /\ i \notin racy[p]
        => \/ pending[p][i] = latest[p][i]
           \/ /\ store[p][i] # NoEntry
              /\ hash[store[p][i]] = hash[latest[p][i]]

\* Flushes by several goroutines, retries and reverted batches never put an
\* older version of an entry over a newer one.
StoreNeverRegresses ==
    [][\A p \in Process, i \in Index : store'[p][i] >= store[p][i]]_vars

\* A flush ends, whatever fails, and gives the process back.
FlushEnds == \A p \in Process : flushing[p] ~> ~flushing[p]
=============================================================================
