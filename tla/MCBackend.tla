------------------------------ MODULE MCBackend ------------------------------
(* Small instances of two parts of the backend that share no state, the buffers
   over Redis and the notification tracker.  A behaviour takes one of them, so that
   the states to explore are those of one and those of the other. *)
EXTENDS MCFallbackBuffer, Sequences

CONSTANTS w1, Workspace, threshold, MaxTime, MaxBuilds, MaxUpdates, MaxRuns

VARIABLES
    part,      \* the part that moves
    now, upstream, listed, results, silent, entries, notices, disk, told, lastPoll, runs

trackerVars == <<now, upstream, listed, results, silent, entries, notices, disk, told,
                 lastPoll, runs>>

\* Everything waits one tick.
OneThreshold == [k \in {"approval", "message"} |-> 1]

T == INSTANCE NotificationTracker WITH MaxRestarts <- MaxRuns, restarts <- runs
ASSUME T!ThresholdAssumption /\ T!LimitsAssumption

BackendInit == part \in {"buffer", "tracker"} /\ FallbackInit /\ T!Init
BackendNext ==
    \/ part = "buffer" /\ FallbackNext /\ UNCHANGED <<part, trackerVars>>
    \/ part = "tracker" /\ T!Next /\ UNCHANGED <<part, allVars>>
BackendSpec == BackendInit /\ [][BackendNext]_<<part, allVars, trackerVars>>

-----------------------------------------------------------------------------
\* Within one run, and as long as the tracker sees the workspace ask for
\* attention, nobody is told twice of the same state of a workspace.
NoRepeat == T!NoRepeat

\* However often a workspace is updated, whichever polls are lost, and across
\* restarts, a workspace whose attention has been evaluated twice the threshold
\* after it was first seen has been announced.
WaitIsBounded == T!WaitIsBounded
=============================================================================
