------------------------ MODULE NotificationTracker ------------------------
(***************************************************************************)
(* Who is told that a workspace waits for attention, and when: the poller  *)
(* (internal/poller/poller.go), the event loop (cmd/kanban-watcher/main.go) *)
(* and the Tracker (internal/wechat/tracker.go) with its file on disk      *)
(* (internal/state).                                                       *)
(*                                                                         *)
(* The poller makes two requests, one for the workspaces and one for their *)
(* summaries, and offers the pair to a channel of two places.  The event   *)
(* loop evaluates one result at a time, sends the notices, waits for the   *)
(* user to close the dialogs, and writes the file.  The program may leave  *)
(* (and write the file) or die between any two steps.                      *)
(*                                                                         *)
(* Times are clock ticks; a completed_at or updated_at is a number that    *)
(* grows with every change, and 0 is the empty string.                     *)
(***************************************************************************)
EXTENDS Integers, Sequences, FiniteSets

CONSTANTS
    Workspace,
    threshold,   \* minutes to wait, by the kind of attention; 0 is "never"
    MaxTime, MaxBuilds, MaxUpdates,   \* bounds on the clock and the changes
    MaxRestarts                       \* bound on the restarts

Kind  == {"approval", "message"}
Never == -1                      \* a nil *time.Time
Time  == 0 .. MaxTime
Moment == Time \cup {Never}
ChannelSize == 2

ThresholdAssumption == threshold \in [Kind -> Nat]
LimitsAssumption ==
    {MaxTime, MaxBuilds, MaxUpdates, MaxRestarts} \subseteq Nat

VARIABLES
    now,
    upstream,    \* what the server knows of every workspace
    listed,      \* the poller: the answer to its first request, or {}
    results,     \* the channel
    silent,      \* isFirstPoll
    entries,     \* the AttentionEntry records of the tracker
    notices,     \* toNotify of the result that is being handled
    disk,        \* state.json
    told,        \* history: keys a notice was sent for, and in which run, while
                 \* the tracker has seen the workspace ask for attention
    lastPoll,    \* history: FetchedAt of the last result the tracker evaluated
    restarts

serverVars  == <<now, upstream>>
pollerVars  == <<listed, results>>
trackerVars == <<silent, entries, notices>>
vars == <<serverVars, pollerVars, trackerVars, disk, told, lastPoll, restarts>>

Report == [present : BOOLEAN, attention : Kind \cup {"none"},
           build : 0 .. MaxBuilds, updated : 1 .. MaxUpdates + 1]
Listing == [present : BOOLEAN, updated : 1 .. MaxUpdates + 1]
Entry == [ws : Workspace, build : 0 .. MaxBuilds, updated : 0 .. MaxUpdates + 1,
          first : Time, confirmed : Moment, notified : Moment]
Key == [ws : Workspace, build : 0 .. MaxBuilds, updated : 1 .. MaxUpdates + 1]

TypeOK ==
    /\ now \in Time
    /\ upstream \in [Workspace -> Report]
    /\ listed = {} \/ \E r \in [Workspace -> Listing] : listed = {r}
    /\ Len(results) \in 0 .. ChannelSize
    /\ \A n \in 1 .. Len(results) :
         results[n].at \in Time /\ results[n].reports \in [Workspace -> Report]
    /\ silent \in BOOLEAN
    /\ entries \subseteq Entry
    /\ notices \subseteq Key
    /\ disk \subseteq Entry
    /\ told \subseteq [key : Key, run : 0 .. MaxRestarts]
    /\ lastPoll \in Moment
    /\ restarts \in 0 .. MaxRestarts

Init ==
    /\ now = 0
    /\ upstream = [w \in Workspace |->
         [present |-> TRUE, attention |-> "none", build |-> 0, updated |-> 1]]
    /\ listed = {}
    /\ results = <<>>
    /\ silent = TRUE
    /\ entries = {}
    /\ notices = {}
    /\ disk = {}
    /\ told = {}
    /\ lastPoll = Never
    /\ restarts = 0

-----------------------------------------------------------------------------
(* The server and the poller *)

Tick ==
    /\ now < MaxTime
    /\ now' = now + 1
    /\ UNCHANGED <<upstream, pollerVars, trackerVars, disk, told, lastPoll, restarts>>

\* A workspace is archived, asks for attention or stops asking, is updated, or
\* a process of it completes (which is an update too).
UpstreamChanges(w) ==
    /\ \/ upstream' = [upstream EXCEPT ![w].present = FALSE]
       \/ \E a \in Kind \cup {"none"} : upstream' = [upstream EXCEPT ![w].attention = a]
       \/ /\ upstream[w].updated <= MaxUpdates
          /\ upstream' = [upstream EXCEPT ![w].updated = @ + 1]
       \/ /\ upstream[w].updated <= MaxUpdates
          /\ upstream[w].build < MaxBuilds
          /\ upstream' = [upstream EXCEPT ![w].updated = @ + 1, ![w].build = @ + 1]
    /\ UNCHANGED <<now, pollerVars, trackerVars, disk, told, lastPoll, restarts>>

\* FetchAll: the list of workspaces (present, updated_at) ...
FetchWorkspaces ==
    /\ listed = {}
    /\ listed' = {[w \in Workspace |->
                     [present |-> upstream[w].present, updated |-> upstream[w].updated]]}
    /\ UNCHANGED <<serverVars, results, trackerVars, disk, told, lastPoll, restarts>>

\* A result for which the channel has no place is dropped.
Offered(queue, result) ==
    IF Len(queue) < ChannelSize THEN Append(queue, result) ELSE queue

\* ... and then their summaries (attention, completed_at).  (A poll that fails is
\* one that is not made: the event loop skips its result.)
FetchSummaries ==
    \E first \in listed :
       LET reports == [w \in Workspace |->
                         [upstream[w] EXCEPT !.present = first[w].present,
                                             !.updated = first[w].updated]]
       IN  /\ results' = Offered(results, [reports |-> reports, at |-> now])
           /\ listed' = {}
           /\ UNCHANGED <<serverVars, trackerVars, disk, told, lastPoll, restarts>>

-----------------------------------------------------------------------------
(* Tracker.ProcessWorkspaces, for one workspace and one result *)

Of(S, w) == {e \in S : e.ws = w}

\* The entry of the same build, of the same update if there is one.
\* (OneEntryPerWorkspace: there is no choice.)
Match(S, w, r) ==
    LET same == {e \in Of(S, w) : e.build = r.build}
        exact == {e \in same : e.updated = r.updated}
    IN  CHOOSE e \in same : exact # {} => e \in exact

\* A new update forgets the confirmation and the notice, not the first sight.
Adopted(e, r) ==
    IF e.updated = r.updated THEN e
    ELSE [e EXCEPT !.updated = r.updated, !.confirmed = Never, !.notified = Never]

\* Confirm, notify at once, notify or wait.
Judged_AlwaysConfirms(e, limit, at) ==
    IF e.notified # Never THEN e
    ELSE IF e.confirmed = Never THEN [e EXCEPT !.confirmed = at]
    ELSE IF at - e.confirmed >= limit THEN [e EXCEPT !.notified = at]
    ELSE e
Judged_Repeats(e, limit, at) ==
    IF e.confirmed = Never /\ at - e.first < limit
      THEN [e EXCEPT !.confirmed = at]
      ELSE [e EXCEPT !.notified = at]
Judged(e, limit, at) ==
    IF e.notified # Never THEN e
    ELSE IF e.confirmed = Never /\ at - e.first >= limit
      THEN [e EXCEPT !.confirmed = at, !.notified = at]
    ELSE IF e.confirmed = Never THEN [e EXCEPT !.confirmed = at]
    ELSE IF at - e.confirmed >= limit THEN [e EXCEPT !.notified = at]
    ELSE e

Seen(w, r, at) ==
    [ws |-> w, build |-> r.build, updated |-> r.updated,
     first |-> at, confirmed |-> Never, notified |-> Never]

\* A first sight replaces every entry of the workspace.
Fresh(S, w, r, at) == {Seen(w, r, at)}

\* The workspace is listed and waits for somebody.
Asks(r) == r.present /\ r.attention # "none"

\* The entries of w after the result.
Evaluated(S, w, r, at) ==
    IF ~Asks(r) THEN {}
    ELSE IF threshold[r.attention] = 0 THEN Of(S, w)
    ELSE IF \A e \in Of(S, w) : e.build # r.build THEN Fresh(S, w, r, at)
    ELSE LET old == Match(S, w, r)
         IN  (Of(S, w) \ {old})
               \cup {Judged(Adopted(old, r), threshold[r.attention], at)}

KeyOf(e) == [ws |-> e.ws, build |-> e.build, updated |-> e.updated]

\* The keys of the entries that became notified.
Due(old, new, at) == {KeyOf(e) : e \in {x \in new \ old : x.notified = at}}

-----------------------------------------------------------------------------
(* The event loop *)

\* The first result of a run is shown in the menu and not evaluated.
SkipFirst ==
    /\ notices = {} /\ results # <<>> /\ silent
    /\ silent' = FALSE
    /\ results' = Tail(results)
    /\ UNCHANGED <<serverVars, listed, entries, notices, disk, told, lastPoll, restarts>>

\* handlePollResult up to the dialogs; without a notice nothing is saved.  A
\* notice counts as sent whether or not it could be delivered.
HandleResult ==
    /\ notices = {} /\ results # <<>> /\ ~silent
    /\ LET result == Head(results)
       IN  /\ entries' = UNION {Evaluated(entries, w, result.reports[w], result.at) :
                                  w \in Workspace}
           /\ notices' = Due(entries, entries', result.at)
           /\ told' = {t \in told : Asks(result.reports[t.key.ws])}
                        \cup {[key |-> k, run |-> restarts] : k \in notices'}
           /\ lastPoll' = result.at
    /\ results' = Tail(results)
    /\ UNCHANGED <<serverVars, listed, silent, disk, restarts>>

\* The file has no place for UpdatedAt.
Persisted(S) == {[e EXCEPT !.updated = 0] : e \in S}

\* The dialogs are closed: SaveState writes a temporary file and renames it, or
\* fails and leaves the old file.
SaveState ==
    /\ notices # {}
    /\ disk' \in {Persisted(entries), disk}
    /\ notices' = {}
    /\ UNCHANGED <<serverVars, pollerVars, silent, entries, told, lastPoll, restarts>>

\* NewTracker gives an entry without a confirmation one: now, when it is old,
\* and else the first sight of whichever entry the loop visited last, because
\* the pointer it keeps is to the loop variable (go.mod says go 1.17).
Confirmed(e, last) ==
    IF e.confirmed # Never THEN e
    ELSE IF now - e.first >= threshold["approval"] THEN [e EXCEPT !.confirmed = now]
    ELSE [e EXCEPT !.confirmed = last.first]

\* The program leaves, saving the state or failing to, or dies; the next run
\* starts with what the file holds.
Restart ==
    /\ restarts < MaxRestarts
    /\ restarts' = restarts + 1
    /\ disk' \in {Persisted(entries), disk}
    /\ entries' \in IF disk' = {} THEN {{}}
                    ELSE {{Confirmed(e, last) : e \in disk'} : last \in disk'}
    /\ silent' = TRUE
    /\ notices' = {}
    /\ listed' = {}
    /\ results' = <<>>
    /\ lastPoll' = Never
    /\ UNCHANGED <<serverVars, told>>

Next ==
    \/ Tick
    \/ \E w \in Workspace : UpstreamChanges(w)
    \/ FetchWorkspaces
    \/ FetchSummaries
    \/ SkipFirst
    \/ HandleResult
    \/ SaveState
    \/ Restart

Spec == Init /\ [][Next]_vars

-----------------------------------------------------------------------------
(* Properties *)

Longest == IF threshold["approval"] > threshold["message"]
             THEN threshold["approval"] ELSE threshold["message"]

\* However often a workspace is updated, whichever polls are lost, and across
\* restarts, a workspace whose attention has been evaluated twice the threshold
\* after it was first seen has been announced.
WaitIsBounded ==
    \A e \in entries :
        lastPoll # Never /\ e.notified = Never => lastPoll - e.first < 2 * Longest

\* Within one run, and as long as the tracker sees the workspace ask for
\* attention, nobody is told twice of the same state of a workspace.
NoRepeat ==
    [][\A k \in notices' \ notices : [key |-> k, run |-> restarts] \notin told]_vars
=============================================================================
