--------------------------- MODULE PaneMessages ---------------------------
(***************************************************************************)
(* The messages of one pane of the workspace page: pages loaded over HTTP, *)
(* frames pushed over the session socket, and the button for older ones    *)
(* (src/web/workspace-home.ts, src/components/workspace-conversation-      *)
(* pane.ts, src/lib/dialog-messages.ts).                                   *)
(*                                                                         *)
(* The server's log is a sequence of entries numbered from 1; an entry is  *)
(* a text or the use of a tool, and the newest one may still change.  The  *)
(* pane holds its messages grouped: of consecutive uses of one tool all    *)
(* but the first join the group of the one before.                         *)
(***************************************************************************)
EXTENDS Integers, Sequences, SequencesExt, DialogMessages

CONSTANTS
    Tool,          \* Tool[i]: the tool entry i uses, or "none" for a text
    MaxLog, MaxVersion,
    Limit,         \* messages on a page
    MaxLoads,      \* requests in one run
    MaxDrops       \* broken sockets and failed requests

PaneBoundsAssumption ==
    {MaxLog, MaxVersion, Limit, MaxLoads, MaxDrops} \subseteq Nat /\ Limit > 0
ToolAssumption == Tool \in [1 .. MaxLog -> STRING]

VARIABLES
    log,           \* server: the version of every entry
    messages,      \* messagesByWorkspace[id]: entries, each with `joins'
    cursor,        \* cursorByWorkspace[id]: the oldest entry of the last page, 0 is ""
    hasMore,       \* hasMoreByWorkspace[id]
    requests,      \* requests in flight, with what the server answered
    frames,        \* frames of the session socket not handled yet
    live,          \* the session socket is open
    loadingMore,   \* of the pane: the button is disabled
    resetTimers,   \* timers of the pane that will enable it
    loads, drops,
    crossed,       \* history: a frame waited when a request was sent, or a frame
                   \* or a second request came before its answer
    missed         \* history: a frame was lost, or a refresh failed, since the
                   \* last page that was the newest

paneVars == <<messages, cursor, hasMore>>
buttonVars == <<loadingMore, resetTimers>>
msgVars == <<log, paneVars, requests, frames, live, buttonVars, loads, drops,
             crossed, missed>>

Entries(from, to) == [i \in 1 .. (to - from + 1) |-> [id |-> from + i - 1,
                                                      ver |-> log[from + i - 1]]]

\* What the server answers: the last Limit entries before `before'.
PageBefore(before) ==
    LET first == IF before - Limit > 1 THEN before - Limit ELSE 1
    IN  [items |-> Entries(first, before - 1), cursor |-> first, more |-> first > 1]

MsgInit ==
    /\ log \in {[i \in 1 .. n |-> 1] : n \in 1 .. MaxLog - 1}
    /\ messages = <<>> /\ cursor = 0 /\ hasMore = FALSE
    /\ requests = <<>> /\ frames = <<>> /\ live = TRUE
    /\ loadingMore = FALSE /\ resetTimers = 0
    /\ loads = 0 /\ drops = 0
    /\ crossed = FALSE /\ missed = FALSE

-----------------------------------------------------------------------------
(* Lists of messages *)

\* groupConsecutiveToolMessages: the use of a tool joins a group of that tool.
Grouped(list) ==
    [n \in DOMAIN list |->
        [id |-> list[n].id, ver |-> list[n].ver,
         joins |-> /\ n > 1 /\ Tool[list[n].id] # "none"
                   /\ Tool[list[n - 1].id] = Tool[list[n].id]]]

\* flattenDialogMessages
Flat(groups) == [n \in DOMAIN groups |-> [id |-> groups[n].id, ver |-> groups[n].ver]]

\* A message of a frame takes the place of the last one with its key, or goes to
\* the end.
Placed(list, m) ==
    LET same == {n \in DOMAIN list : list[n].id = m.id}
    IN  IF same = {} THEN Append(list, m)
        ELSE [list EXCEPT ![CHOOSE n \in same : \A l \in same : l <= n] = m]

Ids(list) == [n \in DOMAIN list |-> list[n].id]

\* Mutant: a message that is there already is left as it is.
Merged_Old(existing, m) ==
    IF \E n \in DOMAIN existing : existing[n].id = m.id THEN existing ELSE Append(existing, m)

Merged(existing, m) == Sorted(Placed(existing, m), Ids(Placed(existing, m)))

-----------------------------------------------------------------------------
(* Requests *)

Send(request) ==
    /\ loads < MaxLoads
    /\ loads' = loads + 1
    /\ requests' = Append(requests, request)
    /\ crossed' = (crossed \/ requests # <<>> \/ frames # <<>>)

Latest == [older |-> FALSE, page |-> PageBefore(Len(log) + 1)]

\* updated() of the pane: the button comes back with any change of the
\* messages, and the timer that was to bring it back goes on.
ButtonBack == loadingMore' = FALSE

\* handleOpenWorkspace drops what is shown and loads anew.
Open ==
    /\ Send(Latest)
    /\ messages' = <<>>
    /\ ButtonBack
    /\ UNCHANGED <<log, cursor, hasMore, frames, live, resetTimers, drops, missed>>

\* A list with a newer message, or the end of the socket: loadWorkspaceMessages
\* with forceRefresh.
Refresh ==
    /\ Send(Latest)
    /\ UNCHANGED <<log, paneVars, frames, live, buttonVars, drops, missed>>

Replace(page) ==
    /\ messages' = Grouped(page.items)
    /\ cursor' = page.cursor
    /\ hasMore' = page.more
    /\ missed' = (missed /\ page # Latest.page)

\* The groups of the older page are put in front of the others as they are.
Prepend(page) ==
    /\ messages' = Grouped(page.items) \o messages
    /\ cursor' = page.cursor
    /\ hasMore' = page.more
    /\ UNCHANGED missed

Answer(i) ==
    /\ LET r == requests[i]
       IN  IF r.older THEN Prepend(r.page) ELSE Replace(r.page)
    /\ requests' = RemoveAt(requests, i)
    /\ ButtonBack
    /\ UNCHANGED <<log, frames, live, resetTimers, loads, drops, crossed>>

Drop == drops < MaxDrops /\ drops' = drops + 1

\* The error is shown; the messages, and the button, stay as they are.
RequestFails(i) ==
    /\ Drop
    /\ requests' = RemoveAt(requests, i)
    /\ missed' = (missed \/ ~requests[i].older)
    /\ UNCHANGED <<log, paneVars, frames, live, buttonVars, loads, crossed>>

-----------------------------------------------------------------------------
(* The button for older messages *)

\* Mutant: the button is never disabled.
Enabled_Always == hasMore

Enabled == ~loadingMore /\ hasMore

\* handleLoadMore of the pane, and loadMoreMessages of the page.
ClickOlder ==
    /\ Enabled
    /\ loads < MaxLoads
    /\ loadingMore' = TRUE
    /\ resetTimers' = resetTimers + 1
    /\ loads' = loads + 1
    /\ requests' = Append(requests, [older |-> TRUE, page |-> PageBefore(cursor)])
    /\ crossed' = (crossed \/ \E i \in DOMAIN requests : ~requests[i].older)
    /\ UNCHANGED <<log, paneVars, frames, live, drops, missed>>

\* Ten seconds after a click, also after a later one.
ResetButton ==
    /\ resetTimers > 0
    /\ resetTimers' = resetTimers - 1
    /\ loadingMore' = FALSE
    /\ crossed' = (crossed \/ requests # <<>>)
    /\ UNCHANGED <<log, paneVars, requests, frames, live, loads, drops, missed>>

-----------------------------------------------------------------------------
(* The session socket *)

Push(entry) ==
    IF live THEN /\ frames' = Append(frames, entry) /\ UNCHANGED missed
            ELSE /\ missed' = TRUE /\ UNCHANGED frames

EntryAdded ==
    /\ Len(log) < MaxLog
    /\ log' = Append(log, 1)
    /\ Push([id |-> Len(log) + 1, ver |-> 1])
    /\ UNCHANGED <<paneVars, requests, live, buttonVars, loads, drops, crossed>>

EntryChanges ==
    /\ log[Len(log)] < MaxVersion
    /\ log' = [log EXCEPT ![Len(log)] = @ + 1]
    /\ Push([id |-> Len(log), ver |-> log[Len(log)] + 1])
    /\ UNCHANGED <<paneVars, requests, live, buttonVars, loads, drops, crossed>>

\* appendRealtimeMessages
FrameArrives ==
    /\ frames # <<>>
    /\ messages' = Grouped(Merged(Flat(messages), Head(frames)))
    /\ frames' = Tail(frames)
    /\ ButtonBack
    /\ crossed' = (crossed \/ requests # <<>>)
    /\ UNCHANGED <<log, cursor, hasMore, requests, live, resetTimers, loads, drops, missed>>

\* onClose refreshes at once; the socket is back later, and nothing refreshes
\* then.
SocketBreaks ==
    /\ live /\ Drop
    /\ Send(Latest)
    /\ live' = FALSE
    /\ missed' = (missed \/ frames # <<>>)
    /\ frames' = <<>>
    /\ UNCHANGED <<log, paneVars, buttonVars>>

SocketOpens ==
    /\ ~live
    /\ live' = TRUE
    /\ UNCHANGED <<log, paneVars, requests, frames, buttonVars, loads, drops,
                   crossed, missed>>

-----------------------------------------------------------------------------

MsgNext ==
    \/ Open \/ Refresh \/ ClickOlder \/ ResetButton
    \/ \E i \in DOMAIN requests : Answer(i) \/ RequestFails(i)
    \/ EntryAdded \/ EntryChanges \/ FrameArrives \/ SocketBreaks \/ SocketOpens

MsgSpec == MsgInit /\ [][MsgNext]_msgVars

-----------------------------------------------------------------------------
(* Properties *)

Shown == Flat(messages)

\* However pages and frames alternate, as long as no frame overtakes an answer or is
\* overtaken by one, no frame is lost and no refresh fails, the pane shows one unbroken
\* piece of the log, every entry once and in order; and when no frame waits it ends
\* with the newest entry, every entry in its newest version.
PaneIsCurrent ==
    (~crossed /\ ~missed /\ Shown # <<>>) =>
        /\ \A i \in 1 .. Len(Shown) - 1 : Shown[i + 1].id = Shown[i].id + 1
        /\ (frames = <<>> /\ requests = <<>>) =>
              Shown = Entries(Shown[1].id, Len(log))

\* Whatever was lost or crossed, a frame only adds to what is shown: no message
\* disappears, the frame's messages are there, and tool groups that were split
\* by a page are whole again.
FramesOnlyAdd ==
    [][(frames # <<>> /\ messages' # messages /\ Len(frames') = Len(frames) - 1) =>
        /\ {messages[n].id : n \in DOMAIN messages} \cup {Head(frames).id}
              = {messages'[n].id : n \in DOMAIN messages'}
        /\ \E n \in DOMAIN messages' :
              messages'[n].id = Head(frames).id /\ messages'[n].ver = Head(frames).ver
        /\ \A n \in DOMAIN messages' \ {1} :
              (/\ Tool[messages'[n].id] # "none"
               /\ Tool[messages'[n - 1].id] = Tool[messages'[n].id])
                  => messages'[n].joins]_msgVars
=============================================================================
