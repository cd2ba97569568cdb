----------------------------- MODULE CardDialog -----------------------------
(***************************************************************************)
(* The dialog of the dashboard card (src/kanban-watcher-card.ts): one       *)
(* dialog for all workspaces, with one draft; its messages come from loads, *)
(* from frames of the session socket, and from the card itself, which shows *)
(* a message as soon as the server has taken it (a local copy).             *)
(*                                                                         *)
(* What a handler does after its await it does to the workspace that is     *)
(* selected by then.  The log of a workspace is a sequence of entries; the  *)
(* place in it is key and time of an entry, and a local copy has a time     *)
(* between two places.  The session socket of an open dialog is taken to be  *)
(* open: CardLinks models how it is kept so.                                *)
(***************************************************************************)
EXTENDS Integers, Sequences, SequencesExt, FiniteSets, DialogMessages

CONSTANTS
    Workspace, Text,
    Nothing,       \* no workspace, no text
    MaxLog,        \* entries of a log
    MaxCalls,      \* requests
    MaxLost        \* requests that fail

CardDialogAssumption ==
    /\ Nothing \notin Workspace \cup Text
    /\ {MaxLog, MaxCalls, MaxLost} \subseteq Nat

VARIABLES
    log,           \* server: the entries of every workspace, each [who, text]
    coming,        \* server: messages taken that are no entries yet
    waiting,       \* server: the message that waits for the end of an execution
    selected,      \* selectedWorkspaceId
    running,       \* status of the workspaces, as the card knows it
    draft,         \* messageDraft
    queue,         \* queueStatusByWorkspace: the workspaces said to be queued
    optimistic,    \* optimisticQueueWorkspaceIds
    shown,         \* dialogMessagesByWorkspace of the selected workspace
    frames,        \* frames of its session socket that wait: places in its log
    calls,         \* requests under way
    called, lost,
    switched,      \* history: a dialog was closed before its message was taken
    crossed,       \* history: a load came in beside another load or a frame, or failed
    unseen         \* history: a user's message was pushed that has no local copy
                   \* since the last load

logs  == <<log, coming, waiting>>
marks == <<queue, optimistic>>
dialogVars == <<logs, selected, running, draft, marks, shown, frames, calls, called, lost,
                switched, crossed, unseen>>

DialogInit ==
    /\ log = [w \in Workspace |-> <<[who |-> "ai", text |-> Nothing]>>]
    /\ coming = [w \in Workspace |-> <<>>]
    /\ waiting = [w \in Workspace |-> Nothing]
    /\ selected = Nothing /\ running \in SUBSET Workspace
    /\ draft = Nothing /\ queue = {} /\ optimistic = {}
    /\ shown = <<>> /\ frames = <<>> /\ calls = <<>> /\ called = 0 /\ lost = 0
    /\ switched = FALSE /\ crossed = FALSE /\ unseen = FALSE

-----------------------------------------------------------------------------
(* Messages *)

\* An entry as it is shown; twice its place is its time.
Entry(w, i) == [key |-> i, at |-> 2 * i, who |-> log[w][i].who, text |-> log[w][i].text]
Entries(w, n) == [i \in 1 .. n |-> Entry(w, i)]

\* appendOptimisticUserMessage
Local(w, text) == [key |-> 0, at |-> 2 * Len(log[w]) + 1, who |-> "user", text |-> text]

IsLocal(m) == m.key = 0

\* Mutant: a copy stays beside the message it stands for.
WithLocals_All(existing, incoming) ==
    incoming \o Filtered(existing, {n \in DOMAIN existing : IsLocal(existing[n])})

\* mergeOptimisticMessages: the copies no message of the answer has the text of.
WithLocals(existing, incoming) ==
    LET said == {incoming[n].text : n \in {l \in DOMAIN incoming : incoming[l].who = "user"}}
    IN  incoming \o Filtered(existing, {n \in DOMAIN existing : /\ IsLocal(existing[n])
                                                                /\ existing[n].text \notin said})

\* appendRealtimeMessages: a user's message takes the place of its copy, and is
\* left out when it has none; another takes the place of the one with its key,
\* or is added when it is the newest.
Placed(list, m) ==
    LET copies == {n \in DOMAIN list : IsLocal(list[n]) /\ list[n].text = m.text}
        same   == {n \in DOMAIN list : list[n].key = m.key}
    IN  CASE m.who = "user" /\ copies # {} ->
                [list EXCEPT ![CHOOSE n \in copies : \A l \in copies : n <= l] = m]
          [] m.who = "ai" /\ same # {} ->
                [list EXCEPT ![CHOOSE n \in same : \A l \in same : l <= n] = m]
          [] m.who = "ai" /\ same = {} /\ (\A n \in DOMAIN list : list[n].at < m.at) ->
                Append(list, m)
          [] OTHER -> list

Times(list) == [n \in DOMAIN list |-> list[n].at]

Appended(list, m) == Sorted(Placed(list, m), Times(Placed(list, m)))

-----------------------------------------------------------------------------
(* The dialog *)

Call(others, op, w, text) ==
    /\ called < MaxCalls
    /\ called' = called + 1
    /\ calls' = Append(others, [op |-> op, of |-> w, text |-> text,
                                served |-> FALSE, said |-> Nothing, to |-> 0])

Loads(w) == {i \in DOMAIN calls : calls[i].op = "load" /\ calls[i].of = w}

\* loadWorkspaceMessages
Load(others, w) ==
    /\ Call(others, "load", w, Nothing)
    /\ crossed' = (crossed \/ \E i \in DOMAIN others : others[i].op = "load" /\ others[i].of = w)

\* Mutant: the dialog opens with the messages it showed last.
OpensEmpty_Not == shown' = shown

OpensEmpty == shown' = <<>>

\* openWorkspaceDialog; the status of the queue is asked for when it runs.
OpenDialog(w) ==
    /\ selected = Nothing
    /\ selected' = w
    /\ draft' = Nothing
    /\ OpensEmpty
    /\ Load(calls, w)
    /\ unseen' = FALSE
    /\ UNCHANGED <<logs, running, marks, frames, lost, switched>>

\* A list with a newer message, or a poll while the session socket is away.
Refresh ==
    /\ selected # Nothing
    /\ Load(calls, selected)
    /\ UNCHANGED <<logs, selected, running, draft, marks, shown, frames, lost, switched, unseen>>

\* loadWorkspaceQueueStatus of a running workspace
AskQueue ==
    /\ selected \in running \ queue
    /\ Call(calls, "queue status", selected, Nothing)
    /\ UNCHANGED <<logs, selected, running, draft, marks, shown, frames, lost, switched,
                   crossed, unseen>>

\* closeWorkspaceDialog
CloseDialog ==
    /\ selected # Nothing
    /\ selected' = Nothing
    /\ draft' = Nothing
    /\ optimistic' = optimistic \ {selected}
    /\ frames' = <<>>
    /\ switched' = (switched \/ \E i \in DOMAIN calls : calls[i].op # "load")
    /\ UNCHANGED <<logs, running, queue, shown, calls, called, lost, crossed, unseen>>

Type(text) ==
    /\ selected # Nothing /\ draft # text
    /\ draft' = text
    /\ UNCHANGED <<logs, selected, running, marks, shown, frames, calls, called, lost,
                   switched, crossed, unseen>>

\* renderDialog: what can be queued, and what the second button does.
CanQueue(w) == w \in running \cup optimistic
IsQueued(w) == CanQueue(w) /\ w \in queue

\* handleActionClick
Send(mode) ==
    /\ selected # Nothing /\ draft # Nothing
    /\ mode = "send" => selected \notin running
    /\ mode = "queue" => CanQueue(selected) /\ ~IsQueued(selected)
    /\ Call(calls, mode, selected, draft)
    /\ UNCHANGED <<logs, selected, running, draft, marks, shown, frames, lost, switched,
                   crossed, unseen>>

\* handleQuickButtonClick
ClickButton(text) ==
    /\ selected # Nothing /\ selected \notin running
    /\ Call(calls, "send", selected, text)
    /\ UNCHANGED <<logs, selected, running, draft, marks, shown, frames, lost, switched,
                   crossed, unseen>>

\* handleCancelQueue, by the button that stops as well.
CancelQueue ==
    /\ selected \in queue
    /\ Call(calls, "cancel", selected, Nothing)
    /\ UNCHANGED <<logs, selected, running, draft, marks, shown, frames, lost, switched,
                   crossed, unseen>>

-----------------------------------------------------------------------------
(* The server *)

Serve(i) ==
    LET c == calls[i]
        answer(said, to) == calls' = [calls EXCEPT ![i].served = TRUE, ![i].said = said,
                                                   ![i].to = to]
    IN  /\ ~c.served
        /\ CASE c.op = "load" ->
                  answer(Nothing, Len(log[c.of])) /\ UNCHANGED <<coming, waiting>>
             [] c.op = "send" ->
                  /\ coming' = [coming EXCEPT ![c.of] = Append(@, c.text)]
                  /\ answer(Nothing, 0) /\ UNCHANGED waiting
             [] c.op = "queue" ->
                  /\ waiting' = [waiting EXCEPT ![c.of] = c.text]
                  /\ answer(Nothing, 0) /\ UNCHANGED coming
             [] c.op = "cancel" ->
                  /\ waiting' = [waiting EXCEPT ![c.of] = Nothing]
                  /\ answer(Nothing, 0) /\ UNCHANGED coming
             [] c.op = "queue status" ->
                  answer(waiting[c.of], 0) /\ UNCHANGED <<coming, waiting>>
        /\ UNCHANGED <<log, selected, running, draft, marks, shown, frames, called, lost,
                       switched, crossed, unseen>>

\* An entry is pushed to the dialog that follows its session.
Logged(w, entry) ==
    /\ Len(log[w]) < MaxLog
    /\ log' = [log EXCEPT ![w] = Append(@, entry)]
    /\ frames' = IF w = selected THEN Append(frames, Len(log[w]) + 1) ELSE frames
    /\ UNCHANGED <<selected, running, draft, marks, shown, calls, called, lost, switched,
                   crossed, unseen>>

Persisted(w) ==
    /\ coming[w] # <<>>
    /\ Logged(w, [who |-> "user", text |-> Head(coming[w])])
    /\ coming' = [coming EXCEPT ![w] = Tail(@)]
    /\ UNCHANGED waiting

Replied(w) ==
    /\ Logged(w, [who |-> "ai", text |-> Nothing])
    /\ UNCHANGED <<coming, waiting>>

\* The execution ends and the message that waited is taken.
QueueRuns(w) ==
    /\ waiting[w] # Nothing
    /\ waiting' = [waiting EXCEPT ![w] = Nothing]
    /\ coming' = [coming EXCEPT ![w] = Append(@, waiting[w])]
    /\ UNCHANGED <<log, selected, running, draft, marks, shown, frames, calls, called, lost,
                   switched, crossed, unseen>>

-----------------------------------------------------------------------------
(* Answers *)

Rest(i) == RemoveAt(calls, i)

\* A message that was sent is shown, the draft emptied, and the messages of the
\* workspace that is selected now loaded.
Sent(i) ==
    /\ calls[i].op = "send" /\ calls[i].served
    /\ draft' = Nothing
    /\ IF selected = Nothing
       THEN /\ calls' = Rest(i)
            /\ UNCHANGED <<called, shown, optimistic, crossed>>
       ELSE /\ shown' = Append(shown, Local(selected, calls[i].text))
            /\ optimistic' = optimistic \cup ({selected} \ running)
            /\ Load(Rest(i), selected)
    /\ UNCHANGED <<logs, selected, running, queue, frames, lost, switched, unseen>>

\* A message that was queued is put into the composer again.
Queued(i) ==
    /\ calls[i].op = "queue" /\ calls[i].served
    /\ draft' = calls[i].text
    /\ queue' = queue \cup ({selected} \ {Nothing})
    /\ calls' = Rest(i)
    /\ UNCHANGED <<logs, selected, running, optimistic, shown, frames, called, lost, switched,
                   crossed, unseen>>

\* setQueueStatus of the workspace that is selected now.
Cancelled(i) ==
    /\ calls[i].op = "cancel" /\ calls[i].served
    /\ queue' = queue \ {selected}
    /\ calls' = Rest(i)
    /\ UNCHANGED <<logs, selected, running, draft, optimistic, shown, frames, called, lost,
                   switched, crossed, unseen>>

QueueKnown(i) ==
    LET c == calls[i]
    IN  /\ c.op = "queue status" /\ c.served
        /\ queue' = IF c.said = Nothing THEN queue \ {c.of} ELSE queue \cup {c.of}
        /\ draft' = IF c.of = selected /\ draft = Nothing THEN c.said ELSE draft
        /\ calls' = Rest(i)
        /\ UNCHANGED <<logs, selected, running, optimistic, shown, frames, called, lost,
                       switched, crossed, unseen>>

\* The messages of a workspace that is not selected are loaded again when it is.
Loaded(i) ==
    LET c == calls[i]
    IN  /\ c.op = "load" /\ c.served
        /\ IF c.of = selected
           THEN /\ shown' = WithLocals(shown, Entries(c.of, c.to))
                /\ unseen' = (unseen /\ c.to < Len(log[c.of]))
           ELSE UNCHANGED <<shown, unseen>>
        /\ calls' = Rest(i)
        /\ UNCHANGED <<logs, selected, running, draft, marks, frames, called, lost, switched,
                       crossed>>

\* What was typed stays, and the error is shown.
Fails(i) ==
    /\ lost < MaxLost /\ lost' = lost + 1
    /\ calls' = Rest(i)
    /\ crossed' = (crossed \/ calls[i].op = "load")
    /\ UNCHANGED <<logs, selected, running, draft, marks, shown, frames, called, switched,
                   unseen>>

\* A frame; `crossed' when a load was answered by the server before it.
FrameArrives ==
    /\ frames # <<>>
    /\ LET m == Entry(selected, Head(frames))
       IN  /\ shown' = Appended(shown, m)
           /\ unseen' = (unseen \/ m \notin {shown'[i] : i \in DOMAIN shown'})
    /\ frames' = Tail(frames)
    /\ crossed' = (crossed \/ \E i \in Loads(selected) : calls[i].served)
    /\ UNCHANGED <<logs, selected, running, draft, marks, calls, called, lost, switched>>

\* A list of workspaces arrives.
StatusChanges(w) ==
    /\ selected = w
    /\ running' = IF w \in running THEN running \ {w} ELSE running \cup {w}
    /\ UNCHANGED <<logs, selected, draft, marks, shown, frames, calls, called, lost, switched,
                   crossed, unseen>>

-----------------------------------------------------------------------------

DialogNext ==
    \/ \E w \in Workspace : OpenDialog(w)
    \/ Refresh \/ AskQueue \/ CloseDialog \/ CancelQueue \/ FrameArrives
    \/ \E text \in Text : Type(text) \/ ClickButton(text)
    \/ \E mode \in {"send", "queue"} : Send(mode)
    \/ \E w \in Workspace : Persisted(w) \/ Replied(w) \/ QueueRuns(w) \/ StatusChanges(w)
    \/ \E i \in DOMAIN calls :
          \/ Serve(i) \/ Sent(i) \/ Queued(i) \/ Cancelled(i) \/ QueueKnown(i) \/ Loaded(i)
          \/ Fails(i)

DialogSpec == DialogInit /\ [][DialogNext]_dialogVars

-----------------------------------------------------------------------------
(* Properties *)

Texts(list) == {list[i].text : i \in DOMAIN list}

\* A dialog shows messages of its own workspace only, the copies included,
\* whatever dialogs were open before, unless one was closed over a request.
ShowsItsOwn ==
    (selected # Nothing /\ ~switched) =>
        \A i \in DOMAIN shown :
            IF IsLocal(shown[i])
            THEN shown[i].text \in Texts(log[selected])
                    \cup {coming[selected][j] : j \in DOMAIN coming[selected]}
            ELSE /\ shown[i].key <= Len(log[selected])
                 /\ shown[i] = Entry(selected, shown[i].key)

\* Loads, frames and copies agree in the end: a dialog that waits for nothing
\* shows the log, every entry once and in order, with no copy left, unless
\* answers and frames overtook each other or a pushed message had no copy.
DialogConverges ==
    (selected # Nothing /\ ~switched /\ ~crossed /\ ~unseen
        /\ calls = <<>> /\ frames = <<>> /\ coming[selected] = <<>>)
        => shown = Entries(selected, Len(log[selected]))

\* The design: a pushed message is appended to the messages of its dialog.
PushedIsShown ==
    [][(frames # <<>> /\ frames' = Tail(frames) /\ selected' = selected /\ selected # Nothing) =>
          Entry(selected, Head(frames)) \in {shown'[i] : i \in DOMAIN shown'}]_dialogVars
=============================================================================
