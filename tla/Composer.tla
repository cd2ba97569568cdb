------------------------------ MODULE Composer ------------------------------
(***************************************************************************)
(* The composer of one open pane: the draft, the send, queue, stop and     *)
(* cancel requests, the quick buttons and the todo that is sent as a       *)
(* message (src/web/workspace-home.ts, the pane that shows it and          *)
(* src/lib/todo-helpers.ts).                                               *)
(*                                                                         *)
(* The page keeps a draft, a queue status and a feedback for the pane.     *)
(* Every request is answered later, and what the handler does after its    *)
(* await is done to the state of that moment.  A request may fail before   *)
(* or after the server did what it asks.                                   *)
(***************************************************************************)
EXTENDS Integers, Sequences, SequencesExt, FiniteSets

CONSTANTS
    Text,          \* what a user types
    Button,        \* the texts of quick buttons
    Todo,          \* the contents of todos
    Blank,         \* a draft of spaces
    Nothing,       \* the empty text
    MaxEdits,      \* changes of the draft by the user, who types or selects a todo
    MaxCalls,      \* requests the pane sends
    MaxFailures    \* requests that fail

TextsAssumption ==
    /\ {Blank, Nothing} \cap (Text \cup Button \cup Todo) = {}
    /\ Blank # Nothing

VARIABLES
    running,       \* status of the workspace as the page knows it
    busy,          \* server: an execution runs
    queued,        \* server: the message that waits for its end
    accepted,      \* server: the messages that were taken
    marked,        \* server: the todos that are completed
    draft,         \* messageDraftByWorkspace
    queueStatus,   \* queueStatusByWorkspace: "unknown", "empty" or "queued"
    feedback,      \* actionFeedbackByWorkspace
    calls,         \* requests under way
    edits, sentCalls, failed,
    overtaken      \* history: the draft is not the one the request under way
                   \* took, or a quick button was clicked beside it

server == <<busy, queued, accepted, marked>>
page   == <<running, draft, queueStatus, feedback>>
spent  == <<edits, sentCalls, failed>>
composerVars == <<server, page, calls, spent, overtaken>>

Message == Text \cup Button \cup Todo
Draft   == Message \cup {Blank, Nothing}

\* String.trim
Trimmed(d) == IF d = Blank THEN Nothing ELSE d

ComposerInit ==
    /\ running \in BOOLEAN /\ busy = running
    /\ queued = Nothing /\ accepted = {} /\ marked = {}
    /\ draft = Nothing /\ queueStatus = "unknown" /\ feedback = "none"
    /\ calls = <<>>
    /\ edits = 0 /\ sentCalls = 0 /\ failed = 0
    /\ overtaken = FALSE

-----------------------------------------------------------------------------
(* What the pane offers *)

IsQueued == queueStatus = "queued"
CanQueue == running \/ IsQueued

\* The button that sends is the one that stops while the workspace runs; the
\* other button queues, or takes back what is queued.
Offered ==
    {IF running THEN "stop" ELSE "send"}
        \cup (IF CanQueue THEN {IF IsQueued THEN "stop" ELSE "queue"} ELSE {})

\* handleComposerKeydown
Shortcut == IF running THEN {} ELSE {"send"}

\* What is shown under the composer: an answer hides the queue.
Feedback ==
    IF feedback # "none" THEN feedback
    ELSE IF IsQueued THEN "queued" ELSE "none"

-----------------------------------------------------------------------------
(* Requests *)

Call(op, text) ==
    /\ sentCalls < MaxCalls
    /\ sentCalls' = sentCalls + 1
    /\ calls' = Append(calls, [op |-> op, text |-> text, stage |-> "sent", said |-> Nothing])
    /\ UNCHANGED failed

\* Mutant: the composer is emptied when the message leaves.
DraftSent_Cleared == draft' = Nothing

DraftSent == draft' = draft

\* handlePaneAction; the message is the draft of this moment.
SendDraft(mode) ==
    IF Trimmed(draft) = Nothing
    THEN /\ feedback' = "no text"
         /\ UNCHANGED <<running, draft, queueStatus, calls, spent>>
    ELSE /\ Call(mode, Trimmed(draft))
         /\ feedback' = "asking"
         /\ DraftSent
         /\ UNCHANGED <<running, queueStatus, edits>>

\* handleStopWorkspace and handleCancelWorkspaceQueue
StopOrCancel ==
    /\ Call(IF IsQueued THEN "cancel" ELSE "stop", Nothing)
    /\ feedback' = "asking"
    /\ UNCHANGED <<running, draft, queueStatus, edits>>

\* A click, or the shortcut.
Act(action) ==
    /\ action \in Offered \cup Shortcut
    /\ IF action = "stop" THEN StopOrCancel ELSE SendDraft(action)
    /\ UNCHANGED <<server, overtaken>>

\* handleQuickButtonClick: the buttons are hidden while the workspace runs.
ClickButton(b) ==
    /\ ~running
    /\ Call("button", b)
    /\ feedback' = "asking"
    /\ overtaken' = TRUE
    /\ UNCHANGED <<server, running, draft, queueStatus, edits>>

\* handleDraftChange
Type(text) ==
    /\ edits < MaxEdits /\ text # draft
    /\ edits' = edits + 1
    /\ draft' = text
    /\ overtaken' = (calls # <<>>)
    /\ UNCHANGED <<server, running, queueStatus, feedback, calls, sentCalls, failed>>

\* handleTodoSelected: the todo becomes the draft, then it is marked, and what
\* is the draft by then is sent.
SelectTodo(t) ==
    /\ ~running
    /\ edits < MaxEdits
    /\ edits' = edits + 1
    /\ Call("mark", t)
    /\ draft' = t
    /\ overtaken' = (calls # <<>>)
    /\ UNCHANGED <<server, running, queueStatus, feedback>>

\* loadWorkspaceQueueStatus, when a running workspace is opened.
AskStatus ==
    /\ running
    /\ Call("status", Nothing)
    /\ UNCHANGED <<server, page, edits, overtaken>>

-----------------------------------------------------------------------------
(* The server *)

Served(i, said) == calls' = [calls EXCEPT ![i].stage = "served", ![i].said = said]

Serve(i) ==
    /\ calls[i].stage = "sent"
    /\ LET text == calls[i].text
       IN  CASE calls[i].op \in {"send", "button"} ->
                  /\ accepted' = accepted \cup {text} /\ busy' = TRUE
                  /\ Served(i, Nothing) /\ UNCHANGED <<queued, marked>>
             [] calls[i].op = "queue" ->
                  /\ queued' = text /\ accepted' = accepted \cup {text}
                  /\ Served(i, Nothing) /\ UNCHANGED <<busy, marked>>
             [] calls[i].op = "stop" ->
                  /\ busy' = FALSE
                  /\ Served(i, Nothing) /\ UNCHANGED <<queued, accepted, marked>>
             [] calls[i].op = "cancel" ->
                  /\ queued' = Nothing
                  /\ Served(i, Nothing) /\ UNCHANGED <<busy, accepted, marked>>
             [] calls[i].op = "status" ->
                  /\ Served(i, queued) /\ UNCHANGED server
             [] calls[i].op = "mark" ->
                  /\ marked' = marked \cup {text}
                  /\ Served(i, Nothing) /\ UNCHANGED <<busy, queued, accepted>>
    /\ UNCHANGED <<page, spent, overtaken>>

\* The execution ends, and the message that waited is run.
ExecutionEnds ==
    /\ busy
    /\ busy' = (queued # Nothing)
    /\ queued' = Nothing
    /\ UNCHANGED <<accepted, marked, page, calls, spent, overtaken>>

\* A list of workspaces arrives.
StatusArrives ==
    /\ running' = busy /\ running # busy
    /\ UNCHANGED <<server, draft, queueStatus, feedback, calls, spent, overtaken>>

-----------------------------------------------------------------------------
(* Answers *)

\* A composer with nothing in it shows the message that is queued.
Filled(said) == IF said # Nothing /\ Trimmed(draft) = Nothing THEN said ELSE draft

Done(i) ==
    /\ calls[i].stage = "served"
    /\ calls' = RemoveAt(calls, i)
    /\ UNCHANGED <<server, running, spent, overtaken>>

\* A message that was sent empties the composer, a queued one does not.
MessageTaken(i) ==
    /\ calls[i].op \in {"send", "button", "queue"}
    /\ Done(i)
    /\ draft' = IF calls[i].op = "queue" THEN draft ELSE Nothing
    /\ feedback' = "done"
    /\ UNCHANGED queueStatus

Stopped(i) ==
    /\ calls[i].op = "stop"
    /\ Done(i)
    /\ feedback' = "done"
    /\ UNCHANGED <<draft, queueStatus>>

QueueCancelled(i) ==
    /\ calls[i].op = "cancel"
    /\ Done(i)
    /\ queueStatus' = "empty"
    /\ feedback' = "done"
    /\ UNCHANGED draft

StatusKnown(i) ==
    /\ calls[i].op = "status"
    /\ Done(i)
    /\ queueStatus' = IF calls[i].said = Nothing THEN "empty" ELSE "queued"
    /\ draft' = Filled(calls[i].said)
    /\ UNCHANGED feedback

\* handleTodoSelectedAndSend goes on to send, also when the todo could not be
\* marked.
SendAfterMark(i) ==
    LET rest == RemoveAt(calls, i)
    IN  IF Trimmed(draft) = Nothing
        THEN /\ calls' = rest /\ feedback' = "no text"
        ELSE /\ calls' = Append(rest, [op |-> "send", text |-> Trimmed(draft),
                                       stage |-> "sent", said |-> Nothing])
             /\ feedback' = "asking"

TodoMarked(i) ==
    /\ calls[i].op = "mark" /\ calls[i].stage = "served"
    /\ SendAfterMark(i)
    /\ UNCHANGED <<server, running, draft, queueStatus, spent, overtaken>>

Failing ==
    /\ failed < MaxFailures /\ failed' = failed + 1
    /\ UNCHANGED <<edits, sentCalls>>

\* The error takes the place of the feedback; the draft stays.
RequestFails(i) ==
    /\ Failing
    /\ calls[i].op # "mark"
    /\ calls' = RemoveAt(calls, i)
    /\ feedback' = "failed"
    /\ UNCHANGED <<server, running, draft, queueStatus, overtaken>>

MarkFails(i) ==
    /\ Failing
    /\ calls[i].op = "mark"
    /\ SendAfterMark(i)
    /\ UNCHANGED <<server, running, draft, queueStatus, overtaken>>

-----------------------------------------------------------------------------

Answer(i) ==
    \/ MessageTaken(i) \/ Stopped(i) \/ QueueCancelled(i) \/ StatusKnown(i)
    \/ TodoMarked(i) \/ RequestFails(i) \/ MarkFails(i)

ComposerNext ==
    \/ \E a \in {"send", "queue", "stop"} : Act(a)
    \/ \E b \in Button : ClickButton(b)
    \/ \E text \in Text \cup {Blank, Nothing} : Type(text)
    \/ \E t \in Todo : SelectTodo(t)
    \/ AskStatus
    \/ \E i \in DOMAIN calls : Serve(i) \/ Answer(i)
    \/ ExecutionEnds \/ StatusArrives

ComposerSpec == ComposerInit /\ [][ComposerNext]_composerVars

-----------------------------------------------------------------------------
(* Properties *)

\* Requests, answers and failures in any order never take a text out of the
\* composer that the server has not taken, unless it was typed while a request
\* was under way or a quick button was clicked beside it; only the user does.
DraftIsKept ==
    [][(draft' # draft /\ Trimmed(draft) # Nothing /\ edits' = edits)
        => overtaken \/ draft \in accepted]_composerVars
=============================================================================
