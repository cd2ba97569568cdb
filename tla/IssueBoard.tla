------------------------------ MODULE IssueBoard ------------------------------
(***************************************************************************)
(* The issues of a project on a phone: the drawer that selects the project   *)
(* (components/mobile-project-drawer.ts), the board with its columns          *)
(* (mobile-kanban-board.ts), the panel of one issue                           *)
(* (mobile-issue-detail-panel.ts) and the form for a new one                  *)
(* (mobile-issue-create-dialog.ts).                                           *)
(*                                                                         *)
(* The board takes a copy of an issue when its panel is opened.  While a     *)
(* load that is not silent is under way, the board shows a notice in place   *)
(* of its elements: panel and form are made anew when it ends, and what the  *)
(* old ones had under way is told to nobody.  Going to the other tab and     *)
(* back makes the board anew as well.                                        *)
(***************************************************************************)
EXTENDS Integers, Sequences, SequencesExt

CONSTANTS
    Project, Issue, Status, Text,
    Of,            \* the project of an issue, of one yet to be created too
    Fresh,         \* issues yet to be created
    First,         \* what an issue says at first, and the status of a new one
    None,
    MaxCalls,      \* requests
    MaxLost,       \* requests that fail
    MaxTyped       \* texts typed into the panel

(* What an issue says. *)
Content == [title : Text, status : Status]

IssueAssumption ==
    /\ Of \in [Issue -> Project] /\ Fresh \subseteq Issue
    /\ First \in Content
    /\ None \notin Project \cup Issue \cup Text \cup Content
    /\ {MaxCalls, MaxLost, MaxTyped} \subseteq Nat

VARIABLES
    tasks,         \* server: the issues, None for one that does not exist
    project,       \* kanbanProjectId, selectedProjectId
    board,         \* [of, tasks]: whose columns the board holds, with which issues
    loading, error,
    issue,         \* selectedIssue: [id |-> None] or a copy
    title,         \* _editTitle
    timer,         \* whether _titleTimer runs
    left,          \* the saves that timers of panels no longer there will start
    form,          \* the new issue: [visible, title, submitting]
    calls, called, lost, typings,
    typed,         \* history: the text last typed into the panel, None if none was
    crossed        \* history: an answer came before that of an older request,
                   \* came to an element no longer there, or did not come

panel == <<issue, title, timer, left, typings, typed>>
network == <<calls, called, lost>>
issueVars == <<tasks, project, board, loading, error, panel, form, network, crossed>>

Existing(p) == {i \in Issue : tasks[i] # None /\ Of[i] = p}
Listing(p) == [i \in Existing(p) |-> tasks[i]]
NoIssue == [id |-> None]
Blank == [visible |-> FALSE, title |-> None, submitting |-> FALSE]

IssueInit ==
    /\ tasks = [i \in Issue |-> IF i \in Fresh THEN None ELSE First]
    /\ project = None /\ board = [of |-> None, tasks |-> <<>>]
    /\ loading = FALSE /\ error = FALSE
    /\ issue = NoIssue /\ title = None /\ timer = FALSE /\ left = {}
    /\ form = Blank
    /\ calls = <<>> /\ called = 0 /\ lost = 0 /\ typings = 0
    /\ typed = None /\ crossed = FALSE

-----------------------------------------------------------------------------
(* Requests.  A load that was served waits with its listing to be taken. *)

Rest(i) == RemoveAt(calls, i)

IsOp(i, op) == i \in DOMAIN calls /\ calls[i].op = op

Ask(others, call) ==
    /\ called < MaxCalls /\ called' = called + 1
    /\ calls' = Append(others, call)

(* Requests whose element is no longer there: all but those of the board, and all. *)
Untold(cs) ==
    [i \in DOMAIN cs |-> IF cs[i].op = "load" THEN cs[i] ELSE [cs[i] EXCEPT !.told = FALSE]]
AllUntold(cs) == [i \in DOMAIN cs |-> [cs[i] EXCEPT !.told = FALSE]]

LoadOf(p, silent) ==
    [op |-> "load", of |-> p, told |-> TRUE, silent |-> silent, served |-> FALSE, got |-> <<>>]

(* The panel and the form are made anew: a running timer still fires, and the
   panel shows the copy of its issue again. *)
Renewed ==
    /\ left' = (IF timer THEN left \cup {[id |-> issue.id, title |-> title]} ELSE left)
    /\ timer' = FALSE /\ typed' = None
    /\ title' = (IF issue'.id = None THEN None ELSE issue'.title)
    /\ form' = Blank

(* loadBoard *)
Load(others, p, silent) ==
    IF p = None
    THEN /\ calls' = others /\ UNCHANGED called
         /\ UNCHANGED <<loading, error, title, timer, left, typed, form>>
    ELSE IF silent
    THEN /\ Ask(others, LoadOf(p, TRUE))
         /\ UNCHANGED <<loading, error, title, timer, left, typed, form>>
    ELSE /\ Ask(Untold(others), LoadOf(p, FALSE))
         /\ loading' = TRUE /\ error' = FALSE
         /\ Renewed

ServeLoad(i) ==
    /\ IsOp(i, "load") /\ ~calls[i].served
    /\ calls' = [calls EXCEPT ![i].served = TRUE, ![i].got = Listing(calls[i].of)]
    /\ UNCHANGED <<tasks, project, board, loading, error, panel, form, called, lost, crossed>>

(* The answer fills the board whichever project is selected by then. *)
Loaded(i) ==
    /\ IsOp(i, "load") /\ calls[i].served
    /\ IF calls[i].told
        THEN /\ board' = [of |-> calls[i].of, tasks |-> calls[i].got]
             /\ loading' = (loading /\ calls[i].silent)
             /\ crossed' = (crossed \/ \E j \in 1 .. i - 1 : IsOp(j, "load") /\ calls[j].told)
        ELSE UNCHANGED <<board, loading, crossed>>
    /\ calls' = Rest(i)
    /\ UNCHANGED <<tasks, project, error, panel, form, called, lost>>

LoadFails(i) ==
    /\ IsOp(i, "load") /\ lost < MaxLost
    /\ lost' = lost + 1
    /\ IF calls[i].told
        THEN /\ crossed' = TRUE
             /\ loading' = (loading /\ calls[i].silent)
             /\ error' = (error \/ ~calls[i].silent)
        ELSE UNCHANGED <<loading, error, crossed>>
    /\ calls' = Rest(i)
    /\ UNCHANGED <<tasks, project, board, panel, form, called>>

-----------------------------------------------------------------------------
(* The project *)

(* The drawer restores the last project, or the first, or the user clicks one. *)
SelectProject(p) ==
    /\ p # project
    /\ project' = p /\ UNCHANGED issue
    /\ Load(calls, p, FALSE)
    /\ UNCHANGED <<tasks, board, typings, lost, crossed>>

(* The board is made anew; answers to the requests of the old one go nowhere. *)
SwitchTab ==
    /\ project # None
    /\ board' = [of |-> None, tasks |-> <<>>]
    /\ issue' = NoIssue
    /\ Load(AllUntold(calls), project, FALSE)
    /\ UNCHANGED <<tasks, project, typings, lost, crossed>>

Retry ==
    /\ error /\ ~loading /\ UNCHANGED issue
    /\ Load(calls, project, FALSE)
    /\ UNCHANGED <<tasks, project, board, typings, lost, crossed>>

(* What the board shows in place of its elements. *)
Ready == board.of # None /\ ~loading /\ ~error

-----------------------------------------------------------------------------
(* The panel of an issue *)

OpenIssue(i) ==
    /\ Ready /\ issue.id = None /\ i \in DOMAIN board.tasks
    /\ issue' = [id |-> i, title |-> board.tasks[i].title, status |-> board.tasks[i].status]
    /\ title' = board.tasks[i].title /\ typed' = None
    /\ UNCHANGED <<tasks, project, board, loading, error, timer, left, typings, form,
                   network, crossed>>

(* A save that waits for its timer is given up. *)
ClosePanel ==
    /\ Ready /\ issue.id # None
    /\ issue' = NoIssue /\ title' = None /\ timer' = FALSE /\ typed' = None
    /\ UNCHANGED <<tasks, project, board, loading, error, left, typings, form, network, crossed>>

\* Mutant: only the first text typed starts the timer.
TypeTitle_First(t) ==
    /\ Ready /\ issue.id # None /\ t # title /\ typings < MaxTyped
    /\ title' = t /\ timer' = (timer \/ typed = None) /\ typed' = t /\ typings' = typings + 1
    /\ UNCHANGED <<tasks, project, board, loading, error, issue, left, form, network, crossed>>

TypeTitle(t) ==
    /\ Ready /\ issue.id # None /\ t # title /\ typings < MaxTyped
    /\ title' = t /\ timer' = TRUE /\ typed' = t /\ typings' = typings + 1
    /\ UNCHANGED <<tasks, project, board, loading, error, issue, left, form, network, crossed>>

SaveOf(i, field, value, told) ==
    [op |-> "save", of |-> i, field |-> field, value |-> value, told |-> told]

(* A text that says nothing is not saved. *)
TitleTimer ==
    /\ timer /\ timer' = FALSE
    /\ IF title = None
        THEN UNCHANGED network
        ELSE Ask(calls, SaveOf(issue.id, "title", title, TRUE)) /\ UNCHANGED lost
    /\ UNCHANGED <<tasks, project, board, loading, error, issue, title, left, typings, typed,
                   form, crossed>>

LeftTimer(s) ==
    /\ s \in left /\ left' = left \ {s}
    /\ IF s.title = None
        THEN UNCHANGED network
        ELSE Ask(calls, SaveOf(s.id, "title", s.title, FALSE)) /\ UNCHANGED lost
    /\ UNCHANGED <<tasks, project, board, loading, error, issue, title, timer, typings, typed,
                   form, crossed>>

(* Compared with the copy the panel was opened with. *)
PickStatus(s) ==
    /\ Ready /\ issue.id # None /\ s # issue.status
    /\ Ask(calls, SaveOf(issue.id, "status", s, TRUE))
    /\ UNCHANGED <<tasks, project, board, loading, error, panel, form, lost, crossed>>

\* Mutant: what the panel saved does not reach the board.
IssueUpdated_Alone(others, told, id) ==
    calls' = others /\ UNCHANGED <<called, loading, error, issue, title, timer, left, typed, form>>

IssueUpdated(others, told, id) ==
    /\ IF told
        THEN Load(others, project, TRUE)
        ELSE calls' = others /\ UNCHANGED <<called, loading, error, title, timer, left, typed, form>>
    /\ UNCHANGED issue

(* updateIssue: an issue that was deleted is not there to be changed. *)
Saved(i) ==
    /\ IsOp(i, "save")
    /\ LET c == calls[i] IN
        /\ tasks[c.of] # None
        /\ tasks' = [tasks EXCEPT ![c.of] = IF c.field = "title" THEN [@ EXCEPT !.title = c.value]
                                                          ELSE [@ EXCEPT !.status = c.value]]
        /\ IssueUpdated(Rest(i), c.told, c.of)
        /\ crossed' = (crossed \/ ~c.told \/ \E j \in 1 .. i - 1 : calls[j].op = "save")
    /\ UNCHANGED <<project, board, typings, lost>>

DeleteIssue ==
    /\ Ready /\ issue.id # None
    /\ Ask(calls, [op |-> "delete", of |-> issue.id, told |-> TRUE])
    /\ UNCHANGED <<tasks, project, board, loading, error, panel, form, lost, crossed>>

(* deleteIssue takes a refusal for success.  Whatever panel is open is closed. *)
Deleted(i, refused) ==
    /\ IsOp(i, "delete")
    /\ tasks' = (IF refused THEN tasks ELSE [tasks EXCEPT ![calls[i].of] = None])
    /\ crossed' = (crossed \/ ~calls[i].told)
    /\ IF calls[i].told
        THEN /\ issue' = NoIssue /\ Load(Rest(i), project, FALSE)
        ELSE /\ calls' = Rest(i) /\ UNCHANGED called
             /\ UNCHANGED <<loading, error, issue, title, timer, left, typed, form>>
    /\ UNCHANGED <<project, board, typings, lost>>

-----------------------------------------------------------------------------
(* The form for a new issue *)

OpenForm ==
    /\ Ready /\ issue.id = None /\ ~form.visible
    /\ form' = [form EXCEPT !.visible = TRUE]
    /\ UNCHANGED <<tasks, project, board, loading, error, panel, network, crossed>>

FillForm ==
    /\ Ready /\ form.visible /\ form.title = None
    /\ form' = [form EXCEPT !.title = First.title]
    /\ UNCHANGED <<tasks, project, board, loading, error, panel, network, crossed>>

CloseForm ==
    /\ Ready /\ form.visible
    /\ form' = [form EXCEPT !.visible = FALSE, !.title = None]
    /\ UNCHANGED <<tasks, project, board, loading, error, panel, network, crossed>>

Submit ==
    /\ Ready /\ form.visible /\ form.title # None /\ ~form.submitting
    /\ form' = [form EXCEPT !.submitting = TRUE]
    /\ Ask(calls, [op |-> "create", of |-> project, title |-> form.title, told |-> TRUE])
    /\ UNCHANGED <<tasks, project, board, loading, error, panel, lost, crossed>>

(* The form is closed, one opened again since as well. *)
Created(i, new) ==
    /\ IsOp(i, "create")
    /\ new \in Fresh /\ tasks[new] = None /\ Of[new] = calls[i].of
    /\ tasks' = [tasks EXCEPT ![new] = [First EXCEPT !.title = calls[i].title]]
    /\ crossed' = (crossed \/ ~calls[i].told) /\ UNCHANGED issue
    /\ IF calls[i].told
        THEN Load(Rest(i), project, FALSE)
        ELSE /\ calls' = Rest(i)
             /\ UNCHANGED <<called, loading, error, title, timer, left, typed, form>>
    /\ UNCHANGED <<project, board, typings, lost>>

(* A change of the panel that fails is not told; the form says so and stays. *)
CallFails(i) ==
    /\ i \in DOMAIN calls /\ calls[i].op # "load" /\ lost < MaxLost
    /\ lost' = lost + 1 /\ crossed' = TRUE
    /\ form' = (IF calls[i].op = "create" /\ calls[i].told
                THEN [form EXCEPT !.submitting = FALSE] ELSE form)
    /\ calls' = Rest(i)
    /\ UNCHANGED <<tasks, project, board, loading, error, panel, called>>

IssueNext ==
    \/ \E p \in Project : SelectProject(p)
    \/ SwitchTab \/ Retry \/ ClosePanel \/ TitleTimer \/ DeleteIssue
    \/ OpenForm \/ FillForm \/ CloseForm \/ Submit
    \/ \E i \in Issue : OpenIssue(i)
    \/ \E t \in Text \cup {None} : TypeTitle(t)
    \/ \E s \in left : LeftTimer(s)
    \/ \E s \in Status : PickStatus(s)
    \/ \E i \in 1 .. MaxCalls :
        \/ ServeLoad(i) \/ Loaded(i) \/ LoadFails(i) \/ Saved(i) \/ CallFails(i)
        \/ \E refused \in BOOLEAN : Deleted(i, refused)
        \/ \E new \in Fresh : Created(i, new)

IssueSpec == IssueInit /\ [][IssueNext]_issueVars

-----------------------------------------------------------------------------
(* Nothing is under way but loads of a board that is no longer there. *)
AtRest == \A i \in DOMAIN calls : calls[i].op = "load" /\ ~calls[i].told

(* At rest, and if no answer failed, was overtaken by that of a younger request or
   came to an element that was made anew, the columns hold the issues of the
   selected project as the server has them. *)
BoardIsCurrent ==
    project # None /\ AtRest /\ ~crossed
        => ~loading /\ board = [of |-> project, tasks |-> Listing(project)]

(* Under the same condition the panel shows the text last typed into it, and
   that is the title the issue has on the server, unless it says nothing. *)
TypedIsStored ==
    issue.id # None /\ typed # None /\ ~timer /\ AtRest /\ ~crossed
        => tasks[issue.id] # None /\ title = typed /\ tasks[issue.id].title = typed
=============================================================================
