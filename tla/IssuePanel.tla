------------------------------ MODULE IssuePanel ------------------------------
(***************************************************************************)
(* The panel of one issue (components/mobile-issue-detail-panel.ts) while it *)
(* stays in the page: its two texts, each saved half a second after the last *)
(* key, the pickers, the question before an issue is deleted, and the list   *)
(* of the workspaces linked to the issue.  IssueBoard models what becomes of  *)
(* the panel when the board around it is loaded.                             *)
(*                                                                         *)
(* A save takes the issue and the text the panel shows when its timer fires. *)
(***************************************************************************)
EXTENDS Integers, Sequences, SequencesExt, FiniteSets

CONSTANTS
    Issue, Text,
    None,          \* no issue, no text
    MaxCalls,      \* requests
    MaxLost,       \* requests that fail
    MaxTyped       \* texts typed

PanelAssumption ==
    /\ None \notin Issue \cup Text
    /\ {MaxCalls, MaxLost, MaxTyped} \subseteq Nat

Field == {"title", "description"}
Sheet == {"none", "status", "priority", "delete"}

VARIABLES
    store,         \* server: the texts of every issue
    shown,         \* issue, None while the panel is not visible
    edit,          \* _editTitle, _editDescription
    editing,       \* editingDescription
    sheet,         \* showStatusPicker, showPriorityPicker, showDeleteConfirm
    deleting,
    timers,        \* the fields whose timer runs
    saved,         \* saveStatus is "saved", until its own timer ends
    workspaces,    \* the issue whose workspaces are listed, None for no list
    wsLoading,
    calls, called, lost, typings,
    typed,         \* history: the texts last typed since the panel was opened
    crossed        \* history: a save failed, or was answered before an older one

network == <<calls, called, lost>>
pickers == <<sheet, deleting>>
links == <<workspaces, wsLoading>>
texts == <<edit, editing, timers, typings, typed>>
panelVars == <<store, shown, texts, pickers, saved, links, network, crossed>>

Untyped == [f \in Field |-> "not typed"]

PanelInit ==
    /\ store = [i \in Issue |-> [f \in Field |-> None]]
    /\ shown = None /\ edit = [f \in Field |-> None] /\ editing = FALSE
    /\ sheet = "none" /\ deleting = FALSE /\ timers = {} /\ saved = FALSE
    /\ workspaces = None /\ wsLoading = FALSE
    /\ calls = <<>> /\ called = 0 /\ lost = 0 /\ typings = 0
    /\ typed = Untyped /\ crossed = FALSE

Rest(i) == RemoveAt(calls, i)

Ask(new) ==
    /\ called < MaxCalls /\ called' = called + 1
    /\ calls' = Append(calls, new) /\ UNCHANGED lost

-----------------------------------------------------------------------------

(* The board hands over its copy of the issue; updated() takes its texts. *)
Show(i) ==
    /\ shown = None /\ shown' = i
    /\ edit' = store[i] /\ editing' = FALSE /\ typed' = Untyped
    /\ sheet' = "none" /\ saved' = FALSE /\ timers' = {}
    /\ wsLoading' = TRUE /\ Ask([op |-> "links", of |-> i])
    /\ UNCHANGED <<store, deleting, workspaces, typings, crossed>>

(* cancelPendingSaves: what waits for a timer is not saved. *)
Hidden ==
    /\ shown' = None /\ timers' = {} /\ editing' = FALSE /\ sheet' = "none"
    /\ workspaces' = None /\ typed' = Untyped
    /\ UNCHANGED <<edit, typings, wsLoading>>

Close ==
    /\ shown # None /\ Hidden
    /\ UNCHANGED <<store, deleting, saved, network, crossed>>

EditDescription ==
    /\ shown # None /\ ~editing /\ editing' = TRUE
    /\ UNCHANGED <<store, shown, edit, timers, typings, typed, pickers, saved, links, network,
                   crossed>>

Type(f, t) ==
    /\ shown # None /\ sheet = "none" /\ (f = "description" => editing)
    /\ t # edit[f] /\ typings < MaxTyped
    /\ edit' = [edit EXCEPT ![f] = t] /\ timers' = timers \cup {f}
    /\ typed' = [typed EXCEPT ![f] = t] /\ typings' = typings + 1
    /\ UNCHANGED <<store, shown, editing, pickers, saved, links, network, crossed>>

(* saveTitle refuses a title that says nothing, saveDescription does not. *)
Save(f) ==
    IF f = "title" /\ edit[f] = None
    THEN UNCHANGED network
    ELSE Ask([op |-> "save", of |-> shown, field |-> f, text |-> edit[f]])

Fire(f) ==
    /\ f \in timers /\ timers' = timers \ {f}
    /\ Save(f)
    /\ UNCHANGED <<store, shown, edit, editing, typings, typed, pickers, saved, links, crossed>>

\* Mutant: leaving the description stops its timer and saves nothing.
LeaveDescription_Quiet ==
    /\ shown # None /\ editing /\ editing' = FALSE
    /\ timers' = timers \ {"description"}
    /\ UNCHANGED <<store, shown, edit, typings, typed, pickers, saved, links, network, crossed>>

LeaveDescription ==
    /\ shown # None /\ editing /\ editing' = FALSE
    /\ timers' = timers \ {"description"}
    /\ Save("description")
    /\ UNCHANGED <<store, shown, edit, typings, typed, pickers, saved, links, crossed>>

(* showSaveHint, and the end of its timer *)
Saved(i) ==
    /\ i \in DOMAIN calls /\ calls[i].op = "save"
    /\ LET c == calls[i] IN
        /\ store' = [store EXCEPT ![c.of][c.field] = c.text]
        /\ crossed' = (crossed \/ \E j \in 1 .. i - 1 : calls[j].op = "save" /\ calls[j].of = c.of)
    /\ saved' = TRUE /\ calls' = Rest(i)
    /\ UNCHANGED <<shown, texts, pickers, links, called, lost>>

HintEnds ==
    /\ saved /\ saved' = FALSE
    /\ UNCHANGED <<store, shown, texts, pickers, links, network, crossed>>

(* The pickers and the question before a deletion *)
OpenSheet(s) ==
    /\ shown # None /\ sheet = "none" /\ s # "none"
    /\ sheet' = s
    /\ UNCHANGED <<store, shown, texts, deleting, saved, links, network, crossed>>

CloseSheet ==
    /\ shown # None /\ sheet # "none" /\ sheet' = "none"
    /\ UNCHANGED <<store, shown, texts, deleting, saved, links, network, crossed>>

(* A confirmation may be clicked again: deleting holds nothing back. *)
Delete ==
    /\ shown # None /\ sheet = "delete"
    /\ deleting' = TRUE /\ Ask([op |-> "delete", of |-> shown])
    /\ UNCHANGED <<store, shown, texts, sheet, saved, links, crossed>>

(* The board closes the panel, whichever issue it shows by then. *)
Deleted(i) ==
    /\ i \in DOMAIN calls /\ calls[i].op = "delete"
    /\ deleting' = FALSE /\ calls' = Rest(i)
    /\ Hidden
    /\ UNCHANGED <<store, saved, called, lost, crossed>>

(* The list that comes in is shown for the issue the panel shows by then. *)
LinksArrive(i) ==
    /\ i \in DOMAIN calls /\ calls[i].op = "links"
    /\ workspaces' = calls[i].of /\ wsLoading' = FALSE /\ calls' = Rest(i)
    /\ UNCHANGED <<store, shown, texts, pickers, saved, called, lost, crossed>>

Fails(i) ==
    /\ i \in DOMAIN calls /\ lost < MaxLost
    /\ lost' = lost + 1 /\ calls' = Rest(i)
    /\ crossed' = (crossed \/ calls[i].op = "save")
    /\ IF calls[i].op = "links" THEN workspaces' = None /\ wsLoading' = FALSE ELSE UNCHANGED links
    /\ deleting' = (deleting /\ calls[i].op # "delete")
    /\ UNCHANGED <<store, shown, texts, sheet, saved, called>>

PanelNext ==
    \/ \E i \in Issue : Show(i)
    \/ \E f \in Field, t \in Text \cup {None} : Type(f, t)
    \/ \E f \in Field : Fire(f)
    \/ \E s \in Sheet : OpenSheet(s)
    \/ Close \/ EditDescription \/ LeaveDescription \/ HintEnds \/ CloseSheet \/ Delete
    \/ \E i \in 1 .. MaxCalls : Saved(i) \/ Deleted(i) \/ LinksArrive(i) \/ Fails(i)

PanelSpec == PanelInit /\ [][PanelNext]_panelVars

-----------------------------------------------------------------------------
(* While the panel stays open on an issue, a text typed into it is what the
   server has once no timer runs and no save is under way, unless a save failed
   or was overtaken; a title that says nothing is kept from the server. *)
TextIsStored ==
    shown # None /\ ~crossed /\ (\A i \in DOMAIN calls : calls[i].op # "save") =>
        \A f \in Field \ timers :
            typed[f] # "not typed" /\ (f = "title" => typed[f] # None)
                => edit[f] = typed[f] /\ store[shown][f] = typed[f]
=============================================================================
