------------------------------- MODULE Overlays -------------------------------
(***************************************************************************)
(* What the page lays over its panes: the list of changed files              *)
(* (src/components/diff-details-panel.ts on the stream of lib/diff-api.ts) and *)
(* the form for a pull request (src/components/create-pr-dialog.ts).  Both are  *)
(* elements the page makes and drops as it renders; what was under way in one   *)
(* that was dropped goes on without it.                                      *)
(***************************************************************************)
EXTENDS Integers, Sequences, FiniteSets

CONSTANTS
    Workspace, None,
    HasRepo,        \* workspaces with a repository
    FirstMessage,   \* the first message of the user in a workspace, or None
    Typed,          \* a title the user types
    Branch,         \* branches a repository lists
    Main,           \* the one called main or master, else the first
    TargetBranch,   \* what the page gives as the target of a workspace, or None
    RepoTarget,     \* the target the repository of a workspace has, or None
    MaxDialogs, MaxPanels, MaxCalls

(* What an element of the page holds; there is none of it at times. *)
Panel == [id : Nat, loading : BOOLEAN, failed : BOOLEAN, files : BOOLEAN]
FormTitle == {None, Typed} \cup {FirstMessage[w] : w \in Workspace}
Form == [id : Nat, ws : Workspace, title : FormTitle, typed : FormTitle, base : Branch \cup {None},
         repo : BOOLEAN, listed : BOOLEAN, loading : BOOLEAN, creating : BOOLEAN,
         error : BOOLEAN]

OverlaysAssumption ==
    /\ HasRepo \subseteq Workspace /\ None \notin Workspace \cup Branch \cup Panel \cup Form
    /\ {TargetBranch, RepoTarget} \subseteq [Workspace -> Branch \cup {None}]
    /\ Main \in Branch
    /\ {MaxDialogs, MaxPanels, MaxCalls} \subseteq Nat

VARIABLES
    list,       \* the workspaces of the page
    diffOf,     \* diffDetailsWorkspaceId
    panel,      \* the diff panel, when there is one
    sockets,    \* its sockets, by panel: "opening", "open" or "closed"
    prOf,       \* selectedWorkspaceForPR
    form,       \* the pull request dialog, when there is one
    loads,      \* what a dialog waits for to fill its form
    calls       \* requests for a pull request without an answer

diffVars == <<diffOf, panel, sockets>>
formVars == <<prOf, form, loads, calls>>
overlayVars == <<list, diffOf, panel, sockets, prOf, form, loads, calls>>

-----------------------------------------------------------------------------
(* The files of a workspace that were changed *)

\* Mutant: a panel the page drops keeps its socket.
Disconnected_Kept == sockets

(* disconnectStream, also from disconnectedCallback *)
Disconnected ==
    IF panel = None THEN sockets ELSE [sockets EXCEPT ![panel.id] = "closed"]

(* connectStream, from the first updated() of a new panel *)
Connect(w) ==
    LET id == Len(sockets) + 1 IN
    /\ id <= MaxPanels
    /\ sockets' = Append(sockets, "opening")
    /\ panel' = [id |-> id, loading |-> TRUE, failed |-> FALSE, files |-> FALSE]

(* renderDiffDetailsPanel: there is a panel while the page lists its workspace. *)
RenderPanel(w, workspaces) ==
    /\ diffOf' = w
    /\ IF w \notin workspaces THEN panel' = None /\ sockets' = Disconnected
       ELSE IF panel = None THEN Connect(w)
       ELSE UNCHANGED <<panel, sockets>>

(* handleOpenDiffDetails; a panel covers what could open another. *)
OpenDiff(w) ==
    /\ panel = None /\ form = None /\ w \in list
    /\ RenderPanel(w, list) /\ UNCHANGED <<list, formVars>>

(* handleClose and handleCloseDiffDetails *)
CloseDiff ==
    /\ panel # None
    /\ RenderPanel(None, list) /\ UNCHANGED <<list, formVars>>

(* A list of workspaces comes in. *)
ListChanges(workspaces) ==
    /\ list' = workspaces
    /\ RenderPanel(diffOf, workspaces) /\ UNCHANGED formVars

SocketOpens(i) ==
    /\ sockets[i] = "opening" /\ sockets' = [sockets EXCEPT ![i] = "open"]
    /\ UNCHANGED <<list, diffOf, panel, formVars>>

Streams == panel # None /\ sockets[panel.id] = "open"

(* onDiff: a file joins those shown; flushUpdate runs before the next event. *)
FileArrives ==
    /\ Streams /\ panel' = [panel EXCEPT !.loading = FALSE, !.files = TRUE]
    /\ UNCHANGED <<list, diffOf, sockets, formVars>>

(* onReady: the files there are were sent. *)
Ready ==
    /\ Streams /\ panel' = [panel EXCEPT !.loading = FALSE]
    /\ UNCHANGED <<list, diffOf, sockets, formVars>>

(* onClose, after onError when it failed *)
Ended(failed) == [panel EXCEPT !.loading = FALSE, !.failed = @ \/ failed]

StreamEnds(failed) ==
    /\ panel # None /\ sockets[panel.id] # "closed"
    /\ panel' = Ended(failed) /\ sockets' = [sockets EXCEPT ![panel.id] = "closed"]
    /\ UNCHANGED <<list, diffOf, formVars>>

(* The body of the panel: renderBody *)
PanelShows ==
    IF panel = None THEN "nothing"
    ELSE IF panel.loading /\ ~panel.files THEN "loading"
    ELSE IF panel.failed THEN "error"
    ELSE IF panel.files THEN "files" ELSE "empty"

-----------------------------------------------------------------------------
(* The form for a pull request *)

(* handleMenuAction, then the first updated() of the new dialog *)
OpenForm(w) ==
    /\ prOf = None /\ panel = None /\ w \in list /\ Len(loads) < MaxDialogs
    /\ prOf' = w /\ loads' = Append(loads, "repos")
    /\ form' = [id |-> Len(loads) + 1, ws |-> w, title |-> None, typed |-> None,
                base |-> None, repo |-> FALSE, listed |-> FALSE,
                loading |-> TRUE, creating |-> FALSE, error |-> FALSE]
    /\ UNCHANGED <<list, diffVars, calls>>

(* handleClose: a request under way does not keep the dialog open. *)
CloseForm ==
    /\ form # None /\ prOf' = None /\ form' = None
    /\ UNCHANGED <<list, diffVars, loads, calls>>

Step(i, next) == loads' = [loads EXCEPT ![i] = next]

\* The dialog that loads i, if it is still there
Mine(i) == form # None /\ form.id = i

(* fetchWorkspaceRepos; a dialog that was dropped reads on for nothing. *)
ReposArrive(i) ==
    /\ loads[i] = "repos" /\ Mine(i)
    /\ Step(i, IF form.ws \in HasRepo THEN "branches" ELSE "message")
    /\ form' = [form EXCEPT !.repo = form.ws \in HasRepo]
    /\ UNCHANGED <<list, diffVars, prOf, calls>>

(* fetchRepoBranches *)
BranchesArrive(i) ==
    /\ loads[i] = "branches" /\ Mine(i)
    /\ Step(i, "message") /\ form' = [form EXCEPT !.listed = TRUE]
    /\ UNCHANGED <<list, diffVars, prOf, calls>>

\* The branch a form starts with
BaseOf(f) ==
    IF TargetBranch[f.ws] # None THEN TargetBranch[f.ws]
    ELSE IF f.repo /\ RepoTarget[f.ws] # None THEN RepoTarget[f.ws]
    ELSE IF f.listed THEN Main ELSE None

(* getFirstUserMessage gives the title, and the target its default. *)
MessageArrives(i) ==
    /\ loads[i] = "message" /\ Mine(i) /\ Step(i, "done")
    /\ form' = [form EXCEPT !.loading = FALSE, !.base = BaseOf(form),
                    !.title = IF FirstMessage[form.ws] = None THEN @ ELSE FirstMessage[form.ws]]
    /\ UNCHANGED <<list, diffVars, prOf, calls>>

(* A request of the loading fails: the rest is not asked for. *)
LoadFails(i) ==
    /\ loads[i] \in {"repos", "branches", "message"} /\ Mine(i) /\ Step(i, "done")
    /\ form' = [form EXCEPT !.loading = FALSE, !.error = TRUE]
    /\ UNCHANGED <<list, diffVars, prOf, calls>>

\* Mutant: the fields can be used while the form is loading.
Editable_Always == form # None /\ ~form.creating

Editable == form # None /\ ~form.loading /\ ~form.creating

(* handleTitleChange *)
TypeTitle ==
    /\ Editable /\ form' = [form EXCEPT !.title = Typed, !.typed = Typed]
    /\ UNCHANGED <<list, diffVars, prOf, loads, calls>>

(* handleBranchChange *)
ChooseBranch(b) ==
    /\ Editable /\ form.listed /\ form' = [form EXCEPT !.base = b]
    /\ UNCHANGED <<list, diffVars, prOf, loads, calls>>

(* handleSubmit: createPR *)
Submit ==
    /\ Editable /\ form.title # None /\ Cardinality(calls) < MaxCalls
    /\ form' = [form EXCEPT !.creating = TRUE, !.error = FALSE]
    /\ calls' = calls \cup {[id |-> form.id, ws |-> form.ws, title |-> form.title]}
    /\ UNCHANGED <<list, diffVars, prOf, loads>>

(* close() of a dialog that was dropped reaches nobody. *)
FormAfter(c) == IF Mine(c.id) THEN None ELSE form

(* It is created, and its page opens. *)
Created(c) ==
    /\ calls' = calls \ {c}
    /\ form' = FormAfter(c) /\ prOf' = IF FormAfter(c) = None THEN None ELSE prOf
    /\ UNCHANGED <<list, diffVars, loads>>

(* It is refused, or the answer is lost: the same form can be sent again. *)
CreateFails(c) ==
    /\ calls' = calls \ {c}
    /\ form' = IF Mine(c.id) THEN [form EXCEPT !.creating = FALSE, !.error = TRUE] ELSE form
    /\ UNCHANGED <<list, diffVars, prOf, loads>>

-----------------------------------------------------------------------------
OverlaysInit ==
    /\ list = Workspace
    /\ diffOf = None /\ panel = None /\ sockets = <<>>
    /\ prOf = None /\ form = None /\ loads = <<>> /\ calls = {}

OverlaysNext ==
    \/ \E w \in Workspace : OpenDiff(w) \/ OpenForm(w)
    \/ CloseDiff \/ FileArrives \/ Ready
    \/ \E failed \in BOOLEAN : StreamEnds(failed)
    \/ \E workspaces \in SUBSET Workspace : ListChanges(workspaces)
    \/ \E i \in DOMAIN sockets : SocketOpens(i)
    \/ CloseForm \/ TypeTitle \/ Submit
    \/ \E b \in Branch : ChooseBranch(b)
    \/ \E i \in DOMAIN loads :
        ReposArrive(i) \/ BranchesArrive(i) \/ MessageArrives(i) \/ LoadFails(i)
    \/ \E c \in calls : Created(c) \/ CreateFails(c)


OverlaysSpec == OverlaysInit /\ [][OverlaysNext]_overlayVars

-----------------------------------------------------------------------------
(* A diff stream lives no longer than the panel that shows it, whether the user
   closed it or its workspace went from the list of the page; and a panel whose
   stream has ended or broken off does not stay at "loading". *)
StreamEndsWithPanel ==
    \A i \in DOMAIN sockets :
        IF sockets[i] # "closed" THEN panel # None /\ panel.id = i
        ELSE panel # None /\ panel.id = i => PanelShows # "loading"

(* The title in the form is the one the user typed last: no answer that comes
   late replaces it. *)
TitleIsKept == form # None /\ form.typed # None => form.title = form.typed
=============================================================================
