----------------------------- MODULE PaneElements -----------------------------
(***************************************************************************)
(* The elements that show the open workspaces (renderWorkspacePanes of        *)
(* src/web/workspace-home.ts; src/components/workspace-conversation-pane.ts   *)
(* and workspace-preview-card.ts).  Elements have no key: the page updates    *)
(* the element of a place with the workspace that comes to that place, and    *)
(* what the element keeps for itself stays.  When the layout changes between   *)
(* a grid and one pane with a rail of previews, all elements are new.          *)
(***************************************************************************)
EXTENDS PageState

CONSTANTS
    MaxClicks,     \* clicks of the user inside the panes
    MaxTimers      \* timers an element has started and not seen end

ClicksAssumption == MaxClicks \in Nat /\ MaxTimers \in Nat

VARIABLES
    page,          \* the state of the page, see PageState
    wide,          \* the window has room for a grid
    els,           \* the conversation panes, by place
    rail,          \* the preview cards beside a single pane
    clicks

paneVars == <<page, wide, els, rail, clicks>>

(* resolved: the workspace resolvedWorkspacePath is of; asks: workspaces whose
   path was asked for; crossed: an answer came after the element changed hands. *)
Pane(w) ==
    [ws |-> w, resolved |-> None, browser |-> FALSE, todo |-> FALSE,
     loading |-> FALSE, timers |-> 0, asks |-> {}, crossed |-> FALSE]

Card(w) == [ws |-> w, menu |-> FALSE]

-----------------------------------------------------------------------------
(* Rendering *)

\* resolveWorkspacePaneLayoutMode, and an active workspace to show
Layout(state, w) ==
    IF state.open = <<>> THEN "empty"
    ELSE IF Len(state.open) = 1 \/ w \/ state.active = None THEN "grid" ELSE "focus"

\* Mutant: the path of the file browser stays when the workspace changes.
Updated_Kept(el, w) == IF el.ws = w THEN el ELSE [el EXCEPT !.ws = w, !.loading = FALSE]

(* updated(): another workspace comes with other messages. *)
Updated(el, w) ==
    IF el.ws = w THEN el
    ELSE [el EXCEPT !.ws = w, !.loading = FALSE, !.resolved = None, !.crossed = FALSE]

(* renderWorkspacePane: the element of place i, where there was one, is kept. *)
WorkspacePane(kept, i, id) == IF i <= Len(kept) THEN Updated(kept[i], id) ELSE Pane(id)

(* renderWorkspacePanes *)
RenderPanes(state, w) ==
    LET kept == IF Layout(state, w) = Layout(page, wide) THEN els ELSE <<>>
        panes == CASE Layout(state, w) = "empty" -> <<>>
                   [] Layout(state, w) = "grid" -> state.open
                   [] OTHER -> <<state.active>>
    IN  els' = [i \in DOMAIN panes |-> WorkspacePane(kept, i, panes[i])]

(* renderWorkspacePreviewCard: a menu that is open stays at its place. *)
PreviewCard(kept, i, id) == IF i <= Len(kept) THEN [kept[i] EXCEPT !.ws = id] ELSE Card(id)

RenderRail(state, w) ==
    LET kept == IF Layout(state, w) = Layout(page, wide) THEN rail ELSE <<>>
        others == IF Layout(state, w) = "focus" THEN Without(state.open, state.active) ELSE <<>>
    IN  rail' = [i \in DOMAIN others |-> PreviewCard(kept, i, others[i])]

Render(state, w) ==
    /\ page' = state /\ wide' = w
    /\ RenderPanes(state, w) /\ RenderRail(state, w)

-----------------------------------------------------------------------------
PanesInit ==
    /\ page = CreatePageState(<<>>, None, <<>>) /\ wide \in BOOLEAN
    /\ els = <<>> /\ rail = <<>> /\ clicks = 0

OpenWorkspace(w) == Render(OpenPane(page, w), wide) /\ UNCHANGED clicks

CloseWorkspace(w) ==
    /\ Contains(page.open, w)
    /\ Render(DismissPane(page, w, FALSE), wide) /\ UNCHANGED clicks

\* A workspace asks for attention, see PageState!Reconcile.
Appears(w) ==
    /\ ~Contains(page.open, w)
    /\ Render(AppendPane(page, w), wide) /\ UNCHANGED clicks

Resize == Render(page, ~wide) /\ UNCHANGED clicks

Becomes(i, el) == els' = [els EXCEPT ![i] = el] /\ UNCHANGED <<page, wide, rail>>

Click == clicks < MaxClicks /\ clicks' = clicks + 1

(* toggleFileBrowser: it opens when its path is known. *)
ToggleBrowser(i) ==
    /\ Click
    /\ Becomes(i, IF els[i].browser THEN [els[i] EXCEPT !.browser = FALSE]
                  ELSE [els[i] EXCEPT !.asks = @ \cup {els[i].ws}])

(* The path of w comes in; the page has one to fall back on. *)
PathResolved(i, w) ==
    /\ w \in els[i].asks /\ UNCHANGED clicks
    /\ Becomes(i, [els[i] EXCEPT !.resolved = w, !.browser = TRUE, !.asks = @ \ {w},
                                 !.crossed = (w # els[i].ws)])

(* The request fails: the path the element has by now. *)
PathFails(i, w) ==
    /\ w \in els[i].asks /\ UNCHANGED clicks
    /\ Becomes(i, [els[i] EXCEPT !.resolved = els[i].ws, !.browser = TRUE, !.asks = @ \ {w},
                                 !.crossed = FALSE])

ToggleTodo(i) ==
    Click /\ Becomes(i, [els[i] EXCEPT !.todo = ~@])

(* handleLoadMore, the second of the two fields of that name *)
LoadOlder(i) ==
    /\ ~els[i].loading /\ els[i].timers < MaxTimers /\ Click
    /\ Becomes(i, [els[i] EXCEPT !.loading = TRUE, !.timers = @ + 1])

(* Other messages come, the older ones or not; a page that failed changes none. *)
MessagesChange(i) ==
    els[i].loading /\ Becomes(i, [els[i] EXCEPT !.loading = FALSE]) /\ UNCHANGED clicks

(* No timer is cleared: it may end a later loading than its own. *)
LoadTimer(i) ==
    /\ els[i].timers > 0
    /\ Becomes(i, [els[i] EXCEPT !.loading = FALSE, !.timers = @ - 1]) /\ UNCHANGED clicks

ToggleMenu(i) ==
    /\ Click /\ rail' = [rail EXCEPT ![i].menu = ~@] /\ UNCHANGED <<page, wide, els>>

\* A click outside the menu, or on one of its items
MenuCloses(i) ==
    /\ rail[i].menu /\ rail' = [rail EXCEPT ![i].menu = FALSE]
    /\ UNCHANGED <<page, wide, els, clicks>>

PanesNext ==
    \/ \E w \in Workspace : OpenWorkspace(w) \/ CloseWorkspace(w) \/ Appears(w)
    \/ Resize
    \/ \E i \in DOMAIN els : ToggleBrowser(i) \/ ToggleTodo(i) \/ LoadOlder(i)
                             \/ MessagesChange(i) \/ LoadTimer(i)
    \/ \E i \in DOMAIN els, w \in Workspace : PathResolved(i, w) \/ PathFails(i, w)
    \/ \E i \in DOMAIN rail : ToggleMenu(i) \/ MenuCloses(i)

PanesSpec == PanesInit /\ [][PanesNext]_paneVars

-----------------------------------------------------------------------------
\* renderFileBrowser: a path that was not resolved is the one the page has.
ShownFiles(el) == IF el.resolved = None THEN el.ws ELSE el.resolved

(* What an element shows in its file browser are the files of the workspace it
   shows, whatever places have shifted, unless the path came for the one it
   showed before. *)
FilesAreItsOwn ==
    \A i \in DOMAIN els : els[i].browser /\ ~els[i].crossed
        => ShownFiles(els[i]) = els[i].ws
=============================================================================
