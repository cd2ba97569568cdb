---------------------------- MODULE SharedView ----------------------------
(***************************************************************************)
(* One layout for all browser tabs (src/web/workspace-home.ts).  A tab     *)
(* starts from localStorage, asks the server for the shared view, loads    *)
(* the list of workspaces, connects its board socket, and from then on     *)
(* applies every frame of the socket and writes every change of its own    *)
(* layout back with a PUT.  The server stores a PUT, broadcasts it and     *)
(* answers it in separate steps, and keeps no order between two PUTs.      *)
(*                                                                         *)
(* The handlers of the tab run to completion, and Lit calls updated()      *)
(* before the next event: the write to localStorage and the PUT belong to  *)
(* the step that changes the page state.  What the handlers do to messages *)
(* is in PaneMessages, sockets and modes are in HomeLinks.                 *)
(***************************************************************************)
EXTENDS PageState

CONSTANTS
    Tab,
    Running,         \* the tabs that are open and idle at the start
    Boards,          \* the lists of workspaces the server may have
    FirstView,       \* the shared view and localStorage at the start
    MaxEvents,       \* clicks, changes of the list and failures together, by the
                     \* number of tabs somebody opens
    MaxBreaks        \* broken sockets and failed requests among them

BoundsAssumption == MaxBreaks \in Nat /\ MaxEvents \in [1 .. Cardinality(Tab) -> Nat]
BoardsAssumption ==
    /\ Boards \subseteq Seq(Entry)
    /\ \A b \in Boards : \A i, j \in DOMAIN b : b[i].id = b[j].id => i = j
FirstViewAssumption == FirstView \in View /\ Sound(FirstView)
RunningAssumption == Running \subseteq Tab

VARIABLES
    page,      \* pageState of every tab
    list,      \* workspaces
    sig,       \* lastPushedWorkspaceViewSignature: a view, or None for ""
    hydrated,  \* hasHydratedRemoteWorkspaceView
    phase,     \* how far initializeWorkspaceHome has come
    answer,    \* the shared view an answer in flight carries, or None
    load,      \* the list an answer in flight carries
    online,    \* the board socket is open
    inbox,     \* frames of the socket not handled yet
    seen,      \* workspaces whose request to be marked as seen is in flight
    storage,   \* localStorage, shared by the tabs
    view,      \* server: the row of the shared view
    board,     \* server: the list of workspaces
    puts,      \* PUTs under way, a sequence per tab
    events, breaks,
    calm,      \* history: no PUT failed and no two were under way together
    behind,    \* history: the tab missed a broadcast of the view
    shut       \* history: panes closed while their workspace asked for
               \* attention, which it has done in every list since

tabVars    == <<page, list, sig, hydrated, phase, answer, load, online, inbox, seen>>
serverVars == <<view, board>>
bounds     == <<events, breaks>>
history    == <<calm, behind, shut>>
vars == <<tabVars, storage, serverVars, puts, bounds, history>>

Put == [view : View, stage : {"sent", "stored", "told"}]
NoLoad == [stage |-> "none", list |-> <<>>]
Frame == [kind : {"view"}, view : View] \cup [kind : {"list"}, list : Boards]

ViewInit ==
    /\ storage = FirstView /\ view = FirstView
    /\ board \in {b \in Boards : ViewOf(Reconcile(ReadPersisted(FirstView), b)) = FirstView}
    /\ list = [t \in Tab |-> IF t \in Running THEN board ELSE <<>>]
    /\ page = [t \in Tab |-> Reconcile(ReadPersisted(FirstView), list[t])]
    /\ sig = [t \in Tab |-> IF t \in Running THEN FirstView ELSE None]
    /\ hydrated = [t \in Tab |-> t \in Running]
    /\ phase \in [Tab -> {"never", "closed", "up"}]
    /\ \A t \in Tab : phase[t] = "up" <=> t \in Running
    /\ answer = [t \in Tab |-> None]
    /\ load = [t \in Tab |-> NoLoad]
    /\ online = hydrated
    /\ inbox = [t \in Tab |-> <<>>]
    /\ seen = [t \in Tab |-> {}]
    /\ puts = [t \in Tab |-> <<>>]
    /\ events = 0 /\ breaks = 0
    /\ calm = TRUE
    /\ behind = [t \in Tab |-> FALSE]
    /\ shut = [t \in Tab |-> {}]

-----------------------------------------------------------------------------
(* Effects shared by the handlers *)

Room == events < MaxEvents[Cardinality({t \in Tab : phase[t] # "never"})]
Event == Room /\ events' = events + 1 /\ breaks' = breaks
Failure == Room /\ breaks < MaxBreaks /\ events' = events + 1 /\ breaks' = breaks + 1

NoPut == \A t \in Tab : puts[t] = <<>>

\* updated(): the page state p is written to localStorage and, unless it came
\* from the server, pushed when its signature is new.
Show(t, p, isRemote) ==
    /\ page' = [page EXCEPT ![t] = p]
    /\ storage' = ViewOf(p)
    /\ IF ~isRemote /\ hydrated[t] /\ ViewOf(p) # sig[t]
       THEN /\ sig' = [sig EXCEPT ![t] = ViewOf(p)]
            /\ puts' = [puts EXCEPT ![t] = Append(@, [view |-> ViewOf(p), stage |-> "sent"])]
            /\ calm' = (calm /\ NoPut)
       ELSE /\ sig' = IF isRemote THEN [sig EXCEPT ![t] = ViewOf(p)] ELSE sig
            /\ UNCHANGED <<puts, calm>>

ApplyView(t, v) ==
    /\ Show(t, WithRemote(page[t], v), TRUE)
    /\ hydrated' = [hydrated EXCEPT ![t] = TRUE]
    /\ shut' = [shut EXCEPT ![t] = @ \ ToSet(v.open)]

Asking(l) == {l[i].id : i \in {j \in DOMAIN l : IsAttention(l[j])}}

ApplyList(t, l) ==
    /\ list' = [list EXCEPT ![t] = PreserveOrder(@, l)]
    /\ Show(t, Reconcile(page[t], PreserveOrder(list[t], l)), FALSE)
    /\ shut' = [shut EXCEPT ![t] = @ \cap Asking(l)]

\* The hub queues a frame for every client that is registered.
Broadcast(frame) ==
    inbox' = [t \in Tab |-> IF online[t] THEN Append(inbox[t], frame) ELSE inbox[t]]

-----------------------------------------------------------------------------
(* Starting a tab *)

\* The server reads its row when the question reaches it: an answer may be old
\* by the time it arrives.
OpenTab(t) ==
    /\ phase[t] = "closed"
    /\ phase' = [phase EXCEPT ![t] = "asked"]
    /\ page' = [page EXCEPT ![t] = ReadPersisted(storage)]
    /\ answer' = [answer EXCEPT ![t] = view]
    /\ UNCHANGED <<list, sig, hydrated, load, online, inbox, seen, storage,
                   serverVars, puts, bounds, history>>

ViewArrives(t) ==
    /\ phase[t] = "asked"
    /\ ApplyView(t, answer[t])
    /\ phase' = [phase EXCEPT ![t] = "up"]
    /\ answer' = [answer EXCEPT ![t] = None]
    /\ load' = [load EXCEPT ![t] = [stage |-> "answered", list |-> board]]
    /\ UNCHANGED <<list, online, inbox, seen, serverVars, bounds, behind>>

\* Without an answer the tab goes on with what localStorage held.
ViewFails(t) ==
    /\ phase[t] = "asked"
    /\ Failure
    /\ hydrated' = [hydrated EXCEPT ![t] = TRUE]
    /\ phase' = [phase EXCEPT ![t] = "up"]
    /\ answer' = [answer EXCEPT ![t] = None]
    /\ load' = [load EXCEPT ![t] = [stage |-> "answered", list |-> board]]
    /\ behind' = [behind EXCEPT ![t] = TRUE]
    /\ UNCHANGED <<page, list, sig, online, inbox, seen, storage, serverVars,
                   puts, calm, shut>>

ListArrives(t) ==
    /\ load[t].stage = "answered"
    /\ ApplyList(t, load[t].list)
    /\ load' = [load EXCEPT ![t] = NoLoad]
    /\ UNCHANGED <<hydrated, phase, answer, online, inbox, seen, serverVars, bounds,
                   behind>>

ListFails(t) ==
    /\ load[t].stage = "answered"
    /\ Failure
    /\ load' = [load EXCEPT ![t] = NoLoad]
    /\ UNCHANGED <<page, list, sig, hydrated, phase, answer, online, inbox, seen,
                   storage, serverVars, puts, history>>

-----------------------------------------------------------------------------
(* The board socket *)

Connect(t) ==
    /\ phase[t] = "up" /\ load[t].stage = "none" /\ ~online[t]
    /\ online' = [online EXCEPT ![t] = TRUE]
    /\ UNCHANGED <<page, list, sig, hydrated, phase, answer, load, inbox, seen, storage,
                   serverVars, puts, bounds, history>>

\* onClose loads the list again and lets a timer reconnect; nothing asks for
\* the shared view again.
SocketBreaks(t) ==
    /\ online[t] /\ load[t].stage = "none"
    /\ Failure
    /\ online' = [online EXCEPT ![t] = FALSE]
    /\ inbox' = [inbox EXCEPT ![t] = <<>>]
    /\ load' = [load EXCEPT ![t] = [stage |-> "answered", list |-> board]]
    /\ behind' = [behind EXCEPT ![t] =
                    @ \/ \E i \in DOMAIN inbox[t] : inbox[t][i].kind = "view"]
    /\ UNCHANGED <<page, list, sig, hydrated, phase, answer, seen, storage, serverVars,
                   puts, calm, shut>>

ViewFrame(t) ==
    /\ inbox[t] # <<>> /\ Head(inbox[t]).kind = "view"
    /\ ApplyView(t, Head(inbox[t]).view)
    /\ inbox' = [inbox EXCEPT ![t] = Tail(@)]
    /\ behind' = [behind EXCEPT ![t] = FALSE]
    /\ UNCHANGED <<list, phase, answer, load, online, seen, serverVars, bounds>>

ListFrame(t) ==
    /\ inbox[t] # <<>> /\ Head(inbox[t]).kind = "list"
    /\ ApplyList(t, Head(inbox[t]).list)
    /\ inbox' = [inbox EXCEPT ![t] = Tail(@)]
    /\ UNCHANGED <<hydrated, phase, answer, load, online, seen, serverVars, bounds,
                   behind>>

-----------------------------------------------------------------------------
(* The user *)

\* A click on the card of a workspace, in one of the sections of the sidebar.
OpenWorkspace(t, w) ==
    /\ Event
    /\ Show(t, OpenPane(page[t], w.id), FALSE)
    /\ seen' = IF w.unseen THEN [seen EXCEPT ![t] = @ \cup {w.id}] ELSE seen
    /\ shut' = [shut EXCEPT ![t] = @ \ {w.id}]
    /\ UNCHANGED <<list, hydrated, phase, answer, load, online, inbox, serverVars,
                   behind>>

\* The answer of the request to mark a workspace as seen: only the flag of the
\* list changes, needs_attention stays.
SeenAnswered(t, id) ==
    /\ id \in seen[t]
    /\ seen' = [seen EXCEPT ![t] = @ \ {id}]
    /\ \/ list' = [list EXCEPT ![t] =
                     [i \in DOMAIN @ |-> IF @[i].id = id
                                         THEN [@[i] EXCEPT !.unseen = FALSE] ELSE @[i]]]
       \/ list' = list      \* the request failed
    /\ UNCHANGED <<page, sig, hydrated, phase, answer, load, online, inbox, storage,
                   serverVars, puts, bounds, history>>

CloseWorkspace(t, i) ==
    LET w == list[t][i]
        keep == w.needs \/ w.approval \/ w.unseen
    IN  /\ Event
        /\ Contains(page[t].open, w.id)
        /\ Show(t, DismissPane(page[t], w.id, keep), FALSE)
        /\ shut' = IF keep /\ IsAttention(w) THEN [shut EXCEPT ![t] = @ \cup {w.id}]
                                             ELSE shut
        /\ UNCHANGED <<list, hydrated, phase, answer, load, online, inbox, seen,
                       serverVars, behind>>

-----------------------------------------------------------------------------
(* The server *)

Advance(t, i, stage) ==
    puts' = [puts EXCEPT ![t] = [@ EXCEPT ![i].stage = stage]]

PutStored(t, i) ==
    /\ puts[t][i].stage = "sent"
    /\ view' = puts[t][i].view
    /\ Advance(t, i, "stored")
    /\ UNCHANGED <<tabVars, storage, board, bounds, history>>

\* The broadcast carries what the request carried, not what is stored by now.
PutTold(t, i) ==
    /\ puts[t][i].stage = "stored"
    /\ Broadcast([kind |-> "view", view |-> puts[t][i].view])
    /\ Advance(t, i, "told")
    /\ behind' = [s \in Tab |->
                    behind[s] \/ (phase[s] \in {"asked", "up"} /\ ~online[s])]
    /\ UNCHANGED <<page, list, sig, hydrated, phase, answer, load, online, seen, storage,
                   serverVars, bounds, calm, shut>>

PutAnswered(t, i) ==
    /\ puts[t][i].stage = "told"
    /\ sig' = [sig EXCEPT ![t] = puts[t][i].view]
    /\ puts' = [puts EXCEPT ![t] = RemoveAt(@, i)]
    /\ UNCHANGED <<page, list, hydrated, phase, answer, load, online, inbox, seen,
                   storage, serverVars, bounds, history>>

\* A request that fails before or after it was stored is not repeated.
PutFails(t, i) ==
    /\ puts[t][i].stage \in {"sent", "stored"}
    /\ Failure
    /\ sig' = [sig EXCEPT ![t] = None]
    /\ puts' = [puts EXCEPT ![t] = RemoveAt(@, i)]
    /\ calm' = FALSE
    /\ UNCHANGED <<page, list, hydrated, phase, answer, load, online, inbox, seen,
                   storage, serverVars, behind, shut>>

BoardChanges ==
    /\ Event
    /\ \E b \in Boards \ {board} :
          board' = b /\ Broadcast([kind |-> "list", list |-> b])
    /\ UNCHANGED <<page, list, sig, hydrated, phase, answer, load, online, seen, storage,
                   view, puts, history>>

-----------------------------------------------------------------------------

TabNext(t) ==
    \/ OpenTab(t) \/ ViewArrives(t) \/ ViewFails(t)
    \/ ListArrives(t) \/ ListFails(t)
    \/ Connect(t) \/ SocketBreaks(t) \/ ViewFrame(t) \/ ListFrame(t)
    \/ \E key \in {"attention", "running", "idle"} :
          \E i \in DOMAIN Sections(list[t])[key] : OpenWorkspace(t, Sections(list[t])[key][i])
    \/ \E i \in DOMAIN list[t] : CloseWorkspace(t, i)
    \/ \E id \in seen[t] : SeenAnswered(t, id)
    \/ \E i \in DOMAIN puts[t] : PutStored(t, i)
    \/ \E i \in DOMAIN puts[t] : PutTold(t, i)
    \/ \E i \in DOMAIN puts[t] : PutAnswered(t, i)
    \/ \E i \in DOMAIN puts[t] : PutFails(t, i)

Quiet ==
    /\ NoPut
    /\ \A t \in Tab : /\ inbox[t] = <<>> /\ seen[t] = {}
                      /\ phase[t] # "asked" /\ load[t].stage = "none"
                      /\ phase[t] = "up" => online[t]

\* When nothing is under way a page may stay as it is for good.
Rest == Quiet /\ UNCHANGED vars

ViewNext == BoardChanges \/ Rest \/ \E t \in Tab : TabNext(t)

ViewSpec == ViewInit /\ [][ViewNext]_vars

-----------------------------------------------------------------------------
(* Properties *)

\* The page of a tab never shows more panes than fit, nor a pane twice, and the
\* pane that gets the live messages is one of them: over clicks, lists, frames
\* of other tabs and answers that come late.
PagesAreSound == \A t \in Tab : Sound(page[t])

\* A pane the user put away while its workspace asked for attention stays away
\* as long as it goes on asking, unless another tab shows it.
PutAwayStaysAway ==
    \A t \in Tab : shut[t] \cap ToSet(page[t].open) = {}

\* Once nothing is under way the tabs that missed no broadcast show the shared
\* view, provided that no two PUTs were under way together and none failed.
QuietTabsAgree ==
    (Quiet /\ calm) =>
        \A t \in Tab : (phase[t] = "up" /\ ~behind[t]) => ViewOf(page[t]) = view

\* What the design document says of the shared view: every tab that is online
\* ends up with the last view that was stored.
OnlineTabsConverge ==
    Quiet => \A t \in Tab : (phase[t] = "up" /\ ~behind[t]) => ViewOf(page[t]) = view
=============================================================================
