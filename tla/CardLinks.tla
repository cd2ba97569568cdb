------------------------------ MODULE CardLinks ------------------------------
(***************************************************************************)
(* How the dashboard card (src/kanban-watcher-card.ts) keeps its list and   *)
(* its open dialog up to date: the boot, the board socket or the poll that  *)
(* replaces it, and the session socket of the dialog or the poll that       *)
(* replaces that one.                                                       *)
(*                                                                         *)
(* One workspace is followed.  Its session is a number, 0 is none: a card   *)
(* whose list is empty knows no session.  Requests are boots, which load    *)
(* the address, then the list, and then connect; and lists alone.           *)
(***************************************************************************)
EXTENDS Integers, Sequences, SequencesExt

CONSTANTS
    MaxSessions,   \* sessions of the workspace
    MaxAsks,       \* boots and lists
    MaxBreaks      \* broken sockets and failed lists

CardBoundsAssumption == {MaxSessions, MaxAsks, MaxBreaks} \subseteq Nat

VARIABLES
    session,       \* server: the session of the workspace
    attached,      \* isConnected
    blocked,       \* apiAccessBlocked
    listed,        \* apiWorkspaces: the session of the workspace, 0 without it
    selected,      \* selectedWorkspaceId is set
    board,         \* boardRealtimeSocket: "none", "connecting", "open", "closed"
    boardOn,       \* boardRealtimeConnected
    polling,       \* refreshTimer
    boardRetry,    \* boardRealtimeRetryTimer
    pane,          \* realtimeSocket, with the session it was opened for
    paneOn,        \* realtimeConnected
    dialogPolling, \* dialogRefreshTimer
    paneRetry,     \* realtimeRetryTimer
    strays,        \* sockets that no field holds any longer
    asks,          \* requests under way: "info", "boot list" or "list"
    asked, breaks,
    overlapped,    \* history: two boots were under way together, or a list
                   \* was refused beside another request
    severed        \* history: the sync was stopped under an open dialog, or
                   \* an answer came to a card that was taken away

boardVars == <<board, boardOn, polling, boardRetry>>
paneVars  == <<pane, paneOn, dialogPolling, paneRetry>>
cardVars  == <<session, attached, blocked, listed, selected, boardVars, paneVars,
               strays, asks, asked, breaks, overlapped, severed>>

Closed == [state |-> "none", of |-> 0]

CardInit ==
    /\ session = 1 /\ attached = FALSE /\ blocked = FALSE /\ listed = 0 /\ selected = FALSE
    /\ board = "none" /\ boardOn = FALSE /\ polling = FALSE /\ boardRetry = FALSE
    /\ pane = Closed /\ paneOn = FALSE /\ dialogPolling = FALSE /\ paneRetry = FALSE
    /\ strays = 0 /\ asks = <<>> /\ asked = 0 /\ breaks = 0
    /\ overlapped = FALSE /\ severed = FALSE

-----------------------------------------------------------------------------
(* The sockets and the polls *)

\* getSelectedWorkspaceSessionId
SelectedSession(open, known) == IF open THEN known ELSE 0

\* connectRealtimeIfNeeded, after restartRealtimeConnection closed the socket
\* that was there: what is connected is known again when the new one opens.
RestartPane(to, refused) ==
    IF refused \/ to = 0
    THEN /\ pane' = Closed
         /\ paneOn' = (paneOn /\ refused)
    ELSE /\ pane' = [state |-> "connecting", of |-> to]
         /\ UNCHANGED paneOn

\* updateDialogPolling, with what was connected then.
UpdateDialogPolling(on, open) == dialogPolling' = (open /\ ~on)

\* Mutant: the dialog follows its new session without falling back to polls.
Follow_Bare(open, to, refused) ==
    IF SelectedSession(open, to) = SelectedSession(selected, listed)
    THEN UNCHANGED paneVars
    ELSE /\ RestartPane(SelectedSession(open, to), refused)
         /\ UNCHANGED <<dialogPolling, paneRetry>>

\* updated(): the dialog, or the session of its workspace, is another one.
Follow(open, to, refused) ==
    IF SelectedSession(open, to) = SelectedSession(selected, listed)
    THEN UNCHANGED paneVars
    ELSE /\ RestartPane(SelectedSession(open, to), refused)
         /\ UpdateDialogPolling(paneOn', open)
         /\ UNCHANGED paneRetry

Ask(what) ==
    /\ asked < MaxAsks
    /\ asked' = asked + 1
    /\ asks' = Append(asks, what)

Boots == {i \in DOMAIN asks : asks[i] \in {"info", "boot list"}}

\* stopApiSync
StopSync ==
    /\ polling' = FALSE /\ dialogPolling' = FALSE
    /\ boardRetry' = FALSE /\ paneRetry' = FALSE
    /\ board' = "none" /\ boardOn' = FALSE
    /\ pane' = Closed /\ paneOn' = FALSE

-----------------------------------------------------------------------------
(* The card on its page *)

\* startApiSyncIfNeeded; nothing takes back a boot that is under way.
Start ==
    /\ StopSync
    /\ Ask("info")
    /\ overlapped' = (overlapped \/ Boots # {})
    /\ severed' = (SelectedSession(selected, listed) # 0)

\* connectedCallback
Attach ==
    /\ ~attached
    /\ attached' = TRUE
    /\ Start
    /\ UNCHANGED <<session, blocked, listed, selected, strays, breaks>>

\* setConfig of a card that is on a page.
Configure ==
    /\ attached
    /\ Start
    /\ UNCHANGED <<session, attached, blocked, listed, selected, strays, breaks>>

\* disconnectedCallback
Detach ==
    /\ attached
    /\ attached' = FALSE
    /\ StopSync
    /\ severed' = (severed \/ asks # <<>>)
    /\ UNCHANGED <<session, blocked, listed, selected, strays, asks, asked, breaks, overlapped>>

\* openWorkspaceDialog
OpenDialog ==
    /\ attached /\ ~selected /\ listed # 0
    /\ selected' = TRUE
    /\ Follow(TRUE, listed, blocked)
    /\ UNCHANGED <<session, attached, blocked, listed, boardVars, strays, asks, asked,
                   breaks, overlapped, severed>>

\* closeWorkspaceDialog
CloseDialog ==
    /\ selected
    /\ selected' = FALSE
    /\ Follow(FALSE, listed, blocked)
    /\ severed' = (severed /\ ~attached)
    /\ UNCHANGED <<session, attached, blocked, listed, boardVars, strays, asks, asked,
                   breaks, overlapped>>

-----------------------------------------------------------------------------
(* Requests *)

\* connectBoardRealtimeIfNeeded: the field is overwritten.
ConnectBoard(held) ==
    /\ board' = "connecting"
    /\ strays' = strays + (IF held \in {"connecting", "open"} THEN 1 ELSE 0)

\* loadVibeInfo; its failure is an answer too.
InfoArrives(i) ==
    /\ asks[i] = "info"
    /\ asks' = [asks EXCEPT ![i] = "boot list"]
    /\ UNCHANGED <<session, attached, blocked, listed, selected, boardVars, paneVars,
                   strays, asked, breaks, overlapped, severed>>

\* The end of initializeApiSync.
Boot(i, access) ==
    IF asks[i] = "boot list" /\ attached /\ access
    THEN ConnectBoard(board) /\ polling' = TRUE
    ELSE UNCHANGED <<board, strays, polling>>

\* loadActiveWorkspaces
ListArrives(i) ==
    /\ asks[i] \in {"boot list", "list"}
    /\ asks' = RemoveAt(asks, i)
    /\ listed' = session /\ blocked' = FALSE
    /\ Follow(selected, session, FALSE)
    /\ Boot(i, TRUE)
    /\ UNCHANGED <<session, attached, selected, boardOn, boardRetry, asked, breaks,
                   overlapped, severed>>

\* A failure empties the board; a boot connects all the same.
ListFails(i) ==
    /\ asks[i] \in {"boot list", "list"}
    /\ breaks < MaxBreaks /\ breaks' = breaks + 1
    /\ asks' = RemoveAt(asks, i)
    /\ listed' = 0
    /\ Follow(selected, 0, blocked)
    /\ Boot(i, ~blocked)
    /\ UNCHANGED <<session, attached, blocked, selected, boardOn, boardRetry, asked,
                   overlapped, severed>>

\* isUnauthorizedError: everything stops, and updated() finds no session.
ListRefused(i) ==
    /\ asks[i] \in {"boot list", "list"}
    /\ breaks < MaxBreaks /\ breaks' = breaks + 1
    /\ asks' = RemoveAt(asks, i)
    /\ listed' = 0 /\ blocked' = TRUE
    /\ polling' = FALSE /\ boardRetry' = FALSE /\ paneRetry' = FALSE
    /\ board' = "none" /\ boardOn' = FALSE /\ pane' = Closed /\ paneOn' = FALSE
    /\ dialogPolling' = (SelectedSession(selected, listed) # 0)
    /\ overlapped' = (overlapped \/ Len(asks) > 1)
    /\ UNCHANGED <<session, attached, selected, strays, asked, severed>>

\* The timer of startBoardPolling.
Poll ==
    /\ polling
    /\ Ask("list")
    /\ UNCHANGED <<session, attached, blocked, listed, selected, boardVars, paneVars,
                   strays, breaks, overlapped, severed>>

-----------------------------------------------------------------------------
(* The board socket *)

BoardOpens ==
    /\ attached /\ board = "connecting"
    /\ board' = "open" /\ boardOn' = TRUE
    /\ polling' = FALSE /\ boardRetry' = FALSE
    /\ UNCHANGED <<session, attached, blocked, listed, selected, paneVars, strays, asks,
                   asked, breaks, overlapped, severed>>

\* Mutant: a socket that was lost is only opened again.
FallBack_Bare == boardRetry' = ~blocked /\ UNCHANGED polling

\* onClose falls back to polls and schedules a new socket.
FallBack == polling' = TRUE /\ boardRetry' = (boardRetry \/ ~blocked)

\* The error and the close event of one socket both end here.
BoardCloses ==
    /\ attached /\ board # "none"
    /\ breaks < MaxBreaks /\ breaks' = breaks + 1
    /\ board' = "closed" /\ boardOn' = FALSE
    /\ Ask("list")
    /\ FallBack
    /\ UNCHANGED <<session, attached, blocked, listed, selected, paneVars, strays,
                   overlapped, severed>>

\* scheduleBoardRealtimeReconnect closes what is held and connects.
BoardRetry ==
    /\ boardRetry
    /\ boardRetry' = FALSE
    /\ IF blocked THEN board' = "none" /\ UNCHANGED strays ELSE ConnectBoard("none")
    /\ UNCHANGED <<session, attached, blocked, listed, selected, boardOn, polling, paneVars,
                   asks, asked, breaks, overlapped, severed>>

\* handleRealtimeEvent, a workspace_snapshot.
Snapshot ==
    /\ attached /\ board = "open" /\ listed # session
    /\ listed' = session
    /\ Follow(selected, session, blocked)
    /\ UNCHANGED <<session, attached, blocked, selected, boardVars, strays, asks, asked,
                   breaks, overlapped, severed>>

SessionChanges ==
    /\ session < MaxSessions
    /\ session' = session + 1
    /\ UNCHANGED <<attached, blocked, listed, selected, boardVars, paneVars, strays, asks,
                   asked, breaks, overlapped, severed>>

-----------------------------------------------------------------------------
(* The session socket of the dialog *)

PaneOpens ==
    /\ attached /\ pane.state = "connecting"
    /\ pane' = [pane EXCEPT !.state = "open"]
    /\ paneOn' = TRUE /\ dialogPolling' = FALSE /\ paneRetry' = FALSE
    /\ UNCHANGED <<session, attached, blocked, listed, selected, boardVars, strays, asks,
                   asked, breaks, overlapped, severed>>

PaneCloses ==
    /\ attached /\ pane.state # "none"
    /\ breaks < MaxBreaks /\ breaks' = breaks + 1
    /\ pane' = [pane EXCEPT !.state = "closed"]
    /\ paneOn' = FALSE
    /\ UpdateDialogPolling(FALSE, selected)
    /\ paneRetry' = (paneRetry \/ ~blocked)
    /\ UNCHANGED <<session, attached, blocked, listed, selected, boardVars, strays, asks,
                   asked, overlapped, severed>>

\* The timer of scheduleRealtimeReconnect, for whatever is selected by then.
PaneRetry ==
    /\ paneRetry
    /\ paneRetry' = FALSE
    /\ RestartPane(SelectedSession(selected, listed), blocked)
    /\ UNCHANGED <<session, attached, blocked, listed, selected, boardVars, dialogPolling,
                   strays, asks, asked, breaks, overlapped, severed>>

-----------------------------------------------------------------------------

CardNext ==
    \/ Attach \/ Configure \/ Detach \/ OpenDialog \/ CloseDialog
    \/ \E i \in DOMAIN asks :
          InfoArrives(i) \/ ListArrives(i) \/ ListFails(i) \/ ListRefused(i)
    \/ Poll \/ BoardOpens \/ BoardCloses \/ BoardRetry \/ Snapshot \/ SessionChanges
    \/ PaneOpens \/ PaneCloses \/ PaneRetry

CardSpec == CardInit /\ [][CardNext]_cardVars

-----------------------------------------------------------------------------
(* Properties *)

\* The board of a card that has booted and is not refused is watched at every
\* moment: by an open socket or by polls, whatever broke, was retried or was
\* set up again before, unless two boots overlapped; and no socket is left that
\* nobody closes.
BoardIsWatched ==
    (attached /\ ~overlapped) =>
        /\ strays = 0
        /\ (Boots = {} /\ ~blocked) => polling \/ (boardOn /\ board = "open")

\* So is an open dialog: its session socket is the one of the session that is
\* listed, and it is open, or on its way after another one was, or the dialog
\* is polled.
DialogIsWatched ==
    (attached /\ ~severed /\ ~blocked /\ SelectedSession(selected, listed) # 0) =>
        \/ dialogPolling
        \/ pane.of = listed /\ paneOn /\ pane.state \in {"connecting", "open"}
=============================================================================
