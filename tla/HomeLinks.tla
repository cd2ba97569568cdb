---------------------------- MODULE HomeLinks ----------------------------
(***************************************************************************)
(* The connections of the workspace page (src/web/workspace-home.ts): what *)
(* starts when the element is attached or the window is resized, the board *)
(* socket, the session socket of the active pane, their retry timers, and  *)
(* what a refused request stops.                                           *)
(*                                                                         *)
(* A socket is known by the state of the field that refers to it; sockets  *)
(* the page has lost sight of are counted as strays.  A socket that fails  *)
(* has two events, error and close, and connectRealtime calls onClose for  *)
(* both.  Handlers of a socket that is not in its field do nothing.        *)
(***************************************************************************)
EXTENDS Integers, FiniteSets

CONSTANTS
    Session,
    NoSession,     \* no pane is active, or its workspace has no session
    MaxTasks,      \* loads under way at the same time
    MaxFailures,   \* broken sockets, failed and refused requests
    MaxMoves       \* resizes and changes of the active session

LinkBoundsAssumption == {MaxTasks, MaxFailures, MaxMoves} \subseteq Nat
SessionAssumption == NoSession \notin Session

VARIABLES
    mode,          \* "desktop" or "mobile"
    attached,      \* isConnected
    tasks,         \* loads under way, by the answer they wait for
    blocked,       \* apiAccessBlocked
    boardLink,     \* boardRealtimeSocket
    boardTimer,    \* boardRealtimeRetryTimer is set
    paneLink,      \* realtimeSocket, and the session it asked for
    paneTimer,     \* realtimeRetryTimer is set
    active,        \* the session of the active pane
    strays,        \* sockets that live and are in no field
    failures, moves,
    refused,       \* history: the server refused a request
    left,          \* history: the page was narrow once
    tangled        \* history: a load was under way when the page became
                   \* narrow or was detached, or when a second boot began

links == <<boardLink, boardTimer, paneLink, paneTimer, strays>>
past  == <<failures, moves, refused, left, tangled>>
linkVars == <<mode, attached, tasks, blocked, links, active, past>>

\* The answers initializeWorkspaceHome waits for, in order; the last two are
\* loadWorkspaces, which runs alone after a board socket has closed.
Stages == {"info", "view", "boot list", "boot panes", "list", "panes"}
SocketState == {"none", "connecting", "open", "error", "closed"}
Live == {"connecting", "open"}

LinksInit ==
    /\ mode \in {"desktop", "mobile"}
    /\ attached = TRUE
    /\ tasks = [s \in Stages |-> IF s = "info" /\ mode = "desktop" THEN 1 ELSE 0]
    /\ blocked = FALSE
    /\ boardLink = "none" /\ boardTimer = FALSE
    /\ paneLink = [state |-> "none", of |-> NoSession] /\ paneTimer = FALSE
    /\ active = NoSession
    /\ strays = 0
    /\ failures = 0 /\ moves = 0
    /\ refused = FALSE /\ left = (mode = "mobile") /\ tangled = FALSE

Busy == \E s \in Stages : tasks[s] > 0
Total == tasks["info"] + tasks["view"] + tasks["boot list"] + tasks["boot panes"]
            + tasks["list"] + tasks["panes"]

Begin(stage) == tasks' = [tasks EXCEPT ![stage] = @ + 1]
End(stage)   == tasks' = [tasks EXCEPT ![stage] = @ - 1]
Turn(from, to) == tasks' = [tasks EXCEPT ![from] = @ - 1, ![to] = @ + 1]

Failing == failures < MaxFailures /\ failures' = failures + 1

-----------------------------------------------------------------------------
(* Helpers of the page *)

\* Mutant: only the board is given up.
StopSync_Board ==
    /\ boardTimer' = FALSE /\ paneTimer' = FALSE
    /\ boardLink' = "none"
    /\ UNCHANGED paneLink

\* stopRealtimeSync
StopSync ==
    /\ boardTimer' = FALSE /\ paneTimer' = FALSE
    /\ boardLink' = "none"
    /\ paneLink' = [state |-> "none", of |-> NoSession]

\* connectBoardRealtimeIfNeeded puts a new socket in the field; one that is
\* there already is not closed.
ConnectBoard(current) ==
    /\ boardLink' = IF blocked' THEN current ELSE "connecting"
    /\ strays' = IF ~blocked' /\ current \in Live THEN strays + 1 ELSE strays

\* restartRealtimeConnection closes the old socket first.
PaneSocket(session, isBlocked) ==
    IF isBlocked \/ session = NoSession
    THEN [state |-> "none", of |-> NoSession]
    ELSE [state |-> "connecting", of |-> session]

\* updated() compares the sessions of the active pane before and after.
FollowSession(session) ==
    /\ active' = session
    /\ paneLink' = IF session # active THEN PaneSocket(session, blocked) ELSE paneLink

-----------------------------------------------------------------------------
(* Loads *)

\* loadVibeInfo and hydrateRemoteWorkspaceView go on whatever the answer is.
InfoArrives ==
    /\ tasks["info"] > 0
    /\ Turn("info", "view")
    /\ UNCHANGED <<mode, attached, blocked, links, active, past>>

RemoteViewArrives ==
    /\ tasks["view"] > 0
    /\ Turn("view", "boot list")
    /\ \E s \in Session \cup {NoSession} : FollowSession(s)
    /\ UNCHANGED <<mode, attached, blocked, boardLink, boardTimer, paneTimer, strays, past>>

AfterList(stage) == IF stage = "boot list" THEN "boot panes" ELSE "panes"

\* The list is shown, which may change the active session, and the messages of
\* the open panes are asked for.
WorkspacesArrive(stage) ==
    /\ stage \in {"boot list", "list"} /\ tasks[stage] > 0
    /\ Turn(stage, AfterList(stage))
    /\ \E s \in Session \cup {NoSession} : FollowSession(s)
    /\ UNCHANGED <<mode, attached, blocked, boardLink, boardTimer, paneTimer, strays, past>>

\* Their answers end loadWorkspaces; a boot then connects the board socket.
PanesArrive(stage) ==
    /\ stage \in {"boot panes", "panes"} /\ tasks[stage] > 0
    /\ End(stage)
    /\ blocked' = FALSE
    /\ IF stage = "boot panes" THEN ConnectBoard(boardLink) ELSE UNCHANGED <<boardLink, strays>>
    /\ UNCHANGED <<mode, attached, boardTimer, paneLink, paneTimer, active, past>>

\* Any other error than a refusal is shown and forgotten.
WorkspacesFail(stage) ==
    /\ stage \in {"boot list", "list"} /\ tasks[stage] > 0
    /\ Failing
    /\ End(stage)
    /\ UNCHANGED blocked
    /\ IF stage = "boot list" THEN ConnectBoard(boardLink) ELSE UNCHANGED <<boardLink, strays>>
    /\ UNCHANGED <<mode, attached, boardTimer, paneLink, paneTimer, active, moves,
                   refused, left, tangled>>

WorkspacesRefused(stage) ==
    /\ stage \in {"boot list", "list"} /\ tasks[stage] > 0
    /\ Failing
    /\ End(stage)
    /\ blocked' = TRUE
    /\ refused' = TRUE
    /\ StopSync
    /\ UNCHANGED <<mode, attached, active, strays, moves, left, tangled>>

-----------------------------------------------------------------------------
(* The board socket *)

\* Mutant: a failed board socket is not connected again.
ScheduleBoard_Never == boardTimer' = boardTimer

\* scheduleBoardRealtimeReconnect
ScheduleBoard == boardTimer' = (boardTimer \/ ~blocked)

BoardOpens ==
    /\ boardLink = "connecting"
    /\ boardLink' = "open"
    /\ boardTimer' = (boardTimer /\ ~attached)
    /\ UNCHANGED <<mode, attached, tasks, blocked, paneLink, paneTimer, strays, active, past>>

BoardFails(next) ==
    /\ boardLink \in Live \/ (boardLink = "error" /\ next = "closed")
    /\ next \in {"error", "closed"}
    /\ IF boardLink = "error" THEN UNCHANGED failures ELSE Failing
    /\ boardLink' = next
    /\ IF attached THEN Total < MaxTasks /\ Begin("list") /\ ScheduleBoard
                   ELSE UNCHANGED <<tasks, boardTimer>>
    /\ UNCHANGED <<mode, attached, blocked, paneLink, paneTimer, strays, active, moves,
                   refused, left, tangled>>

\* The timer closes the socket that is in the field, whatever its state, and
\* connects another one.
BoardRetry ==
    /\ boardTimer
    /\ boardTimer' = FALSE
    /\ UNCHANGED blocked
    /\ ConnectBoard("none")
    /\ UNCHANGED <<mode, attached, tasks, paneLink, paneTimer, active, past>>

-----------------------------------------------------------------------------
(* The session socket of the active pane *)

\* scheduleRealtimeReconnect
SchedulePane == paneTimer' = (paneTimer \/ ~blocked)

PaneOpens ==
    /\ paneLink.state = "connecting"
    /\ paneLink' = [paneLink EXCEPT !.state = "open"]
    /\ paneTimer' = (paneTimer /\ ~attached)
    /\ UNCHANGED <<mode, attached, tasks, blocked, boardLink, boardTimer, strays, active, past>>

PaneFails(next) ==
    /\ paneLink.state \in Live \/ (paneLink.state = "error" /\ next = "closed")
    /\ next \in {"error", "closed"}
    /\ IF paneLink.state = "error" THEN UNCHANGED failures ELSE Failing
    /\ paneLink' = [paneLink EXCEPT !.state = next]
    /\ IF attached THEN SchedulePane ELSE UNCHANGED paneTimer
    /\ UNCHANGED <<mode, attached, tasks, blocked, boardLink, boardTimer, strays, active,
                   moves, refused, left, tangled>>

PaneRetry ==
    /\ paneTimer
    /\ paneTimer' = FALSE
    /\ paneLink' = PaneSocket(active, blocked)
    /\ UNCHANGED <<mode, attached, tasks, blocked, boardLink, boardTimer, strays, active, past>>

-----------------------------------------------------------------------------
(* The user and the window *)

Move == attached /\ moves < MaxMoves /\ moves' = moves + 1

\* Another pane becomes active, or its workspace gets another session.
SessionChanges ==
    /\ Move /\ mode = "desktop"
    /\ \E s \in (Session \cup {NoSession}) \ {active} : FollowSession(s)
    /\ UNCHANGED <<mode, attached, tasks, blocked, boardLink, boardTimer, paneTimer,
                   strays, failures, refused, left, tangled>>

BecomesNarrow ==
    /\ Move /\ mode = "desktop"
    /\ mode' = "mobile"
    /\ StopSync
    /\ left' = TRUE
    /\ tangled' = (tangled \/ Busy)
    /\ UNCHANGED <<attached, tasks, blocked, strays, active, failures, refused>>

BecomesWide ==
    /\ Move /\ mode = "mobile" /\ Total < MaxTasks
    /\ mode' = "desktop"
    /\ Begin("info")
    /\ tangled' = (tangled \/ Busy)
    /\ UNCHANGED <<attached, blocked, links, active, failures, refused, left>>

Detach ==
    /\ Move
    /\ attached' = FALSE
    /\ StopSync
    /\ tangled' = (tangled \/ Busy)
    /\ UNCHANGED <<mode, tasks, blocked, strays, active, failures, refused, left>>

-----------------------------------------------------------------------------

Answers ==
    \/ InfoArrives \/ RemoteViewArrives
    \/ \E stage \in Stages : WorkspacesArrive(stage) \/ PanesArrive(stage)

LinksNext ==
    \/ Answers
    \/ \E stage \in Stages : WorkspacesFail(stage) \/ WorkspacesRefused(stage)
    \/ BoardOpens \/ BoardRetry \/ PaneOpens \/ PaneRetry
    \/ \E next \in {"error", "closed"} : BoardFails(next) \/ PaneFails(next)
    \/ SessionChanges \/ BecomesNarrow \/ BecomesWide \/ Detach

\* Requests are answered, timers run out and a socket that connects opens,
\* when nothing fails any more.
LinksFairness ==
    /\ WF_linkVars(Answers)
    /\ WF_linkVars(BoardOpens) /\ WF_linkVars(BoardRetry)
    /\ WF_linkVars(PaneOpens) /\ WF_linkVars(PaneRetry)

LinksSpec == LinksInit /\ [][LinksNext]_linkVars /\ LinksFairness

-----------------------------------------------------------------------------
(* Properties *)

\* A page that was left in peace while it loaded never loses sight of a socket,
\* and has none while it is narrow or after it was detached: over broken
\* sockets, timers that run out late, and refused requests.
NoStraySockets ==
    ~tangled =>
        /\ strays = 0
        /\ (mode = "mobile" \/ ~attached) =>
              boardLink \notin Live /\ paneLink.state \notin Live

\* A page that stays wide and is never refused ends up with an open board
\* socket, however often the socket broke, a list failed, or the page was
\* resized before.
BoardRecovers ==
    <>[](mode = "desktop" /\ attached /\ ~refused) => <>[](boardLink = "open")

\* The same for the session socket, on a page that was wide from the start.
PaneRecovers ==
    <>[](mode = "desktop" /\ attached /\ ~refused /\ ~left /\ active # NoSession)
        => <>[](paneLink.state = "open")
=============================================================================
