------------------------------- MODULE MCHome -------------------------------
(* Small instances of two parts of the workspace page that share no state, its
   sockets and its development servers.  A behaviour takes one of them, so that the
   states to explore are those of one and those of the other. *)
EXTENDS Integers, Sequences

CONSTANTS
    Session, NoSession, MaxTasks, MaxFailures, MaxMoves,
    MaxStarts, MaxJobs, MaxErrors

VARIABLES
    part,      \* the part that moves
    mode, attached, tasks, blocked, boardLink, boardTimer, paneLink, paneTimer, active,
    strays, failures, moves, refused, left, tangled,
    live, made, present, known, shownIn, starting, stopping, procId, procStatus, fallback,
    preview, told, jobs, begun, errors, crossed

linkVars == <<mode, attached, tasks, blocked, boardLink, boardTimer, paneLink, paneTimer,
              active, strays, failures, moves, refused, left, tangled>>
serverVars == <<live, made, present, known, shownIn, starting, stopping, procId, procStatus,
                fallback, preview, told, jobs, begun, errors, crossed>>
homeVars == <<part, linkVars, serverVars>>

L == INSTANCE HomeLinks
D == INSTANCE DevServers WITH MaxFailures <- MaxErrors, failures <- errors
ASSUME L!LinkBoundsAssumption /\ L!SessionAssumption /\ D!DevBoundsAssumption

Links(A)   == part = "links" /\ A /\ UNCHANGED <<part, serverVars>>
Servers(A) == part = "servers" /\ A /\ UNCHANGED <<part, linkVars>>

HomeInit ==
    /\ part \in {"links", "servers"} /\ L!LinksInit /\ D!DevInit
    /\ part = "servers" => mode = "desktop"
HomeNext == Links(L!LinksNext) \/ Servers(D!DevNext)

\* The fairness of HomeLinks and of DevServers.
HomeFairness ==
    /\ WF_homeVars(Links(L!Answers))
    /\ WF_homeVars(Links(L!BoardOpens)) /\ WF_homeVars(Links(L!BoardRetry))
    /\ WF_homeVars(Links(L!PaneOpens)) /\ WF_homeVars(Links(L!PaneRetry))
    /\ WF_homeVars(Servers(D!Answers))

HomeSpec == HomeInit /\ [][HomeNext]_homeVars /\ HomeFairness

-----------------------------------------------------------------------------
\* A page that was left in peace while it loaded never loses sight of a socket,
\* and has none while it is narrow or after it was detached.
NoStraySockets == L!NoStraySockets

\* A page that stays wide and is never refused ends up with an open board socket,
\* and with an open session socket if it was wide from the start.
LinksRecover == part = "links" => L!BoardRecovers /\ L!PaneRecovers

\* When one chain of requests went on at a time and nothing failed, a pane that
\* waits for nothing shows the server running if and only if it runs.
ShownAsItRuns == D!ShownAsItRuns

\* The button that starts and stops comes back, whatever fails on the way.
ButtonReturns == D!ButtonReturns
=============================================================================
