----------------------------- MODULE DevServers -----------------------------
(***************************************************************************)
(* The development server of a workspace as its pane shows it              *)
(* (src/web/workspace-home.ts): the button that starts and stops it, the   *)
(* process the page believes to run, the lists that tell of it, and the    *)
(* preview of what it serves.                                              *)
(*                                                                         *)
(* A chain of awaits is a job: the request under way, what the handler     *)
(* does next, and the handler whose finally block ends it.  Processes are  *)
(* numbered; 0 is none.                                                    *)
(***************************************************************************)
EXTENDS Integers, Sequences, SequencesExt

CONSTANTS
    MaxStarts,     \* processes the server starts
    MaxJobs,       \* chains the page begins
    MaxFailures    \* requests that fail, and servers that end by themselves

DevBoundsAssumption == {MaxStarts, MaxJobs, MaxFailures} \subseteq Nat

VARIABLES
    live,          \* server: the process that runs
    made,          \* server: processes started so far
    present,       \* server: the workspace is in the list
    known,         \* page: has_running_dev_server and the process of the last list
    shownIn,       \* page: the workspace is in the last list
    starting, stopping,
    procId,        \* devServerProcessIdsByWorkspace
    procStatus,    \* devServerProcessStatusByWorkspace
    fallback,      \* webPreviewFallbackUrlByWorkspace is set
    preview,       \* "none", "overlay" or "drawer"
    told,          \* feedback of the pane
    jobs,
    begun, failures,
    crossed        \* history: two chains, or a chain and the server, went on together

devServer  == <<live, made, present>>
devPage    == <<known, shownIn, starting, stopping, procId, procStatus>>
devPreview == <<fallback, preview>>
devCount   == <<begun, failures, crossed>>
devVars    == <<devServer, devPage, devPreview, told, jobs, devCount>>

DevInit ==
    /\ live \in {0, 1} /\ made = live /\ present = TRUE
    /\ known = live /\ shownIn = TRUE
    /\ starting = FALSE /\ stopping = FALSE
    /\ procId = live /\ procStatus = IF live = 0 THEN "none" ELSE "running"
    /\ fallback = FALSE /\ preview = "none" /\ told = "nothing"
    /\ jobs = <<>>
    /\ begun = 0 /\ failures = 0 /\ crossed = FALSE

-----------------------------------------------------------------------------
(* What is shown *)

\* getWorkspaceDevServerState
State ==
    IF starting THEN "starting"
    ELSE IF stopping THEN "stopping"
    ELSE IF procStatus = "running" \/ known # 0 THEN "running"
    ELSE "idle"

\* isWorkspaceDevServerRunning
IsRunning == known # 0 \/ procStatus = "running" \/ starting

-----------------------------------------------------------------------------
(* Chains of requests *)

Asked(op, next, owner, about) ==
    [op |-> op, next |-> next, owner |-> owner, about |-> about,
     served |-> FALSE, said |-> 0, there |-> TRUE]

Begin(job) ==
    /\ begun < MaxJobs
    /\ begun' = begun + 1
    /\ jobs' = Append(jobs, job)
    /\ crossed' = (crossed \/ jobs # <<>>)
    /\ UNCHANGED failures

\* The finally block of the handler that began the chain.
Finally(owner) ==
    /\ starting' = (starting /\ owner # "start")
    /\ stopping' = (stopping /\ owner # "stop")

\* The next await of chain i, with the process to ask about; a refresh of no
\* process is left out, and a list that was kept is applied at the end.
Goes(i, steps, about, list) ==
    LET rest == IF steps # <<>> /\ Head(steps) = "refresh" /\ about = 0
                THEN Tail(steps) ELSE steps
        job  == jobs[i]
    IN  IF rest = <<>>
        THEN jobs' = RemoveAt(jobs, i) /\ Finally(job.owner)
        ELSE /\ jobs' = [jobs EXCEPT ![i] =
                   [Asked(Head(rest), Tail(rest), job.owner, about) EXCEPT
                       !.served = (Head(rest) = "apply"),
                       !.said = list.proc, !.there = list.there]]
             /\ UNCHANGED <<starting, stopping>>

NoList == [proc |-> 0, there |-> TRUE]

-----------------------------------------------------------------------------
(* The button *)

\* handleWorkspaceRun
Run ==
    /\ State = "idle" /\ ~IsRunning
    /\ Begin(Asked("start", <<"refresh", "list">>, "start", 0))
    /\ starting' = TRUE
    /\ told' = "starting"
    /\ UNCHANGED <<devServer, known, shownIn, stopping, procId, procStatus, devPreview>>

\* handleWorkspaceDevServerStop, with the process the page knows.
Stop ==
    /\ State = "running" /\ ~stopping
    /\ Begin(Asked("stop", <<"list">>, "stop", procId))
    /\ stopping' = TRUE
    /\ told' = "stopping"
    /\ UNCHANGED <<devServer, known, shownIn, starting, procId, procStatus, devPreview>>

\* handleWorkspaceDevServerToggle: nothing happens while it starts or stops.
Toggle == shownIn /\ (Run \/ Stop)

\* loadWorkspaces for another reason, such as the end of the board socket.
Reload ==
    /\ Begin(Asked("list", <<>>, "none", 0))
    /\ UNCHANGED <<devServer, devPage, devPreview, told>>

-----------------------------------------------------------------------------
(* The server *)

Answered(i, proc) ==
    jobs' = [jobs EXCEPT ![i].served = TRUE, ![i].said = proc, ![i].there = present]

Serve(i) ==
    /\ ~jobs[i].served
    /\ \/ /\ jobs[i].op = "start" /\ made < MaxStarts
          /\ made' = made + 1 /\ live' = made'
          /\ Answered(i, made')
       \/ /\ jobs[i].op = "stop"
          /\ live' = IF jobs[i].about \in {0, live} THEN 0 ELSE live
          /\ Answered(i, 0) /\ UNCHANGED made
       \/ /\ jobs[i].op = "refresh"
          /\ jobs' = [jobs EXCEPT ![i].served = TRUE,
                                  ![i].said = IF live = jobs[i].about THEN live ELSE 0]
          /\ UNCHANGED <<live, made>>
       \/ /\ jobs[i].op \in {"list", "port"}
          /\ Answered(i, live)
          /\ UNCHANGED <<live, made>>
    /\ UNCHANGED <<present, devPage, devPreview, told, devCount>>

Ends ==
    /\ live # 0 /\ failures < MaxFailures
    /\ failures' = failures + 1
    /\ live' = 0
    /\ UNCHANGED <<made, present, devPage, devPreview, told, jobs, begun, crossed>>

\* The workspace leaves the list, or is there again.
Archive ==
    /\ live = 0 /\ failures < MaxFailures
    /\ failures' = failures + 1
    /\ present' = ~present
    /\ UNCHANGED <<live, made, devPage, devPreview, told, jobs, begun, crossed>>

-----------------------------------------------------------------------------
(* Answers *)

Is(i, op) == jobs[i].op = op /\ jobs[i].served

\* The process of the answer is taken over, then asked for.
Started(i) ==
    /\ Is(i, "start")
    /\ procId' = jobs[i].said /\ procStatus' = "running"
    /\ told' = "started"
    /\ Goes(i, jobs[i].next, procId', NoList)
    /\ UNCHANGED <<devServer, known, shownIn, devPreview, devCount>>

\* Mutant: the process is remembered when it has ended.
Cleared_Never == UNCHANGED <<procId, procStatus>>

\* clearWorkspaceDevServerProcess
Cleared == procId' = 0 /\ procStatus' = "none"

Stopped(i) ==
    /\ Is(i, "stop")
    /\ Cleared
    /\ told' = "stopped"
    /\ Goes(i, jobs[i].next, 0, NoList)
    /\ UNCHANGED <<devServer, known, shownIn, devPreview, devCount>>

\* refreshWorkspaceDevServerProcess
Refreshed(i) ==
    /\ Is(i, "refresh")
    /\ IF jobs[i].said # 0
       THEN procStatus' = "running" /\ UNCHANGED procId
       ELSE Cleared
    /\ Goes(i, jobs[i].next, procId', [proc |-> jobs[i].about, there |-> jobs[i].there])
    /\ UNCHANGED <<devServer, known, shownIn, devPreview, told, devCount>>

\* hydrateRunningDevServerProcesses: the processes of the list are asked for
\* before the list is shown.
ListArrives(i) ==
    LET list == [proc |-> jobs[i].said, there |-> jobs[i].there]
    IN  /\ Is(i, "list")
        /\ procId' = IF list.proc # 0 THEN list.proc ELSE procId
        /\ Goes(i, <<"refresh", "apply">>, list.proc, list)
        /\ UNCHANGED <<devServer, known, shownIn, procStatus, devPreview, told, devCount>>

\* What is remembered of workspaces that are not in the list goes.
Prune(there) ==
    /\ procId' = IF there THEN procId ELSE 0
    /\ procStatus' = IF there /\ procId # 0 THEN procStatus ELSE "none"

ListShown(i) ==
    /\ Is(i, "apply")
    /\ known' = jobs[i].said /\ shownIn' = jobs[i].there
    /\ Prune(jobs[i].there)
    /\ Goes(i, jobs[i].next, 0, NoList)
    /\ UNCHANGED <<devServer, devPreview, told, devCount>>

\* A pushed list is shown at once, while its processes are asked for.
Snapshot ==
    /\ begun < MaxJobs
    /\ begun' = begun + 1
    /\ known' = live /\ shownIn' = present
    /\ procId' = IF live # 0 THEN live ELSE IF present THEN procId ELSE 0
    /\ procStatus' = IF present /\ procId' # 0 THEN procStatus ELSE "none"
    /\ jobs' = IF live = 0 THEN jobs
               ELSE Append(jobs, Asked("refresh", <<>>, "none", live))
    /\ crossed' = (crossed \/ jobs # <<>>)
    /\ UNCHANGED <<devServer, starting, stopping, devPreview, told, failures>>

Fails == failures < MaxFailures /\ failures' = failures + 1 /\ UNCHANGED <<begun, crossed>>

\* Mutant: a failure leaves the button as it was.
GivenUp_Never(owner) == UNCHANGED <<starting, stopping>>

GivenUp(owner) == Finally(owner)

\* The request that starts or stops fails: its handler ends.
ActionFails(i) ==
    /\ jobs[i].op \in {"start", "stop"}
    /\ Fails
    /\ jobs' = RemoveAt(jobs, i)
    /\ GivenUp(jobs[i].owner)
    /\ told' = "failed"
    /\ UNCHANGED <<devServer, known, shownIn, procId, procStatus, devPreview>>

\* A refresh that fails changes nothing, and the handler goes on.
RefreshFails(i) ==
    /\ jobs[i].op = "refresh"
    /\ Fails
    /\ Goes(i, jobs[i].next, procId, [proc |-> jobs[i].about, there |-> jobs[i].there])
    /\ UNCHANGED <<devServer, known, shownIn, procId, procStatus, devPreview, told>>

\* loadWorkspaces shows its error and returns.
ListFails(i) ==
    /\ jobs[i].op = "list"
    /\ Fails
    /\ Goes(i, jobs[i].next, 0, NoList)
    /\ UNCHANGED <<devServer, known, shownIn, procId, procStatus, devPreview, told>>

-----------------------------------------------------------------------------
(* The preview *)

\* handleOpenWebPreview and handleOpenPreviewDrawer: an address that is known
\* is shown; otherwise a running server's port is asked for.
OpenPreview(where) ==
    /\ shownIn
    /\ CASE fallback ->
              /\ preview' = where
              /\ UNCHANGED <<told, jobs, devCount>>
         [] ~fallback /\ State = "running" ->
              /\ Begin(Asked("port", <<>>, where, 0))
              /\ UNCHANGED <<preview, told>>
         [] OTHER ->
              /\ told' = "no preview"
              /\ UNCHANGED <<preview, jobs, devCount>>
    /\ UNCHANGED <<devServer, devPage, fallback>>

\* resolveWorkspacePreviewUrl; the address is kept for good.
PortArrives(i) ==
    /\ Is(i, "port")
    /\ IF jobs[i].said # 0
       THEN fallback' = TRUE /\ preview' = jobs[i].owner /\ UNCHANGED told
       ELSE told' = "no preview" /\ UNCHANGED devPreview
    /\ jobs' = RemoveAt(jobs, i)
    /\ UNCHANGED <<devServer, devPage, devCount>>

\* Nothing is caught: the click has no effect.
PortFails(i) ==
    /\ jobs[i].op = "port"
    /\ Fails
    /\ jobs' = RemoveAt(jobs, i)
    /\ UNCHANGED <<devServer, devPage, devPreview, told>>

\* The cross of the overlay or of the drawer; the overlay goes with its pane.
ClosePreview ==
    /\ preview # "none"
    /\ preview' = "none"
    /\ UNCHANGED <<devServer, devPage, fallback, told, jobs, devCount>>

\* renderWebPreviewOverlay and renderPreviewDrawer
PreviewShown == shownIn /\ preview # "none" /\ fallback

-----------------------------------------------------------------------------

DevAnswer(i) ==
    \/ Started(i) \/ Stopped(i) \/ Refreshed(i) \/ ListArrives(i) \/ ListShown(i)
    \/ PortArrives(i)

DevNext ==
    \/ Toggle \/ Reload \/ Snapshot \/ Ends \/ Archive
    \/ \E where \in {"overlay", "drawer"} : OpenPreview(where)
    \/ ClosePreview
    \/ \E i \in DOMAIN jobs :
          \/ Serve(i) \/ DevAnswer(i)
          \/ ActionFails(i) \/ RefreshFails(i) \/ ListFails(i) \/ PortFails(i)

\* A request is answered or fails; the browser gives no other end.
Answers ==
    \E i \in DOMAIN jobs :
        \/ Serve(i) \/ DevAnswer(i) \/ ActionFails(i) \/ RefreshFails(i)
        \/ ListFails(i) \/ PortFails(i)

DevFairness == WF_devVars(Answers)

DevSpec == DevInit /\ [][DevNext]_devVars /\ DevFairness

-----------------------------------------------------------------------------
(* Properties *)

\* When one chain of requests went on at a time, nothing failed and no server
\* ended by itself, a pane that waits for nothing shows the server running if
\* and only if it runs, whatever was started, stopped and listed before.
ShownAsItRuns ==
    (jobs = <<>> /\ ~crossed /\ failures = 0) => (State = "running") = (live # 0)

\* The button that starts and stops comes back, whatever fails on the way.
ButtonReturns == (starting \/ stopping) ~> (State \in {"idle", "running"})
=============================================================================
