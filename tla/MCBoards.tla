------------------------------ MODULE MCBoards ------------------------------
(* Small instances of seven parts of the dashboard card and of the issue pages that
   share no state the properties look at: the sockets of the card, its dialog, the
   dialog that creates a workspace, the board of issues, the panel of an issue, the
   quick buttons, and the overlays of the workspace page.  A behaviour takes one of
   them, so that the states to explore are those of each and not their product. *)
EXTENDS Integers, Sequences, FiniteSets, TLC

CONSTANTS
    None,
    MaxSessions, MaxAsks, MaxBreaks,                              \* sockets
    Workspace, Text, MaxLog, MaxCalls, MaxLost,                   \* dialog
    NewIssue, Agent, Target, Usual, Preferred, Silent, MaxCreate, \* create dialog
    Project, Issue, Status, Title, Fresh, MaxIssueCalls, MaxTyped,    \* board
    PanelIssue, MaxPanelCalls,                                    \* panel
    MaxQuestions,                                                 \* buttons
    MaxDialogs, MaxPanels, MaxRequests                            \* overlays
CONSTANTS a, b, p, q, i, j, k, t, u, todo, done, plan, plan2, test, deploy, long,
          proposal, report, msg, feature, main

VARIABLES
    part,      \* the part that moves
    session, attached, blocked, listed, selected, board, boardOn, polling, boardRetry,
    pane, paneOn, dialogPolling, paneRetry, strays, asks, asked, breaks, overlapped, severed,
    log, coming, waiting, opened, running, draft, queue, optimistic, messages, frames,
    calls, called, lost, switched, crossed, unseen,
    formOpen, linkedTo, agent, variant, model, target, offered, models, requests, requested,
    missed, made, stale,
    tasks, project, columns, loading, error, issue, title, timer, left, form, loads,
    loaded, failed, typings, typed, mixed,
    store, shown, edit, editing, sheet, deleting, timers, saved, workspaces, wsLoading,
    saves, saving, unsaved, entries, entered, swapped,
    llm, busy, last, buttons, hash, questions, posed, outdated,
    list, diffOf, panel, sockets, prOf, request, fills, requestsOut

cardVars == <<session, attached, blocked, listed, selected, board, boardOn, polling,
              boardRetry, pane, paneOn, dialogPolling, paneRetry, strays, asks, asked,
              breaks, overlapped, severed>>
dialogVars == <<log, coming, waiting, opened, running, draft, queue, optimistic, messages,
                frames, calls, called, lost, switched, crossed, unseen>>
createVars == <<formOpen, linkedTo, agent, variant, model, target, offered, models, requests,
                requested, missed, made, stale>>
issueVars == <<tasks, project, columns, loading, error, issue, title, timer, left, form,
               loads, loaded, failed, typings, typed, mixed>>
panelVars == <<store, shown, edit, editing, sheet, deleting, timers, saved, workspaces,
               wsLoading, saves, saving, unsaved, entries, entered, swapped>>
buttonVars == <<llm, busy, last, buttons, hash, questions, posed, outdated>>
overlayVars == <<list, diffOf, panel, sockets, prOf, request, fills, requestsOut>>
boardsVars == <<part, cardVars, dialogVars, createVars, issueVars, panelVars, buttonVars,
                overlayVars>>

-----------------------------------------------------------------------------
(* The parts and their instances *)

K == INSTANCE CardLinks

D == INSTANCE CardDialog
       WITH Nothing <- None, selected <- opened, shown <- messages

C == INSTANCE CreateWorkspace
       WITH Issue <- NewIssue, MaxCalls <- MaxCreate, open <- formOpen, issue <- linkedTo,
            calls <- requests, called <- requested, lost <- missed

\* An issue of the first project, one that may be created in it, one of the second
I == INSTANCE IssueBoard
       WITH Text <- Title, MaxCalls <- MaxIssueCalls, Of <- i :> p @@ j :> p @@ k :> q,
            First <- [title |-> t, status |-> todo], board <- columns,
            calls <- loads, called <- loaded, lost <- failed, crossed <- mixed

P == INSTANCE IssuePanel
       WITH Issue <- PanelIssue, Text <- Title, MaxCalls <- MaxPanelCalls,
            calls <- saves, called <- saving, lost <- unsaved, typings <- entries,
            typed <- entered, crossed <- swapped

\* A proposal that names a plan twice and lists a forbidden action, and a report
\* with two actions in a line, one of them too long
Phrases == {plan, plan2, test, deploy, long}
Parsed ==
    [m \in {proposal, report} |->
        IF m = proposal
        THEN [named |-> <<plan, plan2>>, listed |-> <<test, deploy>>, lettered |-> <<>>,
              inline |-> <<>>, proposal |-> TRUE]
        ELSE [named |-> <<>>, listed |-> <<>>, lettered |-> <<>>,
              inline |-> <<test, long>>, proposal |-> FALSE]]
Replies ==
    [extracted : {<<>>, <<plan, deploy>>}, suggested : {<<>>, <<test>>, <<deploy>>, <<long, test>>}]

Q == INSTANCE QuickButtons
       WITH Phrase <- Phrases, Clean <- [x \in Phrases |-> IF x = plan2 THEN plan ELSE x],
            Long <- {long}, Forbidden <- {deploy}, Message <- {proposal, report},
            Parts <- Parsed, Reply <- Replies, MaxAsks <- MaxQuestions, running <- busy,
            offered <- buttons, asks <- questions, asked <- posed, stale <- outdated

\* A workspace with a repository and a first message, and one with neither
O == INSTANCE Overlays
       WITH HasRepo <- {a}, FirstMessage <- [w \in Workspace |-> IF w = a THEN msg ELSE None],
            Typed <- t, Branch <- {feature, main}, Main <- main,
            TargetBranch <- [w \in Workspace |-> IF w = a THEN feature ELSE None],
            RepoTarget <- [w \in Workspace |-> IF w = a THEN main ELSE None],
            MaxCalls <- MaxRequests, form <- request, loads <- fills, calls <- requestsOut

ASSUME BoardsAssumption ==
    /\ K!CardBoundsAssumption /\ D!CardDialogAssumption /\ C!CreateAssumption
    /\ I!IssueAssumption /\ P!PanelAssumption /\ Q!ButtonsAssumption
    /\ O!OverlaysAssumption

BoardsInit ==
    /\ part \in {"card", "dialog", "create", "issues", "panel", "buttons", "overlays"}
    /\ K!CardInit /\ D!DialogInit /\ C!CreateInit /\ I!IssueInit /\ P!PanelInit
    /\ Q!ButtonsInit /\ O!OverlaysInit
    \* One workspace runs, the other does not.
    /\ running = {a}
    \* A part that does not move has one initial state.
    /\ part # "buttons" => ~llm /\ ~busy

BoardsNext ==
    \/ /\ part = "card" /\ K!CardNext
       /\ UNCHANGED <<part, dialogVars, createVars, issueVars, panelVars, buttonVars, overlayVars>>
    \/ /\ part = "dialog" /\ D!DialogNext
       /\ UNCHANGED <<part, cardVars, createVars, issueVars, panelVars, buttonVars, overlayVars>>
    \/ /\ part = "create" /\ C!CreateNext
       /\ UNCHANGED <<part, cardVars, dialogVars, issueVars, panelVars, buttonVars, overlayVars>>
    \/ /\ part = "issues" /\ I!IssueNext
       /\ UNCHANGED <<part, cardVars, dialogVars, createVars, panelVars, buttonVars, overlayVars>>
    \/ /\ part = "panel" /\ P!PanelNext
       /\ UNCHANGED <<part, cardVars, dialogVars, createVars, issueVars, buttonVars, overlayVars>>
    \/ /\ part = "buttons" /\ Q!ButtonsNext
       /\ UNCHANGED <<part, cardVars, dialogVars, createVars, issueVars, panelVars, overlayVars>>
    \/ /\ part = "overlays" /\ O!OverlaysNext
       /\ UNCHANGED <<part, cardVars, dialogVars, createVars, issueVars, panelVars, buttonVars>>

BoardsSpec == BoardsInit /\ [][BoardsNext]_boardsVars

-----------------------------------------------------------------------------
\* The board of a card that booted and is not refused is watched at every moment, by
\* an open socket or by polls, and no socket is left that nobody closes.
BoardIsWatched == K!BoardIsWatched

\* So is an open dialog of the card.
DialogIsWatched == K!DialogIsWatched

\* The dialog shows messages of its own workspace only, whatever was open before.
ShowsItsOwn == D!ShowsItsOwn

\* A dialog that waits for nothing shows the log, every entry once and in order.
DialogConverges == D!DialogConverges

\* The dialog that creates a workspace offers the presets and models of its agent.
FormFollowsAgent == C!FormFollowsAgent

\* When nothing is under way the columns hold the issues of the selected project.
BoardIsCurrent == I!BoardIsCurrent

\* The text last typed into the panel of an issue is its title on the server.
TypedIsStored == I!TypedIsStored

\* So are the title and the description, while the panel stays open.
TextIsStored == P!TextIsStored

\* What the quick buttons offer was found in or suggested for the last message.
ButtonsBelong == Q!ButtonsBelong

\* A diff stream lives no longer than the panel that shows it, and a panel whose
\* stream has ended does not stay at "loading".
StreamEndsWithPanel == O!StreamEndsWithPanel

\* The title of a pull request is the one the user typed last.
TitleIsKept == O!TitleIsKept
=============================================================================
