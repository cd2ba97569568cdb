------------------------------- MODULE MCPages -------------------------------
(* Small instances of five parts of the workspace page that share no state the
   properties look at: the layout of all tabs, and, of one pane, its messages, its
   composer, its todo panel and the elements that show it.  A behaviour takes one of
   them, so that the states to explore are those of each and not their product. *)
EXTENDS MCSharedView

CONSTANTS
    MaxLog, MaxVersion, Limit, MaxLoads, MaxDrops,                     \* messages
    Text, Button, Todo, Blank, Nothing, MaxEdits, MaxCalls, MaxFailures,   \* composer
    MaxTodos, MaxTexts, MaxRequests, MaxErrors,                        \* todo panel
    MaxClicks, MaxTimers                                               \* elements

VARIABLES
    part,      \* the part that moves
    log, messages, cursor, hasMore, requests, frames, live, loadingMore, resetTimers,
    loads, drops, overlap, missed,
    running, busy, queued, accepted, marked, draft, queueStatus, feedback, calls,
    edits, sentCalls, failed, overtaken,
    stored, made, open, todos, adding, newText, editing, editText, editCancelled,
    focused, badge, pageCount, jobs, typed, asked, errors, unsent, withdrawn, crossed,
    layout, wide, els, rail, clicks

messageVars == <<log, messages, cursor, hasMore, requests, frames, live, loadingMore,
                 resetTimers, loads, drops, overlap, missed>>
composerVars == <<running, busy, queued, accepted, marked, draft, queueStatus, feedback,
                  calls, edits, sentCalls, failed, overtaken>>
todoVars == <<stored, made, open, todos, adding, newText, editing, editText,
              editCancelled, focused, badge, pageCount, jobs, typed, asked, errors,
              unsent, withdrawn, crossed>>
elementVars == <<layout, wide, els, rail, clicks>>
pagesVars == <<part, vars, messageVars, composerVars, todoVars, elementVars>>

\* Two uses of a tool, then a text.
Tools == [i \in 1 .. MaxLog |-> IF i % 3 = 0 THEN "none" ELSE "bash"]

M == INSTANCE PaneMessages WITH Tool <- Tools, crossed <- overlap
C == INSTANCE Composer
T == INSTANCE TodoPanel WITH list <- todos
E == INSTANCE PaneElements WITH page <- layout
ASSUME /\ M!PaneBoundsAssumption /\ M!ToolAssumption /\ C!TextsAssumption
       /\ T!TodoBoundsAssumption /\ E!ClicksAssumption
       /\ MaxOpenAssumption /\ NoneAssumption /\ BoundsAssumption /\ BoardsAssumption
       /\ FirstViewAssumption /\ RunningAssumption

PagesInit ==
    /\ part \in {"view", "messages", "composer", "todos", "elements"}
    /\ ViewInit /\ M!MsgInit /\ C!ComposerInit /\ T!TodoInit /\ E!PanesInit
    \* A part that does not move has one initial state.
    /\ part # "view" =>
          board = <<Idle(a), Asks(b), Idle(c)>> /\ \A t \in Tab : phase[t] # "closed"
    /\ part # "messages" => Len(log) = 1
    /\ part # "composer" => ~running
    /\ part # "todos" => stored = {}
    /\ part # "elements" => wide

PagesNext ==
    \/ /\ part = "view" /\ ViewNext
       /\ UNCHANGED <<part, messageVars, composerVars, todoVars, elementVars>>
    \/ /\ part = "messages" /\ M!MsgNext
       /\ UNCHANGED <<part, vars, composerVars, todoVars, elementVars>>
    \/ /\ part = "composer" /\ C!ComposerNext
       /\ UNCHANGED <<part, vars, messageVars, todoVars, elementVars>>
    \/ /\ part = "todos" /\ T!TodoNext
       /\ UNCHANGED <<part, vars, messageVars, composerVars, elementVars>>
    \/ /\ part = "elements" /\ E!PanesNext
       /\ UNCHANGED <<part, vars, messageVars, composerVars, todoVars>>

PagesSpec == PagesInit /\ [][PagesNext]_pagesVars

-----------------------------------------------------------------------------
\* As long as no frame overtakes an answer and nothing is lost, a pane shows one
\* unbroken piece of the log, and when nothing is under way its newest entries.
PaneIsCurrent == M!PaneIsCurrent

\* Whatever was lost or crossed, a frame only adds to what is shown, and tool groups
\* that were split by a page are whole again.
FramesOnlyAdd == M!FramesOnlyAdd

\* Requests, answers and failures in any order never take a text out of the composer
\* that the server has not taken, but for the cases named there.
DraftIsKept == C!DraftIsKept

\* When requests came one after the other and none failed, an open todo panel that
\* waits for nothing shows what is stored.
PanelIsCurrent == T!PanelIsCurrent

\* What was typed in an edit that ended with Escape, and was not saved before, is
\* never stored.
WithdrawnIsNotStored == T!WithdrawnIsNotStored

\* An element shows the files of the workspace it shows, whatever places have shifted.
FilesAreItsOwn == E!FilesAreItsOwn
=============================================================================
