----------------------------- MODULE TodoPanel -----------------------------
(***************************************************************************)
(* The todo panel of a pane (src/components/workspace-todo-panel.ts), the  *)
(* badge of the pane that opens it, and the count the page loads           *)
(* (src/lib/todo-helpers.ts).                                              *)
(*                                                                         *)
(* A todo is known by the order of its creation; its text is a number, new *)
(* for every text a user types.  Lists, counts and changes are requests;   *)
(* a change that was served and answered is followed by a new list.        *)
(***************************************************************************)
EXTENDS Integers, Sequences, SequencesExt, FiniteSets

CONSTANTS
    MaxTodos,      \* todos ever created
    MaxTexts,      \* texts the user types
    MaxRequests,   \* requests sent
    MaxErrors      \* requests that fail

TodoBoundsAssumption == {MaxTodos, MaxTexts, MaxRequests, MaxErrors} \subseteq Nat

VARIABLES
    stored,        \* server: the todos, each [id, text, done]
    made,          \* server: todos created so far
    open,          \* the panel is shown
    list,          \* todos: what the panel has
    adding,        \* isAdding
    newText,       \* newTodoContent, 0 is empty
    editing,       \* editingTodoId, 0 is null
    editText,      \* editText, 0 is empty
    editCancelled,
    focused,       \* the edit field of this todo has the focus, 0 is none
    badge,         \* todoPendingCount of the pane
    pageCount,     \* todoPendingCountByWorkspace of the page, last bound to the pane
    jobs,          \* requests under way
    typed, asked, errors,
    unsent,        \* history: texts typed into an edit that no request took
    withdrawn,     \* history: those of them with which Escape ended the edit
    crossed        \* history: two requests were under way together

panelVars == <<open, list, adding, newText>>
editVars  == <<editing, editText, editCancelled, focused>>
countVars == <<badge, pageCount>>
usedVars  == <<typed, asked, errors, unsent, withdrawn, crossed>>
todoVars  == <<stored, made, panelVars, editVars, countVars, jobs, usedVars>>

Item == [id : 1 .. MaxTodos, text : 1 .. MaxTexts, done : BOOLEAN]
PendingIn(l) == Cardinality({t \in l : ~t.done})

TodoInit ==
    /\ stored \in {{}, {[id |-> 1, text |-> 1, done |-> FALSE]}}
    /\ made = Cardinality(stored) /\ typed = made
    /\ open = FALSE /\ list = {} /\ adding = FALSE /\ newText = 0
    /\ editing = 0 /\ editText = 0 /\ editCancelled = FALSE /\ focused = 0
    /\ badge = PendingIn(stored) /\ pageCount = badge
    /\ jobs = <<>>
    /\ asked = 0 /\ errors = 0
    /\ unsent = {} /\ withdrawn = {} /\ crossed = FALSE

-----------------------------------------------------------------------------
(* Requests *)

Job(op, todo) == [op |-> op, todo |-> todo, served |-> FALSE, answer |-> {}]
NoTodo == [id |-> 0, text |-> 0, done |-> FALSE]

\* `others' are the requests under way beside the new one.
Ask(others, job) ==
    /\ asked < MaxRequests
    /\ asked' = asked + 1
    /\ jobs' = Append(others, job)
    /\ crossed' = (crossed \/ others # <<>>)
    /\ unsent' = unsent \ {job.todo.text}
    /\ UNCHANGED <<typed, errors, withdrawn>>

\* loadTodos, alone or at the end of an addition.
Load(others, then) == Ask(others, Job(then, NoTodo))

\* Mutant: a change is not followed by a new list.
LoadAgain_Never(others) ==
    /\ jobs' = others
    /\ UNCHANGED usedVars

LoadAgain(others) == Load(others, "list")

\* The page asks for the count when a list of workspaces was loaded, and after
\* a todo was selected.
AskCount ==
    /\ Load(jobs, "count")
    /\ UNCHANGED <<stored, made, panelVars, editVars, countVars>>

-----------------------------------------------------------------------------
(* The panel *)

\* toggleTodoPanel, and updated() of the panel: it loads when it is opened.
OpenPanel ==
    /\ ~open
    /\ open' = TRUE
    /\ Load(jobs, "list")
    /\ UNCHANGED <<stored, made, list, adding, newText, editVars, countVars>>

\* The button, the cross or a click beside the panel; what was typed stays.
ClosePanel ==
    /\ open /\ focused = 0
    /\ open' = FALSE
    /\ UNCHANGED <<stored, made, list, adding, newText, editVars, countVars, jobs, usedVars>>

TypeNew ==
    /\ open /\ typed < MaxTexts
    /\ typed' = typed + 1
    /\ newText' = typed'
    /\ UNCHANGED <<stored, made, open, list, adding, editVars, countVars, jobs,
                   asked, errors, unsent, withdrawn, crossed>>

\* handleAddClick, by the button or by Enter.
Add ==
    /\ open /\ newText # 0 /\ ~adding /\ made < MaxTodos
    /\ adding' = TRUE
    /\ Ask(jobs, Job("add", [NoTodo EXCEPT !.text = newText]))
    /\ UNCHANGED <<stored, made, open, list, newText, editVars, countVars>>

\* handleToggleComplete of a pending todo: the page is told, which marks the
\* todo, sends it and asks for the count; the panel closes.
Select(t) ==
    /\ open /\ t \in list /\ ~t.done
    /\ open' = FALSE
    /\ Ask(jobs, Job("mark", t))
    /\ UNCHANGED <<stored, made, list, adding, newText, editVars, countVars>>

\* handleDelete; there is no button beside a todo that is being edited.
Delete(t) ==
    /\ open /\ t \in list /\ ~t.done /\ editing # t.id
    /\ Ask(jobs, Job("delete", t))
    /\ UNCHANGED <<stored, made, panelVars, editVars, countVars>>

\* handleRestore of a completed todo
Restore(t) ==
    /\ open /\ t \in list /\ t.done
    /\ Ask(jobs, Job("restore", t))
    /\ UNCHANGED <<stored, made, panelVars, editVars, countVars>>

-----------------------------------------------------------------------------
(* Editing *)

StartEdit(t) ==
    /\ open /\ t \in list /\ ~t.done /\ editing # t.id /\ focused = 0
    /\ editCancelled' = FALSE
    /\ editing' = t.id /\ editText' = t.text
    /\ focused' = t.id
    /\ UNCHANGED <<stored, made, panelVars, countVars, jobs, usedVars>>

TypeEdit ==
    /\ open /\ focused = editing /\ editing # 0 /\ typed < MaxTexts
    /\ typed' = typed + 1
    /\ editText' = typed'
    /\ unsent' = unsent \cup {typed'}
    /\ UNCHANGED <<stored, made, panelVars, editing, editCancelled, focused, countVars,
                   jobs, asked, errors, withdrawn, crossed>>

\* The field of the edit is there again with what it held.
Refocus ==
    /\ open /\ focused = 0 /\ editing # 0
    /\ \E t \in list : t.id = editing /\ ~t.done
    /\ focused' = editing
    /\ UNCHANGED <<stored, made, panelVars, editing, editText, editCancelled, countVars,
                   jobs, usedVars>>

\* Mutant: Escape only takes the field away.
CancelEdit_Bare == editing' = 0 /\ UNCHANGED <<editText, editCancelled>>

\* handleCancelEdit
CancelEdit == editCancelled' = TRUE /\ editing' = 0 /\ editText' = 0

\* handleEditKeydown, Escape: the field goes, and loses the focus by it.
Escape ==
    /\ open /\ focused # 0 /\ focused = editing
    /\ CancelEdit
    /\ withdrawn' = withdrawn \cup (unsent \cap {editText})
    /\ UNCHANGED <<stored, made, panelVars, focused, countVars, jobs, typed, asked,
                   errors, unsent, crossed>>

\* handleSaveEdit of the todo the field was drawn for, with the text of this
\* moment.  Escape empties the text before the field has gone.
Save(t) ==
    IF editCancelled
    THEN /\ editCancelled' = FALSE
         /\ UNCHANGED <<jobs, usedVars>>
    ELSE /\ UNCHANGED editCancelled
         /\ IF editText = 0 THEN UNCHANGED <<jobs, usedVars>>
            ELSE Ask(jobs, Job("save", [t EXCEPT !.text = editText]))

Enter ==
    /\ open /\ focused # 0 /\ focused = editing
    /\ \E t \in list : t.id = focused /\ Save(t)
    /\ UNCHANGED <<stored, made, panelVars, editing, editText, focused, countVars>>

\* The field loses the focus: the user clicked elsewhere, or it was removed.
Blur ==
    /\ focused # 0
    /\ focused' = 0
    /\ IF \E t \in list : t.id = focused
       THEN \E t \in list : t.id = focused /\ Save(t)
       ELSE UNCHANGED <<editCancelled, jobs, usedVars>>
    /\ UNCHANGED <<stored, made, panelVars, editing, editText, countVars>>

-----------------------------------------------------------------------------
(* The server *)

Known(t) == \E s \in stored : s.id = t.id
Changed(t, with) == {IF s.id = t.id THEN with ELSE s : s \in stored}

\* The whole row is written: text and completion.
Written(t) == Changed(t, t)

Serve(i) ==
    LET t == jobs[i].todo
        op == jobs[i].op
        answer(l) == jobs' = [jobs EXCEPT ![i].served = TRUE, ![i].answer = l]
    IN  /\ ~jobs[i].served
        /\ \/ /\ op \in {"list", "list of add", "count"}
              /\ answer(stored)
              /\ UNCHANGED <<stored, made>>
           \/ /\ op = "add" /\ made < MaxTodos
              /\ made' = made + 1
              /\ stored' = stored \cup {[id |-> made', text |-> t.text, done |-> FALSE]}
              /\ answer({})
           \/ /\ op = "delete"
              /\ stored' = {s \in stored : s.id # t.id}
              /\ answer({}) /\ UNCHANGED made
           \/ /\ op \in {"save", "restore", "mark"} /\ Known(t)
              /\ stored' = Written([t EXCEPT !.done = CASE op = "mark" -> TRUE
                                                       [] op = "restore" -> FALSE
                                                       [] OTHER -> t.done])
              /\ answer({}) /\ UNCHANGED made
        /\ UNCHANGED <<panelVars, editVars, countVars, usedVars>>

-----------------------------------------------------------------------------
(* Answers *)

Rest(i) == RemoveAt(jobs, i)

\* splitTodos and emitCountChange; the pane takes the count.
ListArrives(i) ==
    /\ jobs[i].served /\ jobs[i].op \in {"list", "list of add"}
    /\ list' = jobs[i].answer
    /\ badge' = PendingIn(jobs[i].answer)
    /\ adding' = (adding /\ jobs[i].op # "list of add")
    /\ jobs' = Rest(i)
    /\ UNCHANGED <<stored, made, open, newText, editVars, pageCount, usedVars>>

\* The pane is given the count of the page when that has changed.
CountArrives(i) ==
    LET count == PendingIn(jobs[i].answer)
    IN  /\ jobs[i].served /\ jobs[i].op = "count"
        /\ badge' = IF count # pageCount THEN count ELSE badge
        /\ pageCount' = count
        /\ jobs' = Rest(i)
        /\ UNCHANGED <<stored, made, panelVars, editVars, usedVars>>

Added(i) ==
    /\ jobs[i].served /\ jobs[i].op = "add"
    /\ newText' = 0
    /\ Load(Rest(i), "list of add")
    /\ UNCHANGED <<stored, made, open, list, adding, editVars, countVars>>

\* The field of the edit goes, whichever todo is being edited by then.
Saved(i) ==
    /\ jobs[i].served /\ jobs[i].op = "save"
    /\ editing' = 0 /\ editText' = 0
    /\ LoadAgain(Rest(i))
    /\ UNCHANGED <<stored, made, panelVars, editCancelled, focused, countVars>>

Rewritten(i) ==
    /\ jobs[i].served /\ jobs[i].op \in {"delete", "restore"}
    /\ LoadAgain(Rest(i))
    /\ UNCHANGED <<stored, made, panelVars, editVars, countVars>>

\* handleTodoSelectedAndSend asks for the count when the message was sent.
Marked(i) ==
    /\ jobs[i].served /\ jobs[i].op = "mark"
    /\ Load(Rest(i), "count")
    /\ UNCHANGED <<stored, made, panelVars, editVars, countVars>>

Fails(i) ==
    /\ errors < MaxErrors
    /\ errors' = errors + 1
    /\ UNCHANGED <<stored, made, open, newText, editVars, typed, asked, unsent, withdrawn,
                   crossed>>

\* A list that fails empties the panel and says nothing of the count.
ListFails(i) ==
    /\ jobs[i].op \in {"list", "list of add"}
    /\ list' = {}
    /\ adding' = (adding /\ jobs[i].op # "list of add")
    /\ jobs' = Rest(i)
    /\ Fails(i)
    /\ UNCHANGED countVars

\* loadTodoPendingCount answers 0.
CountFails(i) ==
    /\ jobs[i].op = "count"
    /\ badge' = IF pageCount # 0 THEN 0 ELSE badge
    /\ pageCount' = 0
    /\ jobs' = Rest(i)
    /\ Fails(i)
    /\ UNCHANGED <<list, adding>>

\* Other failures are silent; an edit stays open.
ChangeFails(i) ==
    /\ jobs[i].op \in {"add", "save", "delete", "restore"}
    /\ adding' = (adding /\ jobs[i].op # "add")
    /\ jobs' = Rest(i)
    /\ Fails(i)
    /\ UNCHANGED <<list, countVars>>

-----------------------------------------------------------------------------

TodoNext ==
    \/ AskCount \/ OpenPanel \/ ClosePanel \/ TypeNew \/ Add
    \/ \E t \in list : Select(t) \/ Delete(t) \/ Restore(t) \/ StartEdit(t)
    \/ TypeEdit \/ Refocus \/ Escape \/ Enter \/ Blur
    \/ \E i \in DOMAIN jobs :
          \/ Serve(i) \/ ListArrives(i) \/ CountArrives(i) \/ Added(i) \/ Saved(i)
          \/ Rewritten(i) \/ Marked(i)
          \/ ListFails(i) \/ CountFails(i) \/ ChangeFails(i)

TodoSpec == TodoInit /\ [][TodoNext]_todoVars

-----------------------------------------------------------------------------
(* Properties *)

\* When requests came one after the other and none failed, an open panel that
\* waits for nothing shows what is stored: every change is followed by a list.
PanelIsCurrent == (open /\ jobs = <<>> /\ ~crossed /\ errors = 0) => list = stored

\* What was typed in an edit that ended with Escape, and was not saved before, is
\* never stored, although the field loses the focus by it and leaving the field
\* saves.
WithdrawnIsNotStored == \A t \in stored : t.text \notin withdrawn
=============================================================================
