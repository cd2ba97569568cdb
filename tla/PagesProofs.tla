----------------------------- MODULE PagesProofs -----------------------------
(***************************************************************************)
(* Theorems about parts of the workspace page that MCPages runs beside     *)
(* SharedView, for any workspaces, texts and bounds: the elements of the   *)
(* panes, and the composer, the todo panel and the messages of one pane.   *)
(***************************************************************************)
EXTENDS MCPages, SharedViewProofs

-----------------------------------------------------------------------------
(* The elements show one page, SharedView the pages of all tabs: the operations
   of workspace-page-state.ts are the same in both. *)

\* The elements of a sequence at some places.
LEMMA SamePicked == \A s, I : E!Picked(s, I) = Picked(s, I)
  BY Zenon DEF Picked, E!Picked, Cardinality, E!Cardinality

\* Array.includes
LEMMA SameContains == \A s, x : E!Contains(s, x) = Contains(s, x)
  BY DEF Contains, E!Contains

\* Array.filter
LEMMA SameWithout == \A s, id : E!Without(s, id) = Without(s, id)
  BY SamePicked DEF Filter, E!Filter, Without, E!Without

\* uniqueIds
LEMMA SameUnique == \A s : E!UniqueIds(s) = UniqueIds(s)
  BY SamePicked DEF UniqueIds, E!UniqueIds

\* One pane more.
LEMMA SameAdded == \A s, id : E!Added(s, id) = Added(s, id)
  BY SameUnique, SameContains DEF Added, E!Added

\* One pane less.
LEMMA SameDrop == \A s, id : E!DropOne(s, id) = DropOne(s, id)
  BY DEF DropOne, E!DropOne, RemoveAt, E!RemoveAt, SelectInSeq, E!SelectInSeq, Min, E!Min

\* trimOpenWorkspaceIds
LEMMA SameTrim == \A s, id : E!Trim(s, id) = Trim(s, id)
  BY SameDrop DEF Trim, E!Trim

\* openWorkspacePane
LEMMA SameOpen == \A s, id : E!OpenPane(s, id) = OpenPane(s, id)
  BY SameTrim, SameAdded, SameWithout DEF OpenPane, E!OpenPane

\* appendWorkspacePane
LEMMA SameAppend == \A s, id : E!AppendPane(s, id) = AppendPane(s, id)
  BY SameTrim, SameAdded, SameWithout DEF AppendPane, E!AppendPane, LastOf, E!LastOf

\* dismissWorkspacePane
LEMMA SameDismiss == \A s, id, keep : E!DismissPane(s, id, keep) = DismissPane(s, id, keep)
  BY SameUnique, SameWithout DEF DismissPane, E!DismissPane, LastOf, E!LastOf

-----------------------------------------------------------------------------
(* The elements *)

Element ==
    [ws : Workspace, resolved : Workspace \cup {None}, browser : BOOLEAN, todo : BOOLEAN,
     loading : BOOLEAN, timers : Nat, asks : SUBSET Workspace, crossed : BOOLEAN]

\* The path an element remembers is that of its workspace, unless one came for another.
Own(el) == el.crossed \/ el.resolved \in {None, el.ws}
Elements == {el \in Element : Own(el)}

ElementInv ==
    /\ layout \in SoundPage /\ wide \in BOOLEAN /\ els \in Seq(Elements)

\* A new element has no path, and one that changes hands forgets it.
LEMMA UpdatedIs ==
    ASSUME NEW el \in Elements, NEW w \in Workspace
    PROVE  E!Pane(w) \in Elements /\ E!Updated(el, w) \in Elements
<1>1. E!Pane(w) \in Elements
  BY DEF E!Pane, Elements, Element, Own
<1>2. CASE el.ws = w
  BY <1>1, <1>2 DEF E!Updated
<1>3. CASE el.ws # w
  <2>1. PICK u : u = [el EXCEPT !.ws = w, !.loading = FALSE, !.resolved = None,
                                !.crossed = FALSE]
    OBVIOUS
  <2>2. u \in Element /\ u.resolved = None
    BY <2>1 DEF Elements, Element
  <2>3. E!Updated(el, w) = u
    BY <1>3, <2>1 DEF E!Updated
  <2>4. QED
    BY <1>1, <2>2, <2>3 DEF Elements, Own
<1>4. QED
  BY <1>2, <1>3

\* Whatever places shift, every pane is shown by an element of its own.
LEMMA RenderIs ==
    ASSUME NoneAssumption, ElementInv, NEW s \in SoundPage, NEW w \in BOOLEAN, E!Render(s, w)
    PROVE  ElementInv'
<1>1. layout' = s /\ wide' = w
  BY DEF E!Render
<1>2. PICK kept \in Seq(Elements) :
        kept = IF E!Layout(s, w) = E!Layout(layout, wide) THEN els ELSE <<>>
  <2>1. els \in Seq(Elements) /\ <<>> \in Seq(Elements)
    BY DEF ElementInv
  <2>2. QED
    BY <2>1
<1>3. /\ s.open \in Seq(Workspace) /\ s.active \in Workspace \cup {None}
      /\ s.active = None => s.open = <<>>
  BY SoundIs DEF SoundPage, PageStates
<1>4. PICK panes \in Seq(Workspace) :
        panes = CASE E!Layout(s, w) = "empty" -> <<>>
                  [] E!Layout(s, w) = "grid" -> s.open
                  [] OTHER -> <<s.active>>
  <2>1. CASE E!Layout(s, w) = "empty"
    <3>1. <<>> \in Seq(Workspace)
      OBVIOUS
    <3>2. QED
      BY <2>1, <3>1
  <2>2. CASE E!Layout(s, w) = "grid"
    BY <1>3, <2>2
  <2>3. CASE E!Layout(s, w) \notin {"empty", "grid"}
    <3>1. s.active \in Workspace
      BY <1>3, <2>3 DEF E!Layout
    <3>2. <<s.active>> \in Seq(Workspace)
      BY <3>1
    <3>3. QED
      BY <2>3, <3>2
  <2>4. QED
    BY <2>1, <2>2, <2>3
<1>5. els' = [i \in DOMAIN panes |-> E!WorkspacePane(kept, i, panes[i])]
  BY <1>2, <1>4 DEF E!Render, E!RenderPanes
<1>6. ASSUME NEW i \in DOMAIN panes PROVE E!WorkspacePane(kept, i, panes[i]) \in Elements
  <2>1. i \in Nat \ {0} /\ panes[i] \in Workspace
    OBVIOUS
  <2>2. CASE i <= Len(kept)
    <3>1. kept[i] \in Elements
      BY <2>1, <2>2
    <3>2. QED
      BY <2>1, <2>2, <3>1, UpdatedIs DEF E!WorkspacePane
  <2>3. CASE ~(i <= Len(kept))
    <3>1. PICK v \in Workspace : v = panes[i]
      BY <2>1
    <3>2. E!Pane(v) \in Elements
      BY DEF E!Pane, Elements, Element, Own
    <3>3. QED
      BY <2>3, <3>1, <3>2 DEF E!WorkspacePane
  <2>4. QED
    BY <2>2, <2>3
<1>7. els' \in Seq(Elements)
  <2>1. DOMAIN panes = 1 .. Len(panes) /\ Len(panes) \in Nat
    OBVIOUS
  <2>2. els' \in [1 .. Len(panes) -> Elements]
    BY <1>5, <1>6, <2>1
  <2>3. QED
    BY <2>1, <2>2, SeqDef
<1>8. QED
  BY <1>1, <1>7 DEF ElementInv

\* The element of one place changes.
LEMMA BecomesIs ==
    ASSUME ElementInv, NEW i \in DOMAIN els, NEW el \in Elements, E!Becomes(i, el)
    PROVE  ElementInv'
<1>1. els' = [els EXCEPT ![i] = el] /\ layout' = layout /\ wide' = wide
  BY DEF E!Becomes
<1>2. els' \in Seq(Elements)
  BY <1>1 DEF ElementInv
<1>3. QED
  BY <1>1, <1>2 DEF ElementInv

\* Nothing that is done inside a pane gives it the files of another workspace.
LEMMA ClickKeeps ==
    ASSUME NoneAssumption, ElementInv, NEW i \in DOMAIN els,
           \/ E!ToggleBrowser(i) \/ E!ToggleTodo(i) \/ E!LoadOlder(i) \/ E!MessagesChange(i)
           \/ E!LoadTimer(i) \/ \E w \in Workspace : E!PathResolved(i, w) \/ E!PathFails(i, w)
    PROVE  ElementInv'
<1>1. PICK el \in Elements : el = els[i]
  BY DEF ElementInv
<1>2. el \in Element /\ Own(el)
  BY DEF Elements
<1>3. CASE E!ToggleBrowser(i)
  <2>1. PICK u : u = IF el.browser THEN [el EXCEPT !.browser = FALSE]
                     ELSE [el EXCEPT !.asks = @ \cup {el.ws}]
    OBVIOUS
  <2>2. u \in Element /\ u.crossed = el.crossed /\ u.resolved = el.resolved /\ u.ws = el.ws
    BY <1>2, <2>1 DEF Element
  <2>3. u \in Elements
    BY <1>2, <2>2 DEF Elements, Own
  <2>4. E!Becomes(i, u)
    BY <1>1, <1>3, <2>1 DEF E!ToggleBrowser
  <2>5. QED
    BY <2>3, <2>4, BecomesIs
<1>4. CASE E!ToggleTodo(i)
  <2>1. PICK u : u = [el EXCEPT !.todo = ~@]
    OBVIOUS
  <2>2. u \in Element /\ u.crossed = el.crossed /\ u.resolved = el.resolved /\ u.ws = el.ws
    BY <1>2, <2>1 DEF Element
  <2>3. u \in Elements
    BY <1>2, <2>2 DEF Elements, Own
  <2>4. E!Becomes(i, u)
    BY <1>1, <1>4, <2>1 DEF E!ToggleTodo
  <2>5. QED
    BY <2>3, <2>4, BecomesIs
<1>5. CASE E!LoadOlder(i)
  <2>1. PICK u : u = [el EXCEPT !.loading = TRUE, !.timers = @ + 1]
    OBVIOUS
  <2>2. u \in Element /\ u.crossed = el.crossed /\ u.resolved = el.resolved /\ u.ws = el.ws
    <3>1. el.timers + 1 \in Nat
      BY <1>2 DEF Element
    <3>2. QED
      BY <1>2, <2>1, <3>1 DEF Element
  <2>3. u \in Elements
    BY <1>2, <2>2 DEF Elements, Own
  <2>4. E!Becomes(i, u)
    BY <1>1, <1>5, <2>1 DEF E!LoadOlder
  <2>5. QED
    BY <2>3, <2>4, BecomesIs
<1>6. CASE E!MessagesChange(i)
  <2>1. PICK u : u = [el EXCEPT !.loading = FALSE]
    OBVIOUS
  <2>2. u \in Element /\ u.crossed = el.crossed /\ u.resolved = el.resolved /\ u.ws = el.ws
    BY <1>2, <2>1 DEF Element
  <2>3. u \in Elements
    BY <1>2, <2>2 DEF Elements, Own
  <2>4. E!Becomes(i, u)
    BY <1>1, <1>6, <2>1 DEF E!MessagesChange
  <2>5. QED
    BY <2>3, <2>4, BecomesIs
<1>7. CASE E!LoadTimer(i)
  <2>1. PICK u : u = [el EXCEPT !.loading = FALSE, !.timers = @ - 1]
    OBVIOUS
  <2>2. u \in Element /\ u.crossed = el.crossed /\ u.resolved = el.resolved /\ u.ws = el.ws
    <3>1. el.timers \in Nat /\ el.timers > 0
      BY <1>1, <1>2, <1>7 DEF Element, E!LoadTimer
    <3>2. el.timers - 1 \in Nat
      BY <3>1
    <3>3. QED
      BY <1>2, <2>1, <3>2 DEF Element
  <2>3. u \in Elements
    BY <1>2, <2>2 DEF Elements, Own
  <2>4. E!Becomes(i, u)
    BY <1>1, <1>7, <2>1 DEF E!LoadTimer
  <2>5. QED
    BY <2>3, <2>4, BecomesIs
<1>8. ASSUME NEW w \in Workspace, E!PathResolved(i, w) PROVE ElementInv'
  <2>1. PICK u : u = [el EXCEPT !.resolved = w, !.browser = TRUE, !.asks = @ \ {w},
                                !.crossed = (w # el.ws)]
    OBVIOUS
  <2>2. u \in Element /\ u.crossed = (w # el.ws) /\ u.resolved = w /\ u.ws = el.ws
    BY <1>2, <2>1 DEF Element
  <2>3. u \in Elements
    BY <2>2 DEF Elements, Own
  <2>4. E!Becomes(i, u)
    BY <1>1, <1>8, <2>1 DEF E!PathResolved
  <2>5. QED
    BY <2>3, <2>4, BecomesIs
<1>9. ASSUME NEW w \in Workspace, E!PathFails(i, w) PROVE ElementInv'
  <2>1. PICK u : u = [el EXCEPT !.resolved = el.ws, !.browser = TRUE, !.asks = @ \ {w},
                                !.crossed = FALSE]
    OBVIOUS
  <2>2. u \in Element /\ u.resolved = el.ws /\ u.ws = el.ws
    BY <1>2, <2>1 DEF Element
  <2>3. u \in Elements
    BY <2>2 DEF Elements, Own
  <2>4. E!Becomes(i, u)
    BY <1>1, <1>9, <2>1 DEF E!PathFails
  <2>5. QED
    BY <2>3, <2>4, BecomesIs
<1>10. QED
  BY <1>3, <1>4, <1>5, <1>6, <1>7, <1>8, <1>9

\* A page without panes has no elements.
LEMMA InitElements ==
    ASSUME MaxOpenAssumption, NoneAssumption, E!PanesInit
    PROVE  ElementInv
<1>1. layout = E!CreatePageState(<<>>, None, <<>>) /\ wide \in BOOLEAN /\ els = <<>>
  BY DEF E!PanesInit
<1>2. layout \in PageStates /\ layout.open = <<>> /\ layout.active = None
  BY <1>1 DEF E!CreatePageState, PageStates
<1>3. Sound(layout)
  <2>1. NoDup(<<>>)
    BY DEF NoDup
  <2>2. Len(<<>>) <= MaxOpen
    BY DEF MaxOpenAssumption
  <2>3. layout.open \in Seq(Workspace)
    BY <1>2
  <2>4. QED
    BY <1>2, <2>1, <2>2, <2>3, SoundIs
<1>4. QED
  BY <1>1, <1>2, <1>3 DEF ElementInv, SoundPage

\* Every step of the page and its elements keeps the elements their own.
LEMMA NextElements ==
    ASSUME MaxOpenAssumption, NoneAssumption, ElementInv, [E!PanesNext]_(E!paneVars)
    PROVE  ElementInv'
<1>0. layout \in SoundPage /\ wide \in BOOLEAN
  BY DEF ElementInv
<1>1. ASSUME NEW w \in Workspace, E!OpenWorkspace(w) PROVE ElementInv'
  <2>1. PICK r : r = OpenPane(layout, w)
    OBVIOUS
  <2>2. r \in SoundPage
    BY <1>0, <2>1, OpenPaneIs
  <2>3. E!Render(r, wide)
    BY <1>1, <2>1, SameOpen DEF E!OpenWorkspace
  <2>4. QED
    BY <1>0, <2>2, <2>3, RenderIs
<1>2. ASSUME NEW w \in Workspace, E!CloseWorkspace(w) PROVE ElementInv'
  <2>1. PICK r : r = DismissPane(layout, w, FALSE)
    OBVIOUS
  <2>2. r \in SoundPage
    BY <1>0, <2>1, DismissPaneIs
  <2>3. E!Render(r, wide)
    BY <1>2, <2>1, SameDismiss DEF E!CloseWorkspace
  <2>4. QED
    BY <1>0, <2>2, <2>3, RenderIs
<1>3. ASSUME NEW w \in Workspace, E!Appears(w) PROVE ElementInv'
  <2>1. PICK r : r = AppendPane(layout, w)
    OBVIOUS
  <2>2. r \in SoundPage
    BY <1>0, <2>1, AppendPaneIs
  <2>3. E!Render(r, wide)
    BY <1>3, <2>1, SameAppend DEF E!Appears
  <2>4. QED
    BY <1>0, <2>2, <2>3, RenderIs
<1>4. CASE E!Resize
  BY <1>0, <1>4, RenderIs DEF E!Resize
<1>5. ASSUME NEW i \in DOMAIN rail, E!ToggleMenu(i) \/ E!MenuCloses(i) PROVE ElementInv'
  BY <1>5 DEF E!ToggleMenu, E!MenuCloses, ElementInv
<1>6. CASE UNCHANGED E!paneVars
  BY <1>6 DEF E!paneVars, ElementInv
<1>7. QED
  BY <1>1, <1>2, <1>3, <1>4, <1>5, <1>6, ClickKeeps DEF E!PanesNext

\* An element whose path is its own shows its own files.
LEMMA OwnFiles == ElementInv => FilesAreItsOwn
<1> SUFFICES ASSUME ElementInv, NEW i \in DOMAIN els, ~els[i].crossed
             PROVE  E!ShownFiles(els[i]) = els[i].ws
  BY DEF FilesAreItsOwn, E!FilesAreItsOwn
<1>1. els[i] \in Elements
  BY DEF ElementInv
<1>2. QED
  BY <1>1 DEF Elements, Own, E!ShownFiles

\* What an element shows in its file browser are the files of the workspace it shows,
\* whatever places have shifted and whichever paths come late or never
\* (renderWorkspacePanes, updated and toggleFileBrowser).
THEOREM FilesStayItsOwn ==
    ASSUME MaxOpenAssumption, NoneAssumption
    PROVE  E!PanesSpec => []FilesAreItsOwn
  BY InitElements, NextElements, OwnFiles, PTL DEF E!PanesSpec

-----------------------------------------------------------------------------
(* The composer *)

\* A sequence over one set whose elements are in another is one over that.
LEMMA Recast ==
    ASSUME NEW S, NEW U, NEW s \in Seq(S), \A i \in DOMAIN s : s[i] \in U
    PROVE  s \in Seq(U)
<1>1. Len(s) \in Nat /\ DOMAIN s = 1 .. Len(s) /\ s = [i \in 1 .. Len(s) |-> s[i]]
  OBVIOUS
<1>2. s \in [1 .. Len(s) -> U]
  BY <1>1
<1>3. QED
  BY <1>1, <1>2, SeqDef

\* Array.splice
LEMMA SameRemove == \A s, i : C!RemoveAt(s, i) = RemoveAt(s, i)
  BY DEF RemoveAt, C!RemoveAt

Calls ==
    [op : {"send", "queue", "button", "stop", "cancel", "status", "mark"},
     text : C!Draft, stage : {"sent", "served"}, said : C!Draft]

\* The draft may go: the user was warned, there is nothing in it, or the server has it.
Spent == overtaken = TRUE \/ C!Trimmed(draft) = Nothing \/ draft \in accepted

\* What is true of a request under way: a message that was served was taken, one that
\* is sent is the draft unless that may go, and no button was clicked unnoticed.
Fitting(k) ==
    /\ k.said \in accepted \cup {Nothing}
    /\ k.op = "send" => Spent \/ k.text = draft
    /\ k.op = "send" /\ k.stage = "served" => k.text \in accepted
    /\ k.op = "button" => overtaken = TRUE
Fits == {k \in Calls : Fitting(k)}

ComposerInv ==
    /\ calls \in Seq(Fits) /\ draft \in C!Draft /\ queued \in C!Draft
    /\ queued \in accepted \cup {Nothing} /\ overtaken \in BOOLEAN

\* What is under way fits on while more is taken and the draft stays, or may go.
LEMMA FitsOn ==
    ASSUME ComposerInv, accepted \subseteq accepted', overtaken' \in BOOLEAN,
           overtaken = TRUE => overtaken' = TRUE,
           draft' = draft \/ C!Trimmed(draft') = Nothing \/ draft' \in accepted'
    PROVE  \A k \in Fits : k \in Fits'
<1>1. SUFFICES ASSUME NEW k \in Fits PROVE Fitting(k)'
  BY DEF Fits, Calls, C!Draft, C!Message
<1>2. k \in Calls /\ Fitting(k)
  BY DEF Fits
<1>3. Spent => Spent'
  BY DEF Spent
<1>4. k.op = "send" => Spent' \/ k.text = draft'
  BY <1>2, <1>3 DEF Fitting, Spent
<1>5. QED
  BY <1>2, <1>4 DEF Fitting

\* A new request that fits joins the others.
LEMMA CallFits ==
    ASSUME ComposerInv, accepted' = accepted, queued' = queued, draft' \in C!Draft,
           overtaken' \in BOOLEAN, \A k \in Fits : k \in Fits',
           NEW op, NEW text, C!Call(op, text),
           [op |-> op, text |-> text, stage |-> "sent", said |-> Nothing] \in Fits'
    PROVE  ComposerInv'
<1>1. PICK k : k = [op |-> op, text |-> text, stage |-> "sent", said |-> Nothing]
  OBVIOUS
<1>2. calls' = Append(calls, k) /\ k \in Fits'
  BY <1>1 DEF C!Call
<1>3. calls \in Seq(Fits')
  <2>1. \A i \in DOMAIN calls : calls[i] \in Fits'
    BY DEF ComposerInv
  <2>2. calls \in Seq(Fits)
    BY DEF ComposerInv
  <2>3. QED
    BY <2>1, <2>2, Recast
<1>4. calls' \in Seq(Fits')
  BY <1>2, <1>3
<1>5. QED
  BY <1>4 DEF ComposerInv

\* The answer to a request takes it out of those under way.
LEMMA AnswerFits ==
    ASSUME ComposerInv, accepted' = accepted, queued' = queued, draft' \in C!Draft,
           overtaken' = overtaken, NEW i \in DOMAIN calls,
           draft' = draft \/ C!Trimmed(draft') = Nothing \/ draft' \in accepted,
           calls' = C!RemoveAt(calls, i)
    PROVE  ComposerInv'
<1>1. \A k \in Fits : k \in Fits'
  BY FitsOn DEF ComposerInv
<1>2. calls \in Seq(Fits) /\ calls' = RemoveAt(calls, i)
  BY SameRemove DEF ComposerInv
<1>3. PICK r \in Seq(Fits) : r = RemoveAt(calls, i)
  BY <1>2, RemoveAtIs
<1>4. \A j \in DOMAIN r : r[j] \in Fits'
  BY <1>1
<1>5. r \in Seq(Fits')
  BY <1>4, Recast
<1>6. QED
  BY <1>2, <1>3, <1>5 DEF ComposerInv

\* The page sends the draft, asks to stop, or says that there is nothing to send.
LEMMA ActFits ==
    ASSUME C!TextsAssumption, ComposerInv, NEW act \in {"send", "queue", "stop"}, C!Act(act)
    PROVE  ComposerInv'
<1>0. /\ accepted' = accepted /\ queued' = queued /\ overtaken' = overtaken /\ draft' = draft
      /\ overtaken \in BOOLEAN /\ draft \in C!Draft
  BY DEF C!Act, C!StopOrCancel, C!SendDraft, C!DraftSent, C!server, ComposerInv
<1>1. \A k \in Fits : k \in Fits'
  BY <1>0, FitsOn
<1>2. Nothing \in C!Draft /\ (C!Trimmed(draft) # Nothing => C!Trimmed(draft) = draft)
  BY DEF C!Trimmed, C!Draft
<1>3. CASE calls' = calls
  <2>1. \A i \in DOMAIN calls : calls[i] \in Fits'
    BY <1>1 DEF ComposerInv
  <2>2. calls \in Seq(Fits')
    BY <2>1, Recast DEF ComposerInv
  <2>3. QED
    BY <1>0, <1>3, <2>2 DEF ComposerInv
<1>4. CASE C!StopOrCancel
  <2>1. PICK op \in {"cancel", "stop"} : C!Call(op, Nothing)
    BY <1>4 DEF C!StopOrCancel
  <2>2. [op |-> op, text |-> Nothing, stage |-> "sent", said |-> Nothing] \in Fits'
    BY <1>2 DEF Fits, Calls, Fitting
  <2>3. QED
    BY <1>0, <1>1, <2>1, <2>2, CallFits
<1>5. CASE C!SendDraft(act) /\ C!Trimmed(draft) # Nothing /\ act # "stop"
  <2>1. C!Call(act, draft)
    BY <1>2, <1>5 DEF C!SendDraft
  <2>2. [op |-> act, text |-> draft, stage |-> "sent", said |-> Nothing] \in Fits'
    BY <1>0, <1>2, <1>5 DEF Fits, Calls, Fitting
  <2>3. QED
    BY <1>0, <1>1, <2>1, <2>2, CallFits
<1>6. QED
  BY <1>3, <1>4, <1>5 DEF C!Act, C!SendDraft

\* A quick button, a todo or a question for the queue goes out.
LEMMA ClickFits ==
    ASSUME C!TextsAssumption, ComposerInv,
           \/ \E button \in Button : C!ClickButton(button)
           \/ \E t \in Todo : C!SelectTodo(t)
           \/ C!AskStatus
    PROVE  ComposerInv'
<1>1. ASSUME NEW button \in Button, C!ClickButton(button) PROVE ComposerInv'
  <2>1. /\ accepted' = accepted /\ queued' = queued /\ overtaken' = TRUE /\ draft' = draft
        /\ draft \in C!Draft /\ C!Call("button", button)
    BY <1>1 DEF C!ClickButton, C!server, ComposerInv
  <2>2. \A k \in Fits : k \in Fits'
    BY <2>1, FitsOn
  <2>3. [op |-> "button", text |-> button, stage |-> "sent", said |-> Nothing] \in Fits'
    BY <2>1 DEF Fits, Calls, Fitting, C!Draft, C!Message
  <2>4. QED
    BY <2>1, <2>2, <2>3, CallFits
<1>2. ASSUME NEW t \in Todo, C!SelectTodo(t) PROVE ComposerInv'
  <2>1. /\ accepted' = accepted /\ queued' = queued /\ overtaken' = (calls # <<>>)
        /\ draft' = t /\ C!Call("mark", t)
    BY <1>2 DEF C!SelectTodo, C!server
  <2>2. t \in C!Draft
    BY DEF C!Draft, C!Message
  <2>3. PICK m : m = [op |-> "mark", text |-> t, stage |-> "sent", said |-> Nothing]
    OBVIOUS
  <2>4. m \in Fits'
    BY <2>2, <2>3 DEF Fits, Calls, Fitting, C!Draft
  <2>5. CASE calls = <<>>
    <3>1. calls' = <<m>>
      BY <2>1, <2>3, <2>5 DEF C!Call
    <3>2. calls' \in Seq(Fits')
      BY <2>4, <3>1
    <3>3. QED
      BY <2>1, <2>2, <2>5, <3>2 DEF ComposerInv
  <2>6. CASE calls # <<>>
    <3>1. overtaken' = TRUE
      BY <2>1, <2>6
    <3>2. \A k \in Fits : k \in Fits'
      BY <2>1, <3>1 DEF Fits, Calls, Fitting, Spent, C!Draft, C!Message
    <3>3. QED
      BY <2>1, <2>2, <2>3, <2>4, <3>1, <3>2, CallFits
  <2>7. QED
    BY <2>5, <2>6
<1>3. CASE C!AskStatus
  <2>1. /\ accepted' = accepted /\ queued' = queued /\ overtaken' = overtaken
        /\ draft' = draft /\ draft \in C!Draft /\ overtaken \in BOOLEAN
        /\ C!Call("status", Nothing)
    BY <1>3 DEF C!AskStatus, C!server, C!page, ComposerInv
  <2>2. \A k \in Fits : k \in Fits'
    BY <2>1, FitsOn
  <2>3. [op |-> "status", text |-> Nothing, stage |-> "sent", said |-> Nothing] \in Fits'
    BY <2>1 DEF Fits, Calls, Fitting, C!Draft
  <2>4. QED
    BY <2>1, <2>2, <2>3, CallFits
<1>4. QED
  BY <1>1, <1>2, <1>3

\* What is typed while a request is under way is marked as overtaken.
LEMMA TypeFits ==
    ASSUME ComposerInv, NEW text \in Text \cup {Blank, Nothing}, C!Type(text)
    PROVE  ComposerInv'
<1>1. /\ accepted' = accepted /\ queued' = queued /\ overtaken' = (calls # <<>>)
      /\ draft' = text /\ calls' = calls
  BY DEF C!Type, C!server
<1>2. draft' \in C!Draft
  BY <1>1 DEF C!Draft, C!Message
<1>3. \A i \in DOMAIN calls : calls[i] \in Fits'
  <2>1. SUFFICES ASSUME NEW i \in DOMAIN calls PROVE calls[i] \in Fits'
    OBVIOUS
  <2>2. overtaken' = TRUE
    <3>1. calls # <<>>
      OBVIOUS
    <3>2. QED
      BY <1>1, <3>1
  <2>3. calls[i] \in Calls /\ Fitting(calls[i])
    BY DEF ComposerInv, Fits
  <2>4. QED
    BY <1>1, <2>2, <2>3 DEF Fits, Calls, Fitting, Spent, C!Draft, C!Message
<1>4. calls' \in Seq(Fits')
  BY <1>1, <1>3, Recast DEF ComposerInv
<1>5. QED
  BY <1>1, <1>2, <1>4 DEF ComposerInv

\* The server takes a message before it answers.
LEMMA ServeFits ==
    ASSUME ComposerInv, NEW i \in DOMAIN calls, C!Serve(i)
    PROVE  ComposerInv'
<1>1. PICK k \in Fits : k = calls[i]
  BY DEF ComposerInv
<1>2. k \in Calls /\ Fitting(k)
  BY DEF Fits
<1>3. draft' = draft /\ overtaken' = overtaken /\ draft \in C!Draft /\ overtaken \in BOOLEAN
  BY DEF C!Serve, C!page, ComposerInv
<1>4. PICK said \in C!Draft :
         /\ said \in accepted \cup {Nothing}
         /\ calls' = [calls EXCEPT ![i] = [k EXCEPT !.stage = "served", !.said = said]]
  <2>1. Nothing \in C!Draft
    BY DEF C!Draft
  <2>2. PICK said \in {queued, Nothing} : C!Served(i, said)
    BY <1>1, <1>2 DEF C!Serve, Calls
  <2>3. calls' = [calls EXCEPT ![i] = [k EXCEPT !.stage = "served", !.said = said]]
    BY <1>1, <2>2 DEF C!Served
  <2>4. said \in C!Draft /\ said \in accepted \cup {Nothing}
    BY <2>1, <2>2 DEF ComposerInv
  <2>5. QED
    BY <2>3, <2>4
<1>5. /\ accepted \subseteq accepted' /\ (k.op = "send" => k.text \in accepted')
      /\ queued' \in C!Draft /\ queued' \in accepted' \cup {Nothing}
  <2>1. Nothing \in C!Draft /\ k.text \in C!Draft
    BY <1>2 DEF Calls, C!Draft
  <2>2. CASE k.op \in {"send", "button"}
    BY <1>1, <2>2 DEF C!Serve, ComposerInv
  <2>3. CASE k.op = "queue"
    BY <1>1, <2>1, <2>3 DEF C!Serve, ComposerInv
  <2>4. CASE k.op = "cancel"
    BY <1>1, <2>1, <2>4 DEF C!Serve, ComposerInv
  <2>5. CASE k.op \in {"stop", "status", "mark"}
    BY <1>1, <2>5 DEF C!Serve, C!server, ComposerInv
  <2>6. QED
    BY <1>2, <2>2, <2>3, <2>4, <2>5 DEF Calls
<1>6. PICK d : d = [k EXCEPT !.stage = "served", !.said = said]
  OBVIOUS
<1>7. d \in Calls /\ d.op = k.op /\ d.text = k.text /\ d.said = said
  BY <1>2, <1>4, <1>6 DEF Calls
<1>8. \A e \in Fits : e \in Fits'
  BY <1>3, <1>5, FitsOn
<1>9. k.op = "send" => Spent' \/ d.text = draft'
  BY <1>1, <1>7, <1>8 DEF Fits, Fitting
<1>10. d \in Fits'
  BY <1>2, <1>3, <1>4, <1>5, <1>7, <1>9 DEF Fits, Fitting, Calls, C!Draft, C!Message
<1>11. calls' \in Seq(Fits')
  <2>1. \A j \in DOMAIN calls : calls[j] \in Fits'
    BY <1>8 DEF ComposerInv
  <2>2. calls \in Seq(Fits')
    BY <2>1, Recast DEF ComposerInv
  <2>3. calls' = [calls EXCEPT ![i] = d]
    BY <1>4, <1>6
  <2>4. QED
    BY <1>10, <2>2, <2>3
<1>12. QED
  BY <1>3, <1>5, <1>11 DEF ComposerInv

\* Every answer, and every failure.
LEMMA AnsweredFits ==
    ASSUME C!TextsAssumption, ComposerInv, NEW i \in DOMAIN calls, C!Answer(i)
    PROVE  ComposerInv'
<1>1. PICK k \in Fits : k = calls[i]
  BY DEF ComposerInv
<1>2. k \in Calls /\ Fitting(k)
  BY DEF Fits
<1>3. /\ accepted' = accepted /\ queued' = queued /\ overtaken' = overtaken
      /\ draft \in C!Draft /\ overtaken \in BOOLEAN
  BY DEF C!Answer, C!MessageTaken, C!Stopped, C!QueueCancelled, C!StatusKnown, C!TodoMarked,
         C!RequestFails, C!MarkFails, C!Done, C!server, ComposerInv
<1>4. ASSUME draft' = draft \/ draft' = Nothing \/ draft' = k.said,
             calls' = C!RemoveAt(calls, i)
      PROVE  ComposerInv'
  <2>1. draft' \in C!Draft /\ (draft' = draft \/ C!Trimmed(draft') = Nothing
                                 \/ draft' \in accepted)
    BY <1>2, <1>3, <1>4 DEF Fitting, Calls, C!Draft, C!Trimmed
  <2>2. QED
    BY <1>3, <1>4, <2>1, AnswerFits
<1>5. CASE C!MessageTaken(i)
  BY <1>4, <1>5 DEF C!MessageTaken, C!Done
<1>6. CASE C!Stopped(i) \/ C!QueueCancelled(i) \/ C!RequestFails(i)
  BY <1>4, <1>6 DEF C!Stopped, C!QueueCancelled, C!RequestFails, C!Done
<1>7. CASE C!StatusKnown(i)
  <2>1. draft' = draft \/ draft' = k.said
    BY <1>1, <1>7 DEF C!StatusKnown, C!Filled
  <2>2. QED
    BY <1>4, <1>7, <2>1 DEF C!StatusKnown, C!Done
<1>8. CASE C!SendAfterMark(i) /\ draft' = draft
  <2>1. CASE C!Trimmed(draft) = Nothing
    BY <1>4, <1>8, <2>1 DEF C!SendAfterMark
  <2>2. CASE C!Trimmed(draft) # Nothing
    <3>1. C!Trimmed(draft) = draft
      BY <2>2 DEF C!Trimmed
    <3>2. PICK m : m = [op |-> "send", text |-> draft, stage |-> "sent", said |-> Nothing]
      OBVIOUS
    <3>3. PICK r \in Seq(Fits) : r = RemoveAt(calls, i)
      BY RemoveAtIs DEF ComposerInv
    <3>4. calls' = Append(r, m)
      BY <1>8, <2>2, <3>1, <3>2, <3>3, SameRemove DEF C!SendAfterMark
    <3>5. \A e \in Fits : e \in Fits'
      BY <1>3, <1>8, FitsOn
    <3>6. r \in Seq(Fits')
      BY <3>5, Recast
    <3>7. m \in Fits'
      BY <1>3, <1>8, <3>2 DEF Fits, Calls, Fitting, C!Draft
    <3>8. calls' \in Seq(Fits')
      BY <3>4, <3>6, <3>7
    <3>9. QED
      BY <1>3, <1>8, <3>8 DEF ComposerInv
  <2>3. QED
    BY <2>1, <2>2
<1>9. QED
  BY <1>5, <1>6, <1>7, <1>8 DEF C!Answer, C!TodoMarked, C!MarkFails

\* Every step of the composer keeps the requests fitting.
LEMMA NextComposer ==
    ASSUME C!TextsAssumption, ComposerInv, [C!ComposerNext]_(C!composerVars)
    PROVE  ComposerInv'
<1>1. ASSUME accepted' = accepted, overtaken' = overtaken, draft' = draft, calls' = calls,
             queued' \in {queued, Nothing}
      PROVE  ComposerInv'
  <2>1. \A k \in Fits : k \in Fits'
    BY <1>1, FitsOn DEF ComposerInv
  <2>2. calls' \in Seq(Fits')
    <3>1. \A i \in DOMAIN calls : calls[i] \in Fits'
      BY <2>1 DEF ComposerInv
    <3>2. QED
      BY <1>1, <3>1, Recast DEF ComposerInv
  <2>3. QED
    BY <1>1, <2>2 DEF ComposerInv, C!Draft
<1>2. CASE C!ExecutionEnds \/ C!StatusArrives \/ UNCHANGED C!composerVars
  BY <1>1, <1>2 DEF C!ExecutionEnds, C!StatusArrives, C!composerVars, C!server, C!page
<1>3. QED
  BY <1>2, ActFits, ClickFits, TypeFits, ServeFits, AnsweredFits DEF C!ComposerNext

\* Edits are counted.
LEMMA NextEdits == edits \in Nat /\ [C!ComposerNext]_(C!composerVars) => (edits \in Nat)'
<1> SUFFICES ASSUME edits \in Nat, [C!ComposerNext]_(C!composerVars)
             PROVE  edits' \in {edits, edits + 1}
  OBVIOUS
<1>1. ASSUME NEW act \in {"send", "queue", "stop"}, C!Act(act) PROVE edits' = edits
  BY <1>1 DEF C!Act, C!StopOrCancel, C!SendDraft, C!spent
<1>2. ASSUME NEW i \in DOMAIN calls, C!Serve(i) \/ C!Answer(i) PROVE edits' = edits
  BY <1>2 DEF C!Serve, C!Answer, C!MessageTaken, C!Stopped, C!QueueCancelled, C!StatusKnown,
              C!TodoMarked, C!RequestFails, C!MarkFails, C!Done, C!Failing, C!spent
<1>3. QED
  BY <1>1, <1>2 DEF C!ComposerNext, C!ClickButton, C!Type, C!SelectTodo, C!AskStatus,
                    C!ExecutionEnds, C!StatusArrives, C!composerVars, C!spent

\* Nothing is under way at first.
LEMMA InitComposer == C!ComposerInit => ComposerInv /\ edits \in Nat
<1> SUFFICES ASSUME C!ComposerInit PROVE ComposerInv /\ edits \in Nat
  OBVIOUS
<1>1. /\ calls = <<>> /\ draft = Nothing /\ queued = Nothing /\ overtaken = FALSE
      /\ edits = 0
  BY DEF C!ComposerInit
<1>2. <<>> \in Seq(Fits)
  OBVIOUS
<1>3. QED
  BY <1>1, <1>2 DEF ComposerInv, C!Draft

\* A text leaves the composer only when the server has it, or the user was warned.
LEMMA DraftGoes ==
    ASSUME C!TextsAssumption, ComposerInv, edits \in Nat, [C!ComposerNext]_(C!composerVars),
           draft' # draft, C!Trimmed(draft) # Nothing, edits' = edits
    PROVE  overtaken \/ draft \in accepted
<1>1. PICK i \in DOMAIN calls : C!Answer(i)
  <2>1. ~ \E act \in {"send", "queue", "stop"} : C!Act(act)
    BY DEF C!Act, C!StopOrCancel, C!SendDraft, C!DraftSent
  <2>2. ~ \E button \in Button : C!ClickButton(button)
    BY DEF C!ClickButton
  <2>3. ~ \E text \in Text \cup {Blank, Nothing} : C!Type(text)
    BY DEF C!Type
  <2>4. ~ \E t \in Todo : C!SelectTodo(t)
    BY DEF C!SelectTodo
  <2>5. ~C!AskStatus /\ ~C!ExecutionEnds /\ ~C!StatusArrives
    BY DEF C!AskStatus, C!ExecutionEnds, C!StatusArrives, C!page
  <2>6. ~ \E i \in DOMAIN calls : C!Serve(i)
    BY DEF C!Serve, C!page
  <2>7. C!ComposerNext
    BY DEF C!composerVars, C!page
  <2>8. QED
    BY <2>1, <2>2, <2>3, <2>4, <2>5, <2>6, <2>7 DEF C!ComposerNext, ComposerInv
<1>2. PICK k \in Fits : k = calls[i]
  BY DEF ComposerInv
<1>3. CASE C!MessageTaken(i)
  <2>1. k.op \in {"send", "button"} /\ k.stage = "served"
    BY <1>2, <1>3 DEF C!MessageTaken, C!Done
  <2>2. QED
    BY <2>1 DEF Fits, Fitting, Spent
<1>4. ~C!StatusKnown(i)
  BY DEF C!StatusKnown, C!Filled
<1>5. QED
  BY <1>1, <1>3, <1>4
     DEF C!Answer, C!Stopped, C!QueueCancelled, C!TodoMarked, C!RequestFails, C!MarkFails

\* Requests, answers and failures in any order never take a text out of the composer
\* that the server has not taken, but for what was typed or clicked meanwhile
\* (handlePaneAction, handleQuickButtonClick and handleTodoSelected).
THEOREM DraftStays ==
    ASSUME C!TextsAssumption
    PROVE  C!ComposerSpec => DraftIsKept
<1>1. ComposerInv /\ edits \in Nat /\ [C!ComposerNext]_(C!composerVars) =>
        [(draft' # draft /\ C!Trimmed(draft) # Nothing /\ edits' = edits)
           => overtaken \/ draft \in accepted]_(C!composerVars)
  BY DraftGoes
<1>2. QED
  BY <1>1, InitComposer, NextComposer, NextEdits, PTL DEF C!ComposerSpec, DraftIsKept, C!DraftIsKept

-----------------------------------------------------------------------------
(* The todo panel *)

\* Array.splice, and the answer that is taken out
LEMMA SameRest == \A i : T!Rest(i) = RemoveAt(jobs, i)
  BY DEF RemoveAt, T!RemoveAt, T!Rest

TodoRow == [id : Nat, text : Nat, done : BOOLEAN]
TodoOp == {"list", "list of add", "count", "add", "delete", "save", "restore", "mark"}

\* A text that is known beyond the field it was typed into.
Taken(text) == text \in 0 .. typed /\ text \notin unsent \cup withdrawn
TodoRows == {t \in TodoRow : Taken(t.text)}
TodoJobs == [op : TodoOp, todo : TodoRows, served : BOOLEAN, answer : SUBSET TodoRows]

\* Texts that were not sent, or withdrawn, are nowhere but in the field of the edit.
TextInv ==
    /\ typed \in Nat /\ made \in Nat
    /\ stored \subseteq TodoRows /\ todos \subseteq TodoRows /\ jobs \in Seq(TodoJobs)
    /\ Taken(newText) /\ editText \in 0 .. typed /\ editText \notin withdrawn
    /\ unsent \subseteq 1 .. typed /\ withdrawn \subseteq 1 .. typed

\* What is known stays known while only new texts are typed.
LEMMA TakenStays ==
    ASSUME TextInv, typed' \in Nat, typed <= typed',
           \A text \in unsent' \cup withdrawn' : text \in unsent \cup withdrawn \/ text = typed + 1
    PROVE  /\ \A text : Taken(text) => Taken(text)'
           /\ TodoRows \subseteq TodoRows' /\ TodoJobs \subseteq TodoJobs'
<1>1. ASSUME NEW text, Taken(text) PROVE Taken(text)'
  BY <1>1 DEF Taken, TextInv
<1>2. TodoRows \subseteq TodoRows'
  BY <1>1 DEF TodoRows
<1>3. TodoJobs \subseteq TodoJobs'
  <2>1. \A S : S \in SUBSET TodoRows => S \in SUBSET TodoRows'
    BY <1>2
  <2>2. QED
    BY <1>2, <2>1 DEF TodoJobs
<1>4. QED
  BY <1>1, <1>2, <1>3

\* A request takes a text that may be sent.
LEMMA AskTakes ==
    ASSUME TextInv, NEW others \in Seq(TodoJobs), NEW op \in TodoOp, NEW todo \in TodoRow,
           todo.text \in 0 .. typed, todo.text \notin withdrawn,
           todo.text = editText \/ Taken(todo.text), T!Ask(others, T!Job(op, todo))
    PROVE  /\ typed' = typed /\ withdrawn' = withdrawn /\ unsent' \subseteq unsent
           /\ jobs' \in Seq(TodoJobs')
<1>1. PICK j : j = T!Job(op, todo)
  OBVIOUS
<1>2. /\ j.todo = todo /\ j.op = op /\ j.served = FALSE /\ j.answer = {}
      /\ j = [op |-> op, todo |-> todo, served |-> FALSE, answer |-> {}]
  BY <1>1 DEF T!Job
<1>3. /\ jobs' = Append(others, j) /\ unsent' = unsent \ {todo.text}
      /\ typed' = typed /\ withdrawn' = withdrawn
  BY <1>1, <1>2 DEF T!Ask
<1>4. todo \in TodoRows'
  BY <1>3 DEF TodoRows, Taken
<1>5. j \in TodoJobs'
  BY <1>2, <1>4 DEF TodoJobs
<1>6. TodoJobs \subseteq TodoJobs'
  BY <1>3, TakenStays DEF TextInv
<1>7. others \in Seq(TodoJobs')
  BY <1>6, Recast
<1>8. QED
  BY <1>3, <1>5, <1>7

\* Nothing that moves only what is known breaks it.
LEMMA TextStays ==
    ASSUME TextInv, typed' = typed, withdrawn' = withdrawn, unsent' \subseteq unsent,
           made' \in Nat, stored' \subseteq TodoRows, todos' \subseteq TodoRows,
           jobs' \in Seq(TodoJobs'), newText' \in {newText, 0},
           editText' \in {editText, 0} \/ Taken(editText')
    PROVE  TextInv'
<1>1. /\ \A text : Taken(text) => Taken(text)'
      /\ TodoRows \subseteq TodoRows'
  BY TakenStays DEF TextInv
<1>2. Taken(0)
  BY DEF Taken, TextInv
<1>3. Taken(newText)'
  BY <1>1, <1>2 DEF TextInv
<1>4. editText' \in 0 .. typed' /\ editText' \notin withdrawn'
  BY <1>2 DEF TextInv, Taken
<1>5. QED
  BY <1>1, <1>3, <1>4 DEF TextInv

\* The jobs are the same, or one of them is answered.
LEMMA RestIs ==
    ASSUME TextInv, NEW i \in DOMAIN jobs
    PROVE  /\ T!Rest(i) \in Seq(TodoJobs) /\ Len(T!Rest(i)) = Len(jobs) - 1
           /\ jobs[i] \in TodoJobs
  BY SameRest, RemoveAtIs DEF TextInv

\* With the same texts the same jobs are good.
LEMMA JobsAre ==
    ASSUME TextInv, typed' = typed, withdrawn' = withdrawn, unsent' \subseteq unsent,
           NEW seq \in Seq(TodoJobs)
    PROVE  seq \in Seq(TodoJobs')
<1>1. TodoJobs \subseteq TodoJobs'
  BY TakenStays DEF TextInv
<1>2. QED
  BY <1>1, Recast

\* Requests of the user.
LEMMA AskText ==
    ASSUME TextInv,
           \/ T!AskCount \/ T!OpenPanel \/ T!Add
           \/ \E t \in todos : T!Select(t) \/ T!Delete(t) \/ T!Restore(t)
    PROVE  TextInv'
<1>1. ASSUME NEW op \in TodoOp, NEW todo \in TodoRows, T!Ask(jobs, T!Job(op, todo)),
             UNCHANGED <<stored, made, todos, newText, editText>>
      PROVE  TextInv'
  <2>1. todo \in TodoRow /\ Taken(todo.text)
    BY DEF TodoRows
  <2>2. /\ typed' = typed /\ withdrawn' = withdrawn /\ unsent' \subseteq unsent
        /\ jobs' \in Seq(TodoJobs')
    BY <1>1, <2>1, AskTakes DEF TextInv, Taken
  <2>3. QED
    BY <1>1, <2>2, TextStays DEF TextInv
<1>2. T!NoTodo \in TodoRows
  BY DEF T!NoTodo, TodoRows, TodoRow, Taken, TextInv
<1>3. CASE T!AskCount
  BY <1>1, <1>2, <1>3 DEF T!AskCount, T!Load, T!panelVars, T!editVars, TodoOp
<1>4. CASE T!OpenPanel
  BY <1>1, <1>2, <1>4 DEF T!OpenPanel, T!Load, T!editVars, TodoOp
<1>5. CASE T!Add
  <2>1. PICK todo : todo = [T!NoTodo EXCEPT !.text = newText]
    OBVIOUS
  <2>7. newText \in Nat
    BY DEF TextInv, Taken
  <2>2. todo \in TodoRow /\ todo.text = newText
    BY <2>1, <2>7 DEF T!NoTodo, TodoRow
  <2>3. todo \in TodoRows
    BY <2>2 DEF TodoRows, TextInv
  <2>4. T!Ask(jobs, T!Job("add", todo)) /\ "add" \in TodoOp
    BY <1>5, <2>1 DEF T!Add, TodoOp
  <2>5. UNCHANGED <<stored, made, todos, newText, editText>>
    BY <1>5 DEF T!Add, T!editVars
  <2>6. QED
    BY <1>1, <2>3, <2>4, <2>5
<1>6. ASSUME NEW t \in todos, T!Select(t) \/ T!Delete(t) \/ T!Restore(t) PROVE TextInv'
  <2>1. t \in TodoRows
    BY DEF TextInv
  <2>2. PICK op \in {"mark", "delete", "restore"} : T!Ask(jobs, T!Job(op, t))
    BY <1>6 DEF T!Select, T!Delete, T!Restore
  <2>3. UNCHANGED <<stored, made, todos, newText, editText>>
    BY <1>6 DEF T!Select, T!Delete, T!Restore, T!panelVars, T!editVars
  <2>4. op \in TodoOp
    BY DEF TodoOp
  <2>5. QED
    BY <1>1, <2>1, <2>2, <2>3, <2>4
<1>7. QED
  BY <1>3, <1>4, <1>5, <1>6

\* What is typed is new, and known only when it was asked for.
LEMMA TypeText ==
    ASSUME TextInv,
           \/ T!TypeNew \/ T!TypeEdit \/ T!Escape \/ T!ClosePanel \/ T!Refocus
           \/ \E t \in todos : T!StartEdit(t)
    PROVE  TextInv'
<1>1. CASE T!TypeNew
  <2>1. /\ typed' = typed + 1 /\ newText' = typed + 1 /\ unsent' = unsent
        /\ withdrawn' = withdrawn /\ jobs' = jobs /\ stored' = stored /\ todos' = todos
        /\ made' = made /\ editText' = editText
    BY <1>1 DEF T!TypeNew, T!editVars
  <2>2. TodoRows \subseteq TodoRows' /\ TodoJobs \subseteq TodoJobs'
    BY <2>1, TakenStays DEF TextInv
  <2>3. jobs' \in Seq(TodoJobs')
    BY <2>1, <2>2, Recast DEF TextInv
  <2>4. Taken(newText)'
    BY <2>1 DEF Taken, TextInv
  <2>5. QED
    BY <2>1, <2>2, <2>3, <2>4 DEF TextInv
<1>2. CASE T!TypeEdit
  <2>1. /\ typed' = typed + 1 /\ editText' = typed + 1 /\ unsent' = unsent \cup {typed + 1}
        /\ withdrawn' = withdrawn /\ jobs' = jobs /\ stored' = stored /\ todos' = todos
        /\ made' = made /\ newText' = newText
    BY <1>2 DEF T!TypeEdit, T!panelVars
  <2>2. /\ TodoRows \subseteq TodoRows' /\ TodoJobs \subseteq TodoJobs'
        /\ Taken(newText)'
    BY <2>1, TakenStays DEF TextInv
  <2>3. jobs' \in Seq(TodoJobs')
    BY <2>1, <2>2, Recast DEF TextInv
  <2>4. QED
    BY <2>1, <2>2, <2>3 DEF TextInv
<1>3. CASE T!Escape
  <2>1. /\ typed' = typed /\ unsent' = unsent
        /\ withdrawn' = withdrawn \cup (unsent \cap {editText})
        /\ jobs' = jobs /\ stored' = stored /\ todos' = todos /\ made' = made
        /\ newText' = newText /\ editText' = 0
    BY <1>3 DEF T!Escape, T!CancelEdit, T!panelVars
  <2>2. /\ TodoRows \subseteq TodoRows' /\ TodoJobs \subseteq TodoJobs'
        /\ Taken(newText)'
    BY <2>1, TakenStays DEF TextInv
  <2>3. jobs' \in Seq(TodoJobs')
    BY <2>1, <2>2, Recast DEF TextInv
  <2>4. QED
    BY <2>1, <2>2, <2>3 DEF TextInv
<1>4. ASSUME NEW t \in todos, T!StartEdit(t) PROVE TextInv'
  <2>1. Taken(t.text) /\ editText' = t.text
    BY <1>4 DEF TextInv, TodoRows, T!StartEdit
  <2>2. UNCHANGED <<typed, unsent, withdrawn, jobs, stored, todos, made, newText>>
    BY <1>4 DEF T!StartEdit, T!panelVars, T!usedVars
  <2>3. jobs' \in Seq(TodoJobs')
    BY <2>2, JobsAre DEF TextInv
  <2>4. QED
    BY <2>1, <2>2, <2>3, TextStays DEF TextInv
<1>5. CASE T!ClosePanel \/ T!Refocus
  <2>1. UNCHANGED <<typed, unsent, withdrawn, jobs, stored, todos, made, newText, editText>>
    BY <1>5 DEF T!ClosePanel, T!Refocus, T!panelVars, T!editVars, T!usedVars
  <2>2. jobs' \in Seq(TodoJobs')
    BY <2>1, JobsAre DEF TextInv
  <2>3. QED
    BY <2>1, <2>2, TextStays DEF TextInv
<1>6. QED
  BY <1>1, <1>2, <1>3, <1>4, <1>5

\* A save sends what the field holds, which Escape has emptied.
LEMMA SaveText ==
    ASSUME TextInv, T!Enter \/ T!Blur
    PROVE  TextInv'
<1>1. UNCHANGED <<stored, made, todos, newText, editText>>
  BY DEF T!Enter, T!Blur, T!panelVars
<1>2. CASE UNCHANGED <<jobs, T!usedVars>>
  <2>1. UNCHANGED <<typed, unsent, withdrawn, jobs>>
    BY <1>2 DEF T!usedVars
  <2>2. jobs' \in Seq(TodoJobs')
    BY <2>1, JobsAre DEF TextInv
  <2>3. QED
    BY <1>1, <2>1, <2>2, TextStays DEF TextInv
<1>3. ASSUME NEW t \in todos, T!Ask(jobs, T!Job("save", [t EXCEPT !.text = editText]))
      PROVE  TextInv'
  <2>1. PICK todo : todo = [t EXCEPT !.text = editText]
    OBVIOUS
  <2>2. t \in TodoRow /\ editText \in Nat
    BY DEF TextInv, TodoRows
  <2>3. todo \in TodoRow /\ todo.text = editText
    BY <2>1, <2>2 DEF TodoRow
  <2>4. /\ typed' = typed /\ withdrawn' = withdrawn /\ unsent' \subseteq unsent
        /\ jobs' \in Seq(TodoJobs')
    BY <1>3, <2>1, <2>3, AskTakes DEF TextInv, TodoOp
  <2>5. QED
    BY <1>1, <2>4, TextStays DEF TextInv
<1>4. QED
  BY <1>2, <1>3 DEF T!Enter, T!Blur, T!Save

\* What the server stores comes from the requests.
LEMMA ServeText ==
    ASSUME TextInv, NEW i \in DOMAIN jobs, T!Serve(i)
    PROVE  TextInv'
<1>1. jobs[i] \in TodoJobs /\ jobs[i].todo \in TodoRows
  BY RestIs DEF TodoJobs
<1>2. UNCHANGED <<todos, newText, editText, typed, unsent, withdrawn>>
  BY DEF T!Serve, T!panelVars, T!editVars, T!usedVars
<1>3. ASSUME NEW rows \in SUBSET TodoRows,
             jobs' = [jobs EXCEPT ![i].served = TRUE, ![i].answer = rows],
             stored' \subseteq TodoRows, made' \in Nat
      PROVE  TextInv'
  <2>1. PICK job \in TodoJobs : jobs' = [jobs EXCEPT ![i] = job]
    <3>1. [jobs[i] EXCEPT !.served = TRUE, !.answer = rows] \in TodoJobs
      BY <1>1 DEF TodoJobs
    <3>2. jobs' = [jobs EXCEPT ![i] = [jobs[i] EXCEPT !.served = TRUE, !.answer = rows]]
      BY <1>3
    <3>3. QED
      BY <3>1, <3>2
  <2>2. jobs' \in Seq(TodoJobs)
    BY <2>1 DEF TextInv
  <2>3. jobs' \in Seq(TodoJobs')
    BY <1>2, <2>2, JobsAre
  <2>4. QED
    BY <1>2, <1>3, <2>3, TextStays DEF TextInv
<1>4. {} \in SUBSET TodoRows
  OBVIOUS
<1>5. CASE /\ jobs[i].op \in {"list", "list of add", "count"}
           /\ jobs' = [jobs EXCEPT ![i].served = TRUE, ![i].answer = stored]
           /\ UNCHANGED <<stored, made>>
  BY <1>3, <1>5 DEF TextInv
<1>6. CASE /\ made' = made + 1
           /\ stored' = stored \cup {[id |-> made', text |-> jobs[i].todo.text, done |-> FALSE]}
           /\ jobs' = [jobs EXCEPT ![i].served = TRUE, ![i].answer = {}]
  <2>1. made' \in Nat
    BY <1>6 DEF TextInv
  <2>2. [id |-> made', text |-> jobs[i].todo.text, done |-> FALSE] \in TodoRows
    BY <1>1, <2>1 DEF TodoRows, TodoRow
  <2>3. QED
    BY <1>3, <1>4, <1>6, <2>1, <2>2 DEF TextInv
<1>7. CASE /\ stored' = {s \in stored : s.id # jobs[i].todo.id}
           /\ jobs' = [jobs EXCEPT ![i].served = TRUE, ![i].answer = {}] /\ UNCHANGED made
  BY <1>3, <1>4, <1>7 DEF TextInv
<1>8. ASSUME NEW done \in BOOLEAN,
             stored' = T!Written([jobs[i].todo EXCEPT !.done = done]),
             jobs' = [jobs EXCEPT ![i].served = TRUE, ![i].answer = {}], UNCHANGED made
      PROVE  TextInv'
  <2>1. [jobs[i].todo EXCEPT !.done = done] \in TodoRows
    BY <1>1 DEF TodoRows, TodoRow
  <2>2. stored' \subseteq TodoRows
    BY <1>8, <2>1 DEF T!Written, T!Changed, TextInv
  <2>3. QED
    BY <1>3, <1>4, <1>8, <2>2 DEF TextInv
<1>9. CASE /\ jobs[i].op \in {"save", "restore", "mark"}
           /\ stored' = T!Written([jobs[i].todo EXCEPT !.done =
                          CASE jobs[i].op = "mark" -> TRUE
                            [] jobs[i].op = "restore" -> FALSE
                            [] OTHER -> jobs[i].todo.done])
           /\ jobs' = [jobs EXCEPT ![i].served = TRUE, ![i].answer = {}] /\ UNCHANGED made
  <2>1. (CASE jobs[i].op = "mark" -> TRUE
           [] jobs[i].op = "restore" -> FALSE
           [] OTHER -> jobs[i].todo.done) \in BOOLEAN
    BY <1>1 DEF TodoRows, TodoRow
  <2>2. QED
    BY <1>8, <1>9, <2>1
<1>10. QED
  BY <1>5, <1>6, <1>7, <1>9 DEF T!Serve

\* Answers and failures bring only what was known.
LEMMA AnswerText ==
    ASSUME TextInv, NEW i \in DOMAIN jobs,
           \/ T!ListArrives(i) \/ T!CountArrives(i) \/ T!Added(i) \/ T!Saved(i)
           \/ T!Rewritten(i) \/ T!Marked(i)
           \/ T!ListFails(i) \/ T!CountFails(i) \/ T!ChangeFails(i)
    PROVE  TextInv'
<1>1. T!Rest(i) \in Seq(TodoJobs) /\ jobs[i] \in TodoJobs /\ jobs[i].answer \subseteq TodoRows
  BY RestIs DEF TodoJobs
<1>2. UNCHANGED <<stored, made>>
  BY DEF T!ListArrives, T!CountArrives, T!Added, T!Saved, T!Rewritten, T!Marked,
         T!ListFails, T!CountFails, T!ChangeFails, T!Fails
<1>3. todos' \subseteq TodoRows
  BY <1>1 DEF T!ListArrives, T!CountArrives, T!Added, T!Saved, T!Rewritten, T!Marked,
         T!ListFails, T!CountFails, T!ChangeFails, T!Fails, T!panelVars, TextInv
<1>4. newText' \in {newText, 0} /\ editText' \in {editText, 0}
  BY DEF T!ListArrives, T!CountArrives, T!Added, T!Saved, T!Rewritten, T!Marked,
         T!ListFails, T!CountFails, T!ChangeFails, T!Fails, T!panelVars, T!editVars
<1>5. ASSUME jobs' = T!Rest(i), UNCHANGED <<typed, unsent, withdrawn>>
      PROVE  TextInv'
  <2>1. jobs' \in Seq(TodoJobs')
    BY <1>1, <1>5, JobsAre
  <2>2. QED
    BY <1>2, <1>3, <1>4, <1>5, <2>1, TextStays DEF TextInv
<1>6. ASSUME NEW op \in TodoOp, T!Load(T!Rest(i), op)
      PROVE  TextInv'
  <2>1. /\ T!NoTodo \in TodoRow /\ T!NoTodo.text = 0
        /\ Taken(0) /\ 0 \in 0 .. typed /\ 0 \notin withdrawn
    BY DEF T!NoTodo, TodoRow, Taken, TextInv
  <2>2. T!Ask(T!Rest(i), T!Job(op, T!NoTodo))
    BY <1>6 DEF T!Load
  <2>3. /\ typed' = typed /\ withdrawn' = withdrawn /\ unsent' \subseteq unsent
        /\ jobs' \in Seq(TodoJobs')
    BY <1>1, <2>1, <2>2, AskTakes
  <2>4. QED
    BY <1>2, <1>3, <1>4, <2>3, TextStays DEF TextInv
<1>7. CASE T!ListArrives(i) \/ T!CountArrives(i)
  BY <1>5, <1>7 DEF T!ListArrives, T!CountArrives, T!usedVars
<1>8. CASE T!Added(i) \/ T!Saved(i) \/ T!Rewritten(i) \/ T!Marked(i)
  <2>1. PICK op \in {"list", "list of add", "count"} : T!Load(T!Rest(i), op)
    BY <1>8 DEF T!Added, T!Saved, T!Rewritten, T!Marked, T!LoadAgain
  <2>2. QED
    BY <1>6, <2>1 DEF TodoOp
<1>9. CASE T!ListFails(i) \/ T!CountFails(i) \/ T!ChangeFails(i)
  BY <1>5, <1>9 DEF T!ListFails, T!CountFails, T!ChangeFails, T!Fails
<1>10. QED
  BY <1>7, <1>8, <1>9

\* Every step of the panel and the server.
LEMMA NextText ==
    ASSUME TextInv, [T!TodoNext]_(T!todoVars)
    PROVE  TextInv'
<1>1. CASE T!TodoNext
  BY <1>1, AskText, TypeText, SaveText, ServeText, AnswerText DEF T!TodoNext
<1>2. CASE UNCHANGED T!todoVars
  <2>1. UNCHANGED <<typed, unsent, withdrawn, jobs, stored, todos, made, newText, editText>>
    BY <1>2 DEF T!todoVars, T!panelVars, T!editVars, T!usedVars
  <2>2. jobs' \in Seq(TodoJobs')
    BY <2>1, JobsAre DEF TextInv
  <2>3. QED
    BY <2>1, <2>2, TextStays DEF TextInv
<1>3. QED
  BY <1>1, <1>2

\* Cardinality of a set
LEMMA SameCount == \A S : T!Cardinality(S) = Cardinality(S)
  BY Zenon DEF Cardinality, T!Cardinality

\* Nothing was typed but the text of the one todo there may be.
LEMMA InitText ==
    ASSUME T!TodoInit
    PROVE  TextInv
<1>1. /\ typed \in {0, 1} /\ made = typed
      /\ \A t \in stored : t = [id |-> 1, text |-> 1, done |-> FALSE] /\ typed = 1
  <2>1. CASE stored = {}
    <3>1. T!Cardinality(stored) = 0
      BY <2>1, FS_EmptySet, SameCount
    <3>2. QED
      BY <2>1, <3>1 DEF T!TodoInit
  <2>2. CASE stored = {[id |-> 1, text |-> 1, done |-> FALSE]}
    <3>1. T!Cardinality(stored) = 1
      BY <2>2, FS_Singleton, SameCount
    <3>2. QED
      BY <2>2, <3>1 DEF T!TodoInit
  <2>3. QED
    BY <2>1, <2>2 DEF T!TodoInit
<1>2. /\ newText = 0 /\ editText = 0 /\ todos = {} /\ jobs = <<>>
      /\ unsent = {} /\ withdrawn = {}
  BY DEF T!TodoInit
<1>3. \A text \in 0 .. typed : Taken(text)
  BY <1>2 DEF Taken
<1>4. stored \subseteq TodoRows
  <2>1. ASSUME NEW t \in stored PROVE t \in TodoRows
    <3>1. t = [id |-> 1, text |-> 1, done |-> FALSE] /\ Taken(1)
      BY <1>1, <1>3
    <3>2. t \in TodoRow /\ t.text = 1
      BY <3>1 DEF TodoRow
    <3>3. QED
      BY <3>1, <3>2 DEF TodoRows
  <2>2. QED
    BY <2>1
<1>5. jobs \in Seq(TodoJobs)
  BY <1>2
<1>6. QED
  BY <1>1, <1>2, <1>3, <1>4, <1>5 DEF TextInv

\* For every number of todos, texts, requests and failures: Escape withdraws what was
\* typed, whatever the field does when it loses the focus.
THEOREM WithdrawnStaysAway == T!TodoSpec => []WithdrawnIsNotStored
<1>1. TextInv => WithdrawnIsNotStored
  BY DEF TextInv, TodoRows, Taken, WithdrawnIsNotStored, T!WithdrawnIsNotStored
<1>2. QED
  BY <1>1, InitText, NextText, PTL DEF T!TodoSpec

\* Requests that came one after the other, without a failure, leave a panel that is
\* open with what is stored, or a list is under way that will bring it.
Brings(job) ==
    /\ job.op \in {"list", "list of add"} /\ job.served => job.answer = stored
    /\ job.op = "count" /\ open => todos = stored
    /\ job.op = "mark" => ~open

CurrentInv ==
    /\ crossed \in BOOLEAN /\ errors \in Nat
    /\ ~crossed /\ errors = 0 =>
          /\ Len(jobs) <= 1
          /\ jobs = <<>> /\ open => todos = stored
          /\ \A i \in DOMAIN jobs : Brings(jobs[i])

\* A request after which only it is under way.
LEMMA AskCurrent ==
    ASSUME TextInv, CurrentInv, NEW others \in Seq(TodoJobs), NEW op, NEW todo,
           T!Ask(others, T!Job(op, todo)),
           ~crossed /\ errors = 0 /\ others = <<>> =>
               /\ op = "count" /\ open' => todos' = stored'
               /\ op = "mark" => ~open'
    PROVE  CurrentInv'
<1>1. PICK j : j = T!Job(op, todo)
  OBVIOUS
<1>2. j.op = op /\ j.served = FALSE
  BY <1>1 DEF T!Job
<1>3. /\ jobs' = Append(others, j) /\ errors' = errors
      /\ crossed' = (crossed \/ others # <<>>)
  BY <1>1 DEF T!Ask
<1>4. crossed' \in BOOLEAN /\ errors' \in Nat
  BY <1>3 DEF CurrentInv
<1>5. ASSUME ~crossed', errors' = 0
      PROVE  /\ Len(jobs') <= 1 /\ jobs' # <<>>
             /\ \A i \in DOMAIN jobs' : Brings(jobs[i])'
  <2>1. jobs' = <<j>> /\ ~crossed /\ errors = 0 /\ others = <<>>
    <3>1. ~crossed /\ others = <<>>
      BY <1>3, <1>5, Zenon
    <3>2. QED
      BY <1>3, <1>5, <3>1
  <2>2. Len(jobs') = 1 /\ jobs' # <<>> /\ DOMAIN jobs' = {1} /\ jobs'[1] = j
    BY <2>1
  <2>3. Brings(jobs[1])'
    BY <1>2, <2>1, <2>2 DEF Brings
  <2>4. QED
    BY <2>2, <2>3
<1>6. QED
  BY <1>4, <1>5 DEF CurrentInv

\* Nothing that is under way or shown changes, but the panel may close.
LEMMA RestCurrent ==
    ASSUME CurrentInv, open' \in {open, FALSE},
           UNCHANGED <<jobs, stored, todos, crossed, errors>>
    PROVE  CurrentInv'
<1>1. crossed' \in BOOLEAN /\ errors' \in Nat /\ Len(jobs') = Len(jobs)
  BY DEF CurrentInv
<1>2. \A i \in DOMAIN jobs : Brings(jobs[i]) => Brings(jobs[i])'
  <2> TAKE i \in DOMAIN jobs
  <2>1. jobs'[i] = jobs[i] /\ stored' = stored /\ todos' = todos
    OBVIOUS
  <2>3. open' => open
    BY Zenon
  <2>2. QED
    BY <2>1, <2>3 DEF Brings
<1>3. /\ DOMAIN jobs' = DOMAIN jobs /\ (jobs' = <<>> => jobs = <<>>)
      /\ todos' = todos /\ stored' = stored
  OBVIOUS
<1>4. open' => open
  BY Zenon
<1>5. ~crossed' /\ errors' = 0 => ~crossed /\ errors = 0
  BY Zenon
<1>6. QED
  BY <1>1, <1>2, <1>3, <1>4, <1>5 DEF CurrentInv

\* The one request under way is answered, and nothing follows.
LEMMA DoneCurrent ==
    ASSUME TextInv, CurrentInv, NEW i \in DOMAIN jobs, jobs' = T!Rest(i),
           UNCHANGED <<crossed, errors>>,
           ~crossed /\ errors = 0 /\ Brings(jobs[i]) /\ open' => todos' = stored'
    PROVE  CurrentInv'
<1>1. ASSUME ~crossed, errors = 0
      PROVE  jobs' = <<>> /\ Brings(jobs[i])
  <2>1. Len(jobs) <= 1 /\ Brings(jobs[i])
    BY <1>1 DEF CurrentInv
  <2>2. jobs' \in Seq(TodoJobs) /\ Len(jobs') = Len(jobs) - 1 /\ Len(jobs) \in Nat
    BY RestIs DEF TextInv
  <2>3. Len(jobs') = 0
    BY <2>1, <2>2
  <2>4. QED
    BY <2>1, <2>2, <2>3
<1>2. ASSUME ~crossed, errors = 0
      PROVE  /\ Len(jobs') <= 1 /\ open' => todos' = stored'
             /\ \A k \in DOMAIN jobs' : FALSE
  BY <1>1, <1>2
<1>3. QED
  BY <1>2 DEF CurrentInv

\* The user asks, types, opens and closes.
LEMMA UserCurrent ==
    ASSUME TextInv, CurrentInv,
           \/ T!AskCount \/ T!OpenPanel \/ T!ClosePanel \/ T!TypeNew \/ T!Add
           \/ \E t \in todos : T!Select(t) \/ T!Delete(t) \/ T!Restore(t) \/ T!StartEdit(t)
           \/ T!TypeEdit \/ T!Refocus \/ T!Escape \/ T!Enter \/ T!Blur
    PROVE  CurrentInv'
<1>1. jobs \in Seq(TodoJobs)
  BY DEF TextInv
<1>2. ASSUME NEW op, NEW todo, T!Ask(jobs, T!Job(op, todo)),
             op = "count" => UNCHANGED <<open, todos, stored>>, op = "mark" => ~open'
      PROVE  CurrentInv'
  BY <1>1, <1>2, AskCurrent DEF CurrentInv
<1>3. CASE T!AskCount
  BY <1>2, <1>3 DEF T!AskCount, T!Load, T!panelVars
<1>4. CASE T!OpenPanel
  BY <1>2, <1>4 DEF T!OpenPanel, T!Load
<1>5. CASE T!Add
  BY <1>2, <1>5 DEF T!Add
<1>6. ASSUME NEW t \in todos, T!Select(t) \/ T!Delete(t) \/ T!Restore(t)
      PROVE  CurrentInv'
  BY <1>2, <1>6 DEF T!Select, T!Delete, T!Restore
<1>7. CASE T!Enter \/ T!Blur
  <2>1. UNCHANGED <<open, todos, stored>>
    BY <1>7 DEF T!Enter, T!Blur, T!panelVars
  <2>2. CASE UNCHANGED <<jobs, T!usedVars>>
    BY <2>1, <2>2, RestCurrent DEF T!usedVars
  <2>3. ASSUME NEW t, T!Ask(jobs, T!Job("save", [t EXCEPT !.text = editText]))
        PROVE  CurrentInv'
    BY <1>2, <2>3
  <2>4. QED
    BY <1>7, <2>2, <2>3 DEF T!Enter, T!Blur, T!Save
<1>8. CASE \/ T!ClosePanel \/ T!TypeNew \/ T!TypeEdit \/ T!Refocus \/ T!Escape
           \/ \E t \in todos : T!StartEdit(t)
  <2>1. open' \in {open, FALSE} /\ UNCHANGED <<jobs, stored, todos, crossed, errors>>
    BY <1>8 DEF T!ClosePanel, T!TypeNew, T!TypeEdit, T!Refocus, T!Escape, T!StartEdit,
               T!panelVars, T!usedVars
  <2>2. QED
    BY <2>1, RestCurrent
<1>9. QED
  BY <1>3, <1>4, <1>5, <1>6, <1>7, <1>8

\* A change is served while its request is under way, a list has what is stored.
LEMMA ServeCurrent ==
    ASSUME TextInv, CurrentInv, NEW i \in DOMAIN jobs, T!Serve(i)
    PROVE  CurrentInv'
<1>1. UNCHANGED <<open, todos, crossed, errors>>
  BY DEF T!Serve, T!panelVars, T!usedVars
<1>2. PICK rows : /\ jobs' = [jobs EXCEPT ![i].served = TRUE, ![i].answer = rows]
                  /\ \/ rows = stored /\ stored' = stored
                     \/ jobs[i].op \notin {"list", "list of add", "count"}
  BY DEF T!Serve
<1>3. jobs[i] \in TodoJobs
  BY RestIs
<1>4. PICK job : job = [jobs[i] EXCEPT !.served = TRUE, !.answer = rows]
  OBVIOUS
<1>5. job.op = jobs[i].op /\ job.answer = rows
  BY <1>3, <1>4 DEF TodoJobs
<1>6. jobs' = [jobs EXCEPT ![i] = job]
  BY <1>2, <1>4
<1>7. ASSUME ~crossed, errors = 0
      PROVE  /\ Len(jobs') <= 1 /\ jobs' # <<>>
             /\ \A k \in DOMAIN jobs' : Brings(jobs[k])'
  <2>1. Len(jobs) <= 1 /\ Brings(jobs[i]) /\ jobs \in Seq(TodoJobs)
    BY <1>7 DEF CurrentInv, TextInv
  <2>2. /\ jobs' \in Seq(TodoJobs \cup {job}) /\ Len(jobs') = Len(jobs)
        /\ DOMAIN jobs' = DOMAIN jobs
    BY <1>6, <2>1
  <2>6. DOMAIN jobs = 1 .. Len(jobs) /\ Len(jobs) \in Nat /\ i \in 1 .. Len(jobs)
    BY <2>1
  <2>7. DOMAIN jobs = {i}
    BY <2>1, <2>6
  <2>3. DOMAIN jobs = {i} /\ jobs'[i] = job
    BY <1>6, <2>7
  <2>4. Brings(jobs[i])'
    BY <1>1, <1>2, <1>5, <2>1, <2>3 DEF Brings
  <2>5. QED
    BY <2>1, <2>2, <2>3, <2>4
<1>8. QED
  BY <1>1, <1>7 DEF CurrentInv

\* A change is followed by a list, a todo that was sent closed the panel.
LEMMA AnswerCurrent ==
    ASSUME TextInv, CurrentInv, NEW i \in DOMAIN jobs,
           \/ T!ListArrives(i) \/ T!CountArrives(i) \/ T!Added(i) \/ T!Saved(i)
           \/ T!Rewritten(i) \/ T!Marked(i)
           \/ T!ListFails(i) \/ T!CountFails(i) \/ T!ChangeFails(i)
    PROVE  CurrentInv'
<1>1. CASE T!ListArrives(i)
  BY <1>1, DoneCurrent DEF T!ListArrives, T!usedVars, Brings
<1>2. CASE T!CountArrives(i)
  BY <1>2, DoneCurrent DEF T!CountArrives, T!panelVars, T!usedVars, Brings
<1>3. T!Rest(i) \in Seq(TodoJobs) /\ jobs[i] \in TodoJobs
  BY RestIs
<1>4. CASE T!Added(i) \/ T!Saved(i) \/ T!Rewritten(i)
  <2>1. PICK op \in {"list", "list of add"} : T!Ask(T!Rest(i), T!Job(op, T!NoTodo))
    BY <1>4 DEF T!Added, T!Saved, T!Rewritten, T!LoadAgain, T!Load
  <2>2. QED
    BY <1>3, <2>1, AskCurrent
<1>5. CASE T!Marked(i)
  <2>1. /\ T!Ask(T!Rest(i), T!Job("count", T!NoTodo))
        /\ open' = open /\ jobs[i].op = "mark"
    BY <1>5 DEF T!Marked, T!Load, T!panelVars
  <2>2. ~crossed /\ errors = 0 => ~open
    BY <2>1 DEF CurrentInv, Brings
  <2>3. QED
    BY <1>3, <2>1, <2>2, AskCurrent
<1>6. CASE T!ListFails(i) \/ T!CountFails(i) \/ T!ChangeFails(i)
  <2>1. errors' = errors + 1 /\ crossed' = crossed
    BY <1>6 DEF T!ListFails, T!CountFails, T!ChangeFails, T!Fails
  <2>2. QED
    BY <2>1 DEF CurrentInv
<1>7. QED
  BY <1>1, <1>2, <1>4, <1>5, <1>6

\* Every step of the panel and the server.
LEMMA NextCurrent ==
    ASSUME TextInv, CurrentInv, [T!TodoNext]_(T!todoVars)
    PROVE  CurrentInv'
<1>1. CASE T!TodoNext
  BY <1>1, UserCurrent, ServeCurrent, AnswerCurrent DEF T!TodoNext
<1>2. CASE UNCHANGED T!todoVars
  BY <1>2, RestCurrent DEF T!todoVars, T!panelVars, T!usedVars
<1>3. QED
  BY <1>1, <1>2

\* For every number of todos, texts and requests: an open panel that waits for nothing
\* shows what is stored, when requests did not cross and none failed.
THEOREM PanelShowsStored == T!TodoSpec => []PanelIsCurrent
<1>1. T!TodoInit => CurrentInv
  <2> SUFFICES ASSUME T!TodoInit PROVE CurrentInv
    OBVIOUS
  <2>1. jobs = <<>> /\ open = FALSE /\ crossed = FALSE /\ errors = 0
    BY DEF T!TodoInit
  <2>2. Len(jobs) <= 1 /\ \A i \in DOMAIN jobs : Brings(jobs[i])
    BY <2>1
  <2>3. crossed \in BOOLEAN /\ errors \in Nat /\ ~open
    BY <2>1
  <2>4. QED
    BY <2>2, <2>3 DEF CurrentInv
<1>2. CurrentInv => PanelIsCurrent
  BY DEF CurrentInv, PanelIsCurrent, T!PanelIsCurrent
<1>3. QED
  BY <1>1, <1>2, InitText, NextText, NextCurrent, PTL DEF T!TodoSpec
-----------------------------------------------------------------------------
(* The order of messages *)

\* Cardinality of a set
LEMMA SameNumber == \A S : M!Cardinality(S) = Cardinality(S)
  BY Zenon DEF Cardinality, M!Cardinality

\* Every element of a list has a place of its own among the places there are.
LEMMA PlaceIs ==
    ASSUME NEW N \in Nat, NEW keys \in [1 .. N -> Nat]
    PROVE  /\ \A n \in 1 .. N : M!Place(keys, n) \in 1 .. N
           /\ \A n, m \in 1 .. N : M!Place(keys, n) = M!Place(keys, m) => n = m
           /\ \A l \in 1 .. N : \E n \in 1 .. N : M!Place(keys, n) = l
<1> DEFINE Before(n) == {m \in 1 .. N : keys[m] < keys[n] \/ (keys[m] = keys[n] /\ m <= n)}
<1>1. \A n \in 1 .. N : M!Place(keys, n) = Cardinality(Before(n))
  BY SameNumber DEF M!Place
<1>2. IsFiniteSet(1 .. N) /\ Cardinality(1 .. N) = N
  BY FS_Interval
<1>3. \A n \in 1 .. N : /\ IsFiniteSet(Before(n))
                        /\ Cardinality(Before(n)) \in 1 .. N
  <2> TAKE n \in 1 .. N
  <2>1. Before(n) \in SUBSET (1 .. N) /\ n \in Before(n)
    OBVIOUS
  <2> HIDE DEF Before
  <2>2. /\ IsFiniteSet(Before(n)) /\ Cardinality(Before(n)) <= N
        /\ Cardinality(Before(n)) \in Nat
    BY <1>2, <2>1, FS_Subset, FS_CardinalityType
  <2>3. Cardinality(Before(n)) # 0
    BY <2>1, <2>2, FS_EmptySet
  <2>4. QED
    BY <2>2, <2>3
<1>4. ASSUME NEW n \in 1 .. N, NEW m \in 1 .. N,
             keys[n] < keys[m] \/ (keys[n] = keys[m] /\ n < m)
      PROVE  Cardinality(Before(n)) # Cardinality(Before(m))
  <2>1. /\ \A l \in 1 .. N : keys[l] \in Nat
        /\ m \notin Before(n) /\ m \in Before(m)
    BY <1>4
  <2>2. Before(n) \in SUBSET Before(m)
    BY <1>4, <2>1
  <2> HIDE DEF Before
  <2>3. Before(n) # Before(m)
    BY <2>1
  <2>4. QED
    BY <1>3, <2>2, <2>3, FS_Subset
<1>5. \A n, m \in 1 .. N : Cardinality(Before(n)) = Cardinality(Before(m)) => n = m
  <2> HIDE DEF Before
  <2> TAKE n, m \in 1 .. N
  <2>1. keys[n] \in Nat /\ keys[m] \in Nat
    OBVIOUS
  <2>2. n = m \/ (keys[n] < keys[m] \/ (keys[n] = keys[m] /\ n < m))
              \/ (keys[m] < keys[n] \/ (keys[m] = keys[n] /\ m < n))
    BY <2>1
  <2>3. QED
    BY <1>4, <2>2
<1> HIDE DEF Before
<1> DEFINE f == [n \in 1 .. N |-> Cardinality(Before(n))]
<1>6. f \in Injection(1 .. N, 1 .. N)
  BY <1>3, <1>5 DEF Injection, IsInjective
<1>7. f \in Surjection(1 .. N, 1 .. N)
  <2> HIDE DEF f
  <2>1. QED
    BY <1>2, <1>6, FS_Injection
<1>8. \A l \in 1 .. N : \E n \in 1 .. N : f[n] = l
  <2> HIDE DEF f
  <2>1. QED
    BY <1>7, Zenon DEF Surjection
<1>9. \A l \in 1 .. N : \E n \in 1 .. N : M!Place(keys, n) = l
  BY <1>1, <1>8
<1>10. \A n, m \in 1 .. N : M!Place(keys, n) = M!Place(keys, m) => n = m
  BY <1>1, <1>5
<1>11. \A n \in 1 .. N : M!Place(keys, n) \in 1 .. N
  BY <1>1, <1>3
<1>12. QED
  BY <1>9, <1>10, <1>11

\* Sorting moves the elements of a list and keeps all of them.
LEMMA SortedIs ==
    ASSUME NEW S, NEW s \in Seq(S), NEW keys \in [1 .. Len(s) -> Nat]
    PROVE  /\ M!Sorted(s, keys) \in Seq(S)
           /\ Len(M!Sorted(s, keys)) = Len(s)
           /\ \A l \in 1 .. Len(s) : \E n \in 1 .. Len(s) : M!Sorted(s, keys)[l] = s[n]
           /\ \A n \in 1 .. Len(s) : \E l \in 1 .. Len(s) : M!Sorted(s, keys)[l] = s[n]
<1>1. Len(s) \in Nat /\ DOMAIN s = 1 .. Len(s)
  OBVIOUS
<1> DEFINE N == Len(s)
           from(l) == CHOOSE n \in 1 .. N : M!Place(keys, n) = l
<1>2. /\ \A n \in 1 .. N : M!Place(keys, n) \in 1 .. N
      /\ \A n, m \in 1 .. N : M!Place(keys, n) = M!Place(keys, m) => n = m
      /\ \A l \in 1 .. N : \E n \in 1 .. N : M!Place(keys, n) = l
  BY <1>1, PlaceIs
<1>3. \A l \in 1 .. N : from(l) \in 1 .. N /\ M!Place(keys, from(l)) = l
  BY <1>2
<1>4. \A n \in 1 .. N : from(M!Place(keys, n)) = n
  BY <1>2, <1>3
<1>5. M!Sorted(s, keys) = [l \in 1 .. N |-> s[from(l)]]
  BY <1>1 DEF M!Sorted
<1> HIDE DEF from
<1>6. \A l \in 1 .. N : s[from(l)] \in S
  BY <1>3
<1>7. M!Sorted(s, keys) \in [1 .. N -> S]
  BY <1>5, <1>6
<1>8. M!Sorted(s, keys) \in Seq(S) /\ Len(M!Sorted(s, keys)) = N
  BY <1>1, <1>7
<1>9. \A l \in 1 .. N : \E n \in 1 .. N : M!Sorted(s, keys)[l] = s[n]
  BY <1>3, <1>5
<1>10. ASSUME NEW n \in 1 .. N PROVE \E l \in 1 .. N : M!Sorted(s, keys)[l] = s[n]
  <2>1. PICK l \in 1 .. N : l = M!Place(keys, n)
    BY <1>2
  <2>2. from(l) = n
    BY <1>4, <2>1
  <2>3. QED
    BY <1>5, <2>2
<1>11. QED
  BY <1>8, <1>9, <1>10

\* A list that is in order stays as it is.
LEMMA SortedStays ==
    ASSUME NEW S, NEW s \in Seq(S), NEW keys \in [1 .. Len(s) -> Nat],
           \A n, m \in 1 .. Len(s) : n < m => keys[n] < keys[m]
    PROVE  M!Sorted(s, keys) = s
<1>1. Len(s) \in Nat /\ DOMAIN s = 1 .. Len(s)
  OBVIOUS
<1> DEFINE N == Len(s)
           from(l) == CHOOSE n \in 1 .. N : M!Place(keys, n) = l
<1>2. \A n \in 1 .. N : M!Place(keys, n) = n
  <2> TAKE n \in 1 .. N
  <2>1. /\ \A l \in 1 .. N : keys[l] \in Nat /\ l \in Nat
        /\ \A m, l \in 1 .. N : m < l => keys[m] < keys[l]
        /\ n \in Nat /\ n <= N
    BY <1>1
  <2>2. \A m \in 1 .. N : (keys[m] < keys[n] \/ (keys[m] = keys[n] /\ m <= n)) <=> m <= n
    <3> TAKE m \in 1 .. N
    <3>1. m < n \/ m = n \/ n < m
      BY <1>1
    <3>2. QED
      BY <2>1, <3>1
  <2>3. {m \in 1 .. N : keys[m] < keys[n] \/ (keys[m] = keys[n] /\ m <= n)}
          = {m \in 1 .. N : m <= n}
    BY <2>2, Zenon
  <2>4. {m \in 1 .. N : m <= n} = 1 .. n
    BY <1>1, <2>1
  <2>5. DOMAIN keys = 1 .. N
    OBVIOUS
  <2>6. Cardinality(1 .. n) = n
    BY <2>1, FS_Interval
  <2>7. M!Place(keys, n) = M!Cardinality(1 .. n)
    BY <2>3, <2>4, <2>5 DEF M!Place
  <2>8. QED
    BY <2>6, <2>7, SameNumber
<1>3. \A l \in 1 .. N : from(l) = l
  <2> TAKE l \in 1 .. N
  <2>1. \A n \in 1 .. N : M!Place(keys, n) = l <=> n = l
    BY <1>2
  <2>2. QED
    BY <2>1
<1>4. M!Sorted(s, keys) = [l \in 1 .. N |-> s[from(l)]]
  BY <1>1 DEF M!Sorted
<1> HIDE DEF from
<1>5. s = [l \in 1 .. N |-> s[l]]
  BY <1>1
<1>6. QED
  BY <1>3, <1>4, <1>5

-----------------------------------------------------------------------------
(* The messages of a pane *)

Item == [id : Nat, ver : Nat]
Bubble == [id : Nat, ver : Nat, joins : BOOLEAN]
PageOf == [items : Seq(Item), cursor : Nat, more : BOOLEAN]
Request == [older : BOOLEAN, page : PageOf]

MessageType ==
    /\ log \in Seq(Nat) /\ Len(log) >= 1
    /\ messages \in Seq(Bubble) /\ hasMore \in BOOLEAN
    /\ cursor \in 0 .. Len(log) /\ (hasMore => cursor >= 1)
    /\ requests \in Seq(Request)
    /\ \A n \in DOMAIN requests : requests[n].page.cursor \in 1 .. Len(log)
    /\ frames \in Seq(Item)

\* Tools are grouped, what is shown of an entry stays.
LEMMA GroupedIs ==
    ASSUME NEW s \in Seq(Item)
    PROVE  /\ M!Grouped(s) \in Seq(Bubble) /\ Len(M!Grouped(s)) = Len(s)
           /\ \A n \in 1 .. Len(s) : /\ M!Grouped(s)[n].id = s[n].id
                                     /\ M!Grouped(s)[n].ver = s[n].ver
<1> DEFINE bubble(n) == [id |-> s[n].id, ver |-> s[n].ver,
                         joins |-> n > 1 /\ Tools[s[n].id] # "none" /\
                                   Tools[s[n - 1].id] = Tools[s[n].id]]
<1>1. Len(s) \in Nat /\ DOMAIN s = 1 .. Len(s)
  OBVIOUS
<1>2. M!Grouped(s) = [n \in 1 .. Len(s) |-> bubble(n)]
  BY <1>1 DEF M!Grouped
<1>3. \A n \in 1 .. Len(s) :
         bubble(n) \in Bubble /\ bubble(n).id = s[n].id /\ bubble(n).ver = s[n].ver
  <2> TAKE n \in 1 .. Len(s)
  <2>0. s[n] \in Item
    BY <1>1
  <2>1. s[n].id \in Nat /\ s[n].ver \in Nat
    BY <2>0 DEF Item
  <2>2. QED
    BY <2>1 DEF Bubble
<1> HIDE DEF bubble
<1>4. M!Grouped(s) \in [1 .. Len(s) -> Bubble]
  BY <1>2, <1>3
<1>5. M!Grouped(s) \in Seq(Bubble) /\ Len(M!Grouped(s)) = Len(s)
  BY <1>1, <1>4
<1>6. QED
  BY <1>2, <1>3, <1>5

\* The entries of what is shown.
LEMMA FlatIs ==
    ASSUME NEW s \in Seq(Bubble)
    PROVE  /\ M!Flat(s) \in Seq(Item) /\ Len(M!Flat(s)) = Len(s)
           /\ \A n \in 1 .. Len(s) : /\ M!Flat(s)[n].id = s[n].id
                                     /\ M!Flat(s)[n].ver = s[n].ver
<1> DEFINE item(n) == [id |-> s[n].id, ver |-> s[n].ver]
<1>1. Len(s) \in Nat /\ DOMAIN s = 1 .. Len(s)
  OBVIOUS
<1>2. M!Flat(s) = [n \in 1 .. Len(s) |-> item(n)]
  BY <1>1 DEF M!Flat
<1>3. \A n \in 1 .. Len(s) :
         item(n) \in Item /\ item(n).id = s[n].id /\ item(n).ver = s[n].ver
  <2> TAKE n \in 1 .. Len(s)
  <2>0. s[n] \in Bubble
    BY <1>1
  <2>1. s[n].id \in Nat /\ s[n].ver \in Nat
    BY <2>0 DEF Bubble
  <2>2. QED
    BY <2>1 DEF Item
<1> HIDE DEF item
<1>4. M!Flat(s) \in [1 .. Len(s) -> Item]
  BY <1>2, <1>3
<1>5. M!Flat(s) \in Seq(Item) /\ Len(M!Flat(s)) = Len(s)
  BY <1>1, <1>4
<1>6. QED
  BY <1>2, <1>3, <1>5

\* A nonempty set of places in a list has a last one.
LEMMA LastPlace ==
    ASSUME NEW N \in Nat, NEW I, I \subseteq 1 .. N, I # {}
    PROVE  \E n \in I : \A l \in I : l <= n
<1> DEFINE R == {N - n : n \in I}
<1>0. \A n \in I : n \in Int /\ N - n \in Nat
  OBVIOUS
<1>1. R \subseteq Nat /\ R # {}
  BY <1>0
<1>2. PICK r \in R : \A w \in R : r <= w
  BY <1>1, SmallestOf
<1>3. PICK n \in I : r = N - n
  BY <1>2
<1>4. \A l \in I : l <= n
  <2> TAKE l \in I
  <2>1. N - l \in R
    OBVIOUS
  <2>2. N - n <= N - l
    BY <1>2, <1>3, <2>1
  <2>3. l \in Int /\ n \in Int
    BY <1>0
  <2>4. QED
    BY <2>2, <2>3
<1>5. QED
  BY <1>4

\* A frame is placed over the last message of its key, or at the end.
LEMMA PlacedIs ==
    ASSUME NEW s \in Seq(Item), NEW m \in Item
    PROVE  \/ /\ \A n \in 1 .. Len(s) : s[n].id # m.id
              /\ M!Placed(s, m) = Append(s, m)
           \/ \E k \in 1 .. Len(s) :
                 /\ s[k].id = m.id /\ M!Placed(s, m) = [s EXCEPT ![k] = m]
<1> DEFINE I == {n \in DOMAIN s : s[n].id = m.id}
<1>1. Len(s) \in Nat /\ DOMAIN s = 1 .. Len(s)
  OBVIOUS
<1>2. CASE I = {}
  BY <1>1, <1>2 DEF M!Placed
<1>3. CASE I # {}
  <2>1. I \subseteq 1 .. Len(s)
    BY <1>1
  <2>2. \E n \in I : \A l \in I : l <= n
    <3> HIDE DEF I
    <3>1. QED
      BY <1>1, <1>3, <2>1, LastPlace
  <2>3. PICK k : k = CHOOSE n \in I : \A l \in I : l <= n
    OBVIOUS
  <2>4. k \in I
    <3> HIDE DEF I
    <3>1. QED
      BY <2>2, <2>3
  <2>5. M!Placed(s, m) = [s EXCEPT ![k] = m]
    BY <1>3, <2>3 DEF M!Placed
  <2>6. k \in 1 .. Len(s) /\ s[k].id = m.id
    BY <1>1, <2>4
  <2>7. QED
    BY <2>5, <2>6
<1>4. QED
  BY <1>2, <1>3

\* The message is there, and nothing else has gone or come.
OnlyAdds(s, m, p) ==
    /\ p \in Seq(Item)
    /\ \E n \in 1 .. Len(p) : p[n] = m
    /\ \A n \in 1 .. Len(s) : \E l \in 1 .. Len(p) : p[l].id = s[n].id
    /\ \A l \in 1 .. Len(p) : p[l].id = m.id \/ \E n \in 1 .. Len(s) : p[l].id = s[n].id

\* What a frame's message is put into keeps its messages.
LEMMA PlacedKeeps ==
    ASSUME NEW s \in Seq(Item), NEW m \in Item, NEW p, p = M!Placed(s, m)
    PROVE  OnlyAdds(s, m, p)
<1>1. Len(s) \in Nat /\ DOMAIN s = 1 .. Len(s)
  OBVIOUS
<1>2. CASE p = Append(s, m)
  <2>1. /\ p \in Seq(Item) /\ Len(p) = Len(s) + 1 /\ p[Len(s) + 1] = m
        /\ \A n \in 1 .. Len(s) : p[n] = s[n]
    BY <1>2
  <2>2. Len(s) + 1 \in 1 .. Len(p) /\ \A n \in 1 .. Len(s) : n \in 1 .. Len(p)
    BY <1>1, <2>1
  <2>3. \A l \in 1 .. Len(p) : l \in 1 .. Len(s) \/ l = Len(s) + 1
    BY <1>1, <2>1
  <2>4. QED
    BY <2>1, <2>2, <2>3 DEF OnlyAdds
<1>3. ASSUME NEW k \in 1 .. Len(s), s[k].id = m.id, p = [s EXCEPT ![k] = m]
      PROVE  OnlyAdds(s, m, p)
  <2>1. p \in Seq(Item) /\ Len(p) = Len(s)
    BY <1>3
  <2>2. \A n \in 1 .. Len(s) : p[n] = IF n = k THEN m ELSE s[n]
    BY <1>1, <1>3
  <2>3. \A n \in 1 .. Len(s) : p[n].id = s[n].id
    BY <1>3, <2>2
  <2>4. QED
    BY <2>1, <2>2, <2>3 DEF OnlyAdds
<1>4. QED
  BY <1>2, <1>3, PlacedIs

\* The keys of a list.
LEMMA IdsAreKeys ==
    ASSUME NEW p \in Seq(Item)
    PROVE  /\ M!Ids(p) \in [1 .. Len(p) -> Nat]
           /\ \A n \in 1 .. Len(p) : M!Ids(p)[n] = p[n].id
<1>1. DOMAIN p = 1 .. Len(p) /\ \A n \in 1 .. Len(p) : p[n] \in Item
  OBVIOUS
<1>2. \A n \in 1 .. Len(p) : p[n].id \in Nat
  BY <1>1 DEF Item
<1>3. QED
  BY <1>1, <1>2 DEF M!Ids

\* appendRealtimeMessages: a message of the frame is shown, and whatever was shown.
LEMMA MergedIs ==
    ASSUME NEW s \in Seq(Item), NEW m \in Item
    PROVE  OnlyAdds(s, m, M!Merged(s, m))
<1>1. PICK p : p = M!Placed(s, m)
  OBVIOUS
<1>2. OnlyAdds(s, m, p)
  BY <1>1, PlacedKeeps
<1>3. p \in Seq(Item)
  BY <1>2 DEF OnlyAdds
<1>4. PICK keys \in [1 .. Len(p) -> Nat] : keys = M!Ids(p)
  BY <1>3, IdsAreKeys
<1>5. PICK r : r = M!Sorted(p, keys)
  OBVIOUS
<1>6. /\ r \in Seq(Item) /\ Len(r) = Len(p)
      /\ \A l \in 1 .. Len(p) : \E n \in 1 .. Len(p) : r[l] = p[n]
      /\ \A n \in 1 .. Len(p) : \E l \in 1 .. Len(p) : r[l] = p[n]
  BY <1>3, <1>5, SortedIs
<1>7. \E n \in 1 .. Len(r) : r[n] = m
  BY <1>2, <1>6 DEF OnlyAdds
<1>8. ASSUME NEW n \in 1 .. Len(s) PROVE \E l \in 1 .. Len(r) : r[l].id = s[n].id
  <2>1. PICK l \in 1 .. Len(p) : p[l].id = s[n].id
    BY <1>2 DEF OnlyAdds
  <2>2. PICK k \in 1 .. Len(r) : r[k] = p[l]
    BY <1>6
  <2>3. QED
    BY <2>1, <2>2
<1>9. ASSUME NEW l \in 1 .. Len(r)
      PROVE  r[l].id = m.id \/ \E n \in 1 .. Len(s) : r[l].id = s[n].id
  <2>1. PICK k \in 1 .. Len(p) : r[l] = p[k]
    BY <1>6
  <2>2. p[k].id = m.id \/ \E n \in 1 .. Len(s) : p[k].id = s[n].id
    BY <1>2 DEF OnlyAdds
  <2>3. QED
    BY <2>1, <2>2
<1>10. OnlyAdds(s, m, r)
  BY <1>6, <1>7, <1>8, <1>9 DEF OnlyAdds
<1>11. QED
  BY <1>1, <1>4, <1>5, <1>10 DEF M!Merged

\* A list that is in order after a message was placed needs no sorting.
LEMMA MergedStays ==
    ASSUME NEW s \in Seq(Item), NEW m \in Item, NEW p, p = M!Placed(s, m),
           \A n, l \in 1 .. Len(p) : n < l => p[n].id < p[l].id
    PROVE  M!Merged(s, m) = p
<1>1. p \in Seq(Item)
  BY PlacedKeeps DEF OnlyAdds
<1>2. PICK keys \in [1 .. Len(p) -> Nat] :
         keys = M!Ids(p) /\ \A n \in 1 .. Len(p) : keys[n] = p[n].id
  BY <1>1, IdsAreKeys
<1>3. \A n, l \in 1 .. Len(p) : n < l => keys[n] < keys[l]
  BY <1>2
<1>4. M!Sorted(p, keys) = p
  BY <1>1, <1>3, SortedStays
<1>5. QED
  BY <1>2, <1>4 DEF M!Merged

\* The entries of the log from one to another.
LEMMA EntriesIs ==
    ASSUME log \in Seq(Nat), NEW x \in Nat \ {0}, NEW y \in Nat, y <= Len(log), x <= y + 1
    PROVE  /\ M!Entries(x, y) \in Seq(Item) /\ Len(M!Entries(x, y)) = y - x + 1
           /\ \A n \in 1 .. y - x + 1 :
                 /\ x + n - 1 \in 1 .. Len(log)
                 /\ M!Entries(x, y)[n].id = x + n - 1
                 /\ M!Entries(x, y)[n].ver = log[x + n - 1]
<1> DEFINE item(n) == [id |-> x + n - 1, ver |-> log[x + n - 1]]
<1>1. Len(log) \in Nat /\ y - x + 1 \in Nat
  OBVIOUS
<1>2. M!Entries(x, y) = [n \in 1 .. y - x + 1 |-> item(n)]
  BY DEF M!Entries
<1>3. \A n \in 1 .. y - x + 1 :
         /\ item(n) \in Item /\ x + n - 1 \in 1 .. Len(log)
         /\ item(n).id = x + n - 1 /\ item(n).ver = log[x + n - 1]
  <2> TAKE n \in 1 .. y - x + 1
  <2>1. x + n - 1 \in Nat /\ x + n - 1 \in 1 .. Len(log)
    BY <1>1
  <2>2. log[x + n - 1] \in Nat
    BY <2>1
  <2>3. QED
    BY <2>1, <2>2 DEF Item
<1> HIDE DEF item
<1>4. M!Entries(x, y) \in [1 .. y - x + 1 -> Item]
  BY <1>2, <1>3
<1>5. M!Entries(x, y) \in Seq(Item) /\ Len(M!Entries(x, y)) = y - x + 1
  BY <1>1, <1>4
<1>6. QED
  BY <1>2, <1>3, <1>5

\* A page ends before the entry it was asked for, and begins with its cursor.
LEMMA PageIs ==
    ASSUME M!PaneBoundsAssumption, log \in Seq(Nat), Len(log) >= 1,
           NEW x \in 1 .. Len(log) + 1, NEW pg, pg = M!PageBefore(x)
    PROVE  /\ pg \in PageOf /\ pg.cursor \in 1 .. Len(log) /\ pg.cursor <= x
           /\ x > 1 => pg.cursor < x
           /\ pg.more <=> pg.cursor > 1
           /\ pg.items = M!Entries(pg.cursor, x - 1)
<1>1. Limit \in Nat /\ Limit > 0 /\ Len(log) \in Nat
  BY DEF M!PaneBoundsAssumption
<1>2. PICK w : w = IF x - Limit > 1 THEN x - Limit ELSE 1
  OBVIOUS
<1>3. w \in Nat \ {0} /\ w <= x /\ w \in 1 .. Len(log) /\ (x > 1 => w < x)
  BY <1>1, <1>2
<1>4. pg = [items |-> M!Entries(w, x - 1), cursor |-> w, more |-> w > 1]
  BY <1>2 DEF M!PageBefore
<1>5. x - 1 \in Nat /\ x - 1 <= Len(log) /\ w <= x - 1 + 1
  BY <1>1, <1>3
<1>6. PICK e \in Seq(Item) : e = M!Entries(w, x - 1)
  BY <1>3, <1>5, EntriesIs
<1>7. pg.items = e /\ pg.cursor = w /\ pg.more = (w > 1)
  BY <1>4, <1>6
<1>8. pg \in PageOf
  BY <1>3, <1>4, <1>6 DEF PageOf
<1>9. QED
  BY <1>3, <1>6, <1>7, <1>8

\* The newest page.
LEMMA LatestIs ==
    ASSUME M!PaneBoundsAssumption, log \in Seq(Nat), Len(log) >= 1
    PROVE  /\ M!Latest \in Request /\ ~M!Latest.older
           /\ M!Latest.page = M!PageBefore(Len(log) + 1)
           /\ M!Latest.page \in PageOf /\ M!Latest.page.cursor \in 1 .. Len(log)
           /\ M!Latest.page.more <=> M!Latest.page.cursor > 1
           /\ M!Latest.page.items = M!Entries(M!Latest.page.cursor, Len(log))
<1>1. Len(log) + 1 \in 1 .. Len(log) + 1 /\ Len(log) + 1 - 1 = Len(log)
  OBVIOUS
<1>2. PICK pg : pg = M!PageBefore(Len(log) + 1)
  OBVIOUS
<1>3. /\ pg \in PageOf /\ pg.cursor \in 1 .. Len(log)
      /\ pg.more <=> pg.cursor > 1
      /\ pg.items = M!Entries(pg.cursor, Len(log))
  BY <1>1, <1>2, PageIs
<1>4. M!Latest = [older |-> FALSE, page |-> pg]
  BY <1>2 DEF M!Latest
<1>5. M!Latest.page = pg /\ ~M!Latest.older /\ M!Latest \in Request
  BY <1>3, <1>4 DEF Request
<1>6. QED
  BY <1>2, <1>3, <1>5

\* A request that is sent stands behind the others.
LEMMA OneMore ==
    ASSUME requests \in Seq(Request), NEW r \in Request, requests' = Append(requests, r)
    PROVE  /\ requests' \in Seq(Request)
           /\ \A n \in DOMAIN requests' :
                 requests'[n] = r \/ \E l \in DOMAIN requests : requests'[n] = requests[l]
           /\ requests = <<>> => requests' = <<r>>
<1>1. Len(requests) \in Nat /\ DOMAIN requests = 1 .. Len(requests)
  OBVIOUS
<1>2. /\ requests' \in Seq(Request) /\ DOMAIN requests' = 1 .. Len(requests) + 1
      /\ requests'[Len(requests) + 1] = r
      /\ \A n \in 1 .. Len(requests) : requests'[n] = requests[n]
  OBVIOUS
<1>3. \A n \in 1 .. Len(requests) + 1 : n \in 1 .. Len(requests) \/ n = Len(requests) + 1
  BY <1>1
<1>4. \A n \in DOMAIN requests' :
         requests'[n] = r \/ \E l \in DOMAIN requests : requests'[n] = requests[l]
  BY <1>1, <1>2, <1>3
<1>5. requests = <<>> => requests' = <<r>>
  OBVIOUS
<1>6. QED
  BY <1>2, <1>4, <1>5

\* The requests under way are those that were, without one.
LEMMA OneLess ==
    ASSUME requests \in Seq(Request), NEW n \in DOMAIN requests,
           requests' = M!RemoveAt(requests, n)
    PROVE  /\ requests' \in Seq(Request) /\ Len(requests') = Len(requests) - 1
           /\ \A l \in DOMAIN requests' : \E k \in DOMAIN requests :
                 requests'[l] = requests[k]
<1>1. requests' = RemoveAt(requests, n)
  BY DEF RemoveAt, M!RemoveAt
<1>2. PICK r : r = RemoveAt(requests, n)
  OBVIOUS
<1>3. /\ r \in Seq(Request) /\ Len(r) = Len(requests) - 1
      /\ \A l \in 1 .. Len(requests) - 1 :
            r[l] = IF l < n THEN requests[l] ELSE requests[l + 1]
  BY <1>2, RemoveAtIs
<1>4. /\ Len(requests) \in Nat /\ DOMAIN requests = 1 .. Len(requests)
      /\ DOMAIN r = 1 .. Len(requests) - 1 /\ n \in 1 .. Len(requests)
  BY <1>3
<1>5. ASSUME NEW l \in DOMAIN r PROVE \E k \in DOMAIN requests : r[l] = requests[k]
  <2>1. l \in DOMAIN requests /\ l + 1 \in DOMAIN requests
    BY <1>4
  <2>2. r[l] = requests[l] \/ r[l] = requests[l + 1]
    BY <1>3, <1>4
  <2>3. QED
    BY <2>1, <2>2
<1>6. QED
  BY <1>1, <1>2, <1>3, <1>5

\* A request goes out: the newest page, or the one before the cursor.
LEMMA SendType ==
    ASSUME MessageType, NEW r \in Request, r.page.cursor \in 1 .. Len(log),
           requests' = Append(requests, r), log' = log, frames' \in Seq(Item),
           messages' \in Seq(Bubble), cursor' = cursor, hasMore' = hasMore
    PROVE  MessageType'
<1>1. /\ requests \in Seq(Request)
      /\ \A n \in DOMAIN requests : requests[n].page.cursor \in 1 .. Len(log)
  BY DEF MessageType
<1>2. /\ requests' \in Seq(Request)
      /\ \A n \in DOMAIN requests' :
            requests'[n] = r \/ \E l \in DOMAIN requests : requests'[n] = requests[l]
  BY <1>1, OneMore
<1>3. \A n \in DOMAIN requests' : requests'[n].page.cursor \in 1 .. Len(log)
  <2> TAKE n \in DOMAIN requests'
  <2>1. CASE requests'[n] = r
    BY <2>1
  <2>2. ASSUME NEW l \in DOMAIN requests, requests'[n] = requests[l]
        PROVE  requests'[n].page.cursor \in 1 .. Len(log)
    BY <1>1, <2>2
  <2>3. QED
    BY <1>2, <2>1, <2>2
<1>4. QED
  BY <1>2, <1>3 DEF MessageType

\* An answer is taken, or a request has failed.
LEMMA LessType ==
    ASSUME MessageType, NEW n \in DOMAIN requests, requests' = M!RemoveAt(requests, n),
           log' = log, frames' = frames, messages' \in Seq(Bubble), hasMore' \in BOOLEAN,
           cursor' \in 0 .. Len(log), hasMore' => cursor' >= 1
    PROVE  MessageType'
<1>1. requests \in Seq(Request)
  BY DEF MessageType
<1>2. /\ requests' \in Seq(Request)
      /\ \A l \in DOMAIN requests' : \E k \in DOMAIN requests : requests'[l] = requests[k]
  BY <1>1, OneLess
<1>3. ASSUME NEW l \in DOMAIN requests' PROVE requests'[l].page.cursor \in 1 .. Len(log)
  <2>1. PICK k \in DOMAIN requests : requests'[l] = requests[k]
    BY <1>2
  <2>2. QED
    BY <2>1 DEF MessageType
<1>4. QED
  BY <1>2, <1>3 DEF MessageType

\* What an answer brings.
LEMMA AnswerType ==
    ASSUME MessageType, NEW n \in DOMAIN requests, M!Answer(n)
    PROVE  MessageType'
<1>1. PICK r \in Request : r = requests[n]
  BY DEF MessageType
<1>2. PICK pg \in PageOf : pg = r.page
  BY DEF Request
<1>3. /\ pg.items \in Seq(Item) /\ pg.more \in BOOLEAN
      /\ pg.cursor \in 1 .. Len(log) /\ Len(log) \in Nat /\ messages \in Seq(Bubble)
  BY <1>1, <1>2 DEF PageOf, MessageType
<1>4. PICK top \in Seq(Bubble) : top = M!Grouped(pg.items)
  BY <1>3, GroupedIs
<1>5. /\ messages' = top \o messages \/ messages' = top
      /\ cursor' = pg.cursor /\ hasMore' = pg.more
  <2>1. CASE r.older
    BY <1>1, <1>2, <1>4, <2>1 DEF M!Answer, M!Prepend
  <2>2. CASE ~r.older
    BY <1>1, <1>2, <1>4, <2>2 DEF M!Answer, M!Replace
  <2>3. QED
    BY <2>1, <2>2
<1>6. messages' \in Seq(Bubble)
  <2>1. top \o messages \in Seq(Bubble)
    BY <1>3
  <2>2. QED
    BY <1>5, <2>1
<1>7. requests' = M!RemoveAt(requests, n) /\ log' = log /\ frames' = frames
  BY DEF M!Answer
<1>8. QED
  BY <1>3, <1>5, <1>6, <1>7, LessType

\* A frame arrives.
LEMMA ArriveType ==
    ASSUME MessageType, M!FrameArrives
    PROVE  /\ MessageType' /\ Head(frames) \in Item
           /\ \E r \in Seq(Item) : /\ r = M!Merged(M!Flat(messages), Head(frames))
                                   /\ messages' = M!Grouped(r)
                                   /\ OnlyAdds(M!Flat(messages), Head(frames), r)
<1>1. /\ frames \in Seq(Item) /\ frames # <<>> /\ messages \in Seq(Bubble)
      /\ frames' = Tail(frames) /\ messages' = M!Grouped(M!Merged(M!Flat(messages), Head(frames)))
      /\ log' = log /\ cursor' = cursor /\ hasMore' = hasMore /\ requests' = requests
  BY DEF MessageType, M!FrameArrives
<1>2. Head(frames) \in Item /\ Tail(frames) \in Seq(Item)
  BY <1>1
<1>3. PICK s \in Seq(Item) : s = M!Flat(messages)
  BY <1>1, FlatIs
<1>4. PICK h \in Item : h = Head(frames)
  BY <1>2
<1>0. PICK r : r = M!Merged(s, h)
  OBVIOUS
<1>5. OnlyAdds(s, h, r) /\ r \in Seq(Item)
  <2>1. OnlyAdds(s, h, r)
    BY <1>0, MergedIs
  <2>2. QED
    BY <2>1 DEF OnlyAdds
<1>6. M!Grouped(r) \in Seq(Bubble)
  BY <1>5, GroupedIs
<1>7. messages' = M!Grouped(r)
  BY <1>0, <1>1, <1>3, <1>4
<1>8. MessageType'
  BY <1>1, <1>2, <1>6, <1>7 DEF MessageType
<1>9. QED
  BY <1>0, <1>3, <1>4, <1>5, <1>7, <1>8

\* The log changes, and a frame of it is pushed while the socket is open.
LEMMA PushType ==
    ASSUME MessageType, NEW e \in Item, M!Push(e), log' \in Seq(Nat),
           Len(log') >= Len(log), UNCHANGED <<messages, cursor, hasMore, requests>>
    PROVE  MessageType'
<1>1. frames' \in Seq(Item)
  <2>1. frames \in Seq(Item)
    BY DEF MessageType
  <2>2. frames' = frames \/ frames' = Append(frames, e)
    BY DEF M!Push
  <2>3. Append(frames, e) \in Seq(Item)
    BY <2>1
  <2>4. QED
    BY <2>1, <2>2, <2>3
<1>2. /\ Len(log) \in Nat /\ Len(log') \in Nat /\ Len(log) >= 1
      /\ cursor \in 0 .. Len(log) /\ (hasMore => cursor >= 1) /\ hasMore \in BOOLEAN
      /\ messages \in Seq(Bubble) /\ requests \in Seq(Request)
      /\ \A n \in DOMAIN requests : requests[n].page.cursor \in 1 .. Len(log)
  BY DEF MessageType
<1>3. /\ cursor \in 0 .. Len(log') /\ Len(log') >= 1
      /\ \A n \in DOMAIN requests : requests[n].page.cursor \in 1 .. Len(log')
  <2>1. \A n \in 0 .. Len(log) : n \in 0 .. Len(log')
    BY <1>2
  <2>2. \A n \in 1 .. Len(log) : n \in 1 .. Len(log')
    BY <1>2
  <2>3. Len(log') >= 1
    BY <1>2
  <2>4. QED
    BY <1>2, <2>1, <2>2, <2>3
<1>4. QED
  BY <1>1, <1>2, <1>3 DEF MessageType

\* What an entry added, or changed, makes of the log.
LEMMA LogGrows ==
    ASSUME MessageType, M!EntryAdded
    PROVE  /\ log' \in Seq(Nat) /\ Len(log') = Len(log) + 1 /\ log'[Len(log) + 1] = 1
           /\ \A n \in 1 .. Len(log) : log'[n] = log[n]
           /\ M!Push([id |-> Len(log) + 1, ver |-> 1])
           /\ [id |-> Len(log) + 1, ver |-> 1] \in Item
           /\ UNCHANGED <<messages, cursor, hasMore, requests, loadingMore, overlap, live>>
<1>1. log \in Seq(Nat) /\ log' = Append(log, 1) /\ 1 \in Nat /\ Len(log) + 1 \in Nat
  BY DEF MessageType, M!EntryAdded
<1>2. /\ log' \in Seq(Nat) /\ Len(log') = Len(log) + 1 /\ log'[Len(log) + 1] = 1
      /\ \A n \in 1 .. Len(log) : log'[n] = log[n]
  BY <1>1
<1>3. QED
  BY <1>1, <1>2 DEF M!EntryAdded, M!paneVars, M!buttonVars, Item

\* The newest entry changes: its version, and the frame that tells it.
LEMMA LogChanges ==
    ASSUME MessageType, M!EntryChanges
    PROVE  /\ log' \in Seq(Nat) /\ Len(log') = Len(log)
           /\ log'[Len(log)] = log[Len(log)] + 1 /\ log[Len(log)] \in Nat
           /\ \A n \in 1 .. Len(log) : n # Len(log) => log'[n] = log[n]
           /\ M!Push([id |-> Len(log), ver |-> log[Len(log)] + 1])
           /\ [id |-> Len(log), ver |-> log[Len(log)] + 1] \in Item
           /\ UNCHANGED <<messages, cursor, hasMore, requests, loadingMore, overlap, live>>
<1>1. /\ log \in Seq(Nat) /\ Len(log) >= 1 /\ Len(log) \in Nat
      /\ log' = [log EXCEPT ![Len(log)] = log[Len(log)] + 1]
  BY DEF MessageType, M!EntryChanges
<1>2. Len(log) \in 1 .. Len(log) /\ log \in [1 .. Len(log) -> Nat]
  BY <1>1
<1>3. log[Len(log)] \in Nat /\ log[Len(log)] + 1 \in Nat
  BY <1>2
<1>4. PICK v \in Nat : v = log[Len(log)] + 1
  BY <1>3
<1>5. log' = [log EXCEPT ![Len(log)] = v]
  BY <1>1, <1>4
<1>6. /\ log' \in [1 .. Len(log) -> Nat]
      /\ log'[Len(log)] = v /\ \A n \in 1 .. Len(log) : n # Len(log) => log'[n] = log[n]
  BY <1>2, <1>5
<1>7. log' \in Seq(Nat) /\ Len(log') = Len(log)
  <2>1. PICK N \in Nat : N = Len(log)
    BY <1>1
  <2>2. log' \in [1 .. N -> Nat]
    BY <1>6, <2>1
  <2>3. QED
    BY <2>1, <2>2
<1>8. [id |-> Len(log), ver |-> v] \in Item
  BY <1>1 DEF Item
<1>9. QED
  BY <1>3, <1>4, <1>6, <1>7, <1>8 DEF M!EntryChanges, M!paneVars, M!buttonVars

\* Every step of the pane, its socket and the server.
LEMMA NextType ==
    ASSUME M!PaneBoundsAssumption, MessageType, [M!MsgNext]_(M!msgVars)
    PROVE  MessageType'
<1>1. /\ log \in Seq(Nat) /\ Len(log) >= 1 /\ messages \in Seq(Bubble)
      /\ <<>> \in Seq(Bubble) /\ <<>> \in Seq(Item) /\ frames \in Seq(Item)
      /\ hasMore \in BOOLEAN /\ cursor \in 0 .. Len(log) /\ (hasMore => cursor >= 1)
  BY DEF MessageType
<1>2. M!Latest \in Request /\ M!Latest.page.cursor \in 1 .. Len(log)
  BY <1>1, LatestIs
<1>3. CASE M!Open \/ M!Refresh \/ M!SocketBreaks
  <2>1. /\ requests' = Append(requests, M!Latest) /\ log' = log
        /\ messages' \in {<<>>, messages} /\ frames' \in {<<>>, frames}
        /\ cursor' = cursor /\ hasMore' = hasMore
    BY <1>3 DEF M!Open, M!Refresh, M!SocketBreaks, M!Send, M!paneVars
  <2>2. messages' \in Seq(Bubble) /\ frames' \in Seq(Item)
    BY <1>1, <2>1
  <2>3. QED
    BY <1>2, <2>1, <2>2, SendType
<1>4. CASE M!ClickOlder
  <2>1. /\ hasMore /\ requests' = Append(requests, [older |-> TRUE, page |-> M!PageBefore(cursor)])
        /\ log' = log /\ messages' = messages /\ frames' = frames
        /\ cursor' = cursor /\ hasMore' = hasMore
    BY <1>4 DEF M!ClickOlder, M!Enabled, M!paneVars
  <2>2. PICK pg : pg = M!PageBefore(cursor)
    OBVIOUS
  <2>3. cursor \in 1 .. Len(log) + 1
    BY <1>1, <2>1
  <2>4. pg \in PageOf /\ pg.cursor \in 1 .. Len(log)
    BY <1>1, <2>2, <2>3, PageIs
  <2>5. PICK r : r = [older |-> TRUE, page |-> pg]
    OBVIOUS
  <2>6. r \in Request /\ r.page = pg
    BY <2>4, <2>5 DEF Request
  <2>7. QED
    BY <1>1, <2>1, <2>2, <2>4, <2>5, <2>6, SendType
<1>5. CASE M!ResetButton \/ M!SocketOpens \/ UNCHANGED M!msgVars
  BY <1>5 DEF M!ResetButton, M!SocketOpens, M!msgVars, M!paneVars, M!buttonVars, MessageType
<1>6. ASSUME NEW n \in DOMAIN requests, M!Answer(n) PROVE MessageType'
  BY <1>6, AnswerType
<1>7. ASSUME NEW n \in DOMAIN requests, M!RequestFails(n) PROVE MessageType'
  BY <1>1, <1>7, LessType DEF M!RequestFails, M!paneVars
<1>8. CASE M!EntryAdded
  <2>1. /\ log' \in Seq(Nat) /\ Len(log') = Len(log) + 1 /\ Len(log) \in Nat
        /\ UNCHANGED <<messages, cursor, hasMore, requests>>
        /\ \E e \in Item : M!Push(e)
    BY <1>1, <1>8, LogGrows
  <2>2. QED
    BY <2>1, PushType
<1>9. CASE M!EntryChanges
  <2>1. /\ log' \in Seq(Nat) /\ Len(log') = Len(log) /\ Len(log) \in Nat
        /\ UNCHANGED <<messages, cursor, hasMore, requests>>
        /\ \E e \in Item : M!Push(e)
    BY <1>1, <1>9, LogChanges
  <2>2. QED
    BY <2>1, PushType
<1>10. CASE M!FrameArrives
  BY <1>10, ArriveType
<1>11. QED
  BY <1>3, <1>4, <1>5, <1>6, <1>7, <1>8, <1>9, <1>10 DEF M!MsgNext

\* A pane begins with nothing, and a log of some entries.
LEMMA InitType ==
    ASSUME M!PaneBoundsAssumption, M!MsgInit
    PROVE  MessageType
<1>1. PICK n \in 1 .. MaxLog - 1 : log = [i \in 1 .. n |-> 1]
  BY DEF M!MsgInit
<1>2. n \in Nat /\ n >= 1
  BY <1>1 DEF M!PaneBoundsAssumption
<1>3. log \in [1 .. n -> Nat]
  BY <1>1
<1>4. log \in Seq(Nat) /\ Len(log) = n
  BY <1>2, <1>3
<1>5. /\ messages = <<>> /\ requests = <<>> /\ frames = <<>>
      /\ cursor = 0 /\ hasMore = FALSE
  BY DEF M!MsgInit
<1>6. /\ messages \in Seq(Bubble) /\ requests \in Seq(Request) /\ frames \in Seq(Item)
      /\ DOMAIN requests = {} /\ cursor \in 0 .. Len(log)
  BY <1>2, <1>4, <1>5
<1>7. QED
  BY <1>2, <1>4, <1>5, <1>6 DEF MessageType

\* A frame that arrives only adds to what is shown.
LEMMA ArriveAdds ==
    ASSUME MessageType, M!FrameArrives
    PROVE  /\ {messages[n].id : n \in DOMAIN messages} \cup {Head(frames).id}
                = {messages'[n].id : n \in DOMAIN messages'}
           /\ \E n \in DOMAIN messages' :
                 messages'[n].id = Head(frames).id /\ messages'[n].ver = Head(frames).ver
           /\ \A n \in DOMAIN messages' \ {1} :
                 (/\ Tools[messages'[n].id] # "none"
                  /\ Tools[messages'[n - 1].id] = Tools[messages'[n].id])
                    => messages'[n].joins
<1>1. PICK s \in Seq(Item) : s = M!Flat(messages)
  BY FlatIs DEF MessageType
<1>2. /\ DOMAIN messages = 1 .. Len(messages) /\ Len(s) = Len(messages)
      /\ \A n \in 1 .. Len(messages) : s[n].id = messages[n].id
  BY <1>1, FlatIs DEF MessageType
<1>3. PICK h \in Item : h = Head(frames)
  BY ArriveType
<1>4. PICK r \in Seq(Item) : OnlyAdds(s, h, r) /\ messages' = M!Grouped(r)
  BY <1>1, <1>3, ArriveType
<1>5. PICK g \in Seq(Bubble) : g = M!Grouped(r)
  BY GroupedIs
<1>6. /\ Len(g) = Len(r) /\ DOMAIN g = 1 .. Len(r) /\ DOMAIN r = 1 .. Len(r)
      /\ \A n \in 1 .. Len(r) : g[n].id = r[n].id /\ g[n].ver = r[n].ver
  BY <1>5, GroupedIs
<1>7. \A x : x \in {messages[n].id : n \in DOMAIN messages} \cup {h.id} <=>
             x \in {g[n].id : n \in DOMAIN g}
  <2> TAKE x
  <2>1. ASSUME NEW n \in 1 .. Len(messages) PROVE \E l \in 1 .. Len(r) : messages[n].id = g[l].id
    <3>1. PICK l \in 1 .. Len(r) : r[l].id = s[n].id
      BY <1>2, <1>4 DEF OnlyAdds
    <3>2. QED
      BY <1>2, <1>6, <3>1
  <2>2. \E l \in 1 .. Len(r) : g[l].id = h.id
    BY <1>4, <1>6 DEF OnlyAdds
  <2>3. ASSUME NEW l \in 1 .. Len(r)
        PROVE  g[l].id = h.id \/ \E n \in 1 .. Len(messages) : g[l].id = messages[n].id
    <3>1. r[l].id = h.id \/ \E n \in 1 .. Len(s) : r[l].id = s[n].id
      BY <1>4 DEF OnlyAdds
    <3>2. CASE r[l].id = h.id
      BY <1>6, <3>2
    <3>3. ASSUME NEW n \in 1 .. Len(s), r[l].id = s[n].id
          PROVE  g[l].id = messages[n].id
      BY <1>2, <1>6, <3>3
    <3>4. QED
      BY <1>2, <3>1, <3>2, <3>3
  <2>4. x \in {messages[n].id : n \in DOMAIN messages} \cup {h.id} <=>
           x = h.id \/ \E n \in 1 .. Len(messages) : x = messages[n].id
    BY <1>2, Zenon
  <2>5. x \in {g[n].id : n \in DOMAIN g} <=> \E l \in 1 .. Len(r) : x = g[l].id
    BY <1>6, Zenon
  <2>6. QED
    BY <2>1, <2>2, <2>3, <2>4, <2>5, Zenon
<1>8. {messages[n].id : n \in DOMAIN messages} \cup {h.id} = {g[n].id : n \in DOMAIN g}
  BY <1>7, Zenon
<1>9. \E n \in DOMAIN g : g[n].id = h.id /\ g[n].ver = h.ver
  <2>1. PICK n \in 1 .. Len(r) : r[n] = h
    BY <1>4 DEF OnlyAdds
  <2>2. QED
    BY <1>6, <2>1
<1>10. ASSUME NEW n \in DOMAIN g, n # 1, Tools[g[n].id] # "none",
              Tools[g[n - 1].id] = Tools[g[n].id]
       PROVE  g[n].joins
  <2>1. n \in 1 .. Len(r) /\ n - 1 \in 1 .. Len(r) /\ n > 1
    BY <1>6, <1>10
  <2>2. g[n].id = r[n].id /\ g[n - 1].id = r[n - 1].id
    BY <1>6, <2>1
  <2>3. /\ Tools[r[n].id] # "none"
        /\ Tools[r[n - 1].id] = Tools[r[n].id]
    BY <1>10, <2>2
  <2>4. g[n].joins = (n > 1 /\ Tools[r[n].id] # "none" /\ Tools[r[n - 1].id] = Tools[r[n].id])
    <3> HIDE DEF Tools
    <3>1. QED
      BY <1>5, <1>6, <2>1 DEF M!Grouped
  <2>5. QED
    BY <2>1, <2>3, <2>4
<1>11. messages' = g
  BY <1>4, <1>5
<1>12. QED
  BY <1>3, <1>8, <1>9, <1>10, <1>11

\* Only a frame that arrives changes the messages and takes one frame off.
LEMMA OnlyFrames ==
    ASSUME MessageType, [M!MsgNext]_(M!msgVars), messages' # messages,
           Len(frames') = Len(frames) - 1
    PROVE  M!FrameArrives
<1>1. Len(frames) \in Nat
  BY DEF MessageType
<1>2. frames' # frames
  BY <1>1
<1>3. ~M!Open /\ ~M!Refresh /\ ~M!ClickOlder /\ ~M!ResetButton
  BY <1>2 DEF M!Open, M!Refresh, M!ClickOlder, M!ResetButton
<1>4. ~ \E n \in DOMAIN requests : M!Answer(n) \/ M!RequestFails(n)
  BY <1>2 DEF M!Answer, M!RequestFails
<1>5. ~M!EntryAdded /\ ~M!EntryChanges /\ ~M!SocketBreaks /\ ~M!SocketOpens
  BY DEF M!EntryAdded, M!EntryChanges, M!SocketBreaks, M!SocketOpens, M!paneVars
<1>6. ~UNCHANGED M!msgVars
  BY <1>2 DEF M!msgVars
<1>7. QED
  BY <1>3, <1>4, <1>5, <1>6 DEF M!MsgNext

\* Whatever was lost or crossed: no message disappears when a frame arrives, its message
\* is shown, and tool groups that were split by a page are whole again
\* (appendRealtimeMessages).
THEOREM FramesOnlyEverAdd ==
    ASSUME M!PaneBoundsAssumption
    PROVE  M!MsgSpec => FramesOnlyAdd
<1>1. MessageType /\ [M!MsgNext]_(M!msgVars) =>
        [(frames # <<>> /\ messages' # messages /\ Len(frames') = Len(frames) - 1) =>
            /\ {messages[n].id : n \in DOMAIN messages} \cup {Head(frames).id}
                  = {messages'[n].id : n \in DOMAIN messages'}
            /\ \E n \in DOMAIN messages' :
                  messages'[n].id = Head(frames).id /\ messages'[n].ver = Head(frames).ver
            /\ \A n \in DOMAIN messages' \ {1} :
                  (/\ Tools[messages'[n].id] # "none"
                   /\ Tools[messages'[n - 1].id] = Tools[messages'[n].id])
                      => messages'[n].joins]_(M!msgVars)
  BY OnlyFrames, ArriveAdds
<1>2. M!MsgInit => MessageType
  BY InitType
<1>3. MessageType /\ [M!MsgNext]_(M!msgVars) => MessageType'
  BY NextType
<1>4. QED
  BY <1>1, <1>2, <1>3, PTL DEF M!MsgSpec, FramesOnlyAdd, M!FramesOnlyAdd

\* A frame is a change of the log: a later one of that entry waits, or it is the newest
\* version, and the next one is of that entry or of the next.
RightFrame(fr, n, lg) ==
    /\ fr[n].id \in 1 .. Len(lg)
    /\ fr[n].ver = lg[fr[n].id] \/ (n < Len(fr) /\ fr[n + 1].id = fr[n].id)
    /\ n < Len(fr) => fr[n + 1].id \in {fr[n].id, fr[n].id + 1}

\* The frames that wait are the last changes of the log, in their order.
FramesFollow ==
    /\ ~live => frames = <<>>
    /\ frames # <<>> => frames[Len(frames)].id = Len(log)
    /\ \A n \in DOMAIN frames : RightFrame(frames, n, log)

\* A piece of the log, and one that the frames bring to its end.
Unbroken(s) == \A n \in DOMAIN s : s[n].id = s[1].id + n - 1
Follows(s, lg, fr) ==
    /\ s # <<>> /\ Unbroken(s)
    /\ \A n \in DOMAIN s :
          /\ s[n].id \in 1 .. Len(lg)
          /\ s[n].ver = lg[s[n].id] \/ (fr # <<>> /\ s[n].id = fr[1].id)
    /\ fr = <<>> => s[Len(s)].id = Len(lg)
    /\ fr # <<>> => fr[1].id \in {s[Len(s)].id, s[Len(s)].id + 1}

\* A page that was the newest and is not any more shows it.
Behind(pg, lg, fr) ==
    /\ pg.items # <<>>
    /\ LET z == pg.items[Len(pg.items)]
       IN  /\ z.id < Len(lg) \/ (z.id = Len(lg) /\ z.ver <= lg[Len(lg)])
           /\ fr # <<>> => z.id < Len(lg) \/ z.ver < lg[Len(lg)]

\* One request at a time.
OneRequest ==
    /\ Len(requests) <= 1
    /\ \A n \in DOMAIN requests :
          /\ requests[n].older => loadingMore = TRUE
          /\ ~requests[n].older => Behind(requests[n].page, log, frames)

\* What is shown is followed by the frames, and the page before it is the one a click
\* asks for; a page that was asked for is that one, or is followed by the frames itself.
Older(pg) ==
    /\ Follows(messages, log, frames) /\ messages[1].id = cursor
    /\ cursor > 1 /\ pg = M!PageBefore(cursor)
Newest(pg, lg, fr) ==
    Follows(pg.items, lg, fr) /\ pg.items[1].id = pg.cursor /\ (pg.more <=> pg.cursor > 1)
Settled ==
    /\ messages # <<>> => Follows(messages, log, frames)
    /\ hasMore => messages # <<>> /\ messages[1].id = cursor /\ cursor > 1

PaneFollows ==
    /\ Unbroken(messages)
    /\ requests = <<>> => Settled
    /\ \A n \in DOMAIN requests :
          /\ requests[n].older => Older(requests[n].page)
          /\ ~requests[n].older => Newest(requests[n].page, log, frames)

MessageInv ==
    /\ MessageType /\ FramesFollow
    /\ overlap \in BOOLEAN /\ missed \in BOOLEAN /\ live \in BOOLEAN
    /\ ~overlap => OneRequest
    /\ ~overlap /\ ~missed => PaneFollows

\* Grouping changes nothing of this.
LEMMA FollowsAlike ==
    ASSUME NEW S, NEW U, NEW s \in Seq(S), NEW u \in Seq(U), Len(u) = Len(s),
           \A n \in 1 .. Len(s) : u[n].id = s[n].id /\ u[n].ver = s[n].ver,
           NEW lg, NEW fr
    PROVE  /\ Unbroken(s) => Unbroken(u)
           /\ Follows(s, lg, fr) => Follows(u, lg, fr)
           /\ s # <<>> => u # <<>> /\ u[1].id = s[1].id
<1>1. /\ DOMAIN s = 1 .. Len(s) /\ DOMAIN u = 1 .. Len(s) /\ Len(s) \in Nat
      /\ s # <<>> => 1 \in 1 .. Len(s) /\ Len(s) \in 1 .. Len(s) /\ u # <<>>
  OBVIOUS
<1>2. s # <<>> => /\ u # <<>> /\ u[1].id = s[1].id
                  /\ u[Len(u)].id = s[Len(s)].id
  BY <1>1
<1>3. Unbroken(s) => Unbroken(u)
  <2>1. CASE s = <<>>
    BY <1>1, <2>1 DEF Unbroken
  <2>2. CASE s # <<>>
    BY <1>1, <1>2, <2>2 DEF Unbroken
  <2>3. QED
    BY <2>1, <2>2
<1>4. ASSUME Follows(s, lg, fr) PROVE Follows(u, lg, fr)
  <2>1. s # <<>> /\ Unbroken(u)
    BY <1>3, <1>4 DEF Follows
  <2>2. ASSUME NEW n \in DOMAIN u
        PROVE  /\ u[n].id \in 1 .. Len(lg)
               /\ u[n].ver = lg[u[n].id] \/ (fr # <<>> /\ u[n].id = fr[1].id)
    <3>1. n \in DOMAIN s /\ u[n].id = s[n].id /\ u[n].ver = s[n].ver
      BY <1>1
    <3>2. /\ s[n].id \in 1 .. Len(lg)
          /\ s[n].ver = lg[s[n].id] \/ (fr # <<>> /\ s[n].id = fr[1].id)
      BY <1>4, <3>1 DEF Follows
    <3>3. QED
      BY <3>1, <3>2
  <2>3. /\ fr = <<>> => u[Len(u)].id = Len(lg)
        /\ fr # <<>> => fr[1].id \in {u[Len(u)].id, u[Len(u)].id + 1}
    BY <1>2, <1>4, <2>1 DEF Follows
  <2>4. QED
    BY <1>2, <2>1, <2>2, <2>3 DEF Follows
<1>5. QED
  BY <1>2, <1>3, <1>4

\* Entries to the end of the log are followed by no frame, earlier ones by what follows.
LEMMA EntriesFollow ==
    ASSUME log \in Seq(Nat), NEW x \in 1 .. Len(log)
    PROVE  /\ Follows(M!Entries(x, Len(log)), log, <<>>)
           /\ M!Entries(x, Len(log))[1].id = x
           /\ LET e == M!Entries(x, Len(log))
              IN  e[Len(e)].id = Len(log) /\ e[Len(e)].ver = log[Len(log)]
<1>1. Len(log) \in Nat /\ x \in Nat \ {0} /\ x <= Len(log) + 1 /\ x <= Len(log)
  OBVIOUS
<1>2. PICK e : e = M!Entries(x, Len(log))
  OBVIOUS
<1>3. /\ e \in Seq(Item) /\ Len(e) = Len(log) - x + 1
      /\ \A n \in 1 .. Len(log) - x + 1 :
            /\ x + n - 1 \in 1 .. Len(log)
            /\ e[n].id = x + n - 1 /\ e[n].ver = log[x + n - 1]
  <2>1. PICK y \in Nat : y = Len(log)
    BY <1>1
  <2>2. y <= Len(log) /\ x <= y + 1 /\ e = M!Entries(x, y)
    BY <1>1, <1>2, <2>1
  <2>3. /\ e \in Seq(Item) /\ Len(e) = y - x + 1
        /\ \A n \in 1 .. y - x + 1 :
              /\ x + n - 1 \in 1 .. Len(log)
              /\ e[n].id = x + n - 1 /\ e[n].ver = log[x + n - 1]
    BY <1>1, <2>2, EntriesIs
  <2>4. QED
    BY <2>1, <2>3
<1>4. /\ DOMAIN e = 1 .. Len(e) /\ 1 \in 1 .. Len(e) /\ Len(e) \in 1 .. Len(e)
      /\ x + Len(e) - 1 = Len(log) /\ x + 1 - 1 = x /\ e # <<>>
  BY <1>1, <1>3
<1>5. e[1].id = x /\ e[Len(e)].id = Len(log) /\ e[Len(e)].ver = log[Len(log)]
  BY <1>3, <1>4
<1>6. Unbroken(e)
  BY <1>3, <1>4, <1>5 DEF Unbroken
<1>7. Follows(e, log, <<>>)
  BY <1>3, <1>4, <1>5, <1>6 DEF Follows
<1>8. QED
  BY <1>2, <1>5, <1>7

\* The newest page, while no frame waits.
LEMMA LatestFollows ==
    ASSUME M!PaneBoundsAssumption, MessageType
    PROVE  /\ Newest(M!Latest.page, log, <<>>) /\ Behind(M!Latest.page, log, <<>>)
           /\ LET z == M!Latest.page.items[Len(M!Latest.page.items)]
              IN  z.id = Len(log) /\ z.ver = log[Len(log)]
<1>1. log \in Seq(Nat) /\ Len(log) >= 1 /\ Len(log) \in Nat
  BY DEF MessageType
<1>2. PICK pg : pg = M!Latest.page
  OBVIOUS
<1>3. /\ pg.cursor \in 1 .. Len(log) /\ (pg.more <=> pg.cursor > 1)
      /\ pg.items = M!Entries(pg.cursor, Len(log))
  BY <1>1, <1>2, LatestIs
<1>4. PICK x \in 1 .. Len(log) : x = pg.cursor
  BY <1>3
<1>5. PICK e : e = pg.items
  OBVIOUS
<1>6. /\ Follows(e, log, <<>>) /\ e[1].id = x
      /\ e[Len(e)].id = Len(log) /\ e[Len(e)].ver = log[Len(log)]
  BY <1>1, <1>3, <1>4, <1>5, EntriesFollow
<1>7. Newest(pg, log, <<>>)
  BY <1>3, <1>4, <1>5, <1>6 DEF Newest
<1>8. log[Len(log)] \in Nat
  BY <1>1
<1>9. Behind(pg, log, <<>>)
  BY <1>1, <1>5, <1>6, <1>8 DEF Behind, Follows
<1>10. QED
  BY <1>2, <1>5, <1>6, <1>7, <1>9

\* A request for the newest page waits alone, or something crossed.
LEMMA SendFollows ==
    ASSUME M!PaneBoundsAssumption, MessageInv,
           requests' = Append(requests, M!Latest), log' = log,
           overlap' = (overlap \/ requests # <<>> \/ frames # <<>>),
           messages' \in {<<>>, messages}, frames' \in {<<>>, frames}, ~missed' => ~missed
    PROVE  /\ ~overlap' => OneRequest'
           /\ ~overlap' /\ ~missed' => PaneFollows'
<1>1. SUFFICES ASSUME ~overlap'
               PROVE  OneRequest' /\ (~missed' => PaneFollows')
  OBVIOUS
<1>2. ~overlap /\ requests = <<>> /\ frames = <<>>
  BY <1>1 DEF MessageInv
<1>3. PICK r \in Request : r = M!Latest
  BY LatestIs DEF MessageInv, MessageType
<1>4. requests' = <<r>> /\ frames' = <<>>
  BY <1>2, <1>3
<1>5. Len(requests') = 1 /\ DOMAIN requests' = {1} /\ requests'[1] = r /\ requests' # <<>>
  BY <1>4
<1>6. /\ ~r.older /\ Newest(r.page, log', frames') /\ Behind(r.page, log', frames')
  BY <1>3, <1>4, LatestFollows, LatestIs DEF MessageInv, MessageType
<1>7. OneRequest'
  BY <1>5, <1>6 DEF OneRequest
<1>8. ASSUME ~missed' PROVE PaneFollows'
  <2>1. Unbroken(messages)
    BY <1>2, <1>8 DEF MessageInv, PaneFollows
  <2>2. Unbroken(<<>>)
    BY DEF Unbroken
  <2>3. Unbroken(messages')
    BY <2>1, <2>2
  <2>4. QED
    BY <1>5, <1>6, <2>3 DEF PaneFollows
<1>9. QED
  BY <1>7, <1>8

\* A click asks for the page before the first message.
LEMMA ClickFollows ==
    ASSUME M!PaneBoundsAssumption, MessageInv, M!ClickOlder
    PROVE  /\ ~overlap' => OneRequest'
           /\ ~overlap' /\ ~missed' => PaneFollows'
<1>1. SUFFICES ASSUME ~overlap'
               PROVE  OneRequest' /\ (~missed' => PaneFollows')
  OBVIOUS
<1>2. PICK pg : pg = M!PageBefore(cursor)
  OBVIOUS
<1>3. PICK r : r = [older |-> TRUE, page |-> pg]
  OBVIOUS
<1>4. /\ ~loadingMore /\ hasMore /\ loadingMore' = TRUE
      /\ requests' = Append(requests, r)
      /\ overlap' = (overlap \/ \E n \in DOMAIN requests : ~requests[n].older)
      /\ log' = log /\ messages' = messages /\ frames' = frames /\ cursor' = cursor
      /\ missed' = missed
  BY <1>2, <1>3 DEF M!ClickOlder, M!Enabled, M!paneVars
<1>5. ~overlap /\ \A n \in DOMAIN requests : requests[n].older
  BY <1>1, <1>4 DEF MessageInv
<1>6. requests = <<>>
  <2>1. requests \in Seq(Request) /\ \A n \in DOMAIN requests : loadingMore = TRUE
    BY <1>5 DEF MessageInv, MessageType, OneRequest
  <2>2. DOMAIN requests = {}
    BY <1>4, <2>1
  <2>3. QED
    BY <2>1, <2>2
<1>7. requests' = <<r>>
  BY <1>4, <1>6
<1>8. /\ Len(requests') = 1 /\ DOMAIN requests' = {1} /\ requests'[1] = r
      /\ requests' # <<>> /\ r.older /\ r.page = pg
  BY <1>3, <1>7
<1>9. OneRequest'
  BY <1>4, <1>8 DEF OneRequest
<1>10. ASSUME ~missed' PROVE PaneFollows'
  <2>1. PaneFollows /\ Settled
    BY <1>4, <1>5, <1>6, <1>10 DEF MessageInv, PaneFollows
  <2>2. /\ Unbroken(messages) /\ Follows(messages, log, frames)
        /\ messages[1].id = cursor /\ cursor > 1
    BY <1>4, <2>1 DEF PaneFollows, Settled
  <2>3. M!PageBefore(cursor)' = M!PageBefore(cursor)
    BY <1>4 DEF M!PageBefore, M!Entries
  <2>4. Older(pg)'
    BY <1>2, <1>4, <2>2, <2>3 DEF Older
  <2>5. QED
    BY <1>4, <1>8, <2>2, <2>4 DEF PaneFollows
<1>11. QED
  BY <1>9, <1>10

\* An answer is put where what was shown, and what waits, goes on from it.
LEMMA AnswerFollows ==
    ASSUME M!PaneBoundsAssumption, MessageInv, NEW n \in DOMAIN requests, M!Answer(n)
    PROVE  /\ ~overlap' => OneRequest'
           /\ ~overlap' /\ ~missed' => PaneFollows'
<1>1. SUFFICES ASSUME ~overlap'
               PROVE  OneRequest' /\ (~missed' => PaneFollows')
  OBVIOUS
<1>2. /\ requests' = M!RemoveAt(requests, n) /\ log' = log /\ frames' = frames
      /\ overlap' = overlap
  BY DEF M!Answer
<1>3. OneRequest /\ ~overlap /\ requests \in Seq(Request) /\ log \in Seq(Nat)
  BY <1>1, <1>2 DEF MessageInv, MessageType
<1>4. requests' = <<>>
  <2>1. requests' \in Seq(Request) /\ Len(requests') = Len(requests) - 1
    BY <1>2, <1>3, OneLess
  <2>2. Len(requests) <= 1 /\ Len(requests) \in Nat
    BY <1>3 DEF OneRequest
  <2>3. QED
    BY <2>1, <2>2
<1>5. OneRequest'
  BY <1>4 DEF OneRequest
<1>6. PICK r \in Request : r = requests[n]
  BY <1>3
<1>7. PICK pg \in PageOf : pg = r.page
  BY DEF Request
<1>8. /\ pg.items \in Seq(Item) /\ pg.more \in BOOLEAN /\ messages \in Seq(Bubble)
      /\ pg.cursor \in 1 .. Len(log) /\ Len(log) >= 1
  BY <1>6, <1>7 DEF PageOf, MessageInv, MessageType
<1>0. PICK e \in Seq(Item) : e = pg.items
  BY <1>8
<1>9. PICK top \in Seq(Bubble) : top = M!Grouped(e)
  BY GroupedIs
<1>10. /\ Len(top) = Len(e)
       /\ \A l \in 1 .. Len(e) : top[l].id = e[l].id /\ top[l].ver = e[l].ver
  BY <1>9, GroupedIs
<1>11. ASSUME ~r.older, ~missed' PROVE PaneFollows'
  <2>1. /\ messages' = top /\ cursor' = pg.cursor /\ hasMore' = pg.more
        /\ missed' = (missed /\ pg # M!Latest.page)
    BY <1>0, <1>6, <1>7, <1>9, <1>11 DEF M!Answer, M!Replace
  <2>2. Newest(pg, log, frames)
    <3>1. CASE ~missed
      BY <1>3, <1>6, <1>7, <1>11, <3>1 DEF MessageInv, PaneFollows
    <3>2. CASE missed
      <4>1. pg = M!Latest.page
        BY <1>11, <2>1, <3>2
      <4>2. Behind(pg, log, frames)
        BY <1>3, <1>6, <1>7, <1>11 DEF OneRequest
      <4>3. PICK z : z = pg.items[Len(pg.items)]
        OBVIOUS
      <4>4. z.id = Len(log) /\ z.ver = log[Len(log)] /\ Newest(pg, log, <<>>)
        BY <4>1, <4>3, LatestFollows DEF MessageInv
      <4>5. Len(log) \in Nat /\ log[Len(log)] \in Nat
        BY <1>3, <1>8
      <4>6. frames = <<>>
        BY <4>2, <4>3, <4>4, <4>5 DEF Behind
      <4>7. QED
        BY <4>4, <4>6
    <3>3. QED
      BY <3>1, <3>2
  <2>3. Follows(e, log, frames) /\ e # <<>> /\ e[1].id = pg.cursor
    BY <1>0, <2>2 DEF Newest, Follows
  <2>4. Follows(top, log, frames) /\ top # <<>> /\ top[1].id = e[1].id
    BY <1>10, <2>3, FollowsAlike
  <2>5. /\ top[1].id = pg.cursor /\ (pg.more <=> pg.cursor > 1) /\ Unbroken(top)
    BY <2>2, <2>3, <2>4 DEF Newest, Follows
  <2>6. QED
    BY <1>2, <1>4, <2>1, <2>4, <2>5 DEF PaneFollows, Settled
<1>12. ASSUME r.older, ~missed' PROVE PaneFollows'
  <2>1. /\ messages' = top \o messages /\ cursor' = pg.cursor /\ hasMore' = pg.more
        /\ missed' = missed
    BY <1>0, <1>6, <1>7, <1>9, <1>12 DEF M!Answer, M!Prepend
  <2>2. Older(pg)
    BY <1>3, <1>6, <1>7, <1>12, <2>1 DEF MessageInv, PaneFollows
  <2>3. /\ Follows(messages, log, frames) /\ messages[1].id = cursor /\ cursor > 1
        /\ cursor \in 1 .. Len(log) + 1 /\ cursor \in Nat /\ pg = M!PageBefore(cursor)
    BY <2>2 DEF Older, MessageInv, MessageType
  <2>4. /\ pg.cursor < cursor /\ (pg.more <=> pg.cursor > 1)
        /\ e = M!Entries(pg.cursor, cursor - 1)
    BY <1>0, <1>3, <1>8, <2>3, PageIs
  <2>5. PICK x \in Nat \ {0} : x = pg.cursor
    BY <1>8
  <2>6. PICK y \in Nat : y = cursor - 1
    BY <2>3
  <2>7. /\ y <= Len(log) /\ x <= y + 1 /\ x <= y /\ Len(log) \in Nat /\ y + 1 = cursor
    BY <1>3, <2>3, <2>4, <2>5, <2>6
  <2>8. /\ Len(e) = y - x + 1
        /\ \A l \in 1 .. y - x + 1 :
              /\ x + l - 1 \in 1 .. Len(log)
              /\ e[l].id = x + l - 1 /\ e[l].ver = log[x + l - 1]
    <3>1. e = M!Entries(x, y)
      BY <2>4, <2>5, <2>6
    <3>2. QED
      BY <1>3, <2>7, <3>1, EntriesIs
  <2>9. PICK s : s = top \o messages
    OBVIOUS
  <2> DEFINE LT == y - x + 1
             LM == Len(messages)
  <2>10. /\ LT \in Nat /\ LT >= 1 /\ LM \in Nat /\ LM >= 1 /\ Len(top) = LT
         /\ \A l \in 1 .. LT : top[l].id = x + l - 1 /\ top[l].ver = log[x + l - 1]
         /\ \A l \in 1 .. LT : x + l - 1 \in 1 .. Len(log)
    <3>1. LT \in Nat /\ LT >= 1
      BY <2>7
    <3>2. LM \in Nat /\ LM >= 1
      BY <1>8, <2>3 DEF Follows
    <3>3. QED
      BY <1>10, <2>8, <3>1, <3>2
  <2> HIDE DEF LT
  <2>11. /\ s \in Seq(Bubble) /\ Len(s) = LT + LM /\ s # <<>> /\ DOMAIN s = 1 .. LT + LM
         /\ \A l \in 1 .. LT : s[l] = top[l]
         /\ \A l \in 1 .. LM : s[LT + l] = messages[l]
    <3>1. /\ s \in Seq(Bubble) /\ Len(s) = Len(top) + Len(messages)
          /\ \A l \in 1 .. Len(top) : s[l] = top[l]
          /\ \A l \in 1 .. Len(messages) : s[Len(top) + l] = messages[l]
      BY <1>8, <2>9
    <3>2. DOMAIN s = 1 .. Len(s) /\ (Len(s) >= 1 => s # <<>>)
      BY <3>1
    <3>3. QED
      BY <2>10, <3>1, <3>2
  <2>12. \A l \in 1 .. LT :
            /\ s[l].id = x + l - 1 /\ s[l].id \in 1 .. Len(log)
            /\ s[l].ver = log[s[l].id]
    <3> TAKE l \in 1 .. LT
    <3>1. s[l] = top[l] /\ x + l - 1 \in 1 .. Len(log)
      BY <2>10, <2>11
    <3>2. top[l].id = x + l - 1 /\ top[l].ver = log[x + l - 1]
      BY <2>10
    <3>3. QED
      BY <3>1, <3>2
  <2>13. \A l \in 1 .. LM :
            /\ s[LT + l].id = x + (LT + l) - 1 /\ s[LT + l].id \in 1 .. Len(log)
            /\ s[LT + l].ver = log[s[LT + l].id]
                  \/ (frames # <<>> /\ s[LT + l].id = frames[1].id)
    <3> TAKE l \in 1 .. LM
    <3>1. l \in DOMAIN messages
      BY <1>8
    <3>2. /\ messages[l].id = cursor + l - 1 /\ messages[l].id \in 1 .. Len(log)
          /\ messages[l].ver = log[messages[l].id]
                \/ (frames # <<>> /\ messages[l].id = frames[1].id)
      BY <2>3, <3>1 DEF Follows, Unbroken
    <3>3. x + (LT + l) - 1 = cursor + l - 1
      BY <2>6, <2>7 DEF LT
    <3>4. QED
      BY <2>11, <3>2, <3>3
  <2> HIDE DEF LM
  <2>14. \A l \in 1 .. LT + LM : l \in 1 .. LT \/ \E m \in 1 .. LM : l = LT + m
    <3> TAKE l \in 1 .. LT + LM
    <3>1. CASE l <= LT
      BY <2>10, <3>1
    <3>2. CASE ~(l <= LT)
      <4>1. l - LT \in 1 .. LM /\ l = LT + (l - LT)
        BY <2>10, <3>2
      <4>2. QED
        BY <4>1
    <3>3. QED
      BY <3>1, <3>2
  <2>15. ASSUME NEW l \in 1 .. LT + LM
         PROVE  /\ s[l].id = x + l - 1 /\ s[l].id \in 1 .. Len(log)
                /\ s[l].ver = log[s[l].id] \/ (frames # <<>> /\ s[l].id = frames[1].id)
    BY <2>12, <2>13, <2>14
  <2>16. s[1].id = x
    <3>1. 1 \in 1 .. LT /\ x + 1 - 1 = x
      BY <2>5, <2>10
    <3>2. QED
      BY <2>12, <3>1
  <2>17. s[Len(s)] = messages[Len(messages)]
    BY <2>10, <2>11 DEF LM
  <2>18. Unbroken(s) /\ Follows(s, log, frames)
    BY <2>3, <2>11, <2>15, <2>16, <2>17 DEF Unbroken, Follows
  <2>19. QED
    BY <1>2, <1>4, <2>1, <2>4, <2>5, <2>9, <2>11, <2>16, <2>18 DEF PaneFollows, Settled
<1>13. QED
  BY <1>5, <1>11, <1>12

\* A failed request leaves what is shown as it is.
LEMMA FailFollows ==
    ASSUME MessageInv, NEW n \in DOMAIN requests, M!RequestFails(n)
    PROVE  /\ ~overlap' => OneRequest'
           /\ ~overlap' /\ ~missed' => PaneFollows'
<1>1. SUFFICES ASSUME ~overlap'
               PROVE  OneRequest' /\ (~missed' => PaneFollows')
  OBVIOUS
<1>2. /\ requests' = M!RemoveAt(requests, n) /\ log' = log /\ frames' = frames
      /\ overlap' = overlap /\ messages' = messages /\ cursor' = cursor
      /\ hasMore' = hasMore /\ missed' = (missed \/ ~requests[n].older)
  BY DEF M!RequestFails, M!paneVars
<1>3. OneRequest /\ ~overlap /\ requests \in Seq(Request)
  BY <1>1, <1>2 DEF MessageInv, MessageType
<1>4. requests' = <<>>
  <2>1. requests' \in Seq(Request) /\ Len(requests') = Len(requests) - 1
    BY <1>2, <1>3, OneLess
  <2>2. Len(requests) <= 1 /\ Len(requests) \in Nat
    BY <1>3 DEF OneRequest
  <2>3. QED
    BY <2>1, <2>2
<1>5. OneRequest'
  BY <1>4 DEF OneRequest
<1>6. ASSUME ~missed' PROVE PaneFollows'
  <2>1. PaneFollows /\ Older(requests[n].page)
    BY <1>2, <1>3, <1>6 DEF MessageInv, PaneFollows
  <2>2. /\ Follows(messages, log, frames) /\ messages[1].id = cursor /\ cursor > 1
        /\ Unbroken(messages) /\ messages # <<>>
    BY <2>1 DEF Older, Follows
  <2>3. QED
    BY <1>2, <1>4, <2>2 DEF PaneFollows, Settled
<1>7. QED
  BY <1>5, <1>6

\* What follows still does when an entry is added and pushed.
LEMMA AddedFollows ==
    ASSUME MessageType, FramesFollow, M!EntryAdded, live = TRUE
    PROVE  /\ FramesFollow'
           /\ \A S : \A s \in Seq(S) :
                 Follows(s, log, frames) => Follows(s, log', frames')
<1>1. /\ log \in Seq(Nat) /\ frames \in Seq(Item) /\ Len(log) \in Nat /\ Len(frames) \in Nat
      /\ DOMAIN frames = 1 .. Len(frames)
  BY DEF MessageType
<1>2. PICK e \in Item : e.id = Len(log) + 1 /\ e.ver = 1 /\ frames' = Append(frames, e)
  <2>1. PICK e : e = [id |-> Len(log) + 1, ver |-> 1]
    OBVIOUS
  <2>2. e \in Item /\ M!Push(e)
    BY <2>1, LogGrows
  <2>3. QED
    BY <2>1, <2>2 DEF M!Push
<1>3. /\ Len(log') = Len(log) + 1 /\ log'[Len(log) + 1] = 1 /\ live' = live
      /\ \A n \in 1 .. Len(log) : log'[n] = log[n]
  BY LogGrows
<1>4. /\ Len(frames') = Len(frames) + 1 /\ DOMAIN frames' = 1 .. Len(frames) + 1
      /\ frames'[Len(frames) + 1] = e /\ frames' # <<>>
      /\ \A n \in 1 .. Len(frames) : frames'[n] = frames[n]
  BY <1>1, <1>2
<1>5. ASSUME NEW n \in DOMAIN frames' PROVE RightFrame(frames', n, log')
  <2>1. CASE n = Len(frames) + 1
    BY <1>1, <1>2, <1>3, <1>4, <2>1 DEF RightFrame
  <2>2. CASE n # Len(frames) + 1
    <3>1. n \in 1 .. Len(frames) /\ frames'[n] = frames[n] /\ frames # <<>>
      BY <1>1, <1>4, <2>2
    <3>2. RightFrame(frames, n, log) /\ frames[Len(frames)].id = Len(log)
      BY <1>1, <3>1 DEF FramesFollow
    <3>3. /\ frames[n].id \in 1 .. Len(log) /\ frames[n].id \in 1 .. Len(log')
          /\ log'[frames[n].id] = log[frames[n].id]
      BY <1>1, <1>3, <3>2 DEF RightFrame
    <3>4. CASE n < Len(frames)
      <4>1. n + 1 \in 1 .. Len(frames) /\ frames'[n + 1] = frames[n + 1]
        BY <1>1, <1>4, <3>1, <3>4
      <4>2. n < Len(frames')
        BY <1>1, <1>4, <3>1, <3>4
      <4>3. QED
        BY <3>1, <3>2, <3>3, <3>4, <4>1, <4>2 DEF RightFrame
    <3>5. CASE ~(n < Len(frames))
      <4>1. n = Len(frames) /\ frames'[n + 1] = e
        BY <1>1, <1>4, <3>1, <3>5
      <4>2. frames[n].ver = log[frames[n].id]
        BY <3>2, <3>5 DEF RightFrame
      <4>3. frames'[n].id = Len(log) /\ frames'[n + 1].id = frames'[n].id + 1
        BY <1>2, <3>1, <3>2, <4>1
      <4>4. QED
        BY <3>1, <3>3, <4>2, <4>3 DEF RightFrame
    <3>6. QED
      BY <3>4, <3>5
  <2>3. QED
    BY <2>1, <2>2
<1>6. FramesFollow'
  BY <1>2, <1>3, <1>4, <1>5 DEF FramesFollow
<1>7. ASSUME NEW S, NEW s \in Seq(S), Follows(s, log, frames)
      PROVE  Follows(s, log', frames')
  <2>1. s # <<>> /\ Unbroken(s)
    BY <1>7 DEF Follows
  <2>2. frames # <<>> => frames'[1] = frames[1]
    BY <1>1, <1>4
  <2>3. ASSUME NEW n \in DOMAIN s
        PROVE  /\ s[n].id \in 1 .. Len(log')
               /\ s[n].ver = log'[s[n].id] \/ s[n].id = frames'[1].id
    <3>1. /\ s[n].id \in 1 .. Len(log)
          /\ s[n].ver = log[s[n].id] \/ (frames # <<>> /\ s[n].id = frames[1].id)
      BY <1>7 DEF Follows
    <3>2. s[n].id \in 1 .. Len(log') /\ log'[s[n].id] = log[s[n].id]
      BY <1>1, <1>3, <3>1
    <3>3. QED
      BY <2>2, <3>1, <3>2
  <2>4. frames'[1].id \in {s[Len(s)].id, s[Len(s)].id + 1}
    <3>1. CASE frames = <<>>
      <4>1. s[Len(s)].id = Len(log) /\ frames'[1] = e
        BY <1>2, <1>7, <3>1 DEF Follows
      <4>2. QED
        BY <1>2, <4>1
    <3>2. CASE frames # <<>>
      BY <1>7, <2>2, <3>2 DEF Follows
    <3>3. QED
      BY <3>1, <3>2
  <2>5. QED
    BY <1>4, <2>1, <2>3, <2>4 DEF Follows
<1>8. QED
  BY <1>6, <1>7

\* The same when the newest entry changes.
LEMMA ChangedFollows ==
    ASSUME MessageType, FramesFollow, M!EntryChanges, live = TRUE
    PROVE  /\ FramesFollow'
           /\ \A S : \A s \in Seq(S) :
                 Follows(s, log, frames) => Follows(s, log', frames')
<1>1. /\ log \in Seq(Nat) /\ frames \in Seq(Item) /\ Len(log) \in Nat /\ Len(frames) \in Nat
      /\ DOMAIN frames = 1 .. Len(frames) /\ Len(log) >= 1
  BY DEF MessageType
<1>2. PICK e \in Item : /\ e.id = Len(log) /\ e.ver = log[Len(log)] + 1
                        /\ frames' = Append(frames, e)
  <2>1. PICK e : e = [id |-> Len(log), ver |-> log[Len(log)] + 1]
    OBVIOUS
  <2>2. e \in Item /\ M!Push(e)
    BY <2>1, LogChanges
  <2>3. QED
    BY <2>1, <2>2 DEF M!Push
<1>3. /\ Len(log') = Len(log) /\ log'[Len(log)] = log[Len(log)] + 1 /\ live' = live
      /\ \A n \in 1 .. Len(log) : n # Len(log) => log'[n] = log[n]
  BY LogChanges
<1>4. /\ Len(frames') = Len(frames) + 1 /\ DOMAIN frames' = 1 .. Len(frames) + 1
      /\ frames'[Len(frames) + 1] = e /\ frames' # <<>>
      /\ \A n \in 1 .. Len(frames) : frames'[n] = frames[n]
  <2>1. frames' = Append(frames, e) /\ frames \in Seq(Item)
    BY <1>1, <1>2
  <2>2. QED
    BY <2>1
<1>5. ASSUME NEW n \in DOMAIN frames' PROVE RightFrame(frames', n, log')
  <2>1. CASE n = Len(frames) + 1
    BY <1>1, <1>2, <1>3, <1>4, <2>1 DEF RightFrame
  <2>2. CASE n # Len(frames) + 1
    <3>1. n \in 1 .. Len(frames) /\ frames'[n] = frames[n] /\ frames # <<>>
      BY <1>1, <1>4, <2>2
    <3>2. RightFrame(frames, n, log) /\ frames[Len(frames)].id = Len(log)
      BY <1>1, <3>1 DEF FramesFollow
    <3>3. frames[n].id \in 1 .. Len(log) /\ frames[n].id \in 1 .. Len(log')
      BY <1>3, <3>2 DEF RightFrame
    <3>4. CASE n < Len(frames)
      <4>1. n + 1 \in 1 .. Len(frames) /\ frames'[n + 1] = frames[n + 1]
        BY <1>1, <1>4, <3>1, <3>4
      <4>2. n < Len(frames')
        BY <1>1, <1>4, <3>1, <3>4
      <4>3. frames[n + 1].id \in {frames[n].id, frames[n].id + 1}
        BY <3>2, <3>4 DEF RightFrame
      <4>4. frames[n + 1].id \in 1 .. Len(log)
        BY <1>1, <4>1 DEF FramesFollow, RightFrame
      <4>5. frames[n].ver = log'[frames[n].id] \/ frames[n + 1].id = frames[n].id
        <5>1. CASE frames[n].id = Len(log)
          BY <1>1, <4>3, <4>4, <5>1
        <5>2. CASE frames[n].id # Len(log)
          BY <1>3, <3>2, <3>3, <5>2 DEF RightFrame
        <5>3. QED
          BY <5>1, <5>2
      <4>6. QED
        BY <3>1, <3>3, <4>1, <4>2, <4>3, <4>5 DEF RightFrame
    <3>5. CASE ~(n < Len(frames))
      <4>1. n = Len(frames) /\ frames'[n + 1] = e /\ n < Len(frames')
        BY <1>1, <1>4, <3>1, <3>5
      <4>2. frames'[n].id = Len(log) /\ frames'[n + 1].id = frames'[n].id
        BY <1>2, <3>1, <3>2, <4>1
      <4>3. QED
        BY <3>1, <3>3, <4>1, <4>2 DEF RightFrame
    <3>6. QED
      BY <3>4, <3>5
  <2>3. QED
    BY <2>1, <2>2
<1>6. FramesFollow'
  BY <1>2, <1>3, <1>4, <1>5 DEF FramesFollow
<1>7. ASSUME NEW S, NEW s \in Seq(S), Follows(s, log, frames)
      PROVE  Follows(s, log', frames')
  <2>1. s # <<>> /\ Unbroken(s)
    BY <1>7 DEF Follows
  <2>2. frames # <<>> => frames'[1] = frames[1]
    BY <1>1, <1>4
  <2>3. DOMAIN s = 1 .. Len(s) /\ Len(s) \in DOMAIN s /\ Len(s) \in Nat /\ 1 \in DOMAIN s
    BY <2>1
  <2>4. frames'[1].id \in {s[Len(s)].id, s[Len(s)].id + 1}
    <3>1. CASE frames = <<>>
      <4>1. s[Len(s)].id = Len(log) /\ frames'[1] = e
        BY <1>2, <1>7, <3>1 DEF Follows
      <4>2. QED
        BY <1>2, <4>1
    <3>2. CASE frames # <<>>
      BY <1>7, <2>2, <3>2 DEF Follows
    <3>3. QED
      BY <3>1, <3>2
  <2>5. frames'[1].id \in 1 .. Len(log)
    <3>1. 1 \in DOMAIN frames'
      BY <1>1, <1>4
    <3>2. RightFrame(frames', 1, log')
      BY <1>5, <3>1
    <3>3. QED
      BY <1>3, <3>2 DEF RightFrame
  <2>6. ASSUME NEW n \in DOMAIN s
        PROVE  /\ s[n].id \in 1 .. Len(log')
               /\ s[n].ver = log'[s[n].id] \/ s[n].id = frames'[1].id
    <3>1. /\ s[n].id \in 1 .. Len(log)
          /\ s[n].ver = log[s[n].id] \/ (frames # <<>> /\ s[n].id = frames[1].id)
      BY <1>7 DEF Follows
    <3>2. CASE s[n].id # Len(log)
      BY <1>3, <2>2, <3>1, <3>2
    <3>3. CASE s[n].id = Len(log)
      <4>1. s[n].id = s[1].id + n - 1 /\ s[Len(s)].id = s[1].id + Len(s) - 1
        BY <2>1, <2>3 DEF Unbroken
      <4>2. s[1].id \in Nat /\ n \in Nat /\ n <= Len(s)
        BY <1>7, <2>3 DEF Follows
      <4>3. s[Len(s)].id >= Len(log) /\ s[Len(s)].id \in Nat
        BY <2>3, <3>3, <4>1, <4>2, <1>1
      <4>4. frames'[1].id = Len(log)
        BY <1>1, <2>4, <2>5, <4>3
      <4>5. QED
        BY <1>3, <3>1, <3>3, <4>4
    <3>4. QED
      BY <3>2, <3>3
  <2>7. QED
    BY <1>4, <2>1, <2>4, <2>6 DEF Follows
<1>8. QED
  BY <1>6, <1>7

\* The page before an entry stays the same when the log grows.
LEMMA GrowPage ==
    ASSUME M!PaneBoundsAssumption, MessageType, cursor >= 1, cursor' = cursor,
           \A n \in 1 .. Len(log) : n # Len(log) => log'[n] = log[n]
    PROVE  M!PageBefore(cursor)' = M!PageBefore(cursor)
<1>1. cursor \in Nat /\ cursor <= Len(log) /\ Len(log) \in Nat
  BY DEF MessageType
<1>2. PICK w : w = IF cursor - Limit > 1 THEN cursor - Limit ELSE 1
  OBVIOUS
<1>3. ASSUME w \in Int, w >= 1 PROVE M!PageBefore(cursor)' = M!PageBefore(cursor)
  <2>1. \A i \in 1 .. (cursor - 1 - w + 1) : log'[w + i - 1] = log[w + i - 1]
    <3> TAKE i \in 1 .. (cursor - 1 - w + 1)
    <3>1. w + i - 1 \in 1 .. Len(log) /\ w + i - 1 # Len(log)
      BY <1>1, <1>3
    <3>2. QED
      BY <3>1
  <2>2. M!Entries(w, cursor - 1)' = M!Entries(w, cursor - 1)
    BY <2>1 DEF M!Entries
  <2>3. QED
    BY <1>2, <2>2 DEF M!PageBefore
<1>4. Limit \in Nat
  BY DEF M!PaneBoundsAssumption
<1>5. w \in Int /\ w >= 1
  BY <1>1, <1>2, <1>4
<1>6. QED
  BY <1>3, <1>5

\* A page that shows less than the log does so when the log grows.
LEMMA GrowBehind ==
    ASSUME MessageType, M!EntryAdded \/ M!EntryChanges, NEW pg \in PageOf,
           Behind(pg, log, frames)
    PROVE  Behind(pg, log', frames')
<1>1. PICK z : z = pg.items[Len(pg.items)]
  OBVIOUS
<1>2. pg.items \in Seq(Item) /\ pg.items # <<>>
  BY DEF PageOf, Behind
<1>3. z \in Item
  BY <1>1, <1>2
<1>4. z.id \in Nat /\ z.ver \in Nat
  BY <1>3 DEF Item
<1>5. /\ Len(log) \in Nat /\ log[Len(log)] \in Nat
      /\ z.id < Len(log) \/ (z.id = Len(log) /\ z.ver <= log[Len(log)])
  BY <1>1 DEF MessageType, Behind
<1>6. CASE M!EntryAdded
  <2>1. Len(log') = Len(log) + 1
    BY <1>6, LogGrows
  <2>2. z.id < Len(log')
    BY <1>4, <1>5, <2>1
  <2>3. QED
    BY <1>1, <1>2, <2>2 DEF Behind
<1>7. CASE M!EntryChanges
  <2>1. Len(log') = Len(log) /\ log'[Len(log)] = log[Len(log)] + 1
    BY <1>7, LogChanges
  <2>2. /\ z.id < Len(log') \/ z.ver < log'[Len(log')]
        /\ z.id < Len(log') \/ (z.id = Len(log') /\ z.ver <= log'[Len(log')])
    BY <1>4, <1>5, <2>1
  <2>3. QED
    BY <1>1, <1>2, <2>2 DEF Behind
<1>8. QED
  BY <1>6, <1>7

\* The log changed, with what follows from it: the invariant is as it was.
LEMMA GrowFollows ==
    ASSUME M!PaneBoundsAssumption, MessageInv, M!EntryAdded \/ M!EntryChanges
    PROVE  /\ FramesFollow'
           /\ ~overlap' => OneRequest'
           /\ ~overlap' /\ ~missed' => PaneFollows'
<1>1. /\ requests' = requests /\ messages' = messages /\ cursor' = cursor
      /\ hasMore' = hasMore /\ loadingMore' = loadingMore /\ overlap' = overlap
      /\ live' = live /\ Len(log') >= Len(log) /\ Len(log') \in Nat /\ Len(log) \in Nat
      /\ \A n \in 1 .. Len(log) : n # Len(log) => log'[n] = log[n]
  <2>1. Len(log) \in Nat
    BY DEF MessageInv, MessageType
  <2>2. CASE M!EntryAdded
    BY <2>1, <2>2, LogGrows DEF MessageInv
  <2>3. CASE M!EntryChanges
    BY <2>1, <2>3, LogChanges DEF MessageInv
  <2>4. QED
    BY <2>2, <2>3
<1>2. live # TRUE => /\ frames' = frames /\ missed' = TRUE
  <2>1. \E e : M!Push(e)
    BY DEF M!EntryAdded, M!EntryChanges
  <2>2. QED
    BY <2>1 DEF M!Push
<1>3. live = TRUE => missed' = missed
  <2>1. \E e : M!Push(e)
    BY DEF M!EntryAdded, M!EntryChanges
  <2>2. QED
    BY <2>1 DEF M!Push
<1>4. FramesFollow'
  <2>1. CASE live = TRUE
    BY <2>1, AddedFollows, ChangedFollows DEF MessageInv
  <2>2. CASE ~live
    <3>1. frames = <<>> /\ frames' = <<>>
      BY <1>2, <2>2 DEF MessageInv, FramesFollow
    <3>2. QED
      BY <3>1 DEF FramesFollow
  <2>3. QED
    BY <2>1, <2>2
<1>5. OneRequest => OneRequest'
  <2> SUFFICES ASSUME OneRequest PROVE OneRequest'
    OBVIOUS
  <2>1. ASSUME NEW n \in DOMAIN requests, ~requests[n].older
        PROVE  Behind(requests[n].page, log', frames')
    <3>0. requests[n] \in Request
      BY DEF MessageInv, MessageType
    <3>1. requests[n].page \in PageOf
      BY <3>0 DEF Request
    <3>2. Behind(requests[n].page, log, frames)
      BY <2>1 DEF OneRequest
    <3>3. QED
      BY <3>1, <3>2, GrowBehind DEF MessageInv
  <2>2. QED
    BY <1>1, <2>1 DEF OneRequest
<1>6. ASSUME ~overlap', ~missed' PROVE PaneFollows'
  <2>1. live = TRUE /\ PaneFollows
    BY <1>1, <1>2, <1>3, <1>6 DEF MessageInv
  <2>2. \A S : \A s \in Seq(S) : Follows(s, log, frames) => Follows(s, log', frames')
    BY <2>1, AddedFollows, ChangedFollows DEF MessageInv
  <2>3. /\ messages \in Seq(Bubble)
        /\ \A n \in DOMAIN requests : requests[n].page.items \in Seq(Item)
    <3>1. messages \in Seq(Bubble) /\ requests \in Seq(Request)
      BY DEF MessageInv, MessageType
    <3>2. \A n \in DOMAIN requests : requests[n] \in Request
      BY <3>1
    <3>3. QED
      BY <3>1, <3>2 DEF Request, PageOf
  <2>4. Follows(messages, log, frames) => Follows(messages, log', frames')
    BY <2>2, <2>3
  <2>5. Settled => Settled'
    BY <1>1, <2>4 DEF Settled
  <2>6. ASSUME NEW n \in DOMAIN requests, requests[n].older PROVE Older(requests[n].page)'
    <3>1. Older(requests[n].page)
      BY <2>1, <2>6 DEF PaneFollows
    <3>2. M!PageBefore(cursor)' = M!PageBefore(cursor)
      <4>1. cursor >= 1
        BY <3>1 DEF Older, MessageInv, MessageType
      <4>2. QED
        BY <1>1, <4>1, GrowPage DEF MessageInv
    <3>3. QED
      BY <1>1, <2>4, <3>1, <3>2 DEF Older
  <2>7. ASSUME NEW n \in DOMAIN requests, ~requests[n].older
        PROVE  Newest(requests[n].page, log', frames')
    <3>1. Newest(requests[n].page, log, frames)
      BY <2>1, <2>7 DEF PaneFollows
    <3>2. QED
      BY <2>2, <2>3, <3>1 DEF Newest
  <2>8. QED
    BY <1>1, <2>1, <2>5, <2>6, <2>7 DEF PaneFollows
<1>7. QED
  BY <1>1, <1>4, <1>5, <1>6 DEF MessageInv

\* A message with the key of the last one, or the next key, comes to the end.
LEMMA PlacedLast ==
    ASSUME NEW s \in Seq(Item), NEW h \in Item, Unbroken(s),
           s # <<>> => h.id \in {s[Len(s)].id, s[Len(s)].id + 1}
    PROVE  \E p \in Seq(Item) :
              /\ p = M!Placed(s, h) /\ p # <<>> /\ p[Len(p)] = h
              /\ \A n \in DOMAIN p : n # Len(p) => n \in DOMAIN s /\ p[n] = s[n]
              /\ Unbroken(p) /\ (s # <<>> => p[1].id = s[1].id)
<1> DEFINE Good(p) == /\ p # <<>> /\ p[Len(p)] = h
                      /\ \A n \in DOMAIN p : n # Len(p) => n \in DOMAIN s /\ p[n] = s[n]
                      /\ Unbroken(p) /\ (s # <<>> => p[1].id = s[1].id)
<1>1. PICK p : p = M!Placed(s, h)
  OBVIOUS
<1>2. p \in Seq(Item)
  BY <1>1, PlacedKeeps DEF OnlyAdds
<1>3. PICK N \in Nat : N = Len(s) /\ DOMAIN s = 1 .. N
  OBVIOUS
<1>4. \A n \in 1 .. N : s[n] \in Item /\ s[n].id \in Nat /\ s[n].id = s[1].id + n - 1
  <2>1. \A n \in 1 .. N : s[n] \in Item
    BY <1>3
  <2>2. QED
    BY <1>3, <2>1 DEF Unbroken, Item
<1>5. h.id \in Nat
  BY DEF Item
<1>6. N >= 1 => s[1].id \in Nat /\ h.id \in {s[1].id + N - 1, s[1].id + N}
  <2> SUFFICES ASSUME N >= 1 PROVE s[1].id \in Nat /\ h.id \in {s[1].id + N - 1, s[1].id + N}
    OBVIOUS
  <2>1. 1 \in 1 .. N /\ N \in 1 .. N /\ s # <<>>
    BY <1>3
  <2>2. s[1].id \in Nat /\ s[N].id = s[1].id + N - 1
    BY <1>4, <2>1
  <2>3. QED
    BY <1>3, <2>1, <2>2
<1>7. CASE p = Append(s, h) /\ \A n \in 1 .. N : s[n].id # h.id
  <2>1. /\ Len(p) = N + 1 /\ p[N + 1] = h /\ DOMAIN p = 1 .. N + 1
        /\ \A n \in 1 .. N : p[n] = s[n]
    BY <1>3, <1>7
  <2>2. p # <<>> /\ \A n \in DOMAIN p : n # Len(p) => n \in DOMAIN s /\ p[n] = s[n]
    BY <1>3, <2>1
  <2>3. N >= 1 => p[1] = s[1] /\ h.id = s[1].id + N
    <3> SUFFICES ASSUME N >= 1 PROVE p[1] = s[1] /\ h.id = s[1].id + N
      OBVIOUS
    <3>1. 1 \in 1 .. N /\ N \in 1 .. N
      OBVIOUS
    <3>2. s[N].id = s[1].id + N - 1 /\ s[N].id # h.id
      BY <1>4, <1>7, <3>1
    <3>3. QED
      BY <1>6, <2>1, <3>1, <3>2
  <2>4. ASSUME NEW n \in DOMAIN p PROVE p[n].id = p[1].id + n - 1
    <3>1. CASE N = 0
      BY <1>5, <2>1, <3>1
    <3>2. CASE N >= 1 /\ n \in 1 .. N
      BY <1>4, <2>1, <2>3, <3>2
    <3>3. CASE N >= 1 /\ n = N + 1
      BY <1>6, <2>1, <2>3, <3>3
    <3>4. QED
      BY <2>1, <3>1, <3>2, <3>3
  <2>5. Unbroken(p)
    BY <2>4 DEF Unbroken
  <2>6. s # <<>> => p[1].id = s[1].id
    BY <1>3, <2>3
  <2>7. Good(p)
    BY <2>1, <2>2, <2>5, <2>6
  <2>8. QED
    BY <1>1, <1>2, <2>7
<1>8. ASSUME NEW k \in 1 .. N, s[k].id = h.id, p = [s EXCEPT ![k] = h] PROVE Good(p)
  <2>1. Len(p) = N /\ DOMAIN p = 1 .. N /\ \A n \in 1 .. N : p[n] = IF n = k THEN h ELSE s[n]
    BY <1>3, <1>8
  <2>2. N >= 1 /\ k = N /\ 1 \in 1 .. N /\ N \in 1 .. N
    BY <1>4, <1>6, <1>8
  <2>3. \A n \in 1 .. N : p[n].id = s[n].id
    BY <1>8, <2>1
  <2>4. p # <<>> /\ p[Len(p)] = h /\ p[1].id = s[1].id
    BY <2>1, <2>2, <2>3
  <2>5. \A n \in DOMAIN p : n # Len(p) => n \in DOMAIN s /\ p[n] = s[n]
    BY <1>3, <2>1, <2>2
  <2>6. Unbroken(p)
    BY <1>4, <2>1, <2>2, <2>3 DEF Unbroken
  <2>7. QED
    BY <2>4, <2>5, <2>6
<1>9. QED
  <2> HIDE DEF Good
  <2>1. Good(p) => \E pp \in Seq(Item) : pp = M!Placed(s, h) /\ Good(pp)
    BY <1>1, <1>2
  <2>2. CASE \E k \in 1 .. N : s[k].id = h.id /\ p = [s EXCEPT ![k] = h]
    <3>1. Good(p)
      BY <1>8, <2>2
    <3>2. QED
      BY <2>1, <3>1 DEF Good
  <2>3. QED
    BY <1>1, <1>3, <1>7, <2>2, PlacedIs

\* The message of a frame that arrives takes its place at the end, or over the last entry.
LEMMA PlacedFollows ==
    ASSUME NEW s \in Seq(Item), NEW fr \in Seq(Item), fr # <<>>, NEW lg \in Seq(Nat),
           s # <<>> => Follows(s, lg, fr),
           \A n \in DOMAIN fr : RightFrame(fr, n, lg), fr[Len(fr)].id = Len(lg)
    PROVE  \E p \in Seq(Item) : /\ p = M!Placed(s, Head(fr)) /\ Unbroken(p)
                                /\ Follows(p, lg, Tail(fr))
                                /\ s # <<>> => p[1].id = s[1].id
<1>1. PICK h \in Item : h = Head(fr) /\ h = fr[1]
  OBVIOUS
<1>2. /\ Len(s) \in Nat /\ DOMAIN s = 1 .. Len(s) /\ Len(fr) \in Nat /\ Len(fr) >= 1
      /\ 1 \in DOMAIN fr /\ DOMAIN fr = 1 .. Len(fr) /\ Len(lg) \in Nat
  OBVIOUS
<1>3. Unbroken(s) /\ (s # <<>> => h.id \in {s[Len(s)].id, s[Len(s)].id + 1})
  <2>1. CASE s = <<>>
    BY <2>1 DEF Unbroken
  <2>2. CASE s # <<>>
    BY <1>1, <2>2 DEF Follows
  <2>3. QED
    BY <2>1, <2>2
<1>4. PICK p \in Seq(Item) :
         /\ p = M!Placed(s, h) /\ p # <<>> /\ p[Len(p)] = h
         /\ \A n \in DOMAIN p : n # Len(p) => n \in DOMAIN s /\ p[n] = s[n]
         /\ Unbroken(p) /\ (s # <<>> => p[1].id = s[1].id)
  BY <1>3, PlacedLast
<1>5. PICK rest : rest = Tail(fr)
  OBVIOUS
<1>6. /\ rest \in Seq(Item) /\ Len(rest) = Len(fr) - 1
      /\ \A n \in 1 .. Len(fr) - 1 : rest[n] = fr[n + 1]
  BY <1>5
<1>7. /\ h.id \in 1 .. Len(lg)
      /\ h.ver = lg[h.id] \/ (rest # <<>> /\ rest[1].id = h.id)
      /\ rest # <<>> => rest[1].id \in {h.id, h.id + 1}
      /\ rest = <<>> => h.id = Len(lg)
  <2>1. RightFrame(fr, 1, lg)
    BY <1>2
  <2>2. rest # <<>> <=> 1 < Len(fr)
    BY <1>2, <1>6
  <2>3. rest # <<>> => rest[1] = fr[1 + 1]
    BY <1>2, <1>6, <2>2
  <2>4. rest = <<>> => Len(fr) = 1
    BY <1>2, <2>2
  <2>5. QED
    BY <1>1, <2>1, <2>2, <2>3, <2>4 DEF RightFrame
<1>8. DOMAIN p = 1 .. Len(p) /\ Len(p) \in Nat /\ Len(p) >= 1
  BY <1>4
<1>9. \A n \in DOMAIN p : p[n].id \in Nat /\ p[n].id = p[1].id + n - 1
  <2>1. \A n \in DOMAIN p : p[n] \in Item
    BY <1>8
  <2>2. QED
    BY <1>4, <2>1 DEF Unbroken, Item
<1>10. ASSUME NEW n \in DOMAIN p
       PROVE  /\ p[n].id \in 1 .. Len(lg)
              /\ p[n].ver = lg[p[n].id] \/ (rest # <<>> /\ p[n].id = rest[1].id)
  <2>1. CASE n = Len(p)
    <3>1. p[n] = h
      BY <1>4, <2>1
    <3>2. QED
      BY <1>7, <3>1
  <2>2. CASE n # Len(p)
    <3>1. n \in DOMAIN s /\ p[n] = s[n] /\ s # <<>>
      BY <1>4, <2>2
    <3>2. /\ s[n].id \in 1 .. Len(lg)
          /\ s[n].ver = lg[s[n].id] \/ s[n].id = h.id
      BY <1>1, <3>1 DEF Follows
    <3>3. p[n].id = p[1].id + n - 1 /\ h.id = p[1].id + Len(p) - 1 /\ p[1].id \in Nat
      <4>1. 1 \in DOMAIN p /\ Len(p) \in DOMAIN p
        BY <1>8
      <4>2. QED
        BY <1>4, <1>9, <4>1
    <3>4. p[n].id # h.id
      BY <1>8, <2>2, <3>3
    <3>5. QED
      BY <3>1, <3>2, <3>4
  <2>3. QED
    BY <2>1, <2>2
<1>11. Follows(p, lg, rest)
  BY <1>4, <1>7, <1>10 DEF Follows
<1>12. QED
  BY <1>1, <1>4, <1>5, <1>11

\* The frames behind the first one are still the last changes of the log.
LEMMA RestFollows ==
    ASSUME MessageType, FramesFollow, M!FrameArrives
    PROVE  FramesFollow'
<1>1. /\ frames # <<>> /\ frames' = Tail(frames) /\ log' = log /\ live' = live
      /\ frames \in Seq(Item) /\ live
  BY DEF M!FrameArrives, MessageType, FramesFollow
<1>2. PICK N \in Nat : N = Len(frames) /\ DOMAIN frames = 1 .. N /\ N >= 1
  BY <1>1
<1>3. /\ Len(frames') = N - 1 /\ DOMAIN frames' = 1 .. N - 1
      /\ \A n \in 1 .. N - 1 : frames'[n] = frames[n + 1]
  BY <1>1, <1>2
<1>4. ASSUME NEW n \in 1 .. N - 1 PROVE RightFrame(frames', n, log')
  <2>1. n + 1 \in 1 .. N /\ frames'[n] = frames[n + 1]
    BY <1>2, <1>3
  <2>2. RightFrame(frames, n + 1, log)
    BY <1>2, <2>1 DEF FramesFollow
  <2>3. n < Len(frames') <=> n + 1 < Len(frames)
    BY <1>2, <1>3
  <2>4. n < Len(frames') => frames'[n + 1] = frames[(n + 1) + 1]
    BY <1>2, <1>3
  <2>5. QED
    BY <1>1, <2>1, <2>2, <2>3, <2>4 DEF RightFrame
<1>5. frames' # <<>> => frames'[Len(frames')].id = Len(log')
  <2> SUFFICES ASSUME frames' # <<>> PROVE frames'[Len(frames')].id = Len(log')
    OBVIOUS
  <2>1. N - 1 >= 1
    BY <1>1, <1>2, <1>3
  <2>2. N - 1 \in 1 .. N - 1 /\ N - 1 + 1 = N
    BY <1>2, <2>1
  <2>3. frames'[N - 1] = frames[N]
    BY <1>3, <2>2
  <2>4. QED
    BY <1>1, <1>2, <1>3, <2>3 DEF FramesFollow
<1>6. QED
  BY <1>1, <1>3, <1>4, <1>5 DEF FramesFollow

\* A frame that crosses nothing goes to the end of what is shown, or over its last entry.
LEMMA ArriveFollows ==
    ASSUME MessageInv, M!FrameArrives
    PROVE  /\ ~overlap' => OneRequest'
           /\ ~overlap' /\ ~missed' => PaneFollows'
<1>1. SUFFICES ASSUME ~overlap'
               PROVE  OneRequest' /\ (~missed' => PaneFollows')
  OBVIOUS
<1>2. /\ frames # <<>> /\ frames' = Tail(frames) /\ requests' = requests
      /\ overlap' = (overlap \/ requests # <<>>) /\ missed' = missed
      /\ log' = log /\ cursor' = cursor /\ hasMore' = hasMore
  BY DEF M!FrameArrives
<1>3. ~overlap /\ requests = <<>> /\ requests' = <<>>
  BY <1>1, <1>2 DEF MessageInv
<1>4. OneRequest'
  BY <1>3 DEF OneRequest
<1>5. ASSUME ~missed' PROVE PaneFollows'
  <2>1. PaneFollows /\ Settled /\ messages \in Seq(Bubble)
    BY <1>2, <1>3, <1>5 DEF MessageInv, MessageType, PaneFollows
  <2>2. PICK s \in Seq(Item) : s = M!Flat(messages)
    BY <2>1, FlatIs
  <2>3. /\ Len(s) = Len(messages)
        /\ \A n \in 1 .. Len(messages) :
              s[n].id = messages[n].id /\ s[n].ver = messages[n].ver
    BY <2>1, <2>2, FlatIs
  <2>4. /\ messages # <<>> => s # <<>> /\ s[1].id = messages[1].id
        /\ s # <<>> => messages # <<>>
        /\ s # <<>> => Follows(s, log, frames)
    BY <2>1, <2>3, FollowsAlike DEF Settled
  <2>5. /\ frames \in Seq(Item) /\ log \in Seq(Nat)
        /\ \A n \in DOMAIN frames : RightFrame(frames, n, log)
        /\ frames[Len(frames)].id = Len(log)
    BY <1>2 DEF MessageInv, MessageType, FramesFollow
  <2>6. PICK p \in Seq(Item) : /\ p = M!Placed(s, Head(frames)) /\ Unbroken(p)
                               /\ Follows(p, log, Tail(frames))
                               /\ s # <<>> => p[1].id = s[1].id
    BY <1>2, <2>4, <2>5, PlacedFollows
  <2>7. PICK h \in Item : h = Head(frames)
    BY <1>2, <2>5
  <2>8. \A n, l \in 1 .. Len(p) : n < l => p[n].id < p[l].id
    <3> TAKE n, l \in 1 .. Len(p)
    <3>1. DOMAIN p = 1 .. Len(p) /\ 1 \in 1 .. Len(p)
      OBVIOUS
    <3>2. p[1] \in Item
      BY <3>1
    <3>3. p[1].id \in Nat
      BY <3>2 DEF Item
    <3>4. p[n].id = p[1].id + n - 1 /\ p[l].id = p[1].id + l - 1
      BY <2>6, <3>1 DEF Unbroken
    <3>5. QED
      BY <3>3, <3>4
  <2>9. M!Merged(s, h) = p
    BY <2>6, <2>7, <2>8, MergedStays
  <2>10. messages' = M!Grouped(p)
    BY <2>2, <2>7, <2>9 DEF M!FrameArrives
  <2>11. PICK g \in Seq(Bubble) :
            /\ g = M!Grouped(p) /\ Len(g) = Len(p)
            /\ \A n \in 1 .. Len(p) : g[n].id = p[n].id /\ g[n].ver = p[n].ver
    BY GroupedIs
  <2>12. /\ Unbroken(g) /\ Follows(g, log, Tail(frames))
         /\ p # <<>> => g # <<>> /\ g[1].id = p[1].id
    BY <2>6, <2>11, FollowsAlike
  <2>13. p # <<>>
    BY <2>6 DEF Follows
  <2>14. /\ Unbroken(messages') /\ Follows(messages', log', frames') /\ messages' # <<>>
         /\ messages # <<>> => messages'[1].id = messages[1].id
    BY <1>2, <2>4, <2>6, <2>10, <2>11, <2>12, <2>13
  <2>15. Settled'
    BY <1>2, <2>1, <2>14 DEF Settled
  <2>16. QED
    BY <1>3, <2>14, <2>15 DEF PaneFollows
<1>6. QED
  BY <1>4, <1>5

\* What neither the log, the messages, the requests nor the frames take part in.
LEMMA RestOfPane ==
    ASSUME MessageInv, M!ResetButton \/ M!SocketOpens \/ UNCHANGED M!msgVars
    PROVE  /\ FramesFollow'
           /\ ~overlap' => OneRequest'
           /\ ~overlap' /\ ~missed' => PaneFollows'
<1>1. /\ log' = log /\ messages' = messages /\ cursor' = cursor /\ hasMore' = hasMore
      /\ requests' = requests /\ frames' = frames /\ missed' = missed
      /\ live' = live \/ live' = TRUE
      /\ \/ loadingMore' = loadingMore /\ overlap' = overlap
         \/ overlap' = (overlap \/ requests # <<>>)
  BY DEF M!ResetButton, M!SocketOpens, M!msgVars, M!paneVars, M!buttonVars
<1>2. FramesFollow'
  BY <1>1 DEF FramesFollow, MessageInv
<1>3. ASSUME ~overlap' PROVE OneRequest' /\ ~overlap
  <2>1. ~overlap /\ OneRequest
    BY <1>1, <1>3 DEF MessageInv
  <2>2. CASE loadingMore' = loadingMore
    BY <1>1, <2>1, <2>2 DEF OneRequest
  <2>3. CASE overlap' = (overlap \/ requests # <<>>)
    <3>1. requests' = <<>>
      BY <1>1, <1>3, <2>3 DEF MessageInv
    <3>2. QED
      BY <2>1, <3>1 DEF OneRequest
  <2>4. QED
    BY <1>1, <2>1, <2>2, <2>3
<1>4. M!PageBefore(cursor)' = M!PageBefore(cursor)
  BY <1>1 DEF M!PageBefore, M!Entries
<1>5. Settled' = Settled /\ \A pg : Older(pg)' = Older(pg)
  BY <1>1, <1>4 DEF Settled, Older
<1>6. ASSUME ~overlap', ~missed' PROVE PaneFollows'
  <2>1. PaneFollows
    BY <1>1, <1>3, <1>6 DEF MessageInv
  <2>2. QED
    BY <1>1, <1>5, <2>1 DEF PaneFollows
<1>7. QED
  BY <1>2, <1>3, <1>6

\* Every step of the pane, its socket and the server.
LEMMA NextMessages ==
    ASSUME M!PaneBoundsAssumption, MessageInv, [M!MsgNext]_(M!msgVars)
    PROVE  MessageInv'
<1>1. MessageType'
  BY NextType DEF MessageInv
<1>2. overlap' \in BOOLEAN /\ missed' \in BOOLEAN /\ live' \in BOOLEAN
  <2>1. overlap \in BOOLEAN /\ missed \in BOOLEAN /\ live \in BOOLEAN
    BY DEF MessageInv
  <2>2. QED
    BY <2>1 DEF M!MsgNext, M!msgVars, M!Open, M!Refresh, M!ClickOlder, M!ResetButton, M!Answer,
                M!RequestFails, M!EntryAdded, M!EntryChanges, M!FrameArrives, M!SocketBreaks,
                M!SocketOpens, M!Send, M!Push, M!Replace, M!Prepend
<1> DEFINE Goal == /\ FramesFollow'
                   /\ ~overlap' => OneRequest'
                   /\ ~overlap' /\ ~missed' => PaneFollows'
<1>3. ASSUME UNCHANGED <<log, frames, live>> PROVE FramesFollow'
  BY <1>3 DEF MessageInv, FramesFollow
<1>4. CASE M!Open \/ M!Refresh
  <2>1. /\ requests' = Append(requests, M!Latest) /\ log' = log
        /\ overlap' = (overlap \/ requests # <<>> \/ frames # <<>>)
        /\ messages' \in {<<>>, messages} /\ frames' = frames /\ live' = live
        /\ missed' = missed
    BY <1>4 DEF M!Open, M!Refresh, M!Send, M!paneVars
  <2>2. Goal
    BY <1>3, <2>1, SendFollows
  <2>3. QED
    BY <1>1, <1>2, <2>2 DEF MessageInv
<1>5. CASE M!SocketBreaks
  <2>1. /\ requests' = Append(requests, M!Latest) /\ log' = log
        /\ overlap' = (overlap \/ requests # <<>> \/ frames # <<>>)
        /\ messages' = messages /\ frames' = <<>>
        /\ missed' = (missed \/ frames # <<>>)
    BY <1>5 DEF M!SocketBreaks, M!Send, M!paneVars
  <2>2. FramesFollow'
    BY <2>1 DEF FramesFollow
  <2>3. ~missed' => ~missed
    BY <2>1 DEF MessageInv
  <2>4. Goal
    BY <2>1, <2>2, <2>3, SendFollows
  <2>5. QED
    BY <1>1, <1>2, <2>4 DEF MessageInv
<1>6. CASE M!ClickOlder
  BY <1>1, <1>2, <1>3, <1>6, ClickFollows DEF M!ClickOlder, MessageInv
<1>7. ASSUME NEW n \in DOMAIN requests, M!Answer(n) PROVE MessageInv'
  BY <1>1, <1>2, <1>3, <1>7, AnswerFollows DEF M!Answer, MessageInv
<1>8. ASSUME NEW n \in DOMAIN requests, M!RequestFails(n) PROVE MessageInv'
  BY <1>1, <1>2, <1>3, <1>8, FailFollows DEF M!RequestFails, MessageInv
<1>9. CASE M!EntryAdded \/ M!EntryChanges
  BY <1>1, <1>2, <1>9, GrowFollows DEF MessageInv
<1>10. CASE M!FrameArrives
  BY <1>1, <1>2, <1>10, RestFollows, ArriveFollows DEF MessageInv
<1>11. CASE M!ResetButton \/ M!SocketOpens \/ UNCHANGED M!msgVars
  BY <1>1, <1>2, <1>11, RestOfPane DEF MessageInv
<1>12. QED
  BY <1>4, <1>5, <1>6, <1>7, <1>8, <1>9, <1>10, <1>11 DEF M!MsgNext

\* A pane that shows what follows shows an unbroken piece of the log, to its end.
LEMMA PaneShows ==
    ASSUME MessageInv
    PROVE  PaneIsCurrent
<1> SUFFICES ASSUME ~overlap, ~missed, M!Shown # <<>>
             PROVE  /\ \A i \in 1 .. Len(M!Shown) - 1 : M!Shown[i + 1].id = M!Shown[i].id + 1
                    /\ (frames = <<>> /\ requests = <<>>) =>
                          M!Shown = M!Entries(M!Shown[1].id, Len(log))
  BY DEF PaneIsCurrent, M!PaneIsCurrent
<1>1. PaneFollows /\ messages \in Seq(Bubble) /\ log \in Seq(Nat) /\ Len(log) \in Nat
  BY DEF MessageInv, MessageType
<1>2. PICK s \in Seq(Item) : s = M!Shown
  BY <1>1, FlatIs DEF M!Shown
<1>3. /\ Len(s) = Len(messages) /\ s # <<>>
      /\ \A n \in 1 .. Len(messages) : s[n].id = messages[n].id /\ s[n].ver = messages[n].ver
  BY <1>1, <1>2, FlatIs DEF M!Shown
<1>4. Unbroken(s)
  BY <1>1, <1>3, FollowsAlike DEF PaneFollows
<1>5. PICK N \in Nat : N = Len(s) /\ DOMAIN s = 1 .. N /\ N >= 1
  BY <1>3
<1>6. \A n \in 1 .. N : s[n] \in Item /\ s[n].id \in Nat /\ s[n].id = s[1].id + n - 1
  <2>1. \A n \in 1 .. N : s[n] \in Item
    BY <1>5
  <2>2. QED
    BY <1>4, <1>5, <2>1 DEF Unbroken, Item
<1>7. ASSUME NEW i \in 1 .. N - 1 PROVE s[i + 1].id = s[i].id + 1
  <2>1. i \in 1 .. N /\ i + 1 \in 1 .. N /\ 1 \in 1 .. N
    BY <1>5
  <2>2. QED
    BY <1>6, <2>1
<1>8. ASSUME frames = <<>>, requests = <<>> PROVE s = M!Entries(s[1].id, Len(log))
  <2>1. Follows(messages, log, frames)
    <3>1. messages # <<>>
      BY <1>1, <1>3
    <3>2. QED
      BY <1>1, <1>8, <3>1 DEF PaneFollows, Settled
  <2>2. Follows(s, log, frames)
    BY <1>1, <1>3, <2>1, FollowsAlike
  <2>3. PICK x \in 1 .. Len(log) : x = s[1].id
    BY <1>5, <2>2 DEF Follows
  <2>4. s[N].id = Len(log) /\ N \in 1 .. N
    BY <1>5, <1>8, <2>2 DEF Follows
  <2>5. Len(log) = x + N - 1
    BY <1>6, <2>3, <2>4
  <2>6. Len(log) - x + 1 = N
    BY <1>5, <2>5
  <2>7. \A n \in 1 .. N : s[n] = [id |-> x + n - 1, ver |-> log[x + n - 1]]
    <3> TAKE n \in 1 .. N
    <3>1. s[n].id = x + n - 1
      BY <1>6, <2>3
    <3>2. s[n].ver = log[s[n].id]
      BY <1>5, <1>8, <2>2 DEF Follows
    <3>3. s[n] \in Item
      BY <1>6
    <3>4. s[n] = [id |-> s[n].id, ver |-> s[n].ver]
      BY <3>3 DEF Item
    <3>5. QED
      BY <3>1, <3>2, <3>4
  <2>8. s = [n \in 1 .. N |-> s[n]]
    BY <1>5
  <2>9. s = [n \in 1 .. N |-> [id |-> x + n - 1, ver |-> log[x + n - 1]]]
    BY <2>7, <2>8
  <2>10. M!Entries(x, Len(log))
          = [n \in 1 .. (Len(log) - x + 1) |-> [id |-> x + n - 1, ver |-> log[x + n - 1]]]
    BY DEF M!Entries
  <2>11. QED
    BY <2>3, <2>6, <2>9, <2>10
<1>9. QED
  BY <1>2, <1>5, <1>7, <1>8

\* For every log, page size and number of requests: as long as no frame overtakes an answer
\* or is overtaken by one, no frame is lost and no refresh fails, the pane shows an unbroken
\* piece of the log, and ends with its newest entry when nothing is under way.
THEOREM PaneStaysCurrent ==
    ASSUME M!PaneBoundsAssumption
    PROVE  M!MsgSpec => []PaneIsCurrent
<1>1. M!MsgInit => MessageInv
  <2> SUFFICES ASSUME M!MsgInit PROVE MessageInv
    OBVIOUS
  <2>1. /\ messages = <<>> /\ requests = <<>> /\ frames = <<>> /\ hasMore = FALSE
        /\ overlap = FALSE /\ missed = FALSE /\ live = TRUE
    BY DEF M!MsgInit
  <2>2. MessageType
    BY InitType
  <2>3. FramesFollow
    BY <2>1 DEF FramesFollow
  <2>4. OneRequest
    BY <2>1 DEF OneRequest
  <2>5. PaneFollows
    BY <2>1 DEF PaneFollows, Settled, Unbroken
  <2>6. QED
    BY <2>1, <2>2, <2>3, <2>4, <2>5 DEF MessageInv
<1>2. MessageInv /\ [M!MsgNext]_(M!msgVars) => MessageInv'
  BY NextMessages
<1>3. MessageInv => PaneIsCurrent
  BY PaneShows
<1>4. QED
  BY <1>1, <1>2, <1>3, PTL DEF M!MsgSpec
=============================================================================
