---------------------------- MODULE PageState ----------------------------
(***************************************************************************)
(* The layout of the workspace page (src/web/workspace-page-state.ts): the *)
(* panes that are open, the active one, the panes the user put away, and   *)
(* what a new list of workspaces does to them.                             *)
(*                                                                         *)
(* A workspace is a record of its id and the flags the page looks at.      *)
(* `needs' is needs_attention, which toKanbanWorkspace computes when the   *)
(* list arrives and nothing changes afterwards.                            *)
(***************************************************************************)
EXTENDS Integers, Sequences, SequencesExt, FiniteSets

CONSTANTS
    Workspace,
    None,        \* undefined
    MaxOpen      \* panes on the page: 4 in the code

MaxOpenAssumption == MaxOpen \in Nat \ {0}
NoneAssumption == None \notin Workspace

Entry == [id : Workspace, approval : BOOLEAN, running : BOOLEAN,
          unseen : BOOLEAN, needs : BOOLEAN]
View == [open : Seq(Workspace), active : Workspace \cup {None},
         dismissed : Seq(Workspace)]

\* What a page can show: no more panes than fit and none twice, and an active one
\* among them if there are any.
Sound(state) ==
    /\ Len(state.open) <= MaxOpen
    /\ \A i, j \in DOMAIN state.open : state.open[i] = state.open[j] => i = j
    /\ (state.active = None) <=> (state.open = <<>>)
    /\ state.active # None => Contains(state.open, state.active)

Ids(list) == {list[i].id : i \in DOMAIN list}

-----------------------------------------------------------------------------
(* Helpers of the page state *)

\* The elements of seq at the places I, in their order.
Picked(seq, I) ==
    LET place(k) == CHOOSE i \in I : Cardinality({j \in I : j <= i}) = k
    IN  [k \in 1 .. Cardinality(I) |-> seq[place(k)]]

\* Array.prototype.filter
Filter(seq, Test(_)) == Picked(seq, {i \in DOMAIN seq : Test(seq[i])})

UniqueIds(ids) ==
    Picked(ids, {i \in DOMAIN ids : \A j \in 1 .. i - 1 : ids[j] # ids[i]})

\* The panes with one more, at the end unless it is one of them.
Added(open, id) == IF Contains(open, id) THEN open ELSE UniqueIds(Append(open, id))

\* Mutant: the first pane goes, active or not.
DropOne_First(open, active) == Tail(open)

\* One pane goes: the first that is not the active one, or else the first.
DropOne(open, active) ==
    LET i == SelectInSeq(open, LAMBDA id : id # active)
    IN  RemoveAt(open, IF i > 0 THEN i ELSE 1)

\* The loop that makes room.
Trim(open, active) ==
    LET after[n \in 0 .. Len(open)] ==
            IF n = 0 THEN open ELSE DropOne(after[n - 1], active)
    IN  after[IF Len(open) > MaxOpen THEN Len(open) - MaxOpen ELSE 0]

LastOf(seq) == IF seq = <<>> THEN None ELSE seq[Len(seq)]

IsAttention(w) == w.approval \/ (~w.running /\ (w.needs \/ w.unseen))

Without(ids, id) == Filter(ids, LAMBDA x : x # id)

-----------------------------------------------------------------------------
(* Operations on the page state *)

CreatePageState(open, active, dismissed) ==
    [open |-> open, active |-> active, dismissed |-> dismissed,
     prev |-> [w \in Workspace |-> FALSE], hydrated |-> FALSE]

OpenPane(state, id) ==
    [state EXCEPT !.open = Trim(Added(@, id), id),
                  !.active = id,
                  !.dismissed = Without(@, id)]

AppendPane(state, id) ==
    LET open == Trim(Added(state.open, id), state.active)
    IN  [state EXCEPT !.open = open,
                      !.active = IF @ = None THEN LastOf(open) ELSE @,
                      !.dismissed = Without(@, id)]

DismissPane(state, id, keepDismissed) ==
    LET open == Without(state.open, id)
    IN  [state EXCEPT
            !.open = open,
            !.active = IF @ = id THEN LastOf(open) ELSE @,
            !.dismissed = IF keepDismissed THEN UniqueIds(Append(@, id))
                                           ELSE Without(@, id)]

\* The part of reconcileWorkspacePageState that comes before its loop: panes
\* and dismissals of workspaces that are gone, or that stopped asking, go.
Pruned(state, list) ==
    LET asks == [w \in Workspace |->
                    \E i \in DOMAIN list : list[i].id = w /\ IsAttention(list[i])]
        open == Filter(state.open, LAMBDA id : id \in Ids(list))
    IN  [state EXCEPT
            !.open = open,
            !.active = IF Contains(open, @) THEN @ ELSE LastOf(open),
            !.dismissed = Filter(@, LAMBDA id : id \in Ids(list) /\ asks[id]),
            !.prev = asks,
            !.hydrated = TRUE]

\* Mutant: whoever asks gets a pane, new or not, put away or not.
Reconcile_Always(state, list) ==
    LET after[n \in 0 .. Len(list)] ==
            IF n = 0 THEN Pruned(state, list)
            ELSE IF IsAttention(list[n]) THEN AppendPane(after[n - 1], list[n].id)
            ELSE after[n - 1]
    IN  after[Len(list)]

\* A workspace that begins to ask for attention gets a pane, unless the user
\* put it away; the first list only records who asks.
Reconcile(state, list) ==
    LET begins(w) == IsAttention(w) /\ ~state.prev[w.id]
        after[n \in 0 .. Len(list)] ==
            IF n = 0 THEN Pruned(state, list)
            ELSE IF begins(list[n]) /\ ~Contains(after[n - 1].dismissed, list[n].id)
                 THEN AppendPane(after[n - 1], list[n].id)
            ELSE after[n - 1]
    IN  after[IF state.hydrated THEN Len(list) ELSE 0]

-----------------------------------------------------------------------------
(* What leaves the page: localStorage and the shared view hold these parts. *)

ViewOf(state) ==
    [open |-> state.open, active |-> state.active, dismissed |-> state.dismissed]

ReadPersisted(stored) ==
    CreatePageState(SubSeq(stored.open, 1,
                           IF Len(stored.open) < MaxOpen THEN Len(stored.open)
                                                         ELSE MaxOpen),
                    stored.active, stored.dismissed)

\* Mutant: what other tabs put away is not taken over.
WithRemote_Panes(state, view) ==
    [state EXCEPT !.open = view.open, !.active = view.active]

\* applyRemoteWorkspaceView keeps what the tab knows of attention.
WithRemote(state, view) ==
    LET remote == ReadPersisted(view)
    IN  [state EXCEPT !.open = remote.open, !.active = remote.active,
                      !.dismissed = remote.dismissed]

\* preserveWorkspaceOrder: workspaces keep the places they have in the page,
\* new ones come after them.
PreserveOrder(shown, next) ==
    LET fresh(id) == next[SelectInSeq(next, LAMBDA w : w.id = id)]
        kept == Filter(shown, LAMBDA w : w.id \in Ids(next))
    IN  [i \in DOMAIN kept |-> fresh(kept[i].id)]
            \o Filter(next, LAMBDA w : w.id \notin Ids(shown))

\* The section of the sidebar a workspace is listed in.
SectionOf(w) ==
    IF w.approval THEN "attention"
    ELSE IF w.running THEN "running"
    ELSE IF w.unseen THEN "attention" ELSE "idle"

Sections(list) ==
    [s \in {"attention", "running", "idle"} |->
        Filter(list, LAMBDA w : SectionOf(w) = s)]
=============================================================================
