--------------------------- MODULE MCSharedView ---------------------------
(* Small instances of SharedView for TLC. *)
EXTENDS SharedView

CONSTANTS a, b, c

Idle(w)   == [id |-> w, approval |-> FALSE, running |-> FALSE, unseen |-> FALSE, needs |-> FALSE]
Unseen(w) == [id |-> w, approval |-> FALSE, running |-> FALSE, unseen |-> TRUE, needs |-> TRUE]
Busy(w)   == [id |-> w, approval |-> FALSE, running |-> TRUE, unseen |-> FALSE, needs |-> FALSE]

Asks(w)   == [id |-> w, approval |-> TRUE, running |-> TRUE, unseen |-> FALSE, needs |-> TRUE]

\* One workspace asks for attention; two do, one of them as unseen turns; one
\* of the open panes is gone.
SomeBoards ==
    {<<Idle(a), Asks(b), Idle(c)>>, <<Idle(a), Asks(b), Unseen(c)>>,
     <<Asks(c), Busy(b)>>}

\* More happens to one tab alone than to two together.
Events == [n \in 1 .. 2 |-> IF n = 1 THEN 3 ELSE 2]

TwoPanes == [open |-> <<a, b>>, active |-> a, dismissed |-> <<>>]
=============================================================================
