--------------------------- MODULE DialogMessages ---------------------------
(***************************************************************************)
(* What the page and the card do to a list of messages: Array.sort with    *)
(* the order of src/lib/dialog-messages.ts, and Array.filter.              *)
(***************************************************************************)
EXTENDS Naturals, Sequences, FiniteSets

\* A message stands behind those of a smaller key, and behind those of its own key
\* that stood before it.
Place(keys, n) ==
    Cardinality({m \in DOMAIN keys : keys[m] < keys[n] \/ (keys[m] = keys[n] /\ m <= n)})

\* Array.sort with compareDialogMessageOrder, which is stable.
Sorted(list, keys) ==
    [p \in DOMAIN list |-> list[CHOOSE n \in DOMAIN list : Place(keys, n) = p]]

\* Array.filter: the elements at some places of a list, one after the other.
Filtered(list, places) ==
    [p \in 1 .. Cardinality(places) |->
        list[CHOOSE n \in places : Cardinality({m \in places : m <= n}) = p]]
=============================================================================
