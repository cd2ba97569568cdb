-------------------------- MODULE MCProcessLogSync --------------------------
(* Small instances of ProcessLogSync for TLC. *)
EXTENDS ProcessLogSync

CONSTANTS f1, f2, r1, r2, p1

\* Every version of an entry has contents of its own.
MCHash == [v \in Version |-> v]
=============================================================================
