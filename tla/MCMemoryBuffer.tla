--------------------------- MODULE MCMemoryBuffer ---------------------------
(* Instances of MemoryBuffer for TLC. *)
EXTENDS MemoryBuffer

CONSTANTS f1, f2, p1

\* Versions 1 and 2 share a hash: the second is a status-only update.
MCHash == [v \in Version |-> (v + 1) \div 2]
=============================================================================
