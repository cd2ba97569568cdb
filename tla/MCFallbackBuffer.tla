-------------------------- MODULE MCFallbackBuffer --------------------------
(* Small instances of FallbackBuffer for TLC. *)
EXTENDS FallbackBuffer

CONSTANTS p1, f1, g1, g2

\* Every version has a hash of its own.
MCHash == [v \in Version |-> v]
=============================================================================
