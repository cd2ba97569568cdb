--------------------------- MODULE MCMessagePush ---------------------------
(* Instances of MessagePush for TLC. *)
EXTENDS MessagePush

CONSTANTS k1, t1, t2, t3
=============================================================================
