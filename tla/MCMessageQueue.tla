--------------------------- MODULE MCMessageQueue ---------------------------
(* A small instance of MessageQueue.                                         *)
EXTENDS MessageQueue
=============================================================================
