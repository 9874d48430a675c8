-------------------------- MODULE MCInboundStream --------------------------
(* A small instance of InboundStream.                                       *)
EXTENDS InboundStream
=============================================================================
