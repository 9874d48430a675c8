---------------------------- MODULE MCInitiator ----------------------------
(* A small instance of Initiator.                                           *)
EXTENDS Initiator
=============================================================================
