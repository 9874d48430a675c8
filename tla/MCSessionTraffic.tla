-------------------------- MODULE MCSessionTraffic --------------------------
(* A small instance of SessionTraffic.                                       *)
EXTENDS SessionTraffic
=============================================================================
