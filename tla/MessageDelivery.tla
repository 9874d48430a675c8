-------------------------- MODULE MessageDelivery --------------------------
(***************************************************************************)
(* The bounds a message queue keeps to: only a message that was accepted   *)
(* goes on the wire, no more than MaxSends times, and once it was reported *)
(* as failed it never goes there again and is not reported again. This is  *)
(* safety only: a message may also never be written.                       *)
(***************************************************************************)
EXTENDS Naturals

CONSTANTS Msg,        \* messages an application hands over
          MaxSends    \* how often one of them may be written

VARIABLES accepted,   \* the messages handed over so far
          sends,      \* how often each was written
          failed      \* the messages reported as failed

vars == <<accepted, sends, failed>>

Init ==
  /\ accepted = {}
  /\ sends = [m \in Msg |-> 0]
  /\ failed = {}

Accept(m) ==
  /\ m \notin accepted
  /\ accepted' = accepted \cup {m}
  /\ UNCHANGED <<sends, failed>>

Send(m) ==
  /\ m \in accepted \ failed
  /\ sends[m] < MaxSends
  /\ sends' = [sends EXCEPT ![m] = @ + 1]
  /\ UNCHANGED <<accepted, failed>>

GiveUp(M) ==
  /\ M \subseteq accepted \ failed
  /\ failed' = failed \cup M
  /\ UNCHANGED <<accepted, sends>>

Next ==
  \/ \E m \in Msg : Accept(m) \/ Send(m)
  \/ \E M \in SUBSET Msg : GiveUp(M)

Spec == Init /\ [][Next]_vars
=============================================================================
