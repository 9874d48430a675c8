-------------------------- MODULE SessionDirectory --------------------------
(***************************************************************************)
(* What an acceptor promises to whoever talks to the sessions of its       *)
(* peers: of every identifier one session is logged on at a time. A new    *)
(* one takes the place of the older one in the same step, or ends it even  *)
(* when it cannot be logged on itself, and who was logged on once never    *)
(* comes back.                                                             *)
(***************************************************************************)
CONSTANTS SessionId,  \* the identifiers of the peers
          Sess        \* sessions, each made for one logon

VARIABLES on,         \* the logged-on sessions of each identifier
          used        \* the sessions made so far

vars == <<on, used>>

Init ==
  /\ on = [i \in SessionId |-> {}]
  /\ used = {}

LogOn(s, i) ==
  /\ s \notin used
  /\ used' = used \cup {s}
  /\ on' = [on EXCEPT ![i] = {s}]

Fail(s, i) ==
  /\ s \notin used
  /\ used' = used \cup {s}
  /\ on' = [on EXCEPT ![i] = {}]

End(S) ==
  /\ on' = [i \in SessionId |-> on[i] \ S]
  /\ UNCHANGED used

Next ==
  \/ \E s \in Sess, i \in SessionId : LogOn(s, i) \/ Fail(s, i)
  \/ \E S \in SUBSET Sess : End(S)

Spec == Init /\ [][Next]_vars
=============================================================================
