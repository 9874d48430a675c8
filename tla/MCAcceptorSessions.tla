------------------------- MODULE MCAcceptorSessions -------------------------
(* Small instances of AcceptorSessions, one per .cfg. Model values of one    *)
(* kind are interchangeable: no action or invariant tells them apart.        *)
EXTENDS AcceptorSessions

Symmetry == UNION {Permutations(S) : S \in {Conn, SessionId, Sess, Room}}
=============================================================================
