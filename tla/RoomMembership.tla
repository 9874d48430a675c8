--------------------------- MODULE RoomMembership ---------------------------
(***************************************************************************)
(* What RoomManager promises to the rest of the system: a relation between *)
(* rooms and session identifiers. join adds a pair, leave removes one, and *)
(* leaveAllRooms removes every pair of a session. Nothing else moves it.   *)
(***************************************************************************)
CONSTANTS Room,       \* room identifiers an application uses
          SessionId   \* session identifiers, "sender->target" in the code

VARIABLE members      \* the pairs <<room, session identifier>>

\* The pairs a set of rooms makes with one session identifier.
Pairs(R, s) == R \X {s}

\* The relation after every session of S has left every room.
WithoutSessions(m, S) == {p \in m : p[2] \notin S}

Init == members = {}

Join(r, s) == members' = members \cup Pairs({r}, s)

Leave(r, s) == members' = members \ Pairs({r}, s)

LeaveAll(s) == members' = WithoutSessions(members, {s})

Next == \E s \in SessionId :
          \/ \E r \in Room : Join(r, s) \/ Leave(r, s)
          \/ LeaveAll(s)

Spec == Init /\ [][Next]_members
=============================================================================
