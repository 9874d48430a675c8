---------------------------- MODULE RoomManager ----------------------------
(***************************************************************************)
(* services/room.manager.ts. Membership is kept twice: rooms maps a room   *)
(* to the sessions in it, sessionRooms maps a session to its rooms. Both   *)
(* are JavaScript Maps, so an absent key and a key with an empty Set are   *)
(* different states; a function whose DOMAIN is the set of keys tells them *)
(* apart. Every method is synchronous, hence one action.                   *)
(***************************************************************************)
CONSTANTS Room, SessionId

VARIABLES rooms,         \* Map from room to its Set of sessions
          sessionRooms   \* Map from session to its Set of rooms

vars == <<rooms, sessionRooms>>

\* Map.get(k) || new Set()
Lookup(map, k) == IF k \in DOMAIN map THEN map[k] ELSE {}

\* initialize...IfNeeded(k) and then get(k).add(v).
AddTo(map, k, v) ==
  [x \in DOMAIN map \cup {k} |-> IF x = k THEN Lookup(map, k) \cup {v} ELSE map[x]]

\* Wrong: a key whose Set became empty is kept.
RemoveFromKeepingEmpty(map, K, v) ==
  [x \in DOMAIN map |-> IF x \in K THEN map[x] \ {v} ELSE map[x]]

\* For every key of K: get(k)?.delete(v), then the key itself when its Set is
\* empty. A key that is absent is left absent.
RemoveFrom(map, K, v) ==
  LET emptied == {k \in K \cap DOMAIN map : map[k] \ {v} = {}}
  IN [x \in DOMAIN map \ emptied |-> IF x \in K THEN map[x] \ {v} ELSE map[x]]

Init == rooms = << >> /\ sessionRooms = << >>

\* Wrong: room and session swapped in the second Map.
joinSwapped(r, s) ==
  /\ rooms' = AddTo(rooms, r, s)
  /\ sessionRooms' = AddTo(sessionRooms, r, s)

join(r, s) ==
  /\ rooms' = AddTo(rooms, r, s)
  /\ sessionRooms' = AddTo(sessionRooms, s, r)

\* Wrong: only one of the two Maps is updated.
leaveForgettingTheIndex(r, s) ==
  /\ rooms' = RemoveFrom(rooms, {r}, s)
  /\ UNCHANGED sessionRooms

leave(r, s) ==
  /\ rooms' = RemoveFrom(rooms, {r}, s)
  /\ sessionRooms' = RemoveFrom(sessionRooms, {s}, r)

\* Wrong: the rooms themselves are deleted, with everybody else in them.
leaveAllRoomsDeletingRooms(s) ==
  LET mine == Lookup(sessionRooms, s)
  IN /\ rooms' = [x \in DOMAIN rooms \ mine |-> rooms[x]]
     /\ sessionRooms' = [x \in DOMAIN sessionRooms \ {s} |-> sessionRooms[x]]

\* rooms.forEach(roomId => this.leave(roomId, sessionId)) over the session's
\* own Set. leave deletes from that Set while it is iterated, which a JavaScript
\* Set allows: each element is still visited once.
leaveAllRooms(s) ==
  LET mine == Lookup(sessionRooms, s)
  IN /\ rooms' = RemoveFrom(rooms, mine, s)
     /\ sessionRooms' = [x \in DOMAIN sessionRooms \ (IF mine = {} THEN {} ELSE {s})
                           |-> sessionRooms[x]]

Next == \E s \in SessionId :
          \/ \E r \in Room : join(r, s) \/ leave(r, s)
          \/ leaveAllRooms(s)

Spec == Init /\ [][Next]_vars

-----------------------------------------------------------------------------
\* The answers of getSessionsInRoom, getSessionRooms and isInRoom.
getSessionsInRoom(r) == Lookup(rooms, r)
getSessionRooms(s) == Lookup(sessionRooms, s)
isInRoom(r, s) == s \in Lookup(rooms, r)

\* Both Maps have keys and Sets of the declared kinds (room.manager.ts:9-10).
TypeOK ==
  /\ DOMAIN rooms \subseteq Room
  /\ \A r \in DOMAIN rooms : rooms[r] \subseteq SessionId
  /\ DOMAIN sessionRooms \subseteq SessionId
  /\ \A s \in DOMAIN sessionRooms : sessionRooms[s] \subseteq Room

\* The two Maps are converse relations: a room lists a session exactly when the
\* session lists the room. leaveAllRooms walks one Map to clean the other, so a
\* single update of only one of them leaves a session in a room for good.
IndexesAgree ==
  \A r \in Room, s \in SessionId : isInRoom(r, s) <=> r \in getSessionRooms(s)

\* No Map keeps a key with an empty Set: a room nobody is in, or a session in no
\* room, costs nothing (the deletes of removeFromRoom and removeRoomFromSession).
NoEmptyEntry ==
  /\ \A r \in DOMAIN rooms : rooms[r] # {}
  /\ \A s \in DOMAIN sessionRooms : sessionRooms[s] # {}

\* The relation the two Maps stand for.
membership == {p \in Room \X SessionId : isInRoom(p[1], p[2])}

Abstract == INSTANCE RoomMembership WITH members <- membership

\* RoomManager implements the relation of RoomMembership: each method changes
\* exactly the pairs it names, and leaveAllRooms leaves none behind.
ImplementsMembership == Abstract!Spec
=============================================================================
