-------------------------- MODULE RoomManagerProofs --------------------------
(***************************************************************************)
(* The two Maps of RoomManager stay converse to each other and free of     *)
(* empty entries, for any rooms and sessions, and RoomManager implements   *)
(* RoomMembership. Everything is reduced to what Lookup returns on a Map   *)
(* after each kind of update.                                              *)
(***************************************************************************)
EXTENDS RoomManager, TLAPS

\* AddTo adds v to the Set of k and touches no other entry.
LEMMA AddToLookup ==
  ASSUME NEW map, NEW k, NEW v, NEW x
  PROVE  Lookup(AddTo(map, k, v), x) =
           IF x = k THEN Lookup(map, k) \cup {v} ELSE Lookup(map, x)
BY DEF AddTo, Lookup

\* RemoveFrom takes v out of the Sets of K and touches no other entry; that it
\* drops the keys it emptied cannot be seen through Lookup.
LEMMA RemoveFromLookup ==
  ASSUME NEW map, NEW K, NEW v, NEW x
  PROVE  Lookup(RemoveFrom(map, K, v), x) =
           IF x \in K THEN Lookup(map, x) \ {v} ELSE Lookup(map, x)
BY DEF RemoveFrom, Lookup

\* Deleting the entries of E makes their lookups empty.
LEMMA DeleteLookup ==
  ASSUME NEW map, NEW E, NEW x
  PROVE  Lookup([y \in DOMAIN map \ E |-> map[y]], x) =
           IF x \in E THEN {} ELSE Lookup(map, x)
BY DEF Lookup

-----------------------------------------------------------------------------
(* What each method does to the answers of getSessionsInRoom and            *)
(* getSessionRooms.                                                         *)

LEMMA JoinLookups ==
  ASSUME NEW r, NEW s, join(r, s)
  PROVE  /\ \A x : Lookup(rooms', x) =
              IF x = r THEN Lookup(rooms, r) \cup {s} ELSE Lookup(rooms, x)
         /\ \A x : Lookup(sessionRooms', x) =
              IF x = s THEN Lookup(sessionRooms, s) \cup {r} ELSE Lookup(sessionRooms, x)
BY AddToLookup DEF join

LEMMA LeaveLookups ==
  ASSUME NEW r, NEW s, leave(r, s)
  PROVE  /\ \A x : Lookup(rooms', x) =
              IF x = r THEN Lookup(rooms, x) \ {s} ELSE Lookup(rooms, x)
         /\ \A x : Lookup(sessionRooms', x) =
              IF x = s THEN Lookup(sessionRooms, x) \ {r} ELSE Lookup(sessionRooms, x)
<1>1. \A x : Lookup(rooms', x) =
              IF x \in {r} THEN Lookup(rooms, x) \ {s} ELSE Lookup(rooms, x)
  BY RemoveFromLookup DEF leave
<1>2. \A x : Lookup(sessionRooms', x) =
              IF x \in {s} THEN Lookup(sessionRooms, x) \ {r} ELSE Lookup(sessionRooms, x)
  BY RemoveFromLookup DEF leave
<1> QED BY <1>1, <1>2

LEMMA LeaveAllLookups ==
  ASSUME NEW s, leaveAllRooms(s)
  PROVE  /\ \A x : Lookup(rooms', x) =
              IF x \in Lookup(sessionRooms, s) THEN Lookup(rooms, x) \ {s} ELSE Lookup(rooms, x)
         /\ \A x : Lookup(sessionRooms', x) = IF x = s THEN {} ELSE Lookup(sessionRooms, x)
<1> DEFINE mine == Lookup(sessionRooms, s)
           E == IF mine = {} THEN {} ELSE {s}
<1>1. rooms' = RemoveFrom(rooms, mine, s)
  BY DEF leaveAllRooms
<1>2. sessionRooms' = [x \in DOMAIN sessionRooms \ E |-> sessionRooms[x]]
  BY DEF leaveAllRooms
<1>3. \A x : Lookup(sessionRooms', x) = IF x \in E THEN {} ELSE Lookup(sessionRooms, x)
  <2> HIDE DEF E
  <2> QED BY <1>2, DeleteLookup
<1>4. \A x : Lookup(rooms', x) = IF x \in mine THEN Lookup(rooms, x) \ {s} ELSE Lookup(rooms, x)
  <2> HIDE DEF mine
  <2> QED BY <1>1, RemoveFromLookup
<1> QED BY <1>3, <1>4
-----------------------------------------------------------------------------
(* Type correctness *)

\* A Map has keys of K and Sets of V's elements.
IsMap(map, K, V) == DOMAIN map \subseteq K /\ \A k \in DOMAIN map : map[k] \subseteq V

\* No entry of the Map is an empty Set.
Compact(map) == \A k \in DOMAIN map : map[k] # {}

\* The updates the methods are made of keep a Map of the right kind, and
\* without empty entries.
LEMMA MapUpdates ==
  ASSUME NEW map, NEW K, NEW V, IsMap(map, K, V),
         NEW k \in K, NEW v \in V, NEW D, NEW E
  PROVE  /\ IsMap(AddTo(map, k, v), K, V)
         /\ IsMap(RemoveFrom(map, D, v), K, V)
         /\ IsMap([x \in DOMAIN map \ E |-> map[x]], K, V)
         /\ Compact(map) => /\ Compact(AddTo(map, k, v))
                            /\ Compact(RemoveFrom(map, D, v))
                            /\ Compact([x \in DOMAIN map \ E |-> map[x]])
<1>1. IsMap(AddTo(map, k, v), K, V)
  BY DEF IsMap, AddTo, Lookup
<1>2. IsMap(RemoveFrom(map, D, v), K, V)
  BY DEF IsMap, RemoveFrom
<1>3. IsMap([x \in DOMAIN map \ E |-> map[x]], K, V)
  BY DEF IsMap
<1>4. ASSUME Compact(map)
      PROVE  /\ Compact(AddTo(map, k, v))
             /\ Compact(RemoveFrom(map, D, v))
             /\ Compact([x \in DOMAIN map \ E |-> map[x]])
  <2>1. Compact(AddTo(map, k, v))
    BY <1>4 DEF Compact, AddTo, Lookup
  <2>2. Compact(RemoveFrom(map, D, v))
    BY <1>4 DEF Compact, RemoveFrom
  <2>3. Compact([x \in DOMAIN map \ E |-> map[x]])
    BY <1>4 DEF Compact
  <2> QED BY <2>1, <2>2, <2>3
<1> QED BY <1>1, <1>2, <1>3, <1>4

Maps ==
  /\ IsMap(rooms, Room, SessionId) /\ Compact(rooms)
  /\ IsMap(sessionRooms, SessionId, Room) /\ Compact(sessionRooms)

LEMMA MapsIsTypeAndNoEmptyEntry == Maps <=> TypeOK /\ NoEmptyEntry
BY DEF Maps, TypeOK, NoEmptyEntry, IsMap, Compact

LEMMA MapsStep == Maps /\ [Next]_vars => Maps'
<1> SUFFICES ASSUME Maps, [Next]_vars PROVE Maps'
  OBVIOUS
<1> USE DEF Maps
<1>1. ASSUME NEW s \in SessionId, NEW r \in Room, join(r, s) PROVE Maps'
  BY <1>1, MapUpdates DEF join
<1>2. ASSUME NEW s \in SessionId, NEW r \in Room, leave(r, s) PROVE Maps'
  BY <1>2, MapUpdates DEF leave
<1>3. ASSUME NEW s \in SessionId, leaveAllRooms(s) PROVE Maps'
  <2> DEFINE mine == Lookup(sessionRooms, s)
             E == IF mine = {} THEN {} ELSE {s}
  <2>1. rooms' = RemoveFrom(rooms, mine, s) /\ sessionRooms' = [x \in DOMAIN sessionRooms \ E |-> sessionRooms[x]]
    BY <1>3 DEF leaveAllRooms
  <2>2. CASE mine = {}
    <3>1. IsMap(rooms', Room, SessionId) /\ Compact(rooms')
      BY <2>1, <2>2 DEF RemoveFrom, IsMap, Compact
    <3>2. IsMap(sessionRooms', SessionId, Room) /\ Compact(sessionRooms')
      BY <2>1 DEF IsMap, Compact
    <3> QED BY <3>1, <3>2
  <2>3. CASE mine # {}
    <3>1. PICK r \in Room : r \in mine
      BY <2>3 DEF IsMap, Lookup
    <3> HIDE DEF E, mine
    <3> QED BY <2>1, <3>1, MapUpdates
  <2> QED BY <2>2, <2>3
<1>4. CASE UNCHANGED vars
  BY <1>4 DEF vars
<1> QED BY <1>1, <1>2, <1>3, <1>4 DEF Next

\* Both Maps always have keys and Sets of the declared kinds.
THEOREM TypeCorrect == Spec => []TypeOK
<1>1. Init => Maps
  BY DEF Init, Maps, IsMap, Compact
<1>2. Maps => TypeOK
  BY MapsIsTypeAndNoEmptyEntry
<1> QED BY <1>1, <1>2, MapsStep, PTL DEF Spec

\* No Map ever keeps an empty Set.
THEOREM NeverAnEmptyEntry == Spec => []NoEmptyEntry
<1>1. Init => Maps
  BY DEF Init, Maps, IsMap, Compact
<1>2. Maps => NoEmptyEntry
  BY MapsIsTypeAndNoEmptyEntry
<1> QED BY <1>1, <1>2, MapsStep, PTL DEF Spec

-----------------------------------------------------------------------------
(* The two Maps agree *)

LEMMA IndexesAgreeStep == IndexesAgree /\ [Next]_vars => IndexesAgree'
<1> SUFFICES ASSUME IndexesAgree, [Next]_vars,
                    NEW q \in Room, NEW t \in SessionId
             PROVE  t \in Lookup(rooms', q) <=> q \in Lookup(sessionRooms', t)
  BY DEF IndexesAgree, isInRoom, getSessionRooms
<1>0. t \in Lookup(rooms, q) <=> q \in Lookup(sessionRooms, t)
  BY DEF IndexesAgree, isInRoom, getSessionRooms
<1>1. ASSUME NEW s \in SessionId, NEW r \in Room, join(r, s)
      PROVE  t \in Lookup(rooms', q) <=> q \in Lookup(sessionRooms', t)
  BY <1>0, <1>1, JoinLookups
<1>2. ASSUME NEW s \in SessionId, NEW r \in Room, leave(r, s)
      PROVE  t \in Lookup(rooms', q) <=> q \in Lookup(sessionRooms', t)
  BY <1>0, <1>2, LeaveLookups
<1>3. ASSUME NEW s \in SessionId, leaveAllRooms(s)
      PROVE  t \in Lookup(rooms', q) <=> q \in Lookup(sessionRooms', t)
  BY <1>0, <1>3, LeaveAllLookups
<1>4. CASE UNCHANGED vars
  BY <1>0, <1>4 DEF vars
<1> QED BY <1>1, <1>2, <1>3, <1>4 DEF Next

LEMMA IndexesAgreeInit == Init => IndexesAgree
BY DEF Init, IndexesAgree, isInRoom, getSessionRooms, Lookup

\* A room lists a session exactly when the session lists the room, always.
THEOREM IndexesAlwaysAgree == Spec => []IndexesAgree
BY IndexesAgreeInit, IndexesAgreeStep, PTL DEF Spec

-----------------------------------------------------------------------------
(* Refinement *)

LEMMA StepRefinement == IndexesAgree /\ [Next]_vars => [Abstract!Next]_membership
<1> SUFFICES ASSUME IndexesAgree, [Next]_vars PROVE [Abstract!Next]_membership
  OBVIOUS
<1> USE DEF membership, isInRoom
<1>1. ASSUME NEW s \in SessionId, NEW r \in Room, join(r, s) PROVE Abstract!Join(r, s)
  BY <1>1, JoinLookups DEF Abstract!Join, Abstract!Pairs
<1>2. ASSUME NEW s \in SessionId, NEW r \in Room, leave(r, s) PROVE Abstract!Leave(r, s)
  BY <1>2, LeaveLookups DEF Abstract!Leave, Abstract!Pairs
<1>3. ASSUME NEW s \in SessionId, leaveAllRooms(s) PROVE Abstract!LeaveAll(s)
  <2>1. \A q \in Room, t \in SessionId :
          t \in Lookup(rooms', q) <=> t \in Lookup(rooms, q) /\ t # s
    BY <1>3, LeaveAllLookups DEF IndexesAgree, getSessionRooms
  <2> QED BY <2>1 DEF Abstract!LeaveAll, Abstract!WithoutSessions
<1>4. CASE UNCHANGED vars
  BY <1>4 DEF vars
<1> QED BY <1>1, <1>2, <1>3, <1>4 DEF Next, Abstract!Next

\* RoomManager implements the relation of RoomMembership.
THEOREM Implements == Spec => ImplementsMembership
<1>1. Init => Abstract!Init
  BY DEF Init, Abstract!Init, membership, isInRoom, Lookup
<1> QED BY <1>1, IndexesAgreeInit, IndexesAgreeStep, StepRefinement, PTL
        DEF Spec, ImplementsMembership, Abstract!Spec
=============================================================================
