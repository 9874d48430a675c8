------------------------ MODULE SessionTrafficProofs ------------------------
(***************************************************************************)
(* What sessions put on the wire, for any sessions, rooms and broadcasts:  *)
(* the numbers are in sequence, broadcasts come in one order, and a        *)
(* session is silent once the turn that disconnects it is over.            *)
(***************************************************************************)
EXTENDS SessionTraffic, SequenceTheorems, TLAPS

\* What one write leaves on the wire, and what an awaited write waits for.
Entry == [num : 1..MaxSeqNum, of : Broadcast \cup {None}]
Body == {"logon", "logout"} \cup Broadcast

\* A sequence and one more element.
LEMMA Appending ==
  ASSUME NEW S, NEW q \in Seq(S), NEW e \in S
  PROVE  /\ Append(q, e) \in Seq(S) /\ Len(q) \in Nat
         /\ Len(Append(q, e)) = Len(q) + 1
         /\ DOMAIN q = 1..Len(q) /\ DOMAIN Append(q, e) = 1..Len(q) + 1
         /\ \A k \in 1..Len(q) : Append(q, e)[k] = q[k]
         /\ Append(q, e)[Len(q) + 1] = e
OBVIOUS

-----------------------------------------------------------------------------
(* Types *)

LEMMA NumberedType ==
  ASSUME TypeOK, NEW S \in SUBSET Sess, CanNumber(S), Numbered(S)
  PROVE  /\ next' \in [Sess -> 1..MaxSeqNum + 1]
         /\ \A s \in S : next[s] \in 1..MaxSeqNum /\ next'[s] = next[s] + 1
         /\ \A s \in Sess \ S : next'[s] = next[s]
<1>1. next \in [Sess -> 1..MaxSeqNum + 1] /\ MaxSeqNum \in Nat
  BY MaxSeqNumAssumption DEF TypeOK
<1>2. \A s \in S : next[s] \in 1..MaxSeqNum /\ next[s] + 1 \in 1..MaxSeqNum + 1
  BY <1>1 DEF CanNumber
<1> QED BY <1>1, <1>2 DEF Numbered

LEMMA WrittenType ==
  ASSUME TypeOK, NEW S \in SUBSET Sess, CanNumber(S), Numbered(S),
         NEW b \in Broadcast \cup {None}, Written(S, b)
  PROVE  wire' \in [Sess -> Seq(Entry)]
<1>1. wire \in [Sess -> Seq(Entry)]
  BY DEF TypeOK, Entry
<1>2. ASSUME NEW s \in S PROVE Append(wire[s], [num |-> next[s], of |-> b]) \in Seq(Entry)
  <2>1. [num |-> next[s], of |-> b] \in Entry
    BY NumberedType DEF Entry
  <2> QED BY <1>1, <2>1, Appending
<1> QED BY <1>1, <1>2 DEF Written

LEMMA AwaitedType ==
  ASSUME TypeOK, NEW S \in SUBSET Sess, NEW body \in Body, Awaited(S, body)
  PROVE  writes' \in [Sess -> Seq(Body)]
<1>1. writes \in [Sess -> Seq(Body)]
  BY DEF TypeOK, Body
<1>2. \A s \in Sess : Append(writes[s], body) \in Seq(Body)
  BY <1>1, Appending
<1> QED BY <1>1, <1>2 DEF Awaited

LEMMA CompletesType ==
  ASSUME TypeOK, NEW s \in Sess, NEW body, Completes(s, body)
  PROVE  writes' \in [Sess -> Seq(Body)]
<1>1. writes \in [Sess -> Seq(Body)]
  BY DEF TypeOK, Body
<1>2. writes[s] # << >> /\ writes' = [writes EXCEPT ![s] = Tail(@)]
  BY DEF Completes
<1>3. Tail(writes[s]) \in Seq(Body)
  BY <1>1, <1>2
<1> QED BY <1>1, <1>2, <1>3

\* The variables of sessions and rooms have their types.
SessionTypes ==
  /\ state \in [Sess -> {"unborn", "LOGGED_ON", "LOGGING_OUT", "DISCONNECTED", "ERROR"}]
  /\ sock \in [Sess -> {"unused", "open", "down", "closed"}]
  /\ attended \subseteq Sess
  /\ timer \subseteq Sess
  /\ told \subseteq Sess
  /\ leaving \in Sess \cup {None}
  /\ sessions \subseteq Sess
  /\ members \subseteq Room \X Sess

WireTypes ==
  /\ next \in [Sess -> 1..MaxSeqNum + 1]
  /\ wire \in [Sess -> Seq(Entry)]
  /\ writes \in [Sess -> Seq(Body)]

ServiceTypes ==
  /\ targetId \in Room \cup {None}
  /\ asked \in BOOLEAN
  /\ call \in [Broadcast -> {"unused", "waiting", "returned", "failed"}]

LEMMA TypeParts == TypeOK <=> SessionTypes /\ WireTypes /\ ServiceTypes
BY DEF TypeOK, SessionTypes, WireTypes, ServiceTypes, Entry, Body

LEMMA WithoutType ==
  ASSUME members \subseteq Room \X Sess, NEW S
  PROVE  Rooms!WithoutSessions(members, S) \subseteq Room \X Sess
BY DEF Rooms!WithoutSessions

\* Turns of the sessions keep the types of sessions and rooms.
LEMMA SessionTypesStep ==
  ASSUME SessionTypes, [Next]_vars
  PROVE  SessionTypes'
<1>1. ASSUME NEW s \in Sess, Logon(s) PROVE SessionTypes'
  BY <1>1 DEF Logon, SessionTypes
<1>2. CASE UNCHANGED <<sessionVars, members>>
  BY <1>2 DEF SessionTypes, sessionVars
<1>3. ASSUME NEW s \in Sess, Disconnecting(s), UNCHANGED <<sock, attended, sessions, members>>
      PROVE  SessionTypes'
  BY <1>3 DEF Disconnecting, SessionTypes
<1>4. ASSUME NEW s \in Sess, Logout(s) PROVE SessionTypes'
  <2>1. UNCHANGED <<sock, attended, sessions, members>>
    BY <1>4 DEF Logout
  <2>2. CASE state' = [state EXCEPT ![s] = "LOGGING_OUT"] /\ UNCHANGED <<timer, told, leaving>>
    BY <2>1, <2>2 DEF SessionTypes
  <2> QED BY <1>3, <1>4, <2>1, <2>2 DEF Logout
<1>5. ASSUME NEW s \in Sess, LogonWritten(s) PROVE SessionTypes'
  <2>1. PICK R \in SUBSET Room : members' = members \cup Rooms!Pairs(R, s)
    BY <1>5 DEF LogonWritten
  <2>2. Rooms!Pairs(R, s) \subseteq Room \X Sess
    BY DEF Rooms!Pairs
  <2> QED BY <1>5, <2>1, <2>2 DEF LogonWritten, SessionTypes, sessionVars
<1>6. ASSUME NEW s \in Sess, LogonFails(s) PROVE SessionTypes'
  BY <1>6 DEF LogonFails, SessionTypes
<1>7. ASSUME NEW s \in Sess, Drop(s) PROVE SessionTypes'
  BY <1>7 DEF Drop, SessionTypes
<1>8. ASSUME NEW s \in Sess, Closed(s) PROVE SessionTypes'
  <2>1. sock' \in [Sess -> {"unused", "open", "down", "closed"}]
        /\ UNCHANGED <<attended, sessions, members>>
    BY <1>8 DEF Closed, SessionTypes
  <2>2. CASE Disconnecting(s)
    BY <2>1, <2>2 DEF Disconnecting, SessionTypes
  <2>3. CASE UNCHANGED <<state, timer, told, leaving>>
    BY <2>1, <2>3 DEF SessionTypes
  <2> QED BY <1>8, <2>2, <2>3 DEF Closed
<1>9. ASSUME NEW s \in Sess, Heartbeat(s) \/ ReceiveTestRequest(s) \/ SendFresh(s)
      PROVE  SessionTypes'
  BY <1>2, <1>9 DEF Heartbeat, ReceiveTestRequest, SendFresh
<1>10. ASSUME NEW s \in Sess, WriteCallback(s) PROVE SessionTypes'
  <2>1. CASE LogoutWritten(s)
    BY <1>3, <2>1 DEF LogoutWritten
  <2>2. ASSUME NEW b \in Broadcast, BroadcastWritten(s, b) \/ BroadcastFails(s, b)
        PROVE  SessionTypes'
    BY <1>2, <2>2 DEF BroadcastWritten, BroadcastFails
  <2> QED BY <1>5, <1>6, <1>10, <2>1, <2>2 DEF WriteCallback
<1>11. ASSUME NEW s \in Sess, ReceiveLogout(s) PROVE SessionTypes'
  BY <1>3, <1>11 DEF ReceiveLogout
<1>12. ASSUME NEW r \in Room, To(r) PROVE SessionTypes'
  BY <1>2, <1>12 DEF To
<1>13. ASSUME SendRefused \/ SendToNobody \/ \E b \in Broadcast : SendToRoom(b)
       PROVE  SessionTypes'
  BY <1>2, <1>13 DEF SendRefused, SendToNobody, SendToRoom
<1>14. ASSUME NEW s \in Sess, Leave(s) PROVE SessionTypes'
  <2>1. sock' \in [Sess -> {"unused", "open", "down", "closed"}]
    BY <1>14 DEF SessionTypes, Leave
  <2>2. members' \subseteq Room \X Sess
    BY <1>14, WithoutType DEF SessionTypes, Leave
  <2> QED BY <1>14, <2>1, <2>2 DEF SessionTypes, Leave
<1>15. CASE UNCHANGED vars
  BY <1>2, <1>15 DEF vars
<1> QED BY <1>1, <1>4, <1>7, <1>8, <1>9, <1>10, <1>11, <1>12, <1>13, <1>14, <1>15 DEF Next

-----------------------------------------------------------------------------
(* What one step does to the wires *)

\* A session that never was has a blank wire; one that was disconnected has no
\* open socket, unless its handlers still run; as long as the socket is open, every number taken was written.
Blank == \A s \in Sess : ~Born(s) => /\ sock[s] = "unused" /\ s \notin sessions
                                     /\ next[s] = 1 /\ wire[s] = << >>
Ended ==
  \A s \in Sess : state[s] = "DISCONNECTED" => sock[s] # "open" \/ leaving = s
Counted == \A s \in Sess : sock[s] = "open" => next[s] = Len(wire[s]) + 1

WInv == TypeOK /\ Blank /\ Ended /\ Counted

\* A session that writes nothing: if its socket stays open it takes no number.
Kept(s) == /\ wire'[s] = wire[s]
           /\ sock'[s] = "open" => sock[s] = "open" /\ next'[s] = next[s]

\* A session that writes: it may, and the message has the next number.
Added(s, b) == /\ sock[s] = "open" \/ ~Born(s)
               /\ wire'[s] = Append(wire[s], [num |-> next[s], of |-> b])
               /\ next'[s] = next[s] + 1

\* The turn that numbers and writes one message of every session of S.
LEMMA Sending ==
  ASSUME TypeOK, NEW S \in SUBSET Sess, NEW b \in Broadcast \cup {None},
         CanNumber(S), Numbered(S), Written(S, b),
         \A s \in Sess : sock'[s] = "open" => sock[s] = "open"
  PROVE  /\ next' \in [Sess -> 1..MaxSeqNum + 1]
         /\ wire' \in [Sess -> Seq(Entry)]
         /\ \A s \in Sess : Kept(s) \/ Added(s, b)
         /\ \A s \in Sess \ S : next'[s] = next[s]
         /\ \A s \in Sess : sock[s] # "open" => wire'[s] = wire[s]
<1>1. next' \in [Sess -> 1..MaxSeqNum + 1]
      /\ (\A s \in S : next'[s] = next[s] + 1) /\ \A s \in Sess \ S : next'[s] = next[s]
  BY NumberedType
<1>2. wire' \in [Sess -> Seq(Entry)]
  BY WrittenType
<1>3. ASSUME NEW s \in Sess PROVE Kept(s) \/ Added(s, b)
  <2>1. CASE s \in S /\ Writable(s)
    BY <1>1, <2>1 DEF Written, Writable, Added
  <2>2. CASE ~(s \in S /\ Writable(s))
    BY <1>1, <2>2 DEF Written, Writable, Kept
  <2> QED BY <2>1, <2>2
<1> QED BY <1>1, <1>2, <1>3 DEF Written, Writable

LEMMA LogonWrites ==
  ASSUME WInv, NEW s \in Sess, Logon(s)
  PROVE  /\ WireTypes'
         /\ \A t \in Sess : Kept(t) \/ Added(t, None)
         /\ \A t \in Sess \ {s} : next'[t] = next[t] /\ wire'[t] = wire[t] /\ sock'[t] = sock[t]
<1>1. next[s] = 1 /\ wire[s] = << >> /\ ~Born(s) /\ WireTypes /\ SessionTypes
  BY TypeParts DEF WInv, Blank, Logon
<1>2. CanNumber({s}) /\ TypeOK
  BY <1>1, MaxSeqNumAssumption DEF CanNumber, WInv
<1>3. next' \in [Sess -> 1..MaxSeqNum + 1] /\ next'[s] = next[s] + 1
      /\ \A t \in Sess \ {s} : next'[t] = next[t]
  BY <1>2, NumberedType DEF Logon
<1>4. [num |-> 1, of |-> None] \in Entry
  BY MaxSeqNumAssumption DEF Entry
<1>5. <<[num |-> 1, of |-> None]>> \in Seq(Entry) /\ <<"logon">> \in Seq(Body)
  BY <1>4 DEF Body
<1>6. wire' = [wire EXCEPT ![s] = <<[num |-> 1, of |-> None]>>]
      /\ writes' = [writes EXCEPT ![s] = <<"logon">>]
      /\ sock' = [sock EXCEPT ![s] = "open"]
  BY <1>1 DEF Logon
<1>7. WireTypes'
  BY <1>1, <1>3, <1>5, <1>6 DEF WireTypes
<1>8. Added(s, None)
  <2>1. Append(<< >>, [num |-> 1, of |-> None]) = <<[num |-> 1, of |-> None]>>
    OBVIOUS
  <2> QED BY <1>1, <1>3, <1>6, <2>1 DEF Added, WireTypes
<1>9. ASSUME NEW t \in Sess \ {s} PROVE Kept(t) /\ wire'[t] = wire[t] /\ sock'[t] = sock[t]
  BY <1>1, <1>3, <1>6 DEF Kept, WireTypes, SessionTypes
<1> QED BY <1>3, <1>7, <1>8, <1>9

\* No session loses its birth, and one that is not born yet is left alone.
LEMMA BirthStep ==
  ASSUME WInv, [Next]_vars
  PROVE  /\ Ended'
         /\ \A s \in Sess : state'[s] = "unborn" =>
              /\ state[s] = "unborn"
              /\ sock'[s] = sock[s]
              /\ s \in sessions' => s \in sessions
<1> DEFINE Left(s) == state'[s] = "unborn" => /\ state[s] = "unborn"
                                              /\ sock'[s] = sock[s]
                                              /\ s \in sessions' => s \in sessions
           Over(s) == state'[s] = "DISCONNECTED" => sock'[s] # "open" \/ leaving' = s
<1>1. SUFFICES \A s \in Sess : Left(s) /\ Over(s)
  BY DEF Ended
<1>2. SessionTypes /\ Ended /\ Blank
  BY TypeParts DEF WInv
<1>3. ASSUME NEW s \in Sess, Logon(s) PROVE \A t \in Sess : Left(t) /\ Over(t)
  BY <1>2, <1>3 DEF Logon, SessionTypes, Ended
<1>4. CASE UNCHANGED <<sessionVars, members>>
  BY <1>2, <1>4 DEF sessionVars, Ended
<1>5. ASSUME NEW s \in Sess, Disconnecting(s), UNCHANGED <<sock, sessions>>
      PROVE  \A t \in Sess : Left(t) /\ Over(t)
  <2>1. /\ state' = [state EXCEPT ![s] = "DISCONNECTED"] /\ leaving' = s /\ leaving \notin Sess
    BY <1>5, NoneAssumption DEF Disconnecting, Idle
  <2> QED BY <1>2, <1>5, <2>1 DEF SessionTypes, Ended
<1>6. ASSUME NEW s \in Sess, Logout(s) PROVE \A t \in Sess : Left(t) /\ Over(t)
  <2>1. UNCHANGED <<sock, sessions>>
    BY <1>6 DEF Logout
  <2>2. CASE state' = [state EXCEPT ![s] = "LOGGING_OUT"] /\ UNCHANGED leaving
    BY <1>2, <2>1, <2>2 DEF SessionTypes, Ended
  <2> QED BY <1>5, <1>6, <2>1, <2>2 DEF Logout
<1>7. ASSUME NEW s \in Sess, LogonFails(s) PROVE \A t \in Sess : Left(t) /\ Over(t)
  BY <1>2, <1>7 DEF LogonFails, SessionTypes, Ended
<1>8. ASSUME NEW s \in Sess, Drop(s) PROVE \A t \in Sess : Left(t) /\ Over(t)
  BY <1>2, <1>8 DEF Drop, SessionTypes, Ended, Blank, Writable, Born
<1>9. ASSUME NEW s \in Sess, Closed(s) PROVE \A t \in Sess : Left(t) /\ Over(t)
  <2>1. sock[s] = "down" /\ state[s] # "unborn" /\ sock' = [sock EXCEPT ![s] = "closed"]
        /\ sessions' = sessions
    BY <1>2, <1>9 DEF Closed, Blank, Born
  <2>2. sock'[s] = "closed" /\ \A t \in Sess : t # s => sock'[t] = sock[t]
    BY <1>2, <2>1 DEF SessionTypes
  <2>3. CASE Disconnecting(s)
    <3>1. state' = [state EXCEPT ![s] = "DISCONNECTED"] /\ leaving \notin Sess
      BY <2>3, NoneAssumption DEF Disconnecting, Idle
    <3>2. state'[s] = "DISCONNECTED" /\ \A t \in Sess : t # s => state'[t] = state[t]
      BY <1>2, <3>1 DEF SessionTypes
    <3> QED BY <1>2, <2>1, <2>2, <3>1, <3>2 DEF Ended
  <2>4. CASE UNCHANGED <<state, leaving>>
    BY <1>2, <2>1, <2>2, <2>4 DEF Ended
  <2> QED BY <1>9, <2>3, <2>4 DEF Closed
<1>10. ASSUME NEW s \in Sess, WriteCallback(s) PROVE \A t \in Sess : Left(t) /\ Over(t)
  <2>1. CASE LogonWritten(s)
    BY <1>2, <2>1 DEF LogonWritten, sessionVars, Ended
  <2>2. CASE LogoutWritten(s)
    BY <1>5, <2>2 DEF LogoutWritten
  <2>3. ASSUME NEW b \in Broadcast, BroadcastWritten(s, b) \/ BroadcastFails(s, b)
        PROVE  \A t \in Sess : Left(t) /\ Over(t)
    BY <1>4, <2>3 DEF BroadcastWritten, BroadcastFails
  <2> QED BY <1>7, <1>10, <2>1, <2>2, <2>3 DEF WriteCallback
<1>11. ASSUME NEW s \in Sess,
              Heartbeat(s) \/ ReceiveTestRequest(s) \/ SendFresh(s) \/ ReceiveLogout(s)
       PROVE  \A t \in Sess : Left(t) /\ Over(t)
  BY <1>4, <1>5, <1>11 DEF Heartbeat, ReceiveTestRequest, SendFresh, ReceiveLogout
<1>12. ASSUME NEW r \in Room, To(r) PROVE \A t \in Sess : Left(t) /\ Over(t)
  BY <1>4, <1>12 DEF To
<1>13. ASSUME SendRefused \/ SendToNobody \/ \E b \in Broadcast : SendToRoom(b)
       PROVE  \A t \in Sess : Left(t) /\ Over(t)
  BY <1>4, <1>13 DEF SendRefused, SendToNobody, SendToRoom
<1>14. ASSUME NEW s \in Sess, Leave(s) PROVE \A t \in Sess : Left(t) /\ Over(t)
  <2>1. /\ sock' = [sock EXCEPT ![s] = IF @ = "open" THEN "down" ELSE @]
        /\ state' = state /\ sessions' \subseteq sessions /\ leaving = s
    BY <1>14 DEF Leave
  <2>2. sock'[s] # "open" /\ \A t \in Sess : t # s => sock'[t] = sock[t]
    BY <1>2, <2>1 DEF SessionTypes
  <2>3. state[s] = "unborn" => sock'[s] = sock[s]
    BY <1>2, <2>1 DEF Blank, Born, SessionTypes
  <2> QED BY <1>2, <2>1, <2>2, <2>3 DEF Ended
<1>15. CASE UNCHANGED vars
  BY <1>4, <1>15 DEF vars
<1> QED BY <1>3, <1>6, <1>8, <1>9, <1>10, <1>11, <1>12, <1>13, <1>14, <1>15 DEF Next

\* What a step writes: a message each to some sessions, all of one broadcast or of none.
Writes(b) ==
  /\ \A s \in Sess : Kept(s) \/ Added(s, b)
  /\ \A s \in Sess : state'[s] = "unborn" => next'[s] = next[s] /\ wire'[s] = wire[s]

\* Only the send() of a broadcast writes it, and the call is not new afterwards.
Called(b) == b \in Broadcast => call[b] = "unused" /\ call'[b] # "unused"

\* What is written in a step, and that the variables of the wire keep their types.
WireMoves == WireTypes' /\ \E b \in Broadcast \cup {None} : Writes(b) /\ Called(b)

LEMMA WriteStep ==
  ASSUME WInv, [Next]_vars
  PROVE  WireMoves
<1>1. SessionTypes /\ WireTypes /\ ServiceTypes /\ TypeOK /\ Blank /\ None \notin Broadcast
  BY TypeParts, NoneAssumption DEF WInv
<1>2. ASSUME NEW s \in Sess, Logon(s) PROVE WireMoves
  <2>1. WireTypes' /\ (\A t \in Sess : Kept(t) \/ Added(t, None))
        /\ \A t \in Sess \ {s} : next'[t] = next[t] /\ wire'[t] = wire[t]
    BY <1>2, LogonWrites
  <2>2. state'[s] # "unborn"
    BY <1>1, <1>2 DEF Logon, SessionTypes
  <2> QED BY <1>1, <2>1, <2>2 DEF Writes, Called, WireMoves
<1>3. ASSUME UNCHANGED <<next, wire>>, writes' \in [Sess -> Seq(Body)],
             \A s \in Sess : sock'[s] = "open" => sock[s] = "open"
      PROVE  WireMoves
  BY <1>1, <1>3 DEF Writes, Called, Kept, WireTypes, WireMoves
<1>4. ASSUME NEW S \in SUBSET Sess, NEW b \in Broadcast \cup {None},
             CanNumber(S), Numbered(S), Written(S, b), Called(b),
             writes' \in [Sess -> Seq(Body)], \A s \in S : state[s] # "unborn",
             \A s \in Sess : sock'[s] = "open" => sock[s] = "open"
      PROVE  WireMoves
  <2>1. /\ next' \in [Sess -> 1..MaxSeqNum + 1]
        /\ wire' \in [Sess -> Seq(Entry)]
        /\ \A s \in Sess : Kept(s) \/ Added(s, b)
        /\ \A s \in Sess \ S : next'[s] = next[s]
        /\ \A s \in Sess : sock[s] # "open" => wire'[s] = wire[s]
    BY <1>1, <1>4, Sending
  <2>2. \A s \in Sess : state'[s] = "unborn" => state[s] = "unborn"
    BY BirthStep
  <2>3. \A s \in Sess : state[s] = "unborn" => sock[s] # "open" /\ s \notin S
    BY <1>1, <1>4 DEF Blank, Born
  <2>4. Writes(b)
    BY <2>1, <2>2, <2>3 DEF Writes
  <2> QED BY <1>4, <2>1, <2>4 DEF WireTypes, WireMoves
<1>5. ASSUME NEW s \in Sess, SendMessage(s), state[s] # "unborn", sock' = sock PROVE WireMoves
  <2>1. Called(None) /\ writes' \in [Sess -> Seq(Body)] /\ {s} \in SUBSET Sess
    BY <1>1, <1>5 DEF Called, SendMessage, WireTypes
  <2>2. CanNumber({s}) /\ Numbered({s}) /\ Written({s}, None)
    BY <1>5 DEF SendMessage
  <2> QED BY <1>4, <1>5, <2>1, <2>2
<1>6. ASSUME NEW s \in Sess, Heartbeat(s) \/ ReceiveTestRequest(s) \/ SendFresh(s) PROVE WireMoves
  <2>1. state[s] # "unborn"
    BY <1>1, <1>6 DEF Heartbeat, ReceiveTestRequest, SendFresh, Readable, Born, Blank
  <2>2. SendMessage(s) /\ sock' = sock
    BY <1>6 DEF Heartbeat, ReceiveTestRequest, SendFresh, sessionVars
  <2> QED BY <1>5, <2>1, <2>2
<1>8. ASSUME NEW s \in Sess, Logout(s) PROVE WireMoves
  <2>1. \A t \in Sess : sock'[t] = "open" => sock[t] = "open"
    BY <1>8 DEF Logout
  <2>2. CanNumber({s}) /\ Numbered({s}) /\ Written({s}, None) /\ Awaited({s}, "logout")
        /\ state[s] # "unborn"
    BY <1>8 DEF Logout, Born
  <2>3. writes' \in [Sess -> Seq(Body)]
    <3>1. "logout" \in Body /\ {s} \in SUBSET Sess
      BY DEF Body
    <3> QED BY <1>1, <2>2, <3>1, AwaitedType
  <2>4. {s} \in SUBSET Sess /\ Called(None)
    BY <1>1 DEF Called
  <2> QED BY <1>4, <2>1, <2>2, <2>3, <2>4
<1>9. ASSUME NEW s \in Sess, WriteCallback(s) PROVE WireMoves
  <2>1. \E body : Completes(s, body)
    BY <1>9 DEF WriteCallback, LogonWritten, LogonFails, LogoutWritten, BroadcastWritten,
                BroadcastFails
  <2>2. writes' \in [Sess -> Seq(Body)]
    BY <1>1, <2>1, CompletesType
  <2>3. UNCHANGED <<next, wire>>
    BY <1>9 DEF WriteCallback, LogonWritten, LogonFails, LogoutWritten, BroadcastWritten,
                BroadcastFails
  <2>4. sock' = sock
    BY <1>9 DEF WriteCallback, LogonWritten, LogonFails, LogoutWritten, BroadcastWritten,
                BroadcastFails, sessionVars
  <2> QED BY <1>3, <2>2, <2>3, <2>4
<1>10. ASSUME NEW s \in Sess, Drop(s) \/ Closed(s) \/ ReceiveLogout(s) \/ Leave(s)
       PROVE  WireMoves
  <2>1. UNCHANGED wireVars
    BY <1>10 DEF Drop, Closed, ReceiveLogout, Leave
  <2>2. \A t \in Sess : sock'[t] = "open" => sock[t] = "open"
    BY <1>1, <1>10 DEF Drop, Closed, ReceiveLogout, Leave, SessionTypes
  <2> QED BY <1>1, <1>3, <2>1, <2>2 DEF wireVars, WireTypes
<1>11. ASSUME UNCHANGED <<sessionVars, wireVars>> PROVE WireMoves
  BY <1>1, <1>3, <1>11 DEF wireVars, sessionVars, WireTypes
<1>12. ASSUME NEW r \in Room, To(r) PROVE WireMoves
  BY <1>11, <1>12 DEF To
<1>13. ASSUME SendRefused \/ SendToNobody PROVE WireMoves
  BY <1>11, <1>13 DEF SendRefused, SendToNobody
<1>14. ASSUME NEW b \in Broadcast, SendToRoom(b) PROVE WireMoves
  <2>1. Recipients \in SUBSET Sess /\ \A s \in Recipients : state[s] # "unborn"
    BY <1>1 DEF Recipients, Blank, Born, SessionTypes
  <2>2. CanNumber(Recipients) /\ Numbered(Recipients) /\ Written(Recipients, b)
        /\ Awaited(Recipients, b) /\ sock' = sock
    BY <1>14 DEF SendToRoom, sessionVars
  <2>3. Called(b)
    BY <1>1, <1>14 DEF SendToRoom, Called, ServiceTypes
  <2>4. writes' \in [Sess -> Seq(Body)]
    <3>1. b \in Body
      BY DEF Body
    <3> QED BY <1>1, <2>1, <2>2, <3>1, AwaitedType
  <2> QED BY <1>4, <2>1, <2>2, <2>3, <2>4
<1>15. CASE UNCHANGED vars
  BY <1>11, <1>15 DEF vars
<1> QED BY <1>2, <1>6, <1>8, <1>9, <1>10, <1>12, <1>13, <1>14, <1>15 DEF Next

LEMMA ServiceTypesStep ==
  ASSUME ServiceTypes, [Next]_vars
  PROVE  ServiceTypes' /\ \A c \in Broadcast : call'[c] = "unused" => call[c] = "unused"
<1> DEFINE Goal == ServiceTypes' /\ \A c \in Broadcast : call'[c] = "unused" => call[c] = "unused"
<1>1. CASE UNCHANGED serviceVars
  BY <1>1 DEF serviceVars, ServiceTypes
<1>2. ASSUME NEW r \in Room, To(r) PROVE Goal
  BY <1>2 DEF To, ServiceTypes
<1>3. ASSUME SendRefused \/ SendToNobody \/ \E b \in Broadcast : SendToRoom(b) PROVE Goal
  BY <1>3 DEF SendRefused, SendToNobody, SendToRoom, ServiceTypes
<1>4. ASSUME NEW s \in Sess, NEW b \in Broadcast, BroadcastWritten(s, b) \/ BroadcastFails(s, b)
      PROVE  Goal
  BY <1>4 DEF BroadcastWritten, BroadcastFails, Settled, ServiceTypes
<1>5. ASSUME NEW s \in Sess, WriteCallback(s) PROVE Goal
  BY <1>1, <1>4, <1>5 DEF WriteCallback, LogonWritten, LogonFails, LogoutWritten, serviceVars
<1>6. ASSUME NEW s \in Sess,
             \/ Logon(s) \/ Heartbeat(s) \/ ReceiveTestRequest(s) \/ SendFresh(s)
             \/ ReceiveLogout(s) \/ Logout(s) \/ Drop(s) \/ Closed(s) \/ Leave(s)
      PROVE  UNCHANGED serviceVars
  BY <1>6 DEF Logon, Heartbeat, ReceiveTestRequest, SendFresh, ReceiveLogout, Logout, Drop,
              Closed, Leave, serviceVars
<1>7. UNCHANGED vars => UNCHANGED serviceVars
  BY DEF vars, serviceVars
<1> QED BY <1>1, <1>2, <1>3, <1>5, <1>6, <1>7 DEF Next

-----------------------------------------------------------------------------
(* The invariant *)

LEMMA InitWInv == Init => WInv
<1> SUFFICES ASSUME Init PROVE WInv
  OBVIOUS
<1>1. 1 \in 1..MaxSeqNum + 1 /\ << >> \in Seq(Entry) /\ << >> \in Seq(Body)
  BY MaxSeqNumAssumption
<1>2. TypeOK
  BY <1>1, TypeParts DEF Init, SessionTypes, WireTypes, ServiceTypes
<1>3. Blank /\ Ended
  BY DEF Init, Blank, Ended, Born
<1>4. Counted
  BY DEF Init, Counted
<1> QED BY <1>2, <1>3, <1>4 DEF WInv

\* The lengths of the wires, and the numbers taken, before and after a step.
LEMMA WireNumbers ==
  ASSUME TypeOK, WireTypes', NEW s \in Sess
  PROVE  /\ wire[s] \in Seq(Entry) /\ wire'[s] \in Seq(Entry)
         /\ next[s] \in Nat /\ next'[s] \in Nat
         /\ Len(wire[s]) \in Nat
<1>1. next[s] \in 1..MaxSeqNum + 1 /\ next'[s] \in 1..MaxSeqNum + 1 /\ MaxSeqNum \in Nat
  BY TypeParts, MaxSeqNumAssumption DEF WireTypes
<1>2. wire[s] \in Seq(Entry) /\ wire'[s] \in Seq(Entry)
  BY TypeParts DEF WireTypes
<1> QED BY <1>1, <1>2

\* What is added to a wire is one more element, with the number of its place.
LEMMA AddedWire ==
  ASSUME WInv, WireTypes', NEW s \in Sess, NEW b \in Broadcast \cup {None}, Added(s, b)
  PROVE  /\ next[s] = Len(wire[s]) + 1
         /\ Len(wire'[s]) = Len(wire[s]) + 1
         /\ DOMAIN wire[s] = 1..Len(wire[s]) /\ DOMAIN wire'[s] = 1..Len(wire[s]) + 1
         /\ \A k \in 1..Len(wire[s]) : wire'[s][k] = wire[s][k]
         /\ wire'[s][Len(wire[s]) + 1] = [num |-> Len(wire[s]) + 1, of |-> b]
<1> DEFINE e == [num |-> next[s], of |-> b]
<1>1. wire[s] \in Seq(Entry) /\ wire'[s] = Append(wire[s], e) /\ wire'[s] \in Seq(Entry)
      /\ next[s] \in Nat /\ next'[s] = next[s] + 1 /\ Len(wire[s]) \in Nat
  BY WireNumbers DEF WInv, Added
<1>2. next[s] = Len(wire[s]) + 1
  <2>1. CASE sock[s] = "open"
    BY <2>1 DEF WInv, Counted
  <2>2. CASE ~Born(s)
    BY <2>2 DEF WInv, Blank
  <2> QED BY <2>1, <2>2 DEF Added
<1>3. wire[s] \in Seq(Entry \cup {e}) /\ e \in Entry \cup {e}
  BY <1>1
<1> HIDE DEF e
<1>4. /\ Len(wire'[s]) = Len(wire[s]) + 1
      /\ DOMAIN wire[s] = 1..Len(wire[s]) /\ DOMAIN wire'[s] = 1..Len(wire[s]) + 1
      /\ \A k \in 1..Len(wire[s]) : wire'[s][k] = wire[s][k]
      /\ wire'[s][Len(wire[s]) + 1] = e
  BY <1>1, <1>3, Appending
<1> QED BY <1>2, <1>4 DEF e

LEMMA WInvStep == WInv /\ [Next]_vars => WInv'
<1> SUFFICES ASSUME WInv, [Next]_vars PROVE WInv'
  OBVIOUS
<1>1. SessionTypes /\ WireTypes /\ ServiceTypes /\ TypeOK /\ Blank
  BY TypeParts DEF WInv
<1>2. WireMoves
  BY WriteStep
<1>3. TypeOK'
  <2>1. SessionTypes' /\ WireTypes' /\ ServiceTypes'
    BY <1>1, <1>2, SessionTypesStep, ServiceTypesStep DEF WireMoves
  <2> QED BY <2>1 DEF TypeOK, SessionTypes, WireTypes, ServiceTypes, Entry, Body
<1>4. PICK b \in Broadcast \cup {None} : Writes(b)
  BY <1>2 DEF WireMoves
<1>5. Ended'
  BY BirthStep
<1>6. Blank'
  <2> SUFFICES ASSUME NEW s \in Sess, state'[s] = "unborn"
               PROVE  sock'[s] = "unused" /\ s \notin sessions' /\ next'[s] = 1 /\ wire'[s] = << >>
    BY DEF Blank, Born
  <2>1. state[s] = "unborn" /\ sock'[s] = sock[s] /\ (s \in sessions' => s \in sessions)
    BY BirthStep
  <2>2. next'[s] = next[s] /\ wire'[s] = wire[s]
    BY <1>4 DEF Writes
  <2> QED BY <1>1, <2>1, <2>2 DEF Blank, Born
<1>7. Counted'
  <2> SUFFICES ASSUME NEW s \in Sess, sock'[s] = "open"
               PROVE  next'[s] = Len(wire'[s]) + 1
    BY DEF Counted
  <2>1. CASE Kept(s)
    BY <2>1 DEF Kept, WInv, Counted
  <2>2. CASE Added(s, b)
    <3>1. next[s] = Len(wire[s]) + 1 /\ Len(wire'[s]) = Len(wire[s]) + 1
      BY <1>2, <2>2, AddedWire DEF WireMoves
    <3> QED BY <2>2, <3>1 DEF Added
  <2> QED BY <1>4, <2>1, <2>2 DEF Writes
<1> QED BY <1>3, <1>5, <1>6, <1>7 DEF WInv

LEMMA AlwaysWInv == Spec => []WInv
BY InitWInv, WInvStep, PTL DEF Spec

\* The variables have their types; the number of a message never passes the bound that
\* TLC is given (session.ts:43-62, fix.service.ts:12-20).
THEOREM TypeCorrect == Spec => []TypeOK
<1>1. WInv => TypeOK
  BY DEF WInv
<1> QED BY <1>1, AlwaysWInv, PTL

-----------------------------------------------------------------------------
(* Numbers, silence and order *)

\* The peer of a session sees 1, 2, 3 ... without a gap or a repeat, however
\* heartbeats, answers, broadcasts and logouts overlap (session.ts:124-210).
THEOREM NumbersInSequence == Spec => []SequenceIntact
<1>1. Init => SequenceIntact
  BY DEF Init, SequenceIntact
<1>2. ASSUME WInv, SequenceIntact, [Next]_vars PROVE SequenceIntact'
  <2>1. WireMoves
    BY <1>2, WriteStep
  <2>2. PICK b \in Broadcast \cup {None} : Writes(b)
    BY <2>1 DEF WireMoves
  <2> SUFFICES ASSUME NEW s \in Sess, NEW k \in DOMAIN wire'[s] PROVE wire'[s][k].num = k
    BY DEF SequenceIntact
  <2>3. CASE Kept(s)
    BY <1>2, <2>3 DEF Kept, SequenceIntact
  <2>4. CASE Added(s, b)
    <3>1. /\ DOMAIN wire[s] = 1..Len(wire[s]) /\ DOMAIN wire'[s] = 1..Len(wire[s]) + 1
          /\ \A i \in 1..Len(wire[s]) : wire'[s][i] = wire[s][i]
          /\ wire'[s][Len(wire[s]) + 1] = [num |-> Len(wire[s]) + 1, of |-> b]
      BY <1>2, <2>1, <2>4, AddedWire DEF WireMoves
    <3>2. Len(wire[s]) \in Nat
      BY <1>2, <2>1, WireNumbers DEF WInv, WireMoves
    <3>3. k \in 1..Len(wire[s]) \/ k = Len(wire[s]) + 1
      BY <3>1, <3>2
    <3>4. CASE k \in 1..Len(wire[s])
      BY <1>2, <3>1, <3>4 DEF SequenceIntact
    <3>5. CASE k = Len(wire[s]) + 1
      BY <3>1, <3>5
    <3> QED BY <3>3, <3>4, <3>5
  <2> QED BY <2>2, <2>3, <2>4 DEF Writes
<1> QED BY <1>1, <1>2, AlwaysWInv, PTL DEF Spec

\* A session that was disconnected writes nothing more once the turn of its end is over,
\* whatever its disconnected handlers called in that turn and although sendMessage never
\* looks at the state: the socket is no longer writable (session.ts:102-112, 258-268).
THEOREM DisconnectedIsSilent == Spec => SilentOnceDisconnected
<1> DEFINE Silent == \A s \in Sess : state[s] = "DISCONNECTED" /\ leaving # s => wire'[s] = wire[s]
<1>1. ASSUME WInv, [Next]_vars PROVE [Silent]_vars
  <2>1. PICK b \in Broadcast \cup {None} : Writes(b)
    BY <1>1, WriteStep DEF WireMoves
  <2> SUFFICES ASSUME NEW s \in Sess, state[s] = "DISCONNECTED", leaving # s
               PROVE  wire'[s] = wire[s]
    OBVIOUS
  <2>2. ~Added(s, b)
    BY <1>1 DEF WInv, Ended, Added, Born
  <2> QED BY <2>1, <2>2 DEF Writes, Kept
<1> QED BY <1>1, AlwaysWInv, PTL DEF Spec, SilentOnceDisconnected

\* No wire has a broadcast twice, nor one that nobody sent.
Once == \A s \in Sess, b \in Broadcast :
          /\ \A i, j \in At(s, b) : i = j
          /\ At(s, b) # {} => call[b] # "unused"

\* Where a broadcast is after the step that writes c.
LEMMA AtStep ==
  ASSUME WInv, WireTypes', NEW c \in Broadcast \cup {None}, Writes(c), Called(c), Once,
         NEW s \in Sess, NEW b \in Broadcast
  PROVE  /\ At(s, b) \subseteq 1..Len(wire[s]) /\ Len(wire[s]) \in Nat
         /\ b # c => At(s, b)' = At(s, b)
         /\ b = c => At(s, b) = {} /\ At(s, b)' \subseteq {Len(wire[s]) + 1}
<1>1. wire[s] \in Seq(Entry) /\ Len(wire[s]) \in Nat
  BY WireNumbers DEF WInv
<1>2. At(s, b) \subseteq 1..Len(wire[s])
  BY <1>1 DEF At
<1>3. b = c => At(s, b) = {}
  BY DEF Once, Called
<1>4. CASE Kept(s)
  <2>1. At(s, b)' = At(s, b)
    BY <1>4 DEF Kept, At
  <2> QED BY <1>1, <1>2, <1>3, <2>1
<1>5. CASE Added(s, c)
  <2>1. /\ DOMAIN wire[s] = 1..Len(wire[s]) /\ DOMAIN wire'[s] = 1..Len(wire[s]) + 1
        /\ \A i \in 1..Len(wire[s]) : wire'[s][i] = wire[s][i]
        /\ wire'[s][Len(wire[s]) + 1] = [num |-> Len(wire[s]) + 1, of |-> c]
    BY <1>5, AddedWire
  <2>2. 1..Len(wire[s]) + 1 = 1..Len(wire[s]) \cup {Len(wire[s]) + 1}
    BY <1>1
  <2>3. At(s, b)' = At(s, b) \cup {k \in {Len(wire[s]) + 1} : c = b}
    BY <2>1, <2>2 DEF At
  <2> QED BY <1>1, <1>2, <1>3, <2>3
<1> QED BY <1>4, <1>5 DEF Writes

\* Two broadcasts come in one order to every session that gets both, however their
\* rooms and their calls overlap (fix.service.ts:78-92).
THEOREM BroadcastsInOneOrder == Spec => []SameOrder
<1>1. Init => Once /\ SameOrder
  BY DEF Init, Once, SameOrder, At
<1>2. ASSUME WInv, Once, SameOrder, [Next]_vars PROVE Once' /\ SameOrder'
  <2>1. WireMoves /\ WireTypes'
    BY <1>2, WriteStep DEF WireMoves
  <2>2. PICK d \in Broadcast \cup {None} : Writes(d) /\ Called(d)
    BY <2>1 DEF WireMoves
  <2>3. ServiceTypes
    BY <1>2, TypeParts DEF WInv
  <2>4. \A s \in Sess, b \in Broadcast :
          /\ At(s, b) \subseteq 1..Len(wire[s]) /\ Len(wire[s]) \in Nat
          /\ b # d => At(s, b)' = At(s, b)
          /\ b = d => At(s, b) = {} /\ At(s, b)' \subseteq {Len(wire[s]) + 1}
    BY <1>2, <2>1, <2>2, AtStep
  <2>5. Once'
    <3> SUFFICES ASSUME NEW s \in Sess, NEW b \in Broadcast
                 PROVE  /\ \A i, j \in At(s, b)' : i = j
                        /\ At(s, b)' # {} => call'[b] # "unused"
      BY DEF Once
    <3>1. CASE b # d
      BY <1>2, <2>3, <2>4, <3>1, ServiceTypesStep DEF Once
    <3>2. CASE b = d
      BY <2>2, <2>4, <3>2 DEF Called
    <3> QED BY <3>1, <3>2
  <2>6. SameOrder'
    <3> SUFFICES ASSUME NEW s \in Sess, NEW t \in Sess, NEW b \in Broadcast, NEW c \in Broadcast,
                        NEW i \in At(s, b)', NEW j \in At(s, c)',
                        NEW k \in At(t, b)', NEW l \in At(t, c)', i < j
                 PROVE  k < l
      BY DEF SameOrder
    <3>1. CASE b # d /\ c # d
      BY <1>2, <2>4, <3>1 DEF SameOrder
    <3>2. CASE b = d
      \* b is the last on the wire of s
      <4>1. i = Len(wire[s]) + 1 /\ Len(wire[s]) \in Nat
        BY <2>4, <3>2
      <4>2. j \in 1..Len(wire[s]) \/ j = Len(wire[s]) + 1
        BY <2>4
      <4> QED BY <4>1, <4>2
    <3>3. CASE b # d /\ c = d
      <4>1. l = Len(wire[t]) + 1 /\ Len(wire[t]) \in Nat
        BY <2>4, <3>3
      <4>2. k \in 1..Len(wire[t])
        BY <2>4, <3>3
      <4> QED BY <4>1, <4>2
    <3> QED BY <3>1, <3>2, <3>3
  <2> QED BY <2>5, <2>6
<1> QED BY <1>1, <1>2, AlwaysWInv, PTL DEF Spec

-----------------------------------------------------------------------------
(* The shared target *)

\* A send() without a to() before it is refused, unless a call is waiting: the target of
\* an earlier call is never left behind (fix.service.ts:64 and 95-97).
THEOREM TargetNeverStale == Spec => []NoStaleTarget
<1>1. Init => NoStaleTarget
  BY DEF Init, NoStaleTarget
<1>2. ASSUME TypeOK, NoStaleTarget, [Next]_vars PROVE NoStaleTarget'
  <2>1. ServiceTypes
    BY <1>2, TypeParts
  <2>2. CASE UNCHANGED serviceVars
    BY <1>2, <2>2 DEF serviceVars, NoStaleTarget
  <2>3. ASSUME NEW r \in Room, To(r) PROVE NoStaleTarget'
    BY <2>3 DEF To, NoStaleTarget
  <2>4. ASSUME SendRefused \/ SendToNobody PROVE NoStaleTarget'
    BY <2>4 DEF SendRefused, SendToNobody, NoStaleTarget
  <2>5. ASSUME NEW b \in Broadcast, SendToRoom(b) PROVE NoStaleTarget'
    <3>1. targetId' = None \/ call' = [call EXCEPT ![b] = "waiting"]
      BY <2>5 DEF SendToRoom
    <3> QED BY <2>1, <3>1 DEF NoStaleTarget, ServiceTypes
  <2>6. ASSUME NEW s \in Sess, NEW b \in Broadcast,
               BroadcastWritten(s, b) \/ BroadcastFails(s, b)
        PROVE  NoStaleTarget'
    <3>1. asked' = asked /\ (targetId' = None \/ UNCHANGED <<call, targetId>>)
      BY <2>6 DEF BroadcastWritten, BroadcastFails, Settled
    <3> QED BY <1>2, <3>1 DEF NoStaleTarget
  <2>7. ASSUME NEW s \in Sess, WriteCallback(s) PROVE NoStaleTarget'
    BY <2>2, <2>6, <2>7 DEF WriteCallback, LogonWritten, LogonFails, LogoutWritten, serviceVars
  <2>8. ASSUME NEW s \in Sess,
               \/ Logon(s) \/ Heartbeat(s) \/ ReceiveTestRequest(s) \/ SendFresh(s)
               \/ ReceiveLogout(s) \/ Logout(s) \/ Drop(s) \/ Closed(s) \/ Leave(s)
        PROVE  UNCHANGED serviceVars
    BY <2>8 DEF Logon, Heartbeat, ReceiveTestRequest, SendFresh, ReceiveLogout, Logout, Drop,
                Closed, Leave, serviceVars
  <2>9. UNCHANGED vars => UNCHANGED serviceVars
    BY DEF vars, serviceVars
  <2> QED BY <1>2, <2>2, <2>3, <2>4, <2>5, <2>7, <2>8, <2>9 DEF Next
<1> QED BY <1>1, <1>2, TypeCorrect, PTL DEF Spec
-----------------------------------------------------------------------------
(* What is waited for is on its way: the part of SendReturns and           *)
(* EndIsAnnounced that is a safety property. That callbacks run in the end *)
(* is left to TLC.                                                         *)

LEMMA TailKeeps ==
  ASSUME NEW S, NEW q \in Seq(S), NEW e \in ToSet(q), e # Head(q)
  PROVE  e \in ToSet(Tail(q))
<1>1. PICK k \in 1..Len(q) : e = q[k]
  BY DEF ToSet
<1>2. q # << >> /\ Len(q) \in Nat /\ Head(q) = q[1]
  BY <1>1
<1>3. k \in Nat /\ k > 1 /\ k <= Len(q)
  BY <1>1, <1>2
<1>4. Tail(q) \in Seq(S) /\ Len(Tail(q)) = Len(q) - 1
  BY <1>2
<1>5. k - 1 \in 1..Len(Tail(q)) /\ Tail(q)[k - 1] = q[(k - 1) + 1]
  BY <1>2, <1>3, <1>4
<1>6. DOMAIN Tail(q) = 1..Len(Tail(q)) /\ (k - 1) + 1 = k
  BY <1>3, <1>4
<1> QED BY <1>1, <1>5, <1>6 DEF ToSet

LEMMA AppendKeeps ==
  ASSUME NEW S, NEW q \in Seq(S), NEW e \in S
  PROVE  ToSet(Append(q, e)) = ToSet(q) \cup {e}
<1>1. Len(q) \in Nat /\ 1..Len(q) + 1 = 1..Len(q) \cup {Len(q) + 1}
  OBVIOUS
<1> QED BY <1>1, Appending DEF ToSet

\* Nothing is written to the socket of a session that is not born yet.
NotYetWritten == \A s \in Sess : ~Born(s) => writes[s] = << >>

\* The turns of a socket that run a callback.
CompletesIn(s, x) ==
  \/ x = "logon" /\ (LogonWritten(s) \/ LogonFails(s))
  \/ x = "logout" /\ LogoutWritten(s)
  \/ x \in Broadcast /\ (BroadcastWritten(s, x) \/ BroadcastFails(s, x))

\* What a step does to the awaited writes: all stay but the one whose callback runs,
\* and only a send() adds one of a broadcast.
LEMMA WritesStep ==
  ASSUME WInv, NotYetWritten, [Next]_vars
  PROVE  /\ NotYetWritten'
         /\ \A s \in Sess : \A x \in ToSet(writes[s]) :
              \/ x \in ToSet(writes'[s])
              \/ x = Head(writes[s]) /\ CompletesIn(s, x)
<1> DEFINE Goal == \A s \in Sess : \A x \in ToSet(writes[s]) :
             \/ x \in ToSet(writes'[s])
             \/ x = Head(writes[s]) /\ CompletesIn(s, x)
<1>0. SessionTypes /\ WireTypes /\ ServiceTypes /\ TypeOK /\ Blank
  BY TypeParts DEF WInv
<1>1. \A s \in Sess : state'[s] = "unborn" => state[s] = "unborn"
  BY BirthStep
<1>2. ASSUME NEW s \in Sess, Logon(s) PROVE Goal /\ NotYetWritten'
  <2>1. writes[s] = << >> /\ writes' = [writes EXCEPT ![s] = <<"logon">>]
        /\ state' = [state EXCEPT ![s] = "LOGGED_ON"]
    BY <1>2 DEF Logon, NotYetWritten
  <2>2. \A t \in Sess : t # s => writes'[t] = writes[t] /\ state'[t] = state[t]
    BY <1>0, <2>1 DEF WireTypes, SessionTypes
  <2>3. state'[s] = "LOGGED_ON"
    BY <1>0, <2>1 DEF SessionTypes
  <2>4. ToSet(writes[s]) = {}
    BY <2>1 DEF ToSet
  <2> QED BY <2>2, <2>3, <2>4 DEF NotYetWritten, Born
<1>3. ASSUME NEW S \in SUBSET Sess, NEW x \in Body, Awaited(S, x), \A s \in S : Born(s)
      PROVE  Goal /\ NotYetWritten'
  <2>1. \A s \in Sess : writes[s] \in Seq(Body)
    BY <1>0 DEF WireTypes
  <2>2. \A s \in Sess : writes'[s] = writes[s] \/ (s \in S /\ writes'[s] = Append(writes[s], x))
    BY <1>3 DEF Awaited
  <2>3. ASSUME NEW s \in Sess, NEW y \in ToSet(writes[s]) PROVE y \in ToSet(writes'[s])
    <3>1. ToSet(Append(writes[s], x)) = ToSet(writes[s]) \cup {x}
      BY <2>1, AppendKeeps
    <3> QED BY <2>2, <3>1
  <2>4. ASSUME NEW s \in Sess, state'[s] = "unborn" PROVE writes'[s] = << >>
    <3>1. state[s] = "unborn" /\ s \notin S
      BY <1>1, <1>3, <2>4 DEF Born
    <3> QED BY <2>2, <3>1 DEF NotYetWritten, Born
  <2>5. NotYetWritten'
    BY <2>4 DEF NotYetWritten, Born
  <2> QED BY <2>3, <2>5
<1>4. ASSUME NEW s \in Sess, NEW x, Completes(s, x), CompletesIn(s, x)
      PROVE  Goal /\ NotYetWritten'
  <2>1. /\ writes \in [Sess -> Seq(Body)] /\ writes[s] # << >> /\ Head(writes[s]) = x
        /\ writes' = [writes EXCEPT ![s] = Tail(@)]
    BY <1>0, <1>4 DEF Completes, WireTypes
  <2>2. writes'[s] = Tail(writes[s]) /\ \A t \in Sess : t # s => writes'[t] = writes[t]
    BY <2>1
  <2>3. \A y \in ToSet(writes[s]) : y # Head(writes[s]) => y \in ToSet(Tail(writes[s]))
    BY <2>1, TailKeeps
  <2>4. Goal
    BY <1>4, <2>1, <2>2, <2>3
  <2> QED BY <1>1, <2>1, <2>2, <2>4 DEF NotYetWritten, Born
<1>5. UNCHANGED writes => Goal /\ NotYetWritten'
  BY <1>1 DEF NotYetWritten, Born
<1> HIDE DEF Goal
<1>6. ASSUME NEW s \in Sess,
             \/ Heartbeat(s) \/ ReceiveTestRequest(s) \/ SendFresh(s) \/ ReceiveLogout(s)
             \/ Drop(s) \/ Closed(s) \/ Leave(s)
      PROVE  UNCHANGED writes
  BY <1>6 DEF Heartbeat, ReceiveTestRequest, SendFresh, SendMessage, ReceiveLogout, Drop, Closed,
              Leave, wireVars
<1>7. ASSUME NEW s \in Sess, Logout(s) PROVE Goal /\ NotYetWritten'
  <2>1. Awaited({s}, "logout") /\ Born(s) /\ "logout" \in Body
    BY <1>7 DEF Logout, Body
  <2> QED BY <1>3, <2>1
<1>8. ASSUME NEW s \in Sess, WriteCallback(s) PROVE Goal /\ NotYetWritten'
  <2>1. CASE LogonWritten(s) \/ LogonFails(s)
    BY <1>4, <2>1 DEF LogonWritten, LogonFails, CompletesIn
  <2>2. CASE LogoutWritten(s)
    BY <1>4, <2>2 DEF LogoutWritten, CompletesIn
  <2>3. ASSUME NEW b \in Broadcast, BroadcastWritten(s, b) \/ BroadcastFails(s, b)
        PROVE  Goal /\ NotYetWritten'
    BY <1>4, <2>3 DEF BroadcastWritten, BroadcastFails, CompletesIn
  <2> QED BY <1>8, <2>1, <2>2, <2>3 DEF WriteCallback
<1>9. ASSUME NEW b \in Broadcast, SendToRoom(b) PROVE Goal /\ NotYetWritten'
  <2>1. Awaited(Recipients, b) /\ b \in Body
    BY <1>9 DEF SendToRoom, Body
  <2>2. Recipients \in SUBSET Sess /\ \A s \in Recipients : Born(s)
    BY <1>0 DEF Recipients, Blank, SessionTypes
  <2> QED BY <1>3, <2>1, <2>2
<1>10. ASSUME SendRefused \/ SendToNobody PROVE UNCHANGED writes
  BY <1>10 DEF SendRefused, SendToNobody, wireVars
<1>11. ASSUME NEW r \in Room, To(r) PROVE UNCHANGED writes
  BY <1>11 DEF To, wireVars
<1>12. UNCHANGED vars => UNCHANGED writes
  BY DEF vars, wireVars
<1>13. Goal /\ NotYetWritten'
  BY <1>2, <1>5, <1>6, <1>7, <1>8, <1>9, <1>10, <1>11, <1>12 DEF Next
<1> QED BY <1>13 DEF Goal

\* A send() that waits has a write of its own that is still to be answered, whichever
\* of its sessions end meanwhile and whatever other calls do to the shared target: the
\* last callback settles it (fix.service.ts:78-97).
CallsAreAwaited ==
  \A b \in Broadcast : call[b] = "waiting" => \E s \in Sess : b \in ToSet(writes[s])

LEMMA CallsAreAwaitedStep ==
  ASSUME WInv, NotYetWritten, CallsAreAwaited, [Next]_vars
  PROVE  CallsAreAwaited'
<1>0. ServiceTypes /\ WireTypes /\ SessionTypes
  BY TypeParts DEF WInv
<1> SUFFICES ASSUME NEW b \in Broadcast, call'[b] = "waiting"
             PROVE  \E s \in Sess : b \in ToSet(writes'[s])
  BY DEF CallsAreAwaited
<1>1. CASE call[b] = "waiting"
  <2>1. PICK s \in Sess : b \in ToSet(writes[s])
    BY <1>1 DEF CallsAreAwaited
  <2>2. CASE b \in ToSet(writes'[s])
    BY <2>2
  <2>3. CASE CompletesIn(s, b)
    <3>1. BroadcastWritten(s, b) \/ BroadcastFails(s, b)
      BY <2>3, BodyAssumption DEF CompletesIn
    <3>2. ~BroadcastFails(s, b) /\ ~Settled(b, "returned")
      BY <1>0, <1>1 DEF BroadcastFails, Settled, ServiceTypes
    <3>3. ~LastWriteOf(b)
      BY <1>1, <3>1, <3>2 DEF BroadcastWritten
    <3> QED BY <3>3 DEF LastWriteOf
  <2> QED BY <2>1, <2>2, <2>3, WritesStep
<1>2. CASE call[b] # "waiting"
  <2>1. ASSUME NEW c \in Broadcast, SendToRoom(c)
        PROVE  \E s \in Sess : b \in ToSet(writes'[s])
    <3>1. c = b /\ ~\E s \in Recipients : ~Writable(s)
      BY <1>0, <1>2, <2>1 DEF SendToRoom, ServiceTypes
    <3>2. PICK s \in Recipients : s \in Sess /\ Writable(s)
      BY <1>0, <2>1, <3>1 DEF SendToRoom, Recipients, SessionTypes
    <3>3. writes'[s] = Append(writes[s], b)
      BY <2>1, <3>1, <3>2 DEF SendToRoom, Awaited
    <3>4. writes[s] \in Seq(Body) /\ b \in Body
      BY <1>0, <3>2 DEF WireTypes, Body
    <3>5. b \in ToSet(writes'[s])
      BY <3>3, <3>4, AppendKeeps
    <3> QED BY <3>2, <3>5
  <2>2. ASSUME SendRefused \/ SendToNobody PROVE FALSE
    BY <1>0, <1>2, <2>2 DEF SendRefused, SendToNobody, ServiceTypes
  <2>3. ASSUME NEW s \in Sess, NEW c \in Broadcast, BroadcastWritten(s, c) \/ BroadcastFails(s, c)
        PROVE  FALSE
    BY <1>0, <1>2, <2>3 DEF BroadcastWritten, BroadcastFails, Settled, ServiceTypes
  <2>4. ASSUME NEW s \in Sess, WriteCallback(s) PROVE FALSE
    BY <1>2, <2>3, <2>4 DEF WriteCallback, LogonWritten, LogonFails, LogoutWritten, serviceVars
  <2>5. ASSUME NEW s \in Sess,
               \/ Logon(s) \/ Heartbeat(s) \/ ReceiveTestRequest(s) \/ SendFresh(s)
               \/ ReceiveLogout(s) \/ Logout(s) \/ Drop(s) \/ Closed(s) \/ Leave(s)
        PROVE  FALSE
    BY <1>2, <2>5 DEF Logon, Heartbeat, ReceiveTestRequest, SendFresh, ReceiveLogout, Logout,
                      Drop, Closed, Leave, serviceVars
  <2>6. ASSUME NEW r \in Room, To(r) PROVE FALSE
    BY <1>2, <2>6 DEF To
  <2>7. UNCHANGED vars => FALSE
    BY <1>2 DEF vars, serviceVars
  <2> QED BY <2>1, <2>2, <2>4, <2>5, <2>6, <2>7 DEF Next
<1> QED BY <1>1, <1>2

\* Promise.all of send() never waits for writes that are all answered, for any rooms and
\* any overlap of calls (fix.service.ts:78-97).
THEOREM CallsAlwaysAwaited == Spec => []CallsAreAwaited
<1>1. Init => WInv /\ NotYetWritten /\ CallsAreAwaited
  BY InitWInv DEF Init, NotYetWritten, CallsAreAwaited
<1>2. WInv /\ NotYetWritten /\ CallsAreAwaited /\ [Next]_vars
      => (WInv /\ NotYetWritten /\ CallsAreAwaited)'
  BY WInvStep, WritesStep, CallsAreAwaitedStep
<1> QED BY <1>1, <1>2, PTL DEF Spec

\* No session ends in silence: once its socket has lost its listeners, by whichever of
\* its ends, or has closed, its disconnected handlers ran and it is not registered, or
\* they run in this turn (session.ts:307-317, message.handler.ts:196-202,
\* acceptor.ts:201-215).
EndsAnnounced ==
  /\ \A s \in Sess : sock[s] = "closed" /\ leaving # s => Born(s) /\ s \notin attended
  /\ \A s \in Sess : Born(s) /\ s \notin attended => s \in told /\ s \notin sessions
  /\ \A s \in Sess : leaving = s => Born(s) /\ s \in told

LEMMA EndsAnnouncedStep ==
  ASSUME WInv, NotYetWritten, EndsAnnounced, [Next]_vars
  PROVE  EndsAnnounced'
<1>1. SessionTypes /\ Blank
  BY TypeParts DEF WInv
<1>2. CASE UNCHANGED sessionVars
  BY <1>2 DEF sessionVars, EndsAnnounced, Born
<1>3. ASSUME NEW s \in Sess, Logon(s) PROVE EndsAnnounced'
  <2>1. /\ state' = [state EXCEPT ![s] = "LOGGED_ON"] /\ sock' = [sock EXCEPT ![s] = "open"]
        /\ attended' = attended \cup {s} /\ sessions' = sessions \cup {s}
        /\ told' = told /\ leaving' = leaving
    BY <1>3 DEF Logon
  <2>2. state'[s] = "LOGGED_ON" /\ sock'[s] = "open" /\ s \in attended' /\ leaving # s
    BY <1>1, <1>3, <2>1, NoneAssumption DEF SessionTypes, Logon, Idle
  <2>3. \A t \in Sess \ {s} : state'[t] = state[t] /\ sock'[t] = sock[t]
    BY <1>1, <2>1 DEF SessionTypes
  <2> QED BY <2>1, <2>2, <2>3 DEF EndsAnnounced, Born
<1>4. ASSUME NEW s \in Sess, Born(s), Disconnecting(s), UNCHANGED <<attended, sessions>>,
             \A t \in Sess \ {s} : sock'[t] = sock[t]
      PROVE EndsAnnounced'
  <2>1. /\ state' = [state EXCEPT ![s] = "DISCONNECTED"]
        /\ told' = told \cup {s} /\ leaving' = s /\ leaving \notin Sess
    BY <1>4, NoneAssumption DEF Disconnecting, Idle
  <2>2. state'[s] = "DISCONNECTED" /\ \A t \in Sess \ {s} : state'[t] = state[t]
    BY <1>1, <2>1 DEF SessionTypes
  <2> QED BY <1>4, <2>1, <2>2 DEF EndsAnnounced, Born
<1>5. ASSUME NEW s \in Sess, Logout(s) PROVE EndsAnnounced'
  <2>1. UNCHANGED <<sock, attended, sessions>> /\ Born(s)
    BY <1>5 DEF Logout
  <2>2. CASE state' = [state EXCEPT ![s] = "LOGGING_OUT"] /\ UNCHANGED <<told, leaving>>
    <3>1. state'[s] = "LOGGING_OUT" /\ \A t \in Sess \ {s} : state'[t] = state[t]
      BY <1>1, <2>2 DEF SessionTypes
    <3> QED BY <2>1, <2>2, <3>1 DEF EndsAnnounced, Born
  <2> QED BY <1>4, <1>5, <2>1, <2>2 DEF Logout
<1>6. ASSUME NEW s \in Sess, LogonFails(s), Born(s) PROVE EndsAnnounced'
  <2>1. /\ state' = [state EXCEPT ![s] = "ERROR"]
        /\ UNCHANGED <<sock, attended, told, leaving, sessions>>
    BY <1>6 DEF LogonFails
  <2>2. state'[s] = "ERROR" /\ \A t \in Sess \ {s} : state'[t] = state[t]
    BY <1>1, <2>1 DEF SessionTypes
  <2> QED BY <1>6, <2>1, <2>2 DEF EndsAnnounced, Born
<1>7. ASSUME NEW s \in Sess, Drop(s) PROVE EndsAnnounced'
  <2>1. sock'[s] = "down" /\ \A t \in Sess \ {s} : sock'[t] = sock[t]
    BY <1>1, <1>7 DEF Drop, SessionTypes
  <2>2. UNCHANGED <<state, attended, told, leaving, sessions>>
    BY <1>7 DEF Drop
  <2> QED BY <2>1, <2>2 DEF EndsAnnounced, Born
<1>8. ASSUME NEW s \in Sess, Closed(s) PROVE EndsAnnounced'
  <2>1. sock[s] = "down" /\ sock' = [sock EXCEPT ![s] = "closed"]
        /\ UNCHANGED <<attended, sessions>> /\ Born(s)
    BY <1>1, <1>8 DEF Closed, Blank
  <2>2. \A t \in Sess \ {s} : sock'[t] = sock[t]
    BY <1>1, <2>1 DEF SessionTypes
  <2>3. CASE Disconnecting(s)
    BY <1>4, <2>1, <2>2, <2>3
  <2>4. CASE s \notin attended /\ UNCHANGED <<state, told, leaving>>
    BY <2>1, <2>2, <2>4 DEF EndsAnnounced, Born
  <2> QED BY <1>8, <2>3, <2>4 DEF Closed
<1>9. ASSUME NEW s \in Sess, WriteCallback(s) PROVE EndsAnnounced'
  <2>1. CASE LogonWritten(s)
    BY <1>2, <2>1 DEF LogonWritten
  <2>2. ASSUME LogonFails(s) \/ LogoutWritten(s) PROVE Born(s)
    BY <2>2 DEF LogonFails, LogoutWritten, Completes, NotYetWritten
  <2>3. CASE LogoutWritten(s)
    BY <1>4, <2>2, <2>3 DEF LogoutWritten
  <2>4. ASSUME NEW b \in Broadcast, BroadcastWritten(s, b) \/ BroadcastFails(s, b)
        PROVE  EndsAnnounced'
    BY <1>2, <2>4 DEF BroadcastWritten, BroadcastFails
  <2> QED BY <1>6, <1>9, <2>1, <2>2, <2>3, <2>4 DEF WriteCallback
<1>10. ASSUME NEW s \in Sess, Heartbeat(s) \/ ReceiveTestRequest(s) \/ SendFresh(s)
       PROVE  EndsAnnounced'
  BY <1>2, <1>10 DEF Heartbeat, ReceiveTestRequest, SendFresh
<1>11. ASSUME NEW s \in Sess, ReceiveLogout(s) PROVE EndsAnnounced'
  <2>1. Born(s) /\ Disconnecting(s) /\ UNCHANGED <<sock, attended, sessions>>
    BY <1>1, <1>11 DEF ReceiveLogout, Readable, Blank
  <2> QED BY <1>4, <2>1
<1>12. ASSUME SendRefused \/ SendToNobody \/ \E b \in Broadcast : SendToRoom(b)
       PROVE  EndsAnnounced'
  BY <1>2, <1>12 DEF SendRefused, SendToNobody, SendToRoom
<1>13. ASSUME NEW r \in Room, To(r) PROVE EndsAnnounced'
  BY <1>2, <1>13 DEF To
<1>14. ASSUME NEW s \in Sess, Leave(s) PROVE EndsAnnounced'
  <2>1. /\ leaving = s /\ leaving' = None /\ UNCHANGED <<state, told>>
        /\ attended' = attended \ {s} /\ sessions' = sessions \ {s}
        /\ sock' = [sock EXCEPT ![s] = IF @ = "open" THEN "down" ELSE @]
    BY <1>14 DEF Leave
  <2>2. \A t \in Sess \ {s} : sock'[t] = sock[t]
    BY <1>1, <2>1 DEF SessionTypes
  <2> QED BY <2>1, <2>2, NoneAssumption DEF EndsAnnounced, Born
<1>15. UNCHANGED vars => EndsAnnounced'
  BY <1>2 DEF vars
<1> QED BY <1>3, <1>5, <1>7, <1>8, <1>9, <1>10, <1>11, <1>12, <1>13, <1>14, <1>15 DEF Next

\* Whoever takes the listeners off a socket has told the handlers of its session and
\* removed it from the registry in the same turn (session.ts:307-317).
THEOREM EndsAlwaysAnnounced == Spec => []EndsAnnounced
<1>1. Init => WInv /\ NotYetWritten /\ EndsAnnounced
  BY InitWInv, NoneAssumption DEF Init, NotYetWritten, EndsAnnounced, Born
<1>2. WInv /\ NotYetWritten /\ EndsAnnounced /\ [Next]_vars
      => (WInv /\ NotYetWritten /\ EndsAnnounced)'
  BY WInvStep, WritesStep, EndsAnnouncedStep
<1> QED BY <1>1, <1>2, PTL DEF Spec
=============================================================================
