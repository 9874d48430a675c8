--------------------------- MODULE SessionTraffic ---------------------------
(***************************************************************************)
(* What sessions put on the wire: Session.sendMessage and everything that  *)
(* calls it (session/session.ts), the broadcasts of FixService             *)
(* (services/fix.service.ts) over rooms and registry, and how a session    *)
(* that ends stops sending.                                                *)
(*                                                                         *)
(* Every session here has a socket and an identifier of its own, so one    *)
(* name stands for the three; sessions that share a socket or follow each  *)
(* other under one identifier are the subject of AcceptorSessions. One     *)
(* action is one turn of the event loop, but for the end of a session: its *)
(* turn has the calls of its disconnected handlers in the middle. Handlers *)
(* do not throw.                                                           *)
(***************************************************************************)
EXTENDS Naturals, Sequences, FiniteSets, SequencesExt

CONSTANTS
  Sess,        \* sessions, each with its own socket and identifier
  Room,        \* rooms of the application
  Broadcast,   \* calls of FixService.send that have recipients, each with its own message
  None,        \* null
  MaxSeqNum    \* bound: no message is sent once the next number is beyond it

ASSUME NoneAssumption == None \notin Room \cup Broadcast \cup Sess
ASSUME BodyAssumption == {"logon", "logout"} \cap Broadcast = {}
ASSUME MaxSeqNumAssumption == MaxSeqNum \in Nat \ {0}
ASSUME FiniteAssumption == IsFiniteSet(Sess) /\ IsFiniteSet(Broadcast)

VARIABLES
  state,       \* Session.state; "unborn" before the logon
  sock,        \* the session's socket: "down" once ended or destroyed
  attended,    \* sessions whose socket still has its listeners
  timer,       \* sessions whose heartbeat interval is armed
  told,        \* sessions whose disconnected handlers ran, once or more often
  leaving,     \* the session whose disconnected handlers run in this turn
  sessions,    \* the sessions in SessionManager.sessions
  members,     \* RoomManager, see RoomMembership
  next,        \* Session.nextOutgoingSeqNum
  wire,        \* what was written to each socket: the number, and the broadcast if any
  writes,      \* per socket, the awaited writes whose callback has not run yet
  targetId,    \* FixService.targetId
  asked,       \* history: to() was called since the last send()
  call         \* each send() with recipients: "failed" if it swallowed an error

sessionVars == <<state, sock, attended, timer, told, leaving, sessions>>
wireVars == <<next, wire, writes>>
serviceVars == <<targetId, asked, call>>
vars == <<sessionVars, members, wireVars, serviceVars>>

Rooms == INSTANCE RoomMembership WITH SessionId <- Sess

-----------------------------------------------------------------------------
Writable(s) == sock[s] = "open"

\* A data event of s reaches its session.
Readable(s) == sock[s] = "open" /\ s \in attended /\ s \in sessions

Born(s) == state[s] # "unborn"

\* The event loop may start a turn.
Idle == leaving = None

\* The bound of the instance.
CanNumber(S) == \A s \in S : next[s] <= MaxSeqNum

\* Wrong: a message is numbered twice, by FixService and by its session.
NumberedTwice(S) == next' = [s \in Sess |-> IF s \in S THEN next[s] + 2 ELSE next[s]]

\* addRequiredFields of one message of each session of S: the number is consumed
\* whatever becomes of the message.
Numbered(S) == next' = [s \in Sess |-> IF s \in S THEN next[s] + 1 ELSE next[s]]

\* Wrong: one Message object for all, which keeps the first number it is given.
WrittenUncloned(S, b) ==
  wire' = [s \in Sess |-> IF s \in S /\ Writable(s)
                          THEN Append(wire[s], [num |-> next[CHOOSE t \in S : TRUE], of |-> b])
                          ELSE wire[s]]

\* socket.write by every session of S that can, each message with the number of
\* its own session; b is the broadcast it belongs to, if any.
Written(S, b) ==
  wire' = [s \in Sess |-> IF s \in S /\ Writable(s)
                          THEN Append(wire[s], [num |-> next[s], of |-> b])
                          ELSE wire[s]]

\* ... and somebody waits for the callback.
Awaited(S, body) ==
  writes' = [s \in Sess |-> IF s \in S /\ Writable(s) THEN Append(writes[s], body)
                            ELSE writes[s]]

\* sendMessage whose promise nobody acts on.
SendMessage(s) ==
  /\ CanNumber({s})
  /\ Numbered({s})
  /\ Written({s}, None)
  /\ UNCHANGED writes

\* handleDisconnect of session s up to its handlers: they find the state DISCONNECTED,
\* the socket as it was and the session registered.
Disconnecting(s) ==
  /\ Idle /\ leaving' = s
  /\ state' = [state EXCEPT ![s] = "DISCONNECTED"]
  /\ timer' = timer \ {s}
  /\ told' = told \cup {s}

\* Wrong: the turn that disconnects a session does not end its socket.
LeaveSocketOpen(s) ==
  /\ leaving = s /\ leaving' = None
  /\ attended' = attended \ {s}
  /\ sessions' = sessions \ {s}
  /\ members' = IF s \in sessions THEN Rooms!WithoutSessions(members, {s}) ELSE members
  /\ UNCHANGED <<state, sock, timer, told, wireVars, serviceVars>>

\* The rest of that turn, after the handlers: removeAllListeners, then socket.end()
\* and removeSession by the caller, which is logout, handleLogout or, with the socket
\* closed already, the 'close' event.
Leave(s) ==
  /\ leaving = s /\ leaving' = None
  /\ attended' = attended \ {s}
  /\ sock' = [sock EXCEPT ![s] = IF @ = "open" THEN "down" ELSE @]
  /\ sessions' = sessions \ {s}
  /\ members' = IF s \in sessions THEN Rooms!WithoutSessions(members, {s}) ELSE members
  /\ UNCHANGED <<state, timer, told, wireVars, serviceVars>>

-----------------------------------------------------------------------------
Init ==
  /\ state = [s \in Sess |-> "unborn"]
  /\ sock = [s \in Sess |-> "unused"]
  /\ attended = {}
  /\ timer = {}
  /\ told = {}
  /\ leaving = None
  /\ sessions = {}
  /\ members = {}
  /\ next = [s \in Sess |-> 1]
  /\ wire = [s \in Sess |-> << >>]
  /\ writes = [s \in Sess |-> << >>]
  /\ targetId = None
  /\ asked = FALSE
  /\ call = [b \in Broadcast |-> "unused"]

\* A connection whose credentials were accepted: the session is created,
\* registered and answers the logon in one turn (see AcceptorSessions).
Logon(s) ==
  /\ Idle /\ ~Born(s)
  /\ state' = [state EXCEPT ![s] = "LOGGED_ON"]
  /\ sock' = [sock EXCEPT ![s] = "open"]
  /\ attended' = attended \cup {s}
  /\ timer' = timer \cup {s}
  /\ sessions' = sessions \cup {s}
  /\ Numbered({s})
  /\ wire' = [wire EXCEPT ![s] = <<[num |-> next[s], of |-> None]>>]
  /\ writes' = [writes EXCEPT ![s] = <<"logon">>]
  /\ UNCHANGED <<told, leaving, members, serviceVars>>

-----------------------------------------------------------------------------
(* Messages of one session *)

\* The heartbeat interval fires; it sends in state LOGGED_ON only.
Heartbeat(s) ==
  /\ Idle /\ s \in timer /\ state[s] = "LOGGED_ON"
  /\ SendMessage(s)
  /\ UNCHANGED <<sessionVars, members, serviceVars>>

\* handleTestRequest answers in any state.
ReceiveTestRequest(s) ==
  /\ Idle /\ Readable(s)
  /\ SendMessage(s)
  /\ UNCHANGED <<sessionVars, members, serviceVars>>

\* Code of the application that has the session, its disconnected handlers among it,
\* calls sendMessage, at any time, with a message that has a MsgType and no MsgSeqNum.
\* (One without the type, or one sent before, leaves a gap or repeats a number:
\* session.ts:202-207.)
SendFresh(s) ==
  /\ Born(s)
  /\ SendMessage(s)
  /\ UNCHANGED <<sessionVars, members, serviceVars>>

-----------------------------------------------------------------------------
(* Ends of a session *)

\* Session.handleLogout: the peer logs out.
ReceiveLogout(s) ==
  /\ Readable(s)
  /\ Disconnecting(s)
  /\ UNCHANGED <<sock, attended, sessions, members, wireVars, serviceVars>>

\* Session.logout by the application up to its wait. It may be called again while
\* an earlier call waits; on a disconnected session it throws. Without a writable
\* socket it goes on at once: called by a disconnected handler, after that handler's
\* turn, which is the same as a call that follows it.
Logout(s) ==
  /\ Born(s) /\ state[s] # "DISCONNECTED"
  /\ CanNumber({s})
  /\ Numbered({s})
  /\ Written({s}, None)
  /\ Awaited({s}, "logout")
  /\ \/ /\ Writable(s)
        /\ state' = [state EXCEPT ![s] = "LOGGING_OUT"]
        /\ UNCHANGED <<timer, told, leaving>>
     \/ ~Writable(s) /\ Disconnecting(s)
  /\ UNCHANGED <<sock, attended, sessions, members, serviceVars>>

\* A callback of the socket of s for a write of this body, still to run.
Completes(s, body) ==
  /\ Idle /\ writes[s] # << >> /\ Head(writes[s]) = body
  /\ writes' = [writes EXCEPT ![s] = Tail(@)]

\* The rest of logout up to the handlers, delivered or not.
LogoutWritten(s) ==
  /\ Completes(s, "logout")
  /\ Disconnecting(s)
  /\ UNCHANGED <<sock, attended, sessions, members, next, wire, serviceVars>>

\* The rest of handleLogon: the handlers join rooms, whatever became of the
\* session meanwhile.
LogonWritten(s) ==
  /\ Completes(s, "logon")
  /\ \E R \in SUBSET Room : members' = members \cup Rooms!Pairs(R, s)
  /\ UNCHANGED <<sessionVars, next, wire, serviceVars>>

\* ... with an error: the state is ERROR whatever it was.
LogonFails(s) ==
  /\ Completes(s, "logon")
  /\ ~Writable(s)
  /\ state' = [state EXCEPT ![s] = "ERROR"]
  /\ UNCHANGED <<sock, attended, timer, told, leaving, sessions, members,
                 next, wire, serviceVars>>

\* The connection breaks, or the peer ends it.
Drop(s) ==
  /\ Idle /\ Writable(s)
  /\ sock' = [sock EXCEPT ![s] = "down"]
  /\ UNCHANGED <<state, attended, timer, told, leaving, sessions, members, wireVars, serviceVars>>

\* Wrong: the close hook alone; the acceptor's listener and its sweep are missing.
ClosedUnswept(s) ==
  /\ Idle /\ sock[s] = "down" /\ writes[s] = << >>
  /\ sock' = [sock EXCEPT ![s] = "closed"]
  /\ attended' = attended \ {s}
  /\ UNCHANGED <<state, timer, told, leaving, sessions, members, wireVars, serviceVars>>

\* The 'close' event, after every write callback. With the listeners in place it
\* disconnects the session twice: cleanupSocketSessions finds it in the registry,
\* then the hook of setupDisconnectHandler runs. What the handlers call the second time
\* they could as well call later.
Closed(s) ==
  /\ Idle /\ sock[s] = "down" /\ writes[s] = << >>
  /\ sock' = [sock EXCEPT ![s] = "closed"]
  /\ \/ s \in attended /\ Disconnecting(s)
     \/ s \notin attended /\ UNCHANGED <<state, timer, told, leaving>>
  /\ UNCHANGED <<attended, sessions, members, wireVars, serviceVars>>

-----------------------------------------------------------------------------
(* FixService *)

\* to(): one target for all callers.
To(r) ==
  /\ targetId' = r
  /\ asked' = TRUE
  /\ UNCHANGED <<sessionVars, members, wireVars, call>>

\* getSessionsInRoom(targetId) and the sessions the registry has for them
Recipients == {s \in sessions : <<targetId, s>> \in members}

\* send() without a target throws.
SendRefused ==
  /\ targetId = None
  /\ asked' = FALSE
  /\ UNCHANGED <<sessionVars, members, wireVars, targetId, call>>

\* Wrong: the early return leaves the target behind.
SendToNobodyKeepingTarget ==
  /\ targetId # None /\ Recipients = {}
  /\ asked' = FALSE
  /\ UNCHANGED <<sessionVars, members, wireVars, targetId, call>>

\* send() to a room without registered sessions returns in the same turn.
SendToNobody ==
  /\ targetId # None /\ Recipients = {}
  /\ targetId' = None
  /\ asked' = FALSE
  /\ UNCHANGED <<sessionVars, members, wireVars, call>>

\* Wrong: each recipient's turn comes when the one before is served.
SendOneByOne(b) ==
  LET left == {s \in Recipients : b \notin ToSet(writes[s])}
  IN /\ call[b] = "unused" /\ targetId # None /\ left # {}
     /\ CanNumber(left)
     /\ \E s \in left :
          /\ Numbered({s}) /\ Written({s}, b) /\ Awaited({s}, b)
          /\ call' = [call EXCEPT ![b] = IF left = {s} THEN "waiting" ELSE "unused"]
     /\ UNCHANGED <<sessionVars, members, targetId, asked>>

\* send() up to its wait: every recipient is given its own clone in this turn. One
\* that cannot write rejects, and then send() returns before the others' callbacks.
SendToRoom(b) ==
  LET broken == \E s \in Recipients : ~Writable(s)
  IN /\ call[b] = "unused" /\ targetId # None /\ Recipients # {}
     /\ CanNumber(Recipients)
     /\ Numbered(Recipients)
     /\ Written(Recipients, b)
     /\ Awaited(Recipients, b)
     /\ call' = [call EXCEPT ![b] = IF broken THEN "failed" ELSE "waiting"]
     /\ targetId' = IF broken THEN None ELSE targetId
     /\ asked' = FALSE
     /\ UNCHANGED <<sessionVars, members>>

\* Promise.all of broadcast b settles: catch swallows an error, finally takes the
\* target away, whoever set it.
Settled(b, how) ==
  /\ call' = [call EXCEPT ![b] = how]
  /\ targetId' = None

\* No other write of b is awaited.
LastWriteOf(b) == \A t \in Sess : b \notin ToSet(writes'[t])

\* A callback of the socket of s for broadcast b, without an error ...
BroadcastWritten(s, b) ==
  /\ Completes(s, b)
  /\ \/ call[b] = "waiting" /\ LastWriteOf(b) /\ Settled(b, "returned")
     \/ ~(call[b] = "waiting" /\ LastWriteOf(b)) /\ UNCHANGED <<call, targetId>>
  /\ UNCHANGED <<sessionVars, members, next, wire, asked>>

\* Wrong: an error of the socket never reaches the promise.
BroadcastFailsUnheard(s, b) ==
  /\ Completes(s, b)
  /\ ~Writable(s)
  /\ UNCHANGED <<sessionVars, members, next, wire, serviceVars>>

\* ... and with one: Promise.all rejects at once.
BroadcastFails(s, b) ==
  /\ Completes(s, b)
  /\ ~Writable(s)
  /\ \/ call[b] = "waiting" /\ Settled(b, "failed")
     \/ call[b] # "waiting" /\ UNCHANGED <<call, targetId>>
  /\ UNCHANGED <<sessionVars, members, next, wire, asked>>

-----------------------------------------------------------------------------
WriteCallback(s) ==
  \/ LogonWritten(s) \/ LogonFails(s) \/ LogoutWritten(s)
  \/ \E b \in Broadcast : BroadcastWritten(s, b) \/ BroadcastFails(s, b)

Next ==
  \/ \E s \in Sess :
       \/ Logon(s)
       \/ Heartbeat(s)
       \/ ReceiveTestRequest(s)
       \/ SendFresh(s)
       \/ ReceiveLogout(s)
       \/ Logout(s)
       \/ WriteCallback(s)
       \/ Drop(s)
       \/ Closed(s)
       \/ Leave(s)
  \/ \E r \in Room : To(r)
  \/ SendRefused
  \/ SendToNobody
  \/ \E b \in Broadcast : SendToRoom(b)

Spec == Init /\ [][Next]_vars

\* Every write callback runs, every socket that went down emits 'close', and the
\* handlers of a session that ends return.
Fairness == \A s \in Sess : /\ WF_vars(WriteCallback(s))
                             /\ WF_vars(Closed(s))
                             /\ WF_vars(Leave(s))

FairSpec == Spec /\ Fairness

-----------------------------------------------------------------------------
\* Every variable has the kind of value its field has in the code, and a message
\* takes one number: the bound on next is reached, not passed.
TypeOK ==
  /\ state \in [Sess -> {"unborn", "LOGGED_ON", "LOGGING_OUT", "DISCONNECTED", "ERROR"}]
  /\ sock \in [Sess -> {"unused", "open", "down", "closed"}]
  /\ attended \subseteq Sess
  /\ timer \subseteq Sess
  /\ told \subseteq Sess
  /\ leaving \in Sess \cup {None}
  /\ sessions \subseteq Sess
  /\ members \subseteq Room \X Sess
  /\ next \in [Sess -> 1..MaxSeqNum + 1]
  /\ wire \in [Sess -> Seq([num : 1..MaxSeqNum, of : Broadcast \cup {None}])]
  /\ writes \in [Sess -> Seq({"logon", "logout"} \cup Broadcast)]
  /\ targetId \in Room \cup {None}
  /\ asked \in BOOLEAN
  /\ call \in [Broadcast -> {"unused", "waiting", "returned", "failed"}]

\* The peer of a session sees the numbers 1, 2, 3 ... without a gap or a repeat,
\* although heartbeats, answers, broadcasts and Logout messages overlap and numbers
\* are consumed before the socket is found unwritable, as long as the application
\* sends well-formed messages once each (session.ts:124-210, fix.service.ts:83-90).
SequenceIntact ==
  \A s \in Sess : \A k \in DOMAIN wire[s] : wire[s][k].num = k

\* Where broadcast b is on the wire of s.
At(s, b) == {k \in DOMAIN wire[s] : wire[s][k].of = b}

\* Two broadcasts reach all the sessions that get both in one order, whatever their
\* rooms and however their sends overlap (fix.service.ts:78-92).
SameOrder ==
  \A s, t \in Sess, b, c \in Broadcast :
    \A i \in At(s, b), j \in At(s, c), k \in At(t, b), l \in At(t, c) : i < j => k < l

\* A session that was disconnected is never heard of again on its socket once the turn
\* of its end is over, although nothing in sendMessage looks at the state; in that turn
\* what its disconnected handlers send may still go out, after a Logout even
\* (session.ts:102-112, 258-268, 307-317).
SilentOnceDisconnected ==
  [][\A s \in Sess : state[s] = "DISCONNECTED" /\ leaving # s => wire'[s] = wire[s]]_vars

\* The shared target never outlives its calls: unless to() was called since the last
\* send() or a call is still waiting, a send() without to() is refused rather than
\* misdirected (fix.service.ts:64 and 95-97).
NoStaleTarget == targetId # None => asked \/ \E b \in Broadcast : call[b] = "waiting"

\* Every send() comes back, whichever sessions end while it waits (fix.service.ts:78-97).
SendReturns == \A b \in Broadcast : call[b] = "waiting" ~> call[b] \in {"returned", "failed"}

\* However a session ends, its disconnected handlers are run and it leaves the
\* registry (fix.decorators.ts:29-31; session.ts:307-317, message.handler.ts:196-202).
EndIsAnnounced ==
  \A s \in Sess : sock[s] = "down" ~> (s \in told /\ s \notin sessions)
=============================================================================
