-------------------------- MODULE AcceptorSessions --------------------------
(***************************************************************************)
(* The acceptor side of the library: sockets (acceptor/acceptor.ts), logon *)
(* and message routing (acceptor/message.handler.ts), Session objects      *)
(* (session/session.ts), the session registry (session/session.manager.ts) *)
(* and the room memberships of the registered identifiers.                 *)
(*                                                                         *)
(* One action is one turn of the Node event loop: a callback and the       *)
(* microtasks it leaves behind. Answers of the authentication service,     *)
(* write callbacks, timers and socket events are turns of their own; that  *)
(* is where the code awaits, so that is where turns interleave.            *)
(***************************************************************************)
EXTENDS Integers, Sequences, FiniteSets, SequencesExt

CONSTANTS
  Conn,              \* sockets the server may accept, each used once
  SessionId,         \* session identifiers, "sender->target" in the code
  Sess,              \* Session objects, each constructed at most once
  Room,              \* room identifiers of the application
  None,              \* undefined
  MaxSessions,       \* the manager's limit, 0 for no limit
  RejectionIsFatal,  \* whether an unhandled rejection ends the process
  Irregular          \* what peers and the application may do beyond one logon
                     \* per connection and one connection per identifier

ASSUME MaxSessionsAssumption == MaxSessions \in Nat
ASSUME SessionIdAssumption == IsFiniteSet(SessionId)
ASSUME NoneAssumption == None \notin Sess /\ None \notin SessionId /\ None \notin Conn
ASSUME RejectionAssumption == RejectionIsFatal \in BOOLEAN

VARIABLES
  process,        \* what stop() has reached, or "crashed"
  sock,           \* the stream state of each socket
  listening,      \* whether a socket still has the acceptor's listeners
  hooks,          \* sessions with a once('close') listener on a socket
  activeSockets,  \* the acceptor's Map of sockets
  state,          \* Session.state; "unborn" before the constructor
  conn,           \* Session.socket
  sid,            \* Session.sessionId
  timer,          \* sessions whose heartbeat interval is armed
  sessions,       \* SessionManager.sessions
  members,        \* RoomManager, see RoomMembership
  joined,         \* history: the rooms each session's handlers joined
  auths,          \* logons whose credentials are being checked
  writes,         \* per socket, the writes whose callback has not run yet
  doomed          \* sockets with a 100 ms timer that will destroy them

networkVars == <<sock, listening, hooks, activeSockets>>
sessionVars == <<state, conn, sid, timer>>
roomVars == <<members, joined>>
vars == <<process, networkVars, sessionVars, sessions, roomVars, auths, writes, doomed>>

Rooms == INSTANCE RoomMembership

-----------------------------------------------------------------------------
(* Reading the state *)

\* socket.writable
Writable(c) == sock[c] = "open"

\* A data event reaches the acceptor.
Readable(c) == process # "crashed" /\ sock[c] = "open" /\ listening[c]

Registered == {s \in Sess : \E i \in SessionId : sessions[i] = s}

Born(s) == state[s] # "unborn"

\* The writes somebody awaits: the answer to a logon, and the Logout message of
\* a session logged out in favour of another (next) or by stop() (None).
LogonWrite(s) == [kind |-> "logon", of |-> s, next |-> None]
LogoutWrite(s, t) == [kind |-> "logout", of |-> s, next |-> t]
Write == [kind : {"logon", "logout"}, of : Sess, next : Sess \cup {None}]

PendingWrites == UNION {ToSet(writes[c]) : c \in Conn}

\* registerSession awaits the logout of an older session in favour of s.
Succeeds(s) == \E w \in PendingWrites : w.next = s

Size(reg) == Cardinality({i \in SessionId : reg[i] # None})

\* Wrong: one session too many.
FullOffByOne(reg) == MaxSessions # 0 /\ Size(reg) > MaxSessions

\* this.maxSessions && this.sessions.size >= this.maxSessions
Full(reg) == MaxSessions # 0 /\ Size(reg) >= MaxSessions

-----------------------------------------------------------------------------
(* Pieces of several turns *)

\* socket.destroy() for every socket of C
Destroyed(sk, C) ==
  [c \in Conn |-> IF c \in C /\ sk[c] \in {"open", "ended"} THEN "destroyed" ELSE sk[c]]

\* Wrong: handleDisconnect without the end() that follows it.
LeftOpen(sk, C) == sk

\* socket.end() for every socket of C
Ended(sk, C) == [c \in Conn |-> IF c \in C /\ sk[c] = "open" THEN "ended" ELSE sk[c]]

\* What handleDisconnect leaves of the socket of each session in S: no listener
\* at all, neither the acceptor's nor the close hooks of setupDisconnectHandler.
Deafened(S) ==
  /\ listening' = [c \in Conn |-> listening[c] /\ \A s \in S : conn[s] # c]
  /\ hooks' = [c \in Conn |-> IF \E s \in S : conn[s] = c THEN {} ELSE hooks[c]]

\* Wrong: removeSession leaves the rooms and keeps the entry.
KeptRegistered(I) == sessions

\* sessions.delete for the identifiers of I
Without(I) == [i \in SessionId |-> IF i \in I THEN None ELSE sessions[i]]

\* Wrong: removeSession without leaveAllRooms.
MembersLeftBehind(I) == members

\* removeSession for the identifiers of I: one that is not registered is left
\* alone, rooms included.
MembersWithout(I) == Rooms!WithoutSessions(members, {i \in I : sessions[i] # None})

\* Wrong: the limit is checked before the old session is logged out.
EnrolCheckedEarly(reg, i, s) ==
  /\ sessions' = IF Full(sessions) THEN reg ELSE [reg EXCEPT ![i] = s]
  /\ process' = IF Full(sessions) /\ RejectionIsFatal THEN "crashed" ELSE process

\* The end of registerSession on registry reg: the limit is checked after the
\* old session is gone, and the promise it rejects is not awaited by anyone.
Enrol(reg, i, s) ==
  /\ sessions' = IF Full(reg) THEN reg ELSE [reg EXCEPT ![i] = s]
  /\ process' = IF Full(reg) /\ RejectionIsFatal THEN "crashed" ELSE process

-----------------------------------------------------------------------------
(* What the peers do. The code constrains none of this; Irregular names the *)
(* behaviours an instance admits, and {} leaves the textbook peer: one      *)
(* logon per connection, one connection per identifier at a time, and no    *)
(* message before the previous one is answered.                             *)

\* Nothing the peer of c asked for is still on its way, and it was not told to
\* go away.
Quiet(c) ==
  /\ c \notin doomed
  /\ writes[c] = << >>
  /\ \A i \in SessionId : <<c, i>> \notin auths
  /\ \A s \in Sess : Succeeds(s) => conn[s] # c

\* No logon and no logout of identifier i is in progress.
Settled(i) ==
  /\ \A c \in Conn : <<c, i>> \notin auths
  /\ \A w \in PendingWrites : sid[w.of] # i

Waits(c) == "hasty" \in Irregular \/ Quiet(c)

LogonExpected(c, i) ==
  /\ "takeover" \in Irregular \/ sessions[i] = None
  /\ "hasty" \in Irregular \/ Settled(i)
  /\ "relogon" \in Irregular \/ \A s \in Sess : conn[s] # c
  /\ Waits(c)

\* The peer of c names an identifier it logged on with itself.
Owns(c, i) == "foreign" \in Irregular \/ conn[sessions[i]] = c

-----------------------------------------------------------------------------
Init ==
  /\ process = "running"
  /\ sock = [c \in Conn |-> "unused"]
  /\ listening = [c \in Conn |-> FALSE]
  /\ hooks = [c \in Conn |-> {}]
  /\ activeSockets = {}
  /\ state = [s \in Sess |-> "unborn"]
  /\ conn = [s \in Sess |-> None]
  /\ sid = [s \in Sess |-> None]
  /\ timer = {}
  /\ sessions = [i \in SessionId |-> None]
  /\ members = {}
  /\ joined = {}
  /\ auths = {}
  /\ writes = [c \in Conn |-> << >>]
  /\ doomed = {}

\* handleNewConnection; closeServer stops it.
Connect(c) ==
  /\ process \notin {"crashed", "closing", "stopped"}
  /\ sock[c] = "unused"
  /\ sock' = [sock EXCEPT ![c] = "open"]
  /\ listening' = [listening EXCEPT ![c] = TRUE]
  /\ activeSockets' = activeSockets \cup {c}
  /\ UNCHANGED <<process, hooks, sessionVars, sessions, roomVars, auths, writes, doomed>>

\* A logon that passes the synchronous checks: validateCredentials and
\* getAllowedSenderCompIds are asked, and the turn ends there.
ReceiveLogon(c, i) ==
  /\ Readable(c)
  /\ LogonExpected(c, i)
  /\ <<c, i>> \notin auths
  /\ auths' = auths \cup {<<c, i>>}
  /\ UNCHANGED <<process, networkVars, sessionVars, sessions, roomVars, writes, doomed>>

\* sendLogoutAndClose up to its 100 ms wait. Writing to a socket that was ended
\* emits 'error', which ends the process when no listener is left.
SendLogoutAndClose(c) ==
  /\ process' = IF sock[c] = "ended" /\ ~listening[c] THEN "crashed" ELSE process
  /\ sock' = IF sock[c] = "ended" THEN Destroyed(sock, {c}) ELSE sock
  /\ doomed' = doomed \cup {c}
  /\ UNCHANGED <<listening, hooks, activeSockets, sessionVars, sessions, roomVars, writes>>

\* A logon that fails validateRequiredFields or names another TargetCompID, or
\* any other message for an identifier that is not registered.
ReceiveRefused(c) ==
  /\ Readable(c)
  /\ Waits(c)
  /\ SendLogoutAndClose(c)
  /\ UNCHANGED auths

AuthRejected(c, i) ==
  /\ process # "crashed"
  /\ <<c, i>> \in auths
  /\ auths' = auths \ {<<c, i>>}
  /\ SendLogoutAndClose(c)

-----------------------------------------------------------------------------
(* Admission: createNewSession, registerSession, setupDisconnectHandler and *)
(* Session.handleLogon, in the turn that follows the accepted credentials.  *)

\* new Session on socket c, its close hook, and the answer to the logon: the
\* state is LOGGED_ON before the answer is written, ERROR if it cannot be, and
\* then the message handler destroys the socket.
Answered(c) == IF Writable(c) THEN "LOGGED_ON" ELSE "ERROR"

Answer(c, s, wr) ==
  /\ conn' = [conn EXCEPT ![s] = c]
  /\ writes' = IF Writable(c) THEN [wr EXCEPT ![c] = Append(@, LogonWrite(s))] ELSE wr
  /\ sock' = IF Writable(c) THEN sock ELSE Destroyed(sock, {c})

\* No session has the identifier, or only one that is already DISCONNECTED: its
\* logout throws at once, it keeps its place while the limit is checked, and it
\* is then overwritten without any clean-up.
AdmitAtOnce(c, i, s) ==
  /\ sessions[i] \in {None} \cup {t \in Sess : state[t] = "DISCONNECTED"}
  /\ Enrol(sessions, i, s)
  /\ state' = [state EXCEPT ![s] = Answered(c)]
  /\ timer' = timer \cup {s}
  /\ hooks' = [hooks EXCEPT ![c] = @ \cup {s}]
  /\ Answer(c, s, writes)
  /\ UNCHANGED <<listening, members>>

\* Wrong: the older session is LOGGED_ON until its Logout message is written.
AdmitTakeoverMarkedLate(c, i, s) ==
  LET old == sessions[i]
  IN /\ old # None /\ state[old] # "DISCONNECTED" /\ Writable(conn[old])
     /\ state' = [state EXCEPT ![s] = Answered(c)]
     /\ timer' = timer \cup {s}
     /\ hooks' = [hooks EXCEPT ![c] = @ \cup {s}]
     /\ Answer(c, s, [writes EXCEPT ![conn[old]] = Append(@, LogoutWrite(old, s))])
     /\ UNCHANGED <<process, listening, sessions, members>>

\* The older session's Logout message is on its way: registration waits for its
\* write callback, the new session does not.
AdmitTakeover(c, i, s) ==
  LET old == sessions[i]
  IN /\ old # None /\ state[old] # "DISCONNECTED" /\ Writable(conn[old])
     /\ state' = [state EXCEPT ![old] = "LOGGING_OUT", ![s] = Answered(c)]
     /\ timer' = timer \cup {s}
     /\ hooks' = [hooks EXCEPT ![c] = @ \cup {s}]
     /\ Answer(c, s, [writes EXCEPT ![conn[old]] = Append(@, LogoutWrite(old, s))])
     /\ UNCHANGED <<process, listening, sessions, members>>

\* The older session's socket takes no Logout message: it is disconnected and
\* removed in the same turn, before the close hook of the new one is set.
AdmitOverUnwritable(c, i, s) ==
  LET old == sessions[i]
      deaf == [d \in Conn |-> IF d = conn[old] THEN {} ELSE hooks[d]]
  IN /\ old # None /\ state[old] # "DISCONNECTED" /\ ~Writable(conn[old])
     /\ Enrol(Without({i}), i, s)
     /\ members' = MembersWithout({i})
     /\ state' = [state EXCEPT ![old] = "DISCONNECTED", ![s] = Answered(c)]
     /\ timer' = (timer \ {old}) \cup {s}
     /\ listening' = [listening EXCEPT ![conn[old]] = FALSE]
     /\ hooks' = [deaf EXCEPT ![c] = @ \cup {s}]
     /\ Answer(c, s, writes)

AuthAccepted(c, i) ==
  /\ process # "crashed"
  /\ <<c, i>> \in auths
  /\ auths' = auths \ {<<c, i>>}
  /\ \E s \in Sess :
       /\ ~Born(s)
       /\ sid' = [sid EXCEPT ![s] = i]
       /\ \/ AdmitAtOnce(c, i, s)
          \/ AdmitTakeover(c, i, s)
          \/ AdmitOverUnwritable(c, i, s)
  /\ UNCHANGED <<activeSockets, joined, doomed>>

-----------------------------------------------------------------------------
(* Write callbacks, in the order of the writes on each socket. *)

Oldest(c) == Head(writes[c])

\* A callback of socket c for a write of the given kind, still to run.
Completes(c, kind) ==
  /\ process # "crashed"
  /\ writes[c] # << >> /\ Oldest(c).kind = kind
  /\ writes' = [writes EXCEPT ![c] = Tail(@)]

\* Wrong: the state is set after the answer is written instead of before.
LogonAnsweredThenLoggedOn(c) ==
  /\ Completes(c, "logon")
  /\ state' = [state EXCEPT ![Oldest(c).of] = "LOGGED_ON"]
  /\ UNCHANGED <<process, networkVars, conn, sid, timer, sessions, roomVars, auths, doomed>>

\* Wrong: the pair is recorded the other way round.
LogonAnsweredSwapped(c) ==
  /\ Completes(c, "logon")
  /\ \E R \in SUBSET Room :
       LET s == Oldest(c).of
       IN /\ members' = members \cup ({sid[s]} \X R)
          /\ joined' = joined \cup (R \X {s})
  /\ UNCHANGED <<process, networkVars, sessionVars, sessions, auths, doomed>>

\* The rest of Session.handleLogon: the application's connected and logon
\* handlers run, whatever became of the session meanwhile, and join rooms.
LogonAnswered(c) ==
  /\ Completes(c, "logon")
  /\ \E R \in SUBSET Room :
       LET s == Oldest(c).of
       IN /\ members' = members \cup Rooms!Pairs(R, sid[s])
          /\ joined' = joined \cup (R \X {s})
  /\ UNCHANGED <<process, networkVars, sessionVars, sessions, auths, doomed>>

\* The answer could not be delivered: the session is in ERROR, whatever its
\* state was, and the message handler destroys the socket.
LogonAnswerFails(c) ==
  /\ Completes(c, "logon")
  /\ ~Writable(c)
  /\ state' = [state EXCEPT ![Oldest(c).of] = "ERROR"]
  /\ sock' = Destroyed(sock, {c})
  /\ UNCHANGED <<process, listening, hooks, activeSockets, conn, sid, timer,
                 sessions, roomVars, auths, doomed>>

\* The rest of Session.logout, delivered or not: handleDisconnect, end() and
\* removeSession of session s.
LoggedOut(s) ==
  /\ state' = [state EXCEPT ![s] = "DISCONNECTED"]
  /\ timer' = timer \ {s}
  /\ Deafened({s})
  /\ members' = MembersWithout({sid[s]})
  /\ UNCHANGED <<conn, sid, joined>>

\* ... of a session logged out in favour of another one, which registerSession
\* then enters in the same turn.
LogoutWrittenForSuccessor(c) ==
  LET old == Oldest(c).of
      new == Oldest(c).next
  IN /\ Completes(c, "logout")
     /\ new # None
     /\ LoggedOut(old)
     /\ sock' = Ended(sock, {c})
     /\ Enrol(Without({sid[old]}), sid[new], new)
     /\ UNCHANGED <<activeSockets, auths, doomed>>

\* Wrong: closeServer without closeAllSockets before it.
FinishStopLeavingSockets(sk) ==
  /\ process' = "closing"
  /\ sessions' = [i \in SessionId |-> None]
  /\ sock' = sk
  /\ UNCHANGED activeSockets

\* stop() once closeAll has logged every session out, on socket states sk, up to
\* its next wait: the registry is cleared without leaving rooms, every socket
\* the acceptor still lists is destroyed, and the server accepts no more.
FinishStop(sk) ==
  /\ process' = "closing"
  /\ sessions' = [i \in SessionId |-> None]
  /\ sock' = Destroyed(sk, activeSockets)
  /\ activeSockets' = {}

\* Some logout of closeAll has not come back.
StopAwaits(wr) ==
  \E c \in Conn : \E w \in ToSet(wr[c]) : w.kind = "logout" /\ w.next = None

\* ... of a session logged out by stop().
LogoutWrittenForStop(c) ==
  LET s == Oldest(c).of
  IN /\ Completes(c, "logout")
     /\ Oldest(c).next = None
     /\ LoggedOut(s)
     /\ \/ /\ process # "stopping" \/ StopAwaits(writes')
           /\ sock' = Ended(sock, {c})
           /\ sessions' = Without({sid[s]})
           /\ UNCHANGED <<process, activeSockets>>
        \/ /\ process = "stopping" /\ ~StopAwaits(writes')
           /\ FinishStop(Ended(sock, {c}))
     /\ UNCHANGED <<auths, doomed>>

-----------------------------------------------------------------------------
(* Messages of logged-on peers, routed by the identifier they name. *)

\* Session.handleLogout
ReceiveLogout(c, i) ==
  LET s == sessions[i]
  IN /\ Readable(c) /\ Waits(c)
     /\ s # None /\ Owns(c, i)
     /\ LoggedOut(s)
     /\ sock' = Ended(sock, {conn[s]})
     /\ sessions' = Without({i})
     /\ UNCHANGED <<process, activeSockets, auths, writes, doomed>>

\* A message whose handler calls session.join(r).
ReceiveJoin(c, i, r) ==
  /\ Readable(c) /\ Waits(c)
  /\ sessions[i] # None /\ Owns(c, i)
  /\ members' = members \cup Rooms!Pairs({r}, i)
  /\ joined' = joined \cup {<<r, sessions[i]>>}
  /\ UNCHANGED <<process, networkVars, sessionVars, sessions, auths, writes, doomed>>

\* A message whose handler calls session.leave(r).
ReceiveLeave(c, i, r) ==
  /\ Readable(c) /\ Waits(c)
  /\ sessions[i] # None /\ Owns(c, i)
  /\ members' = members \ Rooms!Pairs({r}, i)
  /\ joined' = joined \ {<<r, sessions[i]>>}
  /\ UNCHANGED <<process, networkVars, sessionVars, sessions, auths, writes, doomed>>

\* Data that makes processMessage throw: handleDataError destroys the socket.
ReceiveMalformed(c) ==
  /\ Readable(c) /\ Waits(c)
  /\ sock' = Destroyed(sock, {c})
  /\ UNCHANGED <<process, listening, hooks, activeSockets, sessionVars, sessions,
                 roomVars, auths, writes, doomed>>

-----------------------------------------------------------------------------
(* Sockets *)

\* The end of the 100 ms of sendLogoutAndClose.
DelayedDestroy(c) ==
  /\ process # "crashed"
  /\ c \in doomed
  /\ doomed' = doomed \ {c}
  /\ sock' = Destroyed(sock, {c})
  /\ UNCHANGED <<process, listening, hooks, activeSockets, sessionVars, sessions,
                 roomVars, auths, writes>>

\* The peer ends its side; allowHalfOpen is false, so ours is ended as well.
PeerCloses(c) ==
  /\ process # "crashed"
  /\ sock[c] = "open"
  /\ "drop" \in Irregular \/ Quiet(c)
  /\ sock' = Ended(sock, {c})
  /\ UNCHANGED <<process, listening, hooks, activeSockets, sessionVars, sessions,
                 roomVars, auths, writes, doomed>>

\* A reset. With the acceptor's listeners gone nobody handles 'error'.
SocketError(c) ==
  /\ process # "crashed"
  /\ "drop" \in Irregular
  /\ sock[c] \in {"open", "ended"}
  /\ sock' = Destroyed(sock, {c})
  /\ process' = IF listening[c] THEN process ELSE "crashed"
  /\ UNCHANGED <<listening, hooks, activeSockets, sessionVars, sessions,
                 roomVars, auths, writes, doomed>>

\* The 'close' event, after every write callback of the socket: the acceptor's
\* listener cleans up the registered sessions of the socket, then each close
\* hook its own; both disconnect the session and remove its identifier,
\* whoever holds it by then.
SocketClosed(c) ==
  LET swept == IF listening[c] THEN {s \in Registered : conn[s] = c} ELSE {}
      gone == swept \cup hooks[c]
      ids == {sid[s] : s \in gone}
  IN /\ process # "crashed"
     /\ sock[c] \in {"ended", "destroyed"}
     /\ writes[c] = << >>
     /\ sock' = [sock EXCEPT ![c] = "closed"]
     /\ listening' = [listening EXCEPT ![c] = FALSE]
     /\ hooks' = [hooks EXCEPT ![c] = {}]
     /\ activeSockets' = IF listening[c] THEN activeSockets \ {c} ELSE activeSockets
     /\ state' = [s \in Sess |-> IF s \in gone THEN "DISCONNECTED" ELSE state[s]]
     /\ timer' = timer \ gone
     /\ sessions' = Without(ids)
     /\ members' = MembersWithout(ids)
     /\ UNCHANGED <<process, conn, sid, joined, auths, writes, doomed>>

-----------------------------------------------------------------------------
\* stop() up to its first wait. closeAll calls logout on every registered
\* session: one that is DISCONNECTED rejects and makes stop() give up, one with
\* an unwritable socket is gone in this turn, the others write a Logout.
Stop ==
  LET dead == {s \in Registered : state[s] = "DISCONNECTED"}
      mute == {s \in Registered \ dead : ~Writable(conn[s])}
      told == (Registered \ dead) \ mute
      ids == {sid[s] : s \in mute}
  IN /\ process = "running"
     /\ "stop" \in Irregular
     /\ state' = [s \in Sess |-> IF s \in told THEN "LOGGING_OUT"
                                 ELSE IF s \in mute THEN "DISCONNECTED" ELSE state[s]]
     /\ timer' = timer \ mute
     /\ Deafened(mute)
     /\ members' = MembersWithout(ids)
     /\ writes' = [c \in Conn |->
                    writes[c] \o SetToSeq({LogoutWrite(s, None) : s \in {t \in told : conn[t] = c}})]
     /\ \/ /\ dead = {} /\ told = {}
           /\ FinishStop(sock)
        \/ /\ dead # {} \/ told # {}
           /\ process' = IF dead = {} THEN "stopping" ELSE "stop failed"
           /\ sessions' = Without(ids)
           /\ UNCHANGED <<sock, activeSockets>>
     /\ UNCHANGED <<conn, sid, joined, auths, doomed>>

\* The callback of server.close(), which closeServer awaits: no connection is
\* left. A destroyed one counts until Node takes it off, at its 'close' event
\* at the latest.
ServerClosed ==
  /\ process = "closing"
  /\ \A c \in Conn : sock[c] \in {"unused", "destroyed", "closed"}
  /\ process' = "stopped"
  /\ UNCHANGED <<networkVars, sessionVars, sessions, roomVars, auths, writes, doomed>>

-----------------------------------------------------------------------------
Next ==
  \/ \E c \in Conn :
       \/ Connect(c)
       \/ ReceiveRefused(c)
       \/ ReceiveMalformed(c)
       \/ LogonAnswered(c)
       \/ LogonAnswerFails(c)
       \/ LogoutWrittenForSuccessor(c)
       \/ LogoutWrittenForStop(c)
       \/ DelayedDestroy(c)
       \/ PeerCloses(c)
       \/ SocketError(c)
       \/ SocketClosed(c)
       \/ \E i \in SessionId :
            \/ ReceiveLogon(c, i)
            \/ AuthRejected(c, i)
            \/ AuthAccepted(c, i)
            \/ ReceiveLogout(c, i)
            \/ \E r \in Room : ReceiveJoin(c, i, r) \/ ReceiveLeave(c, i, r)
  \/ Stop
  \/ ServerClosed

Spec == Init /\ [][Next]_vars

\* Every write callback runs in the end (its peer reads, or the connection
\* dies), a destroyed socket emits 'close', and the server does once all of its
\* connections have. Nothing else is promised: peers may stay silent and the
\* authentication service may never answer.
Fairness ==
  /\ \A c \in Conn :
       /\ WF_vars(\/ LogonAnswered(c) \/ LogonAnswerFails(c)
                  \/ LogoutWrittenForSuccessor(c) \/ LogoutWrittenForStop(c))
       /\ WF_vars(sock[c] = "destroyed" /\ SocketClosed(c))
  /\ WF_vars((\A c \in Conn : sock[c] \in {"unused", "closed"}) /\ ServerClosed)

FairSpec == Spec /\ Fairness

-----------------------------------------------------------------------------
\* Every variable has the kind of value its field or Map has in the code.
TypeOK ==
  /\ process \in {"running", "stopping", "closing", "stopped", "stop failed", "crashed"}
  /\ sock \in [Conn -> {"unused", "open", "ended", "destroyed", "closed"}]
  /\ listening \in [Conn -> BOOLEAN]
  /\ hooks \in [Conn -> SUBSET Sess]
  /\ activeSockets \subseteq Conn
  /\ state \in [Sess -> {"unborn", "LOGGED_ON", "LOGGING_OUT", "DISCONNECTED", "ERROR"}]
  /\ conn \in [Sess -> Conn \cup {None}]
  /\ sid \in [Sess -> SessionId \cup {None}]
  /\ timer \subseteq Sess
  /\ sessions \in [SessionId -> Sess \cup {None}]
  /\ members \subseteq Room \X SessionId
  /\ joined \subseteq Room \X Sess
  /\ auths \subseteq Conn \X SessionId
  /\ writes \in [Conn -> Seq(Write)]
  /\ doomed \subseteq Conn

\* SessionManager never holds more sessions than its limit, although the limit is
\* checked on one turn and the registration was asked for on another
\* (session.manager.ts:125-129 after the await of 118).
RegistryBounded == MaxSessions # 0 => Size(sessions) <= MaxSessions

\* No more sessions are logged on than the limit allows (fix.constant.ts:20
\* "Default maximum number of concurrent FIX sessions allowed"): a logon beyond it
\* is refused, not answered (message.handler.ts:94 does not wait for the check).
LoggedOnBounded ==
  MaxSessions # 0 => Cardinality({s \in Sess : state[s] = "LOGGED_ON"}) <= MaxSessions

\* As long as a session's socket is open the acceptor reads it, and its close
\* hook is in place: removeAllListeners of one session never leaves another
\* session, or the socket itself, open and unattended (session.ts:307-317).
CleanupArmed ==
  \A s \in Sess : Born(s) /\ sock[conn[s]] = "open" => listening[conn[s]] /\ s \in hooks[conn[s]]

\* A logged-on session has its heartbeat interval, a disconnected one has none,
\* whatever order write callbacks, takeovers and closes come in
\* (session.ts:212-226 and 307-328).
TimerFollowsState ==
  \A s \in Sess : /\ state[s] = "LOGGED_ON" => s \in timer
                  /\ state[s] = "DISCONNECTED" => s \notin timer

\* While its Logout message is on the way a session is never LOGGED_ON again, so its
\* heartbeat interval, still armed, sends nothing behind the Logout (session.ts:90-94
\* and 218). It still answers: a TestRequest gets its Heartbeat in any state (286-289).
LogoutQuietensInterval ==
  \A w \in PendingWrites : w.kind = "logout" => state[w.of] # "LOGGED_ON"

\* Every registered session is one that can still exchange messages: it is not
\* disconnected and its socket has not closed (session.manager.ts:87 "Gets all
\* active sessions"). Needs peers that keep a connection up while it is logging on.
ActiveSessionsOnly ==
  \A s \in Registered : state[s] # "DISCONNECTED" /\ sock[conn[s]] # "closed"

\* A logged-on session can be reached through the registry, or will be once the
\* session it replaces is gone: registerSession is not awaited by its caller
\* (message.handler.ts:94), so the two could come apart. They do beyond the limit,
\* see LoggedOnBounded.
LoggedOnIsRegistered ==
  \A s \in Sess : state[s] = "LOGGED_ON" => sessions[sid[s]] = s \/ Succeeds(s)

\* At most one session of an identifier is logged on, also while one replaces
\* another (session.manager.ts:112-122).
OneLoggedOn ==
  \A s, t \in Sess : state[s] = "LOGGED_ON" /\ state[t] = "LOGGED_ON" /\ sid[s] = sid[t] => s = t

\* Identifiers change hands in one step, although logon, takeover and logout each
\* take several turns: who logs on ends the older session of the identifier at once,
\* also when it cannot be answered itself, and no session is logged on twice
\* (message.handler.ts:86-98, session.manager.ts:112-122 and session.ts:212-226).
On == [i \in SessionId |-> {s \in Sess : state[s] = "LOGGED_ON" /\ sid[s] = i}]
Used == {s \in Sess : Born(s)}
Directory == INSTANCE SessionDirectory WITH on <- On, used <- Used
ImplementsDirectory == Directory!Spec

\* A session that replaces another is registered in the end, also when the
\* registry is at its limit (session.manager.ts:118-129).
TakeoverCompletes == \A s \in Sess : Succeeds(s) ~> s \in Registered

\* A destroyed socket does not stay in the registry (acceptor.ts:138-142 and
\* message.handler.ts:196-202).
DeadSocketsAreSwept ==
  \A c \in Conn : sock[c] = "destroyed" ~> \A s \in Registered : conn[s] # c

\* stop() gets to its end: the logouts it waits for come back, whatever takeovers and
\* peers do meanwhile, and then no connection is left that keeps the server's close
\* callback from it, not even one accepted during the wait (acceptor.ts:65-71, 114-125).
StopCompletes == process \in {"stopping", "closing"} ~> process = "stopped"

\* stop() does not give up half-way: closeAll finds no session that rejects its
\* logout because it is already disconnected (acceptor.ts:72-75, session.ts:86-88).
StopSucceeds == process # "stop failed"

\* Room membership is exactly what the handlers of the registered sessions asked
\* for: nobody is in a room through a session that is gone, and nobody was taken
\* out by the end of another session (session.manager.ts:59-66).
RoomsFollowSessions ==
  members = {<<p[1], sid[p[2]]>> : p \in {q \in joined : q[2] \in Registered}}

\* A registered session is in every room its handlers joined (README.md:116 "Join
\* a room for broadcasting", in an OnLogon handler).
JoinedStaysJoined ==
  \A p \in joined : p[2] \in Registered => <<p[1], sid[p[2]]>> \in members
=============================================================================
