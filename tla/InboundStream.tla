--------------------------- MODULE InboundStream ---------------------------
(***************************************************************************)
(* How the bytes of one connection become messages of a session: TCP cuts  *)
(* the stream into chunks anywhere, FIXMessageParser.processData           *)
(* (message/fix.message.parser.ts) looks at each chunk by itself, and      *)
(* handleIncomingData (acceptor/acceptor.ts) handles the messages of a     *)
(* chunk one after the other, while the next chunk is not made to wait.    *)
(*                                                                         *)
(* Message 1 is the Logon, the others belong to the session it opens. A    *)
(* message is six parts, which tell the places where a cut matters apart:  *)
(* 1: "8", 2: "=" and the start of the version, 3: the rest up to          *)
(* BodyLength, 4: MsgType, 5: the other fields toString() requires, 6: the *)
(* fields of the message itself and the CheckSum. A malformed message      *)
(* lacks one of the fields of part 5. (One that lacks its MsgType is       *)
(* skipped by processData, like a message that was never sent.)            *)
(*                                                                         *)
(* No other connection uses the identifier of this session.                *)
(***************************************************************************)
EXTENDS Naturals, FiniteSets

CONSTANTS
  Messages,    \* number of messages the peer sends
  MaxChunks    \* bound: number of data events

ASSUME MessagesAssumption == Messages \in Nat \ {0}
ASSUME MaxChunksAssumption == MaxChunks \in Nat \ {0}

VARIABLES
  malformed,   \* the messages the peer sends with a required field missing
  ends,        \* where the chunks received so far ended, in parts of the stream
  todo,        \* per chunk, what processData found and handleIncomingData is not done with
  sock,        \* "down" once the socket was ended or destroyed, until 'close'
  session,     \* the Logon's: not there yet, in the registry, turned away by it, or over
  begun,       \* history: what was handed to the message handler
  refused,     \* ... of these, answered with a Logout message and the delayed close
  served       \* ... of these, passed to the session

vars == <<malformed, ends, todo, sock, session, begun, refused, served>>

Parts == 6

Largest(S) == CHOOSE x \in S : \A y \in S : y <= x

Received == Largest(ends)
Chunks == Cardinality(ends) - 1

\* A piece of message msg, the parts from .. to, found in a chunk.
Piece == [chunk : 1..MaxChunks, msg : 1..Messages, from : 1..Parts, to : 1..Parts]

\* The pieces of messages in chunk n, the parts lo + 1 .. hi of the stream. The
\* split at SOH "8=" finds the boundaries between messages; a chunk that ends
\* inside "8=" leaves a field without a value, which is skipped.
Pieces(n, lo, hi) ==
  {p \in Piece : /\ p.chunk = n
                 /\ p.from <= p.to
                 /\ \A k \in 1..Parts :
                      k \in p.from..p.to <=> (p.msg - 1) * Parts + k \in lo + 1..hi}

\* Wrong: a piece without a MsgType is let through.
ParsedUntyped(p) == p.from # 2

\* What processData makes a message of. A piece that does not start with "8=" gets
\* these two characters, so its first field, whatever it is, becomes the version:
\* a cut after the "8" leaves an empty version and drops the message, a cut before
\* BodyLength ends gives it a wrong version, a cut before MsgType takes its type.
Parsed(p) == p.from \in {1, 3} /\ p.to >= 4

\* message.toString() in logIncomingMessage does not throw: all the required fields
\* are there.
Printable(p) == p.to >= 5 /\ p.msg \notin malformed

\* handleNonLogonMessage finds the session.
Registered == session = "registered"

Whole(p) == p.from = 1 /\ p.to = Parts

IsLogon(p) == p.msg = 1

First(T) == CHOOSE p \in T : \A q \in T : p.msg <= q.msg

\* validateRequiredFields of the message handler: the last part holds HeartBtInt
\* and EncryptMethod.
RefusesLogon(p) == p.to < Parts

Down(sk) == IF sk = "open" THEN "down" ELSE sk

-----------------------------------------------------------------------------
(* Pieces of several turns *)

\* Wrong: the message is passed on although there is no session for it.
ServesAnyway(p, reg) == ~IsLogon(p)

\* The message goes to the session, reg telling whether it is registered.
Serves(p, reg) == ~IsLogon(p) /\ reg

\* The message handler is given p, up to its first wait.
Handed(p, reg) ==
  /\ begun' = begun \cup {p}
  /\ refused' = IF (IsLogon(p) /\ RefusesLogon(p)) \/ (~IsLogon(p) /\ ~reg)
                THEN refused \cup {p} ELSE refused
  /\ served' = IF Serves(p, reg) THEN served \cup {p} ELSE served

\* Wrong: forEach with an async callback, nothing is awaited between messages.
ContinueAtOnce(n, T, reg, sk) ==
  /\ todo' = [todo EXCEPT ![n] = T]
  /\ sock' = sk
  /\ begun' = begun \cup T
  /\ refused' = refused \cup {p \in T : ~IsLogon(p) /\ ~reg}
  /\ served' = served \cup {p \in T : ~IsLogon(p) /\ reg}

\* The loop of handleIncomingData over chunk n, of which T is left, with the socket
\* in state sk and reg for Registered: it ends, waits in the handler of the next
\* message, or throws while it logs that message, which leaves the loop with all that
\* is behind and destroys the socket.
Continue(n, T, reg, sk) ==
  \/ /\ T = {}
     /\ todo' = [todo EXCEPT ![n] = {}]
     /\ sock' = sk
     /\ UNCHANGED <<begun, refused, served>>
  \/ /\ T # {} /\ Printable(First(T))
     /\ todo' = [todo EXCEPT ![n] = T]
     /\ sock' = sk
     /\ Handed(First(T), reg)
  \/ /\ T # {} /\ ~Printable(First(T))
     /\ todo' = [todo EXCEPT ![n] = {}]
     /\ sock' = Down(sk)
     /\ UNCHANGED <<begun, refused, served>>

\* The message of chunk n whose handler is awaited.
InHand(n) == First(todo[n])

\* What is left of chunk n behind it.
Behind(n) == todo[n] \ {InHand(n)}

-----------------------------------------------------------------------------
Init ==
  /\ malformed \in SUBSET (1..Messages)
  /\ ends = {0}
  /\ todo = [n \in 1..MaxChunks |-> {}]
  /\ sock = "open"
  /\ session = "none"
  /\ begun = {}
  /\ refused = {}
  /\ served = {}

\* A data event with the stream up to part k.
Arrive(k) ==
  /\ sock = "open"
  /\ Chunks < MaxChunks
  /\ k > Received
  /\ ends' = ends \cup {k}
  /\ Continue(Chunks + 1, {p \in Pieces(Chunks + 1, Received, k) : Parsed(p)}, Registered, sock)
  /\ UNCHANGED <<malformed, session>>

\* The Logon in hand waits for its credentials.
Authenticating(n) ==
  /\ todo[n] # {}
  /\ IsLogon(InHand(n))
  /\ InHand(n) \notin refused \cup served

\* They are accepted, whatever became of the socket: the session is created and given
\* the Logon, whether or not the registry took it, for createNewSession does not wait
\* for registerSession, which rejects at the limit. The session answers and waits for
\* the callback, or throws because the socket takes no answer; Settled stands for the
\* end of both.
Authorised(n) ==
  /\ Authenticating(n)
  /\ session' \in {"registered", "turned away"}
  /\ served' = served \cup {InHand(n)}
  /\ UNCHANGED <<malformed, ends, todo, sock, begun, refused>>

AuthRejected(n) ==
  /\ Authenticating(n)
  /\ refused' = refused \cup {InHand(n)}
  /\ UNCHANGED <<malformed, ends, todo, sock, session, begun, served>>

\* Wrong: whatever ends a handler ends the loop of its chunk.
SettledForAll(n) ==
  /\ todo[n] # {} /\ ~Authenticating(n)
  /\ Continue(n, {}, Registered, sock)
  /\ UNCHANGED <<malformed, ends, session>>

\* The handler of the message in hand settles, with an error or without one: the
\* 100 ms of a refusal are over and the socket is destroyed, the session's handlers
\* are done, or its answer to the Logon was written. A Logon whose session throws
\* destroys the socket as well; other errors are logged and the loop goes on.
Settled(n) ==
  /\ todo[n] # {} /\ ~Authenticating(n)
  /\ \E sk \in {sock, Down(sock)} :
       /\ InHand(n) \in refused => sk = Down(sock)
       /\ ~IsLogon(InHand(n)) /\ InHand(n) \in served => sk = sock
       /\ Continue(n, Behind(n), Registered, sk)
  /\ UNCHANGED <<malformed, ends, session>>

\* The end of the session's logout, by the application, in the handler of a message of
\* the chunk for one, or by a Logout message of the peer: out of the registry it is, and
\* the socket is ended.
SessionEnds ==
  /\ session = "registered"
  /\ session' = "over"
  /\ sock' = Down(sock)
  /\ UNCHANGED <<malformed, ends, todo, begun, refused, served>>

\* The peer ends the connection, or it breaks.
Drop ==
  /\ sock = "open"
  /\ sock' = "down"
  /\ UNCHANGED <<malformed, ends, todo, session, begun, refused, served>>

\* The 'close' event takes the session out of the registry. The loops of chunks
\* that are not done go on: nothing in them looks at the socket.
Closed ==
  /\ sock = "down"
  /\ sock' = "closed"
  /\ session' = IF session = "registered" THEN "over" ELSE session
  /\ UNCHANGED <<malformed, ends, todo, begun, refused, served>>

Next ==
  \/ \E k \in 1..Messages * Parts : Arrive(k)
  \/ \E n \in 1..MaxChunks : Authorised(n) \/ AuthRejected(n) \/ Settled(n)
  \/ SessionEnds
  \/ Drop
  \/ Closed

Spec == Init /\ [][Next]_vars

\* Credentials are checked, write callbacks and timers run, and the application's
\* handlers settle: a handler that never does holds back the rest of its chunk.
Fairness ==
  \A n \in 1..MaxChunks : WF_vars(Authorised(n) \/ AuthRejected(n)) /\ WF_vars(Settled(n))

FairSpec == Spec /\ Fairness

-----------------------------------------------------------------------------
\* Every variable has the kind of value it stands for; what the handler was given
\* is refused or served, not both.
TypeOK ==
  /\ malformed \subseteq 1..Messages
  /\ ends \subseteq 0..Messages * Parts
  /\ todo \in [1..MaxChunks -> SUBSET Piece]
  /\ sock \in {"open", "down", "closed"}
  /\ session \in {"none", "registered", "turned away", "over"}
  /\ begun \subseteq Piece
  /\ refused \subseteq begun
  /\ served \subseteq begun
  /\ refused \cap served = {}

\* However TCP cuts the stream, a message is handled at most once: of the two ends
\* of a cut message never both are taken for a message, although each is parsed by
\* itself and the second is given a BeginString (fix.message.parser.ts:37-74).
AtMostOnce == \A p, q \in begun : p.msg = q.msg => p = q

\* A peer may send messages right behind its Logon in one chunk: none of them is refused
\* while the Logon waits for its credentials or the session it opened is there. It takes a
\* Logon that was refused, a session that the registry turned away, although its Logon
\* was answered, or one that is over (acceptor.ts:153-155, message.handler.ts:94 and
\* 189-192).
LogonCoversItsChunk ==
  \A p \in begun, q \in refused :
    Whole(p) /\ IsLogon(p) /\ q.chunk = p.chunk =>
      p \in refused \/ session \in {"turned away", "over"}

\* Message m has been received without a cut in it.
Uncut(m) ==
  /\ m * Parts <= Received
  /\ \A k \in ends : k \notin (m - 1) * Parts + 1 .. m * Parts - 1

\* It is well-formed itself, and no part of a malformed message came before it in its
\* chunk: behind every malformed one before it a chunk ended.
Clear(m) ==
  /\ m \notin malformed
  /\ \A x \in malformed : x < m => \E e \in ends : x * Parts <= e /\ e <= (m - 1) * Parts

\* A well-formed message that was not cut reaches the message handler, although messages
\* around it are cut, refused or fail and the socket may be gone by then. What keeps it
\* from the handler is a malformed message before it in its own chunk, whose toString()
\* throws away the rest of the chunk with it; one behind it, or in another chunk, does
\* not (acceptor.ts:150-178, message.ts:270-285).
UncutReachHandler ==
  \A m \in 1..Messages : Uncut(m) /\ Clear(m) ~> \E p \in begun : p.msg = m /\ Whole(p)
=============================================================================
