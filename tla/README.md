# nest-quickfix in TLA+

nest-quickfix is a NestJS library for the FIX protocol: an acceptor that serves
FIX sessions over TCP, an initiator, sessions with heartbeats and sequence
numbers, rooms for broadcasting, a message queue. These modules model the parts
of it whose behaviour depends on the order of events, check them with TLC on
small instances, and prove the most important facts for every instance with
TLAPS. Paths below are relative to `src/src/` of the repository.

## 1. The system

Everything runs in one Node process: there are no threads, and a turn of the
event loop (a callback together with the promise continuations it leaves behind)
is not interrupted. What interleaves are turns: socket events, write callbacks,
timers, and the answers of the application's authentication service. Nothing is
persisted, so a crash loses everything and there is no recovery to model.

| Component | State | Operations | Interacts with |
|---|---|---|---|
| `FIXAcceptor` (acceptor/acceptor.ts) | server, `activeSockets` | start, stop, new connection, data/close/error of a socket, `cleanupSocketSessions` | parser, message handler, `SessionManager` |
| `AcceptorMessageHandler` (acceptor/message.handler.ts) | none, but three `await`s | validate a logon, admit a session, refuse with a Logout and a 100 ms delay, route a message by its CompIDs | auth service, `SessionManager`, `Session` |
| `SessionManager` (session/session.manager.ts) | `sessions`: identifier to `Session`, `maxSessions` | registerSession (takeover, limit), removeSession, closeAll, lookups | `Session.logout`, `RoomManager` |
| `Session` (session/session.ts) | `state`, `socket`, heartbeat interval, sequence number, handler sets | logon, logout, sendMessage, handleMessage, handleDisconnect, join, leave | socket, `SessionManager`, `RoomManager`, application handlers |
| `RoomManager` (services/room.manager.ts) | two Maps, rooms to sessions and back | join, leave, leaveAllRooms, queries | `Session`, `SessionManager`, `FixService` |
| `FixService` (services/fix.service.ts) | one `targetId` | to(room).send(message) | `RoomManager`, `SessionManager` |
| `FIXInitiator` (initiator/initiator.ts) | socket, session, reconnect timer and count | start, stop, two reconnect loops | `Session` |
| `MessageQueue`, `PriorityQueue` (protocol/flow, common) | queue, `processing`, `paused`, counters | enqueue, batches, retries, pause, resume, shutdown | `SessionManager` |
| `ProtocolManager`, `FIX44Validator` (protocol) | `isLoggedOn`, queued messages | processIncoming | none |
| parsers, `Message`, checksum | a buffer in one of them | processData, toString, createReverse | |
| `FixModule`, metadata explorer, configuration, field tables | none that changes | wiring and reflection at start-up | |

What is hard about it, and what makes each part correct:

* **Logging on spans several turns.** Credentials are awaited before a session
  exists, the older session of the identifier is logged out while the newer one
  already works, and `registerSession` is not awaited by its caller. Correct
  means: at most one session of an identifier is logged on, whoever is logged on
  is registered or about to be, the registry keeps its limit, and what is
  registered is alive.
* **Ending is done by four different paths** (a Logout received, a takeover, a
  close event, stop), each of which disconnects the session, takes *all*
  listeners off its socket, ends the socket, and removes the *identifier* with
  its rooms, whoever holds it by then. Correct means: no open socket is left
  unattended, no heartbeat interval outlives its session or fires behind its
  Logout message, and rooms follow the sessions that joined them. (A TestRequest is
  answered in any state, behind the Logout message too: session.ts:286.)
* **stop()** awaits every logout, destroys the sockets and awaits the close of the
  server. Correct means that it gets to the end.
* **RoomManager** keeps one relation in two Maps: they must agree.
* **What sessions write** comes from heartbeat intervals, answers, broadcasts and
  logouts, whose write callbacks overlap, while `sendMessage` never looks at the
  state of the session and consumes a number before it looks at the socket.
  Correct means: the peer sees 1, 2, 3 ..., nothing once the turn of a disconnect is
  over, and broadcasts in one order everywhere; every `send()` comes back; every end
  of a session reaches its handlers.
* **MessageQueue** sends a whole batch back when one message of it fails, and runs
  batches of intervals, of resumed intervals and of shutdown() over one queue.
  Correct means: nothing is lost or held twice, duplicates are bounded, the
  order within a priority is kept, everything is settled, shutdown() returns.
* **FIXInitiator** may have a connection attempt, timers and calls of start()
  pending at once. Correct means: attempts do not multiply, keep to their limit,
  end, and do not survive stop().
* **The stream** of a connection arrives in chunks cut anywhere, each looked at by
  itself, handled side by side. Correct means: no message is handled twice, and
  what was not cut is handled, unless a malformed message came before it in its chunk.

PROJECT.json lists the hazards at the lines where they bite, with the properties
that cover them or the reason why none does yet.

## 2. The modules

| Module | What it is |
|---|---|
| `RoomMembership` | abstract: one relation between rooms and identifiers |
| `RoomManager` | the two Maps of room.manager.ts, one action per method |
| `RoomManagerProofs` | theorems about `RoomManager` |
| `AcceptorSessions` | acceptor, message handler, sessions, registry and rooms composed |
| `SessionDirectory` | abstract: which session of each identifier is logged on |
| `AcceptorSessionsProofs` | theorems about `AcceptorSessions`, whatever the peers do |
| `AcceptorOrderProofs` | theorems about `AcceptorSessions` with peers that keep to some order |
| `SessionTraffic` | what sessions write, `FixService` over rooms and registry, and how sessions fall silent |
| `SessionTrafficProofs` | theorems about `SessionTraffic` |
| `MessageDelivery` | abstract: what a message queue promises |
| `PriorityQueue` | the array of priority.queue.ts: pushes, the sort, shifts, as operators |
| `PriorityQueueProofs` | lemmas about those operators |
| `MessageQueue` | message.queue.ts over that array |
| `MessageQueueProofs` | theorems about `MessageQueue` |
| `Initiator` | start, reconnect attempts and stop of the initiator |
| `InitiatorProofs` | theorems about `Initiator` |
| `InboundStream` | the chunks of one connection, from bytes to the message handler |
| `InboundStreamProofs` | theorems about `InboundStream` |
| `MC...` | instances for TLC; one .cfg per run |

`AcceptorSessions` uses the operators of `RoomMembership` (`Rooms!Pairs`,
`Rooms!WithoutSessions`) for the rooms, which is sound because `RoomManager`
implements `RoomMembership`; the run `rooms_refine` checks that and the theorem
`Implements` proves it.

### RoomManager

A JavaScript Map is a function whose DOMAIN is its set of keys, so an absent key
and a key with an empty Set are different states. `AddTo` is
`initialize...IfNeeded` and `add`, `RemoveFrom` is `removeFromRoom` and
`removeRoomFromSession` with the deletion of a key whose Set became empty.
Methods are synchronous, hence one action each; `leaveAllRooms` is the whole loop.

### AcceptorSessions

One action is one turn. The correspondence of the state:

| Variable | In the code |
|---|---|
| `sock` | stream state of each socket: open; ended (`end()` called or the peer ended, no longer writable, write callbacks still to come); destroyed; closed (the 'close' event was emitted) |
| `listening` | the acceptor's data, close and error listeners are on the socket (`setupSocketEventHandlers`; `removeAllListeners` takes them off) |
| `hooks` | sessions whose `once('close')` of `setupDisconnectHandler` is on the socket |
| `activeSockets` | `FIXAcceptor.activeSockets` |
| `state`, `conn`, `sid`, `timer` | `Session.state`, `socket`, `sessionId`, and whether the heartbeat interval is armed; "unborn" before the constructor, whose DISCONNECTED no other turn can see, since LOGGED_ON is set in the same turn |
| `sessions` | `SessionManager.sessions`, None for an absent key |
| `members` | the rooms, as the relation of `RoomMembership` |
| `joined` | history variable: which session joined which room; no action reads it |
| `auths` | logons whose credentials are being checked |
| `writes` | per socket, the awaited writes whose callback has not run, in order: the answer to a logon, or a Logout message together with the session that waits for it |
| `doomed` | sockets with a pending 100 ms timer of `sendLogoutAndClose` |
| `process` | how far stop() is, or "crashed" |

The life of a session: `ReceiveLogon` (synchronous checks passed, the turn ends
in the auth service), `AuthRejected` or `AuthAccepted`. The latter is
`createNewSession`, `registerSession` up to its wait, `setupDisconnectHandler` and
`handleLogon` up to its wait, and has three cases: `AdmitAtOnce` (nobody has the
identifier, or a disconnected session has it and is overwritten),
`AdmitTakeover` (the older session's Logout message is written, registration
waits for the callback), `AdmitOverUnwritable` (the older session's socket takes
no message, so it is gone in the same turn). Then `LogonAnswered` or
`LogonAnswerFails`, `LogoutWrittenForSuccessor` (the rest of the older session's
logout and of `registerSession`), `ReceiveLogout`, `ReceiveJoin`, `ReceiveLeave`,
`SocketClosed`. stop() is `Stop`, the callbacks `LogoutWrittenForStop`, the last of
which goes on to `FinishStop` (the sockets are destroyed and the server is asked to
close), and `ServerClosed`, the callback of `server.close()`, which needs every
connection gone. `PeerCloses`,
`SocketError`, `ReceiveMalformed`, `ReceiveRefused` and `DelayedDestroy` are what
else happens to a socket. "crashed" is the end of the Node process: an 'error'
event on a socket without listeners, or an unhandled rejection of
`registerSession` at the limit when `RejectionIsFatal` (Node's default; a
process may install a handler instead, so both values are admitted).

**What is abstracted.** A message is its kind and the identifier it names. A
data event carries one message: several in one chunk are awaited one after the
other by `handleIncomingData`, which is one of the orders separate events have.
Authentication is always configured; without it the answer comes in the same
turn, a case of `AuthAccepted` right after `ReceiveLogon`. One check of
credentials per socket and identifier is pending at a time. Application handlers
do not throw, and join rooms only in the turn they are called in. Heartbeats,
test requests and sequence numbers change nothing these variables show. A write
fails exactly when its socket is no longer writable when the callback runs. The
order in which stop() writes several Logout messages to one socket is fixed by
`SetToSeq`; two registered sessions share a socket only under "relogon".

**What the peers do.** The code constrains nothing, and some properties need
something. The constant `Irregular` names what an instance admits beyond the
textbook peer, who logs on once per connection, has one connection per
identifier at a time, waits for each answer and names only its own identifier:

| In `Irregular` | The peer, or the application, may |
|---|---|
| "takeover" | log on with an identifier that is registered |
| "hasty" | send a message while an earlier one of that connection, or a logon or logout of that identifier, is in progress |
| "relogon" | log on again on a connection that has a session |
| "foreign" | send messages that name another connection's identifier |
| "drop" | close or reset the connection at any moment |
| "stop" | (the application) call stop() at any moment |

Each run states its own. The theorems of `AcceptorSessionsProofs` hold for every value
of `Irregular`; those of `AcceptorOrderProofs` name what they ask of it.

`SessionDirectory` is what an acceptor promises: `on` tells which session of each
identifier is logged on, `used` which sessions there were. `LogOn` puts a new session
in the place of whoever was there in one step, `Fail` ends the older one although the
new one could not be logged on, and `End` ends any sessions. `On` and `Used` of
`AcceptorSessions` are the mapping: admissions are `LogOn` (or `Fail`, when the write
of the answer finds the socket gone), every other action ends some or stutters.

### SessionTraffic

`AcceptorSessions` abstracts from what is written; this module takes the other
half: sessions that each have a socket and an identifier of their own, so that one
name stands for the three, and everything that calls `Session.sendMessage`.

| Variable | In the code |
|---|---|
| `state`, `timer`, `next` | `Session.state`, the heartbeat interval, `nextOutgoingSeqNum` |
| `sock` | the session's socket; "down" is no longer writable, "closed" has emitted 'close' |
| `attended` | sessions whose socket still has its listeners |
| `told` | history: sessions whose disconnected handlers ran |
| `leaving` | the session whose disconnected handlers are being run, if any |
| `sessions`, `members` | registry and rooms |
| `wire` | what was written to each socket: the number, and the broadcast it belongs to |
| `writes` | the writes somebody awaits, in order, as in `AcceptorSessions` |
| `targetId`, `call` | `FixService.targetId` and how far each call of `send()` is |
| `asked` | history: `to()` was called since the last `send()` |

`Numbered` is `addRequiredFields`: the number is consumed whatever happens next.
`Written` is `socket.write` if the socket is writable. `SendToRoom` is `send()` up to
its wait, in one turn for all recipients; `BroadcastWritten` and `BroadcastFails` are
callbacks, of which the last one, or the first error, settles `Promise.all`; `finally`
then takes the target away, whoever set it. `Heartbeat`, `ReceiveTestRequest` and
`SendFresh` send without waiting for anything that matters, `Logout` and `Logon` with
a wait; `LogoutWritten`, `LogonWritten` and `LogonFails` are what follows. `Closed` is
the 'close' event with the acceptor's sweep and the session's own hook.

The turn that ends a session is two steps. `Disconnecting` is `handleDisconnect` up to
its handlers, which run while the session is DISCONNECTED, registered, and its socket
still writable (session.ts:310); `Leave` is the rest of the turn: `removeAllListeners`,
`socket.end()` and `removeSession`. Between them (`leaving`) only what handlers can
call may happen: `SendFresh` on any session, `To`, the `Send...` of `FixService` and
`Logout`; no event of a socket, a timer or a callback (`Idle`).

Abstracted: the application passes well-formed messages and each message object
once (see the second divergence of section 5); the Logout of a refused message,
which the message handler writes with number 1 of its own, is not a message of a
session; handlers do not throw, and only the disconnected ones are told apart from
code of the application that runs in turns of its own; a session does not share its
socket and is not replaced (that is `AcceptorSessions`). A Logout that a disconnected
handler makes on an unwritable socket goes on after the handler's turn, so it is a
call that follows it. The fields are left out: `clone`,
`createReverse` and `toString` change nothing of what is told apart here.

### MessageQueue

`items` is the array of `PriorityQueue`, in its order, each item with the number of the
push that put it there. `Enqueue` pushes and sorts the whole array (`Sorts`: a
permutation that puts higher priorities first and leaves equals in place, as the stable
sort of JavaScript does); `PushAll` pushes what handleSendError queues again, where one
sort after all the pushes comes to the same as a sort after each. `ProcessBatch` shifts
until its batch is full (`Shifted`, `Rest`). A batch in hand is a set: its order in the
array is that of `Before` (higher priority, then older push), which the proofs show.
A batch is sent one message per turn: `SendBatch` goes from one `await` to the next,
and ends when all are sent or one throws, by `HandleSendError`, which queues again or
reports every message of the batch. `Tick` is the interval, `WriteConfirmed` and
`WriteFails` the write callbacks, `Shutdown`, `ShutdownGoesOn` and `LastBatch`
shutdown(). Two may run batches (`Runner`): the interval, which holds the flag
`processing`, and shutdown(), which does not. Intervals added by `resume()` exclude
each other by the flag and count as one. A session that is missing or a socket
that is not writable is the disjunct of `SendBatch` that fails at any message;
`Invalid` messages have no MsgType and always fail. `accepted`, `writes`, `delivered`
and `failed` are history. Metrics are left out.

`MessageDelivery` is the promise: an accepted message is written at most
`MaxSends` times and reported as failed at most once, after which it is not written
again. The queue implements it with `MaxSends = MaxRetries + 2`: the first batch and
maxRetries + 1 retries. It is a bound from above only: a message without a MsgType, or
whose session never takes it, is never written. That every message is delivered or
reported in the end is `Settles`.

### Initiator

`connecting` counts the calls of start() that wait for connect(); they all wait for
the next 'connect' or 'error' of the one socket, so `SocketEvent` settles them
together. `timers` counts armed timers, `current` says whether `this.reconnectTimer`
is one of them. `enabled` and `heard` are the configuration and whether the
application listens to 'error': `emit` throws when nobody does, and the catch block
ends before the reconnect. The session is DISCONNECTED for good, so logon() throws
after every connection and logout() in every stop(), before the socket is destroyed.
`handleReconnect` is called by nobody. The intervals of the timers are left out.

### InboundStream

A message is six parts, the places where a cut makes a difference to `processData` or
to what is done with its result (the module's head names them). `Pieces` are the
parts of messages in one chunk, `Parsed` those `processData` makes a `Message` of,
`Printable` those `toString()` in `logIncomingMessage` accepts: neither torn before the
required fields, nor `malformed`, which is any set of the messages, chosen at the
start. `todo[n]` is the rest of
chunk n; its first piece is the one whose handler is awaited (`InHand`). `Arrive` is a
data event, `Settled` the end of a handler, each with the loop going on to the next
message, or out of it by a message that does not print, which drops what is behind it
and destroys the socket (`Continue`). The Logon is message 1; `Authorised` and
`AuthRejected` answer its credentials, and the registry takes the session or turns it
away, which nobody waits for (message.handler.ts:94); `session` says what became of it,
and other messages are served or refused by that. `SessionEnds` is its logout, by the
application or by a Logout message. The acceptor's loops go on when the socket closes.
Abstracted: messages carry one identifier, which no other connection uses. A message
without a MsgType is skipped by the parser, like one that was never sent.

## 3. The runs

| Run | Irregular | Instance | Shows |
|---|---|---|---|
| `rooms_refine` | | 3 rooms, 3 identifiers, every one of the 512 relations | `IndexesAgree`, `NoEmptyEntry`, and refinement of `RoomMembership` |
| `acceptor_textbook` | none | 3 sockets, 2 identifiers, 3 sessions, 2 rooms, no limit | `RoomsFollowSessions`: with orderly peers the rooms are exactly what the handlers of registered sessions asked for |
| `acceptor_takeover` | takeover | 3 sockets, 2 identifiers, 3 sessions, limit 2 | `ActiveSessionsOnly`, `LoggedOnIsRegistered`, refinement of `SessionDirectory`, `TakeoverCompletes`, `DeadSocketsAreSwept` (94,500 states) |
| `acceptor_any` | all but stop | 2 sockets, 2 identifiers, 3 sessions, limit 1, rejections survive | `RegistryBounded`, `CleanupArmed`, `TimerFollowsState`, `LogoutQuietensInterval` |
| `acceptor_stop` | takeover, stop | 3 sockets, 2 identifiers, 3 sessions (475,198 states) | `StopSucceeds`, `StopCompletes` |
| `acceptor_zombie` | drop | 1 socket, 1 identifier | violates `ActiveSessionsOnly` (finding 1) |
| `acceptor_limit` | none | 2 sockets, 2 identifiers, limit 1 | violates `LoggedOnBounded` (finding 3) |
| `acceptor_rooms` | takeover | 2 sockets, 1 identifier, 1 room | violates `JoinedStaysJoined` (finding 2) |
| `session_traffic` | | 2 sessions, 1 room, 2 broadcasts, 3 numbers per session (363,524 states) | `SequenceIntact`, `SameOrder`, `NoStaleTarget`, `SilentOnceDisconnected`, `SendReturns`, `EndIsAnnounced` |
| `queue_delivery` | | 3 messages, one of them invalid, 2 priorities, batches of 2, 1 retry (89,082 states) | `OnePlace`, `NothingLost`, `TakenInOrder`, refinement of `MessageDelivery`, `Settles`, `ShutdownReturns` |
| `initiator_reconnect` | | 3 starts, 3 attempts, every configuration (440 states) | `OneChainPerStart`, `AttemptsBounded`, `StopIsFinal`, `ComesToRest` |
| `inbound_stream` | | a Logon and 2 messages, any of them malformed, every cut into up to 3 chunks (63,669 states) | `AtMostOnce`, `LogonCoversItsChunk`, `UncutReachHandler` |

**Bounds.** Sockets and sessions are used once, so `Conn` and `Sess` bound the
history: three sessions let a takeover be followed by another one, or run beside
an unrelated session; two identifiers let the limit of `acceptor_any` be met by a
stranger, and the limit of `acceptor_takeover` be met exactly while an older
session still occupies its place; three sockets let an identifier change
connections while another lives. In `acceptor_any` three sessions on two sockets
force the repeated logon on one socket. Rooms are left out (`Room = {}`) where no
property reads them. No run bounds anything else: write buffers are bounded by
the sessions. `CHECK_DEADLOCK FALSE` is set because the acceptor really stops:
all sockets used up, process stopped or crashed.

In `session_traffic` two sessions and two broadcasts are what an order needs; three
numbers let a session answer its logon, and then send two of a heartbeat, an answer, a
broadcast and a Logout, in any overlap with the other session (`MaxSeqNum` bounds the
guards of whatever sends; the run may stop when all numbers are used, hence
`CHECK_DEADLOCK FALSE`). A broadcast is a send() that has recipients; those that are
refused or find nobody end in their own turn and may come any number of times. The run
checks liveness, so it uses no symmetry. In `queue_delivery` three messages in batches of two leave
one behind or make two batches that run side by side; one invalid message fails its
batches for certain; two priorities beside those of retries let a message be queued
before, between and beside others; nothing else is bounded and deadlock is checked. In `initiator_reconnect` `MaxStarts` bounds the calls of the application; deadlock is
checked, stop() being always possible. In `inbound_stream` three chunks are the least
that can cut one message twice, and three messages let one be first, in the middle and
last of a chunk; the stream ends, hence `CHECK_DEADLOCK FALSE`.

`RejectionIsFatal` is FALSE where the limit can be met, so that the run goes on
beyond a rejected registration, and TRUE elsewhere, where it makes no difference.

## 4. Fairness

`FairSpec` assumes of each socket that the callback of its oldest write runs in
the end, and that a destroyed socket emits 'close'. Node guarantees both: a
write either drains or the socket fails and its callbacks get the error. (A peer
that stops reading with its connection up can hold a write back for as long as
TCP keeps the connection; the code has no timeout of its own, and
`TakeoverCompletes` is exactly as strong as that assumption.) No fairness is
assumed of peers, of the authentication service, or of connections being
opened. The order of write callbacks and the 'close' event after them is part
of the actions. For stop() it assumes that `server.close()` calls back once all
connections have emitted 'close'; the model lets it do so earlier, when they are
destroyed, since Node counts a connection off at either point.

`SessionTraffic` assumes the same: write callbacks run, and a socket that went down
emits 'close'; and the handlers of a session that ends return (`Leave`). `MessageQueue`
assumes that its interval and the 100 ms timer of
shutdown() fire again and again, and that every write is answered; nobody has to
resume a paused queue, which is why `Settles` excepts one. `Initiator` assumes that a
connection attempt ends (by the system's timeout, at the latest) and that armed
timers fire. `InboundStream` assumes that credentials are checked in the end, and
that handlers settle: the code awaits the application's handlers without a limit, so
one that never settles does hold back the rest of its chunk, and
`UncutReachHandler` is exactly as strong as that assumption.

## 5. Findings

1. **A session can be registered on a dead socket** (`acceptor_zombie`,
   message.handler.ts:173). After the credentials are awaited the socket is not
   looked at again. If it closed meanwhile, the session is created, registered,
   given a close hook that will never fire and left in ERROR; it stays in the
   registry, "all active sessions" of session.manager.ts:88, until the same
   identifier logs on again.
2. **A takeover can empty the rooms of the new session** (`acceptor_rooms`,
   session.manager.ts:62). The new session's logon handler joins its rooms when
   its answer is written; the older session's logout then calls `removeSession`,
   which leaves all rooms of the identifier. The new session stays registered and
   gets no broadcast, although its handler did what README.md:116 shows.
3. **The limit does not limit** (`acceptor_limit`, message.handler.ts:94).
   `registerSession` keeps the registry within its limit (that is
   `RegistryBounded`, and proved), but its rejection reaches nobody: the session is
   set up, answered and LOGGED_ON outside the registry, beyond the "maximum number
   of concurrent FIX sessions allowed" of constants/fix.constant.ts:20; and by
   default the unhandled rejection ends the process. This is also why
   `LoggedOnIsRegistered` is checked on an instance whose limit is met but not
   exceeded.

What the models show beside these, each plain from reading the code or a single
call and therefore without a run of its own:

* message.queue.ts:179 says "Process remaining messages"; shutdown() runs one batch,
  so whatever exceeds `maxBatchSize`, and a batch that fails, stays in the queue of a
  queue that is paused. `NothingLost` holds because waiting counts.
* A retried message keeps its MsgSeqNum (session.ts:206) and takes another number
  (session.ts:202), so the peer sees a repeated number and then a gap; README.md:9
  promises "Automatic message recovery and sequence number handling".
* maxRetries grants maxRetries + 1 retries, and a message uses them up by the failures
  of others in its batches (message.queue.ts:124-126).
* initiator.ts:54 says "Stops the initiator and closes the connection"; stop() always
  rejects, because the session is never logged on, and leaves the socket open.
  A stop() during a connection attempt does not prevent the next attempt
  (`StopIsFinal` excepts it), and README.md:17 "Automatic reconnection" never leads to
  a session that is logged on (`ComesToRest` is about giving up).
* fix.message.parser.ts:36 says "Split by complete messages"; a cut message is lost, or
  handled without its last fields, and a message sent in the chunk after its Logon is
  refused while the credentials are checked.
* A second to() before the first send(), or a send() while another waits, shares the
  target (fix.service.ts:28, 96); `NoStaleTarget` says how far that can go.

## 6. The theorems

All hold for every value of the constants that satisfies the named assumptions of the
modules: sets of sockets, identifiers, sessions and rooms, every limit and both values
of `RejectionIsFatal` for the acceptor (`MaxSessions` is a natural number, `SessionId`
is finite, `None` is no session, identifier or socket); finitely many messages,
priorities in Nat, positive batch size and retry limit for the queue (0 is replaced by
the default in the constructor), any number of pushes for its array; finite `Sess` and `Broadcast` for the traffic, where
the names of broadcasts are not "logon" or "logout" (`BodyAssumption`: an awaited write
is told by its name); positive numbers of messages and chunks for the stream. The
peers of the acceptor are arbitrary (every `Irregular`), except in
`AcceptorOrderProofs`, where each theorem names what it asks of them.

`RoomManagerProofs`: `TypeCorrect`, `NeverAnEmptyEntry`, `IndexesAlwaysAgree`,
`Implements`. The argument reduces each update of a Map to what `Lookup` returns
afterwards; types and the absence of empty entries are one inductive invariant
(`Maps`), agreement of the indexes is inductive by itself, and each method then
maps to the abstract action of its name, or to a stutter.

`AcceptorSessionsProofs`:

* `TypeCorrect`. `TypeOK` alone is not inductive: the callback of a write indexes
  `state`, `sid` and `conn` with the session the write names, and a takeover with
  whatever is registered. The invariant is `Structure == TypeOK /\ Links`, where
  `Links` says that sessions have a socket and an identifier from birth on, that
  an entry of the registry is a born session of that identifier, that close hooks
  and pending writes are those of sessions of that socket, and that a successor
  has its predecessor's identifier. Two frame lemmas carry it: `LinksFrame` for
  steps that create no session, `LinksBirth` for admissions.
* `TimersFollowStates`: `TimerFollowsState` is inductive relative to `Structure`.
* `NoIntervalAfterLogout`: only an admission sets LOGGED_ON, on a session that is
  not born and therefore, by `Links`, has no write; and every Logout write is made
  in the step that sets LOGGING_OUT.
* `LimitHolds`: `Enrol` looks at the same registry it extends, so one check at
  the end is enough, whatever happened during the wait before it.
* `OpenSocketsAreAttended`: `CleanupArmed` needs more than itself (`Attended`):
  every open socket has its listeners, even one without sessions, and `Connect`
  opens no socket that a session or a pending logon already has. The point of
  the proof is that whoever deafens a socket leaves it unwritable in the same
  turn, and that a new session's hook comes after its predecessor was deafened.
* `StopAlwaysAwaited`: while stop() waits, a Logout message it waits for is in some
  buffer. `WriteKept` says that no step takes more than the oldest write out of a
  buffer, `StopBegins` that stop() puts one there when it has to wait, and
  `OnlyStopWaits` that nobody else starts such a wait.
* `NothingHoldsTheServer`: once stop() has asked the server to close, no connection is
  up, not even one accepted while it waited for the logouts. It needs that every
  connection that is up is listed in `activeSockets` (`Listed`), also one whose
  listeners were taken off.
* `SuccessorsNeverForgotten` (an action property): a session that waits to be
  registered goes on waiting until the step that registers it, or the registry is
  full in that step. It needs that the answer to a logon is no one's wait
  (`AnswersStandAlone`).

`AcceptorOrderProofs`: what the code promises only to peers, and applications, that
keep to some order. Each theorem asks for as little as its argument needs; the
right column says what TLC finds without it.

| Theorem | Asks | For example, without it |
|---|---|---|
| `RegisteredAreActive` (`ActiveSessionsOnly`) | `Irregular` within takeover, foreign | drop: finding 1 |
| `StopIsCarriedThrough` (`StopSucceeds`) | within takeover, foreign, stop | violated with relogon, or drop, beside takeover and stop (3 sockets, 2 identifiers, 4 sessions) |
| `LoggedOnAreReachable` (`LoggedOnIsRegistered`), `OneLoggedOnPerIdentifier` (`OneLoggedOn`), `ImplementsSessionDirectory` | neither hasty nor stop; `Spacious` | hasty: of three overlapping logons of one identifier the later two wait for the same session; stop: stop() writes a second Logout message to a session that is being replaced, whose end removes the successor; no room: finding 3 |
| `RoomsAreInStep` (`RoomsFollowSessions`) | within relogon, drop; `LimitSuffices` | takeover: finding 2; foreign: a Logout that names another's identifier; no room: a session refused by the registry joins rooms |

`Spacious` says that the limit has room for every identifier, and for one more where
a disconnected session can stay registered: `registerSession` counts that entry when it
admits its own successor. `OneLoggedOn` is checked by no run of its own because
the refinement, which the run `acceptor_takeover` checks, says more.

The argument is in layers, each an inductive invariant relative to those below, and
each checked by TLC on small instances before it was proved (they are defined in the
proof module, so no run repeats that). `Tidy`: no buffer holds
a write twice, and until stop() a pending Logout message has a successor that is
another session. `InTurn`: of an identifier, one logon or one logout is in progress at a
time, and while a successor waits the registry has its predecessor or nobody
(`Serial`). These hold up to stop(), which ends the order; `StopSucceeds` is about the
step that does. On top of them stand three invariants (the second uses the first only
where the limit is met exactly):

* `Orderly`: the socket of a logon in progress is open and nobody's yet (`OnItsOwn`), no
  two sessions share one (`OwnSocket`), a session that waits to be registered is logged
  on, on an open socket, and nobody logs it out (`Expectant`), and a registered
  session is not disconnected and has its close hook (`Alive`). From it follow
  `ActiveSessionsOnly`, and `StopSucceeds` at the step of stop().
* `Reachable`: `LoggedOnIsRegistered` is not inductive by itself, since the close
  hook of one session removes whoever holds its identifier. It needs that a
  disconnected session has no hook (`Unhooked`) and that the hooks of a socket that can
  still close are those of sessions accounted for (`Hooked`). `OneLoggedOn` follows,
  because of two logged-on sessions of an identifier one is registered and the other
  waits to replace it, and then the first was set LOGGING_OUT in the same step. The
  refinement of `SessionDirectory` follows step by step.
* `Housed`: an identifier that is being logged on is not registered (`Vacant`), all that
  is written is answers to registered sessions (`Welcomed`), and the close hooks that
  can still run are those of registered sessions (`HooksRegistered`), so that rooms
  are joined by registered sessions and left in the step that unregisters them.

`SessionTrafficProofs`: `TypeCorrect`, `NumbersInSequence`, `DisconnectedIsSilent`,
`BroadcastsInOneOrder`, `TargetNeverStale`, `CallsAlwaysAwaited`,
`EndsAlwaysAnnounced`. The invariant is `WInv`: types, an unborn
session has a blank wire and number 1, a disconnected one has no open socket unless
its handlers are running in this turn, and as long as a socket is open the next number is the length of its wire plus one. One
lemma, `WriteStep`, says what any step does to the wires: each is left alone
(`Kept`), or gets one message with the next number (`Added`), all of them of one
broadcast, whose call was not made before (`Called`). Sequence, silence and order are
short consequences of it; order also needs that no wire has a broadcast twice
(`Once`). A second lemma of the kind, `WritesStep`, says that an awaited write stays
until its own callback runs; so a call that waits has one (`CallsAreAwaited`), and a
session that has awaited writes was born, which is what keeps a failed logon answer
from reviving one (`EndsAnnounced`).

`MessageQueueProofs`: `TypeCorrect`, `AlwaysOnePlace`, `NoMessageLost`,
`AlwaysTakenInOrder`, `Implements`, `BatchesAlwaysAwaited`. The invariant `IInv` adds
to the properties that no push is older than an item's (`Sound`), the shape of batches
and flags, that what was sent was delivered, and that a message was written at most
once more than it was retried, and not yet in a batch that has not reached it
(`Counted`, `Unwritten`), which is what bounds the writes in the refinement. Every
step is a batch taken and one of three outcomes (nothing, a message given to the
socket, an error), treated once for all actions. All of that is said of the items as a
set. That the array is in order (`Lined`) is kept beside it, by the lemmas of
`PriorityQueueProofs`: a permutation that orders by `Precedes` orders by `Before`,
since what is pushed is the last of the array and the youngest (`PushAllOrders`), and
what is shifted out of an array in order comes before what is left (`ShiftsInOrder`).

`InitiatorProofs`: `TypeCorrect`, `ChainsDoNotMultiply`, `LimitHolds`,
`StopEndsAttempts`, `AttemptsComeToAnEnd`. The invariant counts attempts, armed timers
and waiting calls against the starts (`Budget`), so that a timer armed at the limit is
accounted for before it is counted. The last theorem gives a natural number (`Left`)
that every socket event and every timer lowers and only a start() raises.

`InboundStreamProofs`: `TypeCorrect`, `HandledAtMostOnce`, `LogonCovers`,
`NoUncutMessageLost`. The invariant:
every piece that made a message lies in the stream received so far (`Found`), so by
arithmetic on the six parts a later chunk cannot hold another piece of the message
that parses (`PiecesApart`); a chunk waits for a handler it called, in the order of the
stream (`Begun`, `InOrder`); and a Logon nobody answered is what its chunk waits
for (`Deciding`), so no message of that chunk is handled before the answer. That uncut
messages are not lost (`NothingUncutLost`) rests on where a loop throws: a piece fails
to print if it is torn, and then it is the last of its chunk (by arithmetic on the cut,
`CutIsLast`), or if its message is malformed; neither comes before a whole and clear
message of its chunk (`NotBarred`).

Only model-checked: liveness, which the prover does not reach. For most of it the part
that is a safety property is proved, for all instances: what is waited for exists, and
is not lost on the way.

| Liveness, by TLC | Safety half, proved |
|---|---|
| `TakeoverCompletes` | `SuccessorsNeverForgotten` |
| `StopCompletes` | `StopAlwaysAwaited`, `NothingHoldsTheServer` |
| `SendReturns`, `EndIsAnnounced` | `CallsAlwaysAwaited`, `EndsAlwaysAnnounced` |
| `ShutdownReturns`, `Settles` | `BatchesAlwaysAwaited`, `NoMessageLost` |
| `ComesToRest` | `AttemptsComeToAnEnd` |
| `UncutReachHandler` | `NoUncutMessageLost` |
| `DeadSocketsAreSwept` | `OpenSocketsAreAttended` |

Where no run names what the theorem on the right proves, it is defined in the proof
module; the liveness property on its left has a run.

## 7. Not modelled, and why

* **Field dictionary** (fields/): enumerations of FIX tags and values without
  behaviour. It is 27,412 of the 31,266 lines of implementation, so the share of
  lines these modules stand for is small by necessity: all the rest together is 12%.
* **ProtocolManager, FIX44Validator**, the **protocol parser** and the **checksum
  validator**: nothing in the repository constructs or calls them; they are
  synchronous, and the parser cuts at every field separator, so that no piece it
  makes is a message.
* **FixModule**, metadata explorer and decorators, configuration, errors, logger, dates,
  message constructors, type declarations, the sample: wiring, reflection, formatting
  and plain data. The handlers the explorer finds are arbitrary in the models.
* **Encoding**: toString, checksum, reversal and JSON of `Message` are transformations of
  one message, which tests reach.
* **Time**: the models have no clock. Intervals fire at any moment, which covers every
  length for the safety properties; that HeartBtInt 0 makes a heartbeat every
  millisecond is not visible. `lastHeartbeatTime` and the test request timer are
  written or cleared and never read or set, so there is no timeout to model.
* **start()** of the acceptor (binding the port) and `createSession` of the manager,
  which nobody calls.

What remains worth doing: a bound on the number of turns a takeover, a shutdown or a
broadcast can take, as `Left` is for the initiator (it needs sums over the pending
writes of all sockets), and the refinement of `SessionDirectory` by an acceptor that
is being stopped.
