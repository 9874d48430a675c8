----------------------------- MODULE Initiator -----------------------------
(***************************************************************************)
(* initiator/initiator.ts: start(), the reconnect attempts that follow a   *)
(* failed start, and stop(). One action is one turn of the event loop.     *)
(*                                                                         *)
(* The session of an initiator is DISCONNECTED for good: Session.logon     *)
(* throws unless the state is CONNECTED, which nothing sets, and throws    *)
(* before it changes the state (session.ts:64-68). So every start() ends   *)
(* in its catch block, whether the connection came up or not.              *)
(***************************************************************************)
EXTENDS Naturals

CONSTANTS
  MaxAttempts,   \* config.reconnect.maxAttempts
  MaxStarts      \* bound: how often the application calls start()

ASSUME MaxAttemptsAssumption == MaxAttempts \in Nat
ASSUME MaxStartsAssumption == MaxStarts \in Nat \ {0}

VARIABLES
  enabled,    \* config.reconnect.enabled
  heard,      \* whether the application listens to the initiator's 'error'
  socket,     \* the one socket of the initiator
  started,    \* how often the application called start()
  connecting, \* start() calls that wait for connect()
  timers,     \* reconnect timers that are armed
  current,    \* whether the timer in this.reconnectTimer is one of them
  attempts,   \* this.reconnectAttempts
  stopped     \* "no", or what stop() found: "idle" or "busy" connecting

vars == <<enabled, heard, socket, started, connecting, timers, current, attempts, stopped>>

config == <<enabled, heard>>

\* Wrong: the limit is passed before it is noticed.
MayReconnectOnceMore == attempts <= MaxAttempts

\* scheduleReconnect arms a timer.
MayReconnect == attempts < MaxAttempts

-----------------------------------------------------------------------------
Init ==
  /\ enabled \in BOOLEAN
  /\ heard \in BOOLEAN
  /\ socket = "new"
  /\ started = 0
  /\ connecting = 0
  /\ timers = 0
  /\ current = FALSE
  /\ attempts = 0
  /\ stopped = "no"

\* connect(): its promise is settled by the next event of the socket, like those
\* of the calls that wait already.
Connect ==
  /\ connecting' = connecting + 1
  /\ socket' = "connecting"

\* start() by the application, also while an earlier call or a timer is pending.
Start ==
  /\ started < MaxStarts
  /\ started' = started + 1
  /\ Connect
  /\ stopped' = "no"
  /\ UNCHANGED <<config, timers, current, attempts>>

\* Wrong: the connection's own error handler arms a timer too.
CatchTwice ==
  IF heard /\ enabled /\ MayReconnect
  THEN timers' = timers + 2 * connecting /\ current' = TRUE
  ELSE UNCHANGED <<timers, current>>

\* The catch block of every start() that waited. An 'error' nobody listens to is
\* thrown by emit, so such a start() rejects before it reaches the reconnect; each
\* of the others arms a timer of its own and this.reconnectTimer keeps the last.
Catch ==
  IF heard /\ enabled /\ MayReconnect
  THEN timers' = timers + connecting /\ current' = TRUE
  ELSE UNCHANGED <<timers, current>>

\* Wrong: the attempts start anew once a connection is up.
SocketEventResetting ==
  /\ connecting > 0
  /\ socket' \in {"connected", "failed"}
  /\ attempts' = IF socket' = "connected" THEN 0 ELSE attempts
  /\ connecting' = 0
  /\ Catch
  /\ UNCHANGED <<config, started, stopped>>

\* 'connect' or 'error' on the socket settles every connect() that waits.
SocketEvent ==
  /\ connecting > 0
  /\ socket' \in {"connected", "failed"}
  /\ connecting' = 0
  /\ Catch
  /\ UNCHANGED <<config, started, attempts, stopped>>

\* A reconnect timer fires, the one remembered or another one.
TimerFires ==
  /\ timers > 0
  /\ timers' = timers - 1
  /\ current' \in IF timers = 1 THEN {FALSE} ELSE IF current THEN BOOLEAN ELSE {FALSE}
  /\ attempts' = attempts + 1
  /\ Connect
  /\ UNCHANGED <<config, started, stopped>>

\* Wrong: the timer is not cleared.
StopKeepingTimer ==
  /\ stopped' = IF connecting > 0 THEN "busy" ELSE "idle"
  /\ UNCHANGED <<config, socket, started, connecting, timers, current, attempts>>

\* Wrong: the timer that was cleared is remembered.
StopRemembering ==
  /\ stopped' = IF connecting > 0 THEN "busy" ELSE "idle"
  /\ timers' = IF current THEN timers - 1 ELSE timers
  /\ UNCHANGED <<config, socket, started, connecting, current, attempts>>

\* stop() clears the timer it remembers; then logout() throws, so the socket is not
\* destroyed and stop() rejects.
Stop ==
  /\ stopped' = IF connecting > 0 THEN "busy" ELSE "idle"
  /\ timers' = IF current THEN timers - 1 ELSE timers
  /\ current' = FALSE
  /\ UNCHANGED <<config, socket, started, connecting, attempts>>

Next == Start \/ SocketEvent \/ TimerFires \/ Stop

Spec == Init /\ [][Next]_vars

\* A connection attempt ends, at the latest by the system's timeout, and a timer
\* that is armed fires.
FairSpec == Spec /\ WF_vars(SocketEvent) /\ WF_vars(TimerFires)

-----------------------------------------------------------------------------
\* Every variable has the kind of value its field has in the code.
TypeOK ==
  /\ enabled \in BOOLEAN
  /\ heard \in BOOLEAN
  /\ socket \in {"new", "connecting", "connected", "failed"}
  /\ started \in 0..MaxStarts
  /\ connecting \in Nat
  /\ timers \in Nat
  /\ current \in BOOLEAN
  /\ attempts \in Nat
  /\ stopped \in {"no", "idle", "busy"}

Idle == connecting = 0 /\ timers = 0

\* A start() of the application is followed by one chain of attempts: there are
\* never more attempts pending than starts, so timers do not multiply
\* (initiator.ts:45-46 and 140-147).
OneChainPerStart == connecting + timers <= started

\* The attempts keep to maxAttempts, except that each start() beyond the first,
\* which finds its timer armed before the last attempt is counted, may add one
\* (initiator.ts:135-141).
AttemptsBounded == started > 0 => attempts <= MaxAttempts + (started - 1)

\* stop() on an initiator started once, with no connection attempt in progress, is
\* final: no timer survives it (initiator.ts:56-57).
StopIsFinal == stopped = "idle" /\ started = 1 => Idle

\* The attempts come to an end for good (initiator.ts:135-138).
ComesToRest == <>[]Idle
=============================================================================
