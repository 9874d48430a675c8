-------------------------- MODULE InitiatorProofs --------------------------
(***************************************************************************)
(* The attempts of an initiator, for every maxAttempts and any number of   *)
(* calls of start(): each start is followed by one chain of attempts, the  *)
(* chains keep to the limit together, and stop() ends a single one.        *)
(***************************************************************************)
EXTENDS Initiator, TLAPS

\* Before the first start() nothing is pending.
Untouched == started = 0 => connecting = 0 /\ timers = 0 /\ attempts = 0

\* The attempts made and those a timer is armed for.
Budget == started > 0 => attempts + timers <= MaxAttempts + (started - 1)

\* this.reconnectTimer holds an armed timer; of a single start() it is the only
\* one, so none is forgotten.
TimerKnown ==
  /\ current => timers > 0
  /\ started = 1 /\ timers > 0 => current

\* From a stop() that found nothing in progress to the next start(), nothing
\* begins, if start() was called once.
Quiet == stopped = "idle" /\ started <= 1 => Idle

\* What the numbers obey, apart from their types.
Counts == OneChainPerStart /\ Untouched /\ Budget /\ TimerKnown /\ Quiet

IInv == TypeOK /\ Counts

LEMMA InitIInv == Init => IInv
<1>1. ASSUME Init PROVE TypeOK
  <2>1. 0 \in 0..MaxStarts
    BY MaxStartsAssumption
  <2> QED BY <1>1, <2>1 DEF Init, TypeOK
<1>2. ASSUME Init PROVE Counts
  <2>1. started = 0 /\ connecting = 0 /\ timers = 0 /\ attempts = 0 /\ current = FALSE
    BY <1>2 DEF Init
  <2>2. OneChainPerStart /\ Untouched /\ Budget
    BY <2>1 DEF OneChainPerStart, Untouched, Budget
  <2>3. TimerKnown
    BY <2>1 DEF TimerKnown
  <2>4. Quiet
    BY <2>1 DEF Quiet, Idle
  <2> QED BY <2>2, <2>3, <2>4 DEF Counts
<1> QED BY <1>1, <1>2 DEF IInv

\* What TypeOK says of the variables the arithmetic is about.
LEMMA Kinds ==
  ASSUME TypeOK
  PROVE  /\ started \in Nat /\ connecting \in Nat /\ timers \in Nat /\ attempts \in Nat
         /\ current \in BOOLEAN /\ MaxAttempts \in Nat
BY MaxAttemptsAssumption, MaxStartsAssumption DEF TypeOK

LEMMA StartStep == IInv /\ Start => IInv'
<1> SUFFICES ASSUME TypeOK, Counts, Start PROVE TypeOK' /\ Counts'
  BY DEF IInv
<1>1. TypeOK'
  BY MaxStartsAssumption DEF Start, Connect, TypeOK, config
<1>2. Counts'
  BY Kinds DEF Start, Connect, Counts, OneChainPerStart, Untouched, Budget, TimerKnown, Quiet, Idle
<1> QED BY <1>1, <1>2

LEMMA SocketEventStep == IInv /\ SocketEvent => IInv'
<1> SUFFICES ASSUME TypeOK, Counts, SocketEvent PROVE TypeOK' /\ Counts'
  BY DEF IInv
<1>1. started > 0
  BY Kinds DEF SocketEvent, Counts, Untouched
<1>2. CASE heard /\ enabled /\ MayReconnect
  <2>1. /\ timers' = timers + connecting /\ current' = TRUE /\ connecting' = 0 /\ connecting > 0
        /\ attempts' = attempts /\ started' = started /\ stopped' = stopped
    BY <1>2 DEF SocketEvent, Catch
  <2>2. TypeOK'
    BY <2>1, Kinds DEF SocketEvent, TypeOK, config
  <2>3. Counts'
    BY <1>1, <1>2, <2>1, Kinds
       DEF MayReconnect, Counts, OneChainPerStart, Untouched, Budget, TimerKnown, Quiet, Idle
  <2> QED BY <2>2, <2>3
<1>3. CASE ~(heard /\ enabled /\ MayReconnect)
  <2>1. /\ timers' = timers /\ current' = current /\ connecting' = 0
        /\ attempts' = attempts /\ started' = started /\ stopped' = stopped
    BY <1>3 DEF SocketEvent, Catch
  <2>2. TypeOK'
    BY <2>1, Kinds DEF SocketEvent, TypeOK, config
  <2>3. Counts'
    BY <1>1, <2>1, Kinds
       DEF Counts, OneChainPerStart, Untouched, Budget, TimerKnown, Quiet, Idle
  <2> QED BY <2>2, <2>3
<1> QED BY <1>2, <1>3

LEMMA TimerFiresStep == IInv /\ TimerFires => IInv'
<1> SUFFICES ASSUME TypeOK, Counts, TimerFires PROVE TypeOK' /\ Counts'
  BY DEF IInv
<1>1. started > 0
  BY Kinds DEF TimerFires, Counts, Untouched
<1>2. /\ timers > 0 /\ timers' = timers - 1 /\ attempts' = attempts + 1
      /\ connecting' = connecting + 1 /\ started' = started /\ stopped' = stopped
  BY DEF TimerFires, Connect
<1>3. current' \in BOOLEAN /\ (timers = 1 \/ ~current => ~current')
  BY DEF TimerFires
<1>4. TypeOK'
  BY <1>2, <1>3, Kinds DEF TimerFires, Connect, TypeOK, config
<1>5. OneChainPerStart' /\ Untouched' /\ Budget'
  BY <1>1, <1>2, Kinds DEF Counts, OneChainPerStart, Untouched, Budget
<1>6. TimerKnown'
  BY <1>1, <1>2, <1>3, Kinds DEF Counts, OneChainPerStart, TimerKnown
<1>7. Quiet'
  BY <1>1, <1>2, Kinds DEF Counts, Quiet, Idle
<1> QED BY <1>4, <1>5, <1>6, <1>7 DEF Counts

LEMMA StopStep == IInv /\ Stop => IInv'
<1> SUFFICES ASSUME TypeOK, Counts, Stop PROVE TypeOK' /\ Counts'
  BY DEF IInv
<1>1. /\ timers' = IF current THEN timers - 1 ELSE timers
      /\ current' = FALSE /\ connecting' = connecting
      /\ attempts' = attempts /\ started' = started
      /\ stopped' = IF connecting > 0 THEN "busy" ELSE "idle"
  BY DEF Stop
<1>2. timers' \in Nat /\ timers' <= timers
  BY <1>1, Kinds DEF Counts, TimerKnown
<1>3. TypeOK'
  BY <1>1, <1>2 DEF Stop, TypeOK, config
<1>4. OneChainPerStart' /\ Untouched' /\ Budget'
  BY <1>1, <1>2, Kinds DEF Counts, OneChainPerStart, Untouched, Budget
<1>5. started <= 1 => timers' = 0
  BY <1>1, <1>2, Kinds DEF Counts, OneChainPerStart, Untouched, TimerKnown
<1>6. TimerKnown'
  BY <1>1, <1>2, <1>5, Kinds DEF TimerKnown
<1>7. Quiet'
  BY <1>1, <1>5, Kinds DEF Quiet, Idle
<1> QED BY <1>3, <1>4, <1>6, <1>7 DEF Counts

LEMMA Invariant == Spec => []IInv
<1>1. IInv /\ UNCHANGED vars => IInv'
  BY DEF vars, config, IInv, TypeOK, Counts, OneChainPerStart, Untouched, Budget, TimerKnown,
         Quiet, Idle
<1>2. IInv /\ [Next]_vars => IInv'
  BY <1>1, StartStep, SocketEventStep, TimerFiresStep, StopStep DEF Next
<1> QED BY InitIInv, <1>2, PTL DEF Spec

-----------------------------------------------------------------------------
\* Every variable of the initiator keeps its type.
THEOREM TypeCorrect == Spec => []TypeOK
<1>1. IInv => TypeOK
  BY DEF IInv
<1> QED BY Invariant, <1>1, PTL

\* There are never more attempts pending, on the socket or as timers, than calls of
\* start(): a start that fails arms one timer, not two (initiator.ts:45-46).
THEOREM ChainsDoNotMultiply == Spec => []OneChainPerStart
<1>1. IInv => OneChainPerStart
  BY DEF IInv, Counts
<1> QED BY Invariant, <1>1, PTL

\* The reconnect attempts never exceed maxAttempts by more than the number of extra
\* calls of start() (initiator.ts:135-141).
THEOREM LimitHolds == Spec => []AttemptsBounded
<1>1. IInv => AttemptsBounded
  BY Kinds DEF IInv, Counts, Budget, AttemptsBounded
<1> QED BY Invariant, <1>1, PTL

\* After stop() of an initiator that was started once and is not connecting, no timer
\* and no attempt is left, now and until it is started again (initiator.ts:56-57).
THEOREM StopEndsAttempts == Spec => []StopIsFinal
<1>1. IInv => StopIsFinal
  BY Kinds DEF IInv, Counts, Quiet, StopIsFinal
<1> QED BY Invariant, <1>1, PTL

-----------------------------------------------------------------------------
(* Why ComesToRest holds: its safety half *)

\* At most this many turns of sockets and timers are left until the next start():
\* each attempt that is still allowed takes a timer and an event.
Left == 3 * (MaxAttempts + started - attempts) + 2 * connecting + timers

\* Every event and every timer uses some of them up, and stop() adds none; so without
\* a further start() the attempts end, however the connections fare, whichever
\* timers are forgotten and whoever stops it in between (initiator.ts:135-147).
TurnsUseUp ==
  /\ SocketEvent \/ TimerFires => Left' < Left
  /\ Stop => Left' <= Left
AttemptsRunOut == [](Left \in Nat) /\ [][TurnsUseUp]_vars

LEMMA LeftIsNat == IInv => Left \in Nat
<1> SUFFICES ASSUME IInv PROVE Left \in Nat
  OBVIOUS
<1>1. TypeOK /\ attempts <= MaxAttempts + started
  BY Kinds DEF IInv, Counts, Untouched, Budget
<1> QED BY <1>1, Kinds DEF Left

\* No start() is followed by attempts without an end.
THEOREM AttemptsComeToAnEnd == Spec => AttemptsRunOut
<1>1. ASSUME IInv, SocketEvent PROVE Left' < Left
  <2>1. /\ connecting > 0 /\ connecting' = 0 /\ started' = started /\ attempts' = attempts
        /\ timers' = timers \/ timers' = timers + connecting
    BY <1>1 DEF SocketEvent, Catch
  <2> QED BY <1>1, <2>1, Kinds DEF IInv, Left
<1>2. ASSUME IInv, TimerFires PROVE Left' < Left
  <2>1. /\ timers' = timers - 1 /\ attempts' = attempts + 1 /\ connecting' = connecting + 1
        /\ started' = started
    BY <1>2 DEF TimerFires, Connect
  <2> QED BY <1>2, <2>1, Kinds DEF IInv, Left
<1>3. ASSUME IInv, Stop PROVE Left' <= Left
  <2>1. /\ timers' = timers - 1 \/ timers' = timers
        /\ attempts' = attempts /\ connecting' = connecting /\ started' = started
    BY <1>3 DEF Stop
  <2> QED BY <1>3, <2>1, Kinds DEF IInv, Left
<1>4. IInv => TurnsUseUp
  BY <1>1, <1>2, <1>3 DEF TurnsUseUp
<1> QED BY Invariant, LeftIsNat, <1>4, PTL DEF AttemptsRunOut
=============================================================================
