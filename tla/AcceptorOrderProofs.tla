------------------------- MODULE AcceptorOrderProofs -------------------------
(***************************************************************************)
(* What holds of AcceptorSessions when peers keep to some order. Every     *)
(* theorem names what it asks of the peers as a condition on Irregular,    *)
(* and leaves the other irregularities to them.                            *)
(*                                                                         *)
(* The argument is in layers, each inductive over the ones before: which   *)
(* writes are pending (Tidy), one logon or logout of an identifier at a    *)
(* time (InTurn), and on top of that three invariants: registered sessions *)
(* are in order (Orderly), logged-on sessions are reachable (Reachable),   *)
(* rooms follow the registry (Housed). From the second follows that the    *)
(* acceptor implements SessionDirectory.                                   *)
(***************************************************************************)
EXTENDS AcceptorSessionsProofs

-----------------------------------------------------------------------------
(* A buffer of distinct writes is a set with an order *)

LEMMA InjectiveTail ==
  ASSUME NEW S, NEW q \in Seq(S), q # << >>, IsInjective(q)
  PROVE  IsInjective(Tail(q)) /\ ToSet(Tail(q)) = ToSet(q) \ {Head(q)}
<1>1. Tail(q) \in Seq(S) /\ Len(Tail(q)) = Len(q) - 1 /\ Len(q) \in Nat \ {0}
  OBVIOUS
<1>2. \A k \in 1..Len(Tail(q)) : Tail(q)[k] = q[k + 1] /\ k + 1 \in 1..Len(q) /\ k + 1 # 1
  BY <1>1
<1>3. DOMAIN q = 1..Len(q) /\ DOMAIN Tail(q) = 1..Len(Tail(q))
  BY <1>1
<1>4. Head(q) = q[1] /\ 1 \in 1..Len(q)
  BY <1>1
<1>5. \A k, l \in 1..Len(q) : q[k] = q[l] => k = l
  BY <1>3 DEF IsInjective
<1>6. \A k \in 1..Len(q) : k = 1 \/ (k - 1 \in 1..Len(Tail(q)) /\ (k - 1) + 1 = k)
  BY <1>1
<1>7. IsInjective(Tail(q))
  <2> SUFFICES ASSUME NEW k \in 1..Len(Tail(q)), NEW l \in 1..Len(Tail(q)), Tail(q)[k] = Tail(q)[l]
               PROVE  k = l
    BY <1>3 DEF IsInjective
  <2>1. k + 1 = l + 1
    BY <1>2, <1>5
  <2> QED BY <1>1, <2>1
<1>8. ASSUME NEW e \in ToSet(Tail(q)) PROVE e \in ToSet(q) /\ e # Head(q)
  <2>1. PICK k \in 1..Len(Tail(q)) : e = Tail(q)[k]
    BY <1>3, <1>8 DEF ToSet
  <2>2. e = q[k + 1] /\ k + 1 \in 1..Len(q) /\ k + 1 # 1
    BY <1>2, <2>1
  <2> QED BY <1>3, <1>4, <1>5, <2>2 DEF ToSet
<1>9. ASSUME NEW e \in ToSet(q), e # Head(q) PROVE e \in ToSet(Tail(q))
  <2>1. PICK k \in 1..Len(q) : e = q[k]
    BY <1>3, <1>9 DEF ToSet
  <2>2. k - 1 \in 1..Len(Tail(q)) /\ (k - 1) + 1 = k
    BY <1>4, <1>6, <1>9, <2>1
  <2>3. e = Tail(q)[k - 1]
    BY <1>2, <2>1, <2>2
  <2> QED BY <1>3, <2>2, <2>3 DEF ToSet
<1> QED BY <1>7, <1>8, <1>9

LEMMA InjectiveAppend ==
  ASSUME NEW S, NEW q \in Seq(S), NEW e \in S, IsInjective(q), e \notin ToSet(q)
  PROVE  IsInjective(Append(q, e))
<1>1. Append(q, e) \in Seq(S) /\ Len(Append(q, e)) = Len(q) + 1 /\ Len(q) \in Nat
  OBVIOUS
<1>2. \A k \in 1..Len(q) : Append(q, e)[k] = q[k]
  OBVIOUS
<1>3. Append(q, e)[Len(q) + 1] = e
  OBVIOUS
<1>4. DOMAIN q = 1..Len(q) /\ DOMAIN Append(q, e) = 1..(Len(q) + 1)
  BY <1>1
<1>5. \A k \in 1..(Len(q) + 1) : k \in 1..Len(q) \/ k = Len(q) + 1
  BY <1>1
<1>6. \A k \in 1..Len(q) : q[k] # e
  BY <1>4 DEF ToSet
<1>7. \A k, l \in 1..Len(q) : q[k] = q[l] => k = l
  BY <1>4 DEF IsInjective
<1> HIDE <1>1
<1> QED BY <1>2, <1>3, <1>4, <1>5, <1>6, <1>7 DEF IsInjective

-----------------------------------------------------------------------------
(* Pending writes *)

\* stop() was not called. Everything below is about that time.
Before == process = "running" \/ "stop" \notin Irregular

LEMMA BeforeStep ==
  ASSUME [Next]_vars, Before'
  PROVE  Before /\ ~Stop
<1>1. ~Stop
  BY DEF Stop, FinishStop, Before
<1>2. process' = "running" => process = "running"
  <2> USE DEF SendLogoutAndClose, Enrol, FinishStop, networkVars, sessionVars, roomVars
  <2>1. CASE Still
    BY <2>1 DEF Still
  <2>2. ASSUME NEW c \in Conn,
               \/ Connect(c) \/ ReceiveRefused(c) \/ ReceiveMalformed(c) \/ LogonAnswered(c)
               \/ LogonAnswerFails(c) \/ DelayedDestroy(c) \/ PeerCloses(c) \/ SocketError(c)
               \/ SocketClosed(c) \/ LogoutWrittenForSuccessor(c) \/ LogoutWrittenForStop(c),
               process' = "running"
        PROVE  process = "running"
    BY <2>2 DEF Connect, ReceiveRefused, ReceiveMalformed, LogonAnswered, LogonAnswerFails,
       DelayedDestroy, PeerCloses, SocketError, SocketClosed, LogoutWrittenForSuccessor,
       LogoutWrittenForStop
  <2>3. ASSUME NEW c \in Conn, NEW i \in SessionId,
               \/ ReceiveLogon(c, i) \/ AuthRejected(c, i) \/ AuthAccepted(c, i)
               \/ ReceiveLogout(c, i)
               \/ \E r \in Room : ReceiveJoin(c, i, r) \/ ReceiveLeave(c, i, r),
               process' = "running"
        PROVE  process = "running"
    BY <2>3 DEF ReceiveLogon, AuthRejected, AuthAccepted, ReceiveLogout, ReceiveJoin,
       ReceiveLeave, AdmitAtOnce, AdmitTakeover, AdmitOverUnwritable
  <2> QED BY <1>1, <2>1, <2>2, <2>3, StillSteps DEF Next
<1> QED BY <1>1, <1>2 DEF Before

\* What a pending write is about.
LEMMA Pending ==
  ASSUME Structure
  PROVE  /\ \A c \in Conn : ToSet(writes[c]) \subseteq PendingWrites
         /\ \A w \in PendingWrites :
              /\ w \in Write /\ w.of \in Sess /\ Born(w.of) /\ sid[w.of] \in SessionId
              /\ conn[w.of] \in Conn /\ w \in ToSet(writes[conn[w.of]])
              /\ w.next # None => /\ w.next \in Sess /\ Born(w.next)
                                  /\ sid[w.next] = sid[w.of] /\ conn[w.next] \in Conn
<1>1. \A c \in Conn : ToSet(writes[c]) \subseteq PendingWrites
  BY DEF PendingWrites
<1>2. ASSUME NEW w \in PendingWrites
      PROVE  /\ w \in Write /\ w.of \in Sess /\ Born(w.of) /\ sid[w.of] \in SessionId
             /\ conn[w.of] \in Conn /\ w \in ToSet(writes[conn[w.of]])
             /\ w.next # None => /\ w.next \in Sess /\ Born(w.next)
                                 /\ sid[w.next] = sid[w.of] /\ conn[w.next] \in Conn
  <2>1. PICK c \in Conn : w \in ToSet(writes[c])
    BY <1>2 DEF PendingWrites
  <2>2. w \in Write /\ w.of \in Sess /\ WriteLinked(c, w)
    BY <2>1, BufferedWrite DEF Structure, Links
  <2>3. w.next \in Sess \cup {None}
    BY <2>2 DEF Write
  <2> QED BY <2>1, <2>2, <2>3 DEF WriteLinked, Structure, Links
<1> QED BY <1>1, <1>2

\* No buffer holds a write twice, and a pending Logout message (of a session logged
\* out in favour of another) names a successor that is another session.
Distinct == \A c \in Conn : IsInjective(writes[c])

Paired ==
  \A w \in PendingWrites :
    \/ w = LogonWrite(w.of)
    \/ w.kind = "logout" /\ w.next \in Sess /\ w.next # w.of

Tidy == Before => Distinct /\ Paired

\* A callback takes exactly its own write from the pending ones.
LEMMA CompletesPending ==
  ASSUME Structure, Distinct, NEW c \in Conn, NEW kind, Completes(c, kind)
  PROVE  /\ Oldest(c) \in PendingWrites /\ Oldest(c).kind = kind /\ conn[Oldest(c).of] = c
         /\ PendingWrites' = PendingWrites \ {Oldest(c)}
         /\ Distinct'
<1>1. writes \in [Conn -> Seq(Write)] /\ writes[c] # << >> /\ IsInjective(writes[c])
  BY DEF Structure, TypeOK, Completes, Distinct
<1>2. /\ IsInjective(Tail(writes[c]))
      /\ ToSet(Tail(writes[c])) = ToSet(writes[c]) \ {Oldest(c)}
  BY <1>1, InjectiveTail DEF Oldest
<1>3. writes' = [writes EXCEPT ![c] = Tail(@)] /\ Oldest(c).kind = kind
  BY DEF Completes
<1>4. Oldest(c) \in ToSet(writes[c]) /\ conn[Oldest(c).of] = c
  BY OldestWrite DEF WriteLinked
<1>5. \A d \in Conn : d # c => Oldest(c) \notin ToSet(writes[d])
  BY <1>4 DEF Structure, Links, WriteLinked
<1>6. \A d \in Conn : \A w : w \in ToSet(writes'[d]) <=> w \in ToSet(writes[d]) /\ w # Oldest(c)
  BY <1>1, <1>2, <1>3, <1>5
<1>7. PendingWrites' = PendingWrites \ {Oldest(c)}
  <2>1. \A w : w \in PendingWrites' <=> \E d \in Conn : w \in ToSet(writes'[d])
    BY DEF PendingWrites
  <2>2. \A w : w \in PendingWrites <=> \E d \in Conn : w \in ToSet(writes[d])
    BY DEF PendingWrites
  <2> QED BY <1>6, <2>1, <2>2
<1>8. Distinct'
  BY <1>1, <1>2, <1>3 DEF Distinct
<1> QED BY <1>3, <1>4, <1>7, <1>8 DEF PendingWrites

\* All writes of the buffers wr.
AllOf(wr) == UNION {ToSet(wr[c]) : c \in Conn}

LEMMA InAllOf ==
  /\ PendingWrites = AllOf(writes) /\ PendingWrites' = AllOf(writes')
  /\ \A wr, w : w \in AllOf(wr) <=> \E c \in Conn : w \in ToSet(wr[c])
BY DEF PendingWrites, AllOf

\* Appending a new write e to the buffer of d.
LEMMA AppendWrite ==
  ASSUME NEW wr \in [Conn -> Seq(Write)], NEW d \in Conn, NEW e \in Write,
         \A c \in Conn : IsInjective(wr[c]), e \notin ToSet(wr[d])
  PROVE  LET new == [wr EXCEPT ![d] = Append(@, e)]
         IN /\ new \in [Conn -> Seq(Write)]
            /\ \A c \in Conn : IsInjective(new[c])
            /\ \A c \in Conn : ToSet(new[c]) = IF c = d THEN ToSet(wr[c]) \cup {e} ELSE ToSet(wr[c])
            /\ AllOf(new) = AllOf(wr) \cup {e}
<1> DEFINE new == [wr EXCEPT ![d] = Append(@, e)]
<1>1. /\ Append(wr[d], e) \in Seq(Write) /\ ToSet(Append(wr[d], e)) = ToSet(wr[d]) \cup {e}
      /\ IsInjective(Append(wr[d], e))
  BY ToSetAppend, InjectiveAppend
<1>2. \A c \in Conn : new[c] = IF c = d THEN Append(wr[d], e) ELSE wr[c]
  OBVIOUS
<1>3. new \in [Conn -> Seq(Write)]
  BY <1>1
<1> HIDE DEF new
<1>4. \A c \in Conn : IsInjective(new[c])
  BY <1>1, <1>2
<1>5. \A c \in Conn : ToSet(new[c]) = IF c = d THEN ToSet(wr[c]) \cup {e} ELSE ToSet(wr[c])
  BY <1>1, <1>2
<1>6. \A w : w \in AllOf(new) <=> w \in AllOf(wr) \cup {e}
  BY <1>5, InAllOf
<1> QED BY <1>3, <1>4, <1>5, <1>6 DEF new

\* The writes an admission adds: the answer, if the socket takes it.
AnswerWrites(c, s) == IF Writable(c) THEN {LogonWrite(s)} ELSE {}

\* ... and the Logout message of an older session that is logged out.
LogoutWrites(c, i, s) == IF AdmitTakeover(c, i, s) THEN {LogoutWrite(sessions[i], s)} ELSE {}

LEMMA AnswerPending ==
  ASSUME NEW c \in Conn, NEW s \in Sess, NEW wr \in [Conn -> Seq(Write)], Answer(c, s, wr),
         \A d \in Conn : IsInjective(wr[d]), LogonWrite(s) \notin ToSet(wr[c])
  PROVE  /\ PendingWrites' = AllOf(wr) \cup AnswerWrites(c, s)
         /\ Distinct'
<1>1. LogonWrite(s) \in Write
  BY DEF LogonWrite, Write
<1>2. CASE Writable(c)
  <2>1. writes' = [wr EXCEPT ![c] = Append(@, LogonWrite(s))]
    BY <1>2 DEF Answer
  <2>2. AllOf(writes') = AllOf(wr) \cup {LogonWrite(s)} /\ \A d \in Conn : IsInjective(writes'[d])
    BY <1>1, <2>1, AppendWrite
  <2> QED BY <1>2, <2>2, InAllOf DEF Distinct, AnswerWrites
<1>3. CASE ~Writable(c)
  <2>1. writes' = wr
    BY <1>3 DEF Answer
  <2> QED BY <1>3, <2>1, InAllOf DEF Distinct, AnswerWrites
<1> QED BY <1>2, <1>3

LEMMA AdmissionPending ==
  ASSUME Structure, Distinct, NEW c \in Conn, NEW i \in SessionId, NEW s \in Sess, ~Born(s),
         AdmitAtOnce(c, i, s) \/ AdmitTakeover(c, i, s) \/ AdmitOverUnwritable(c, i, s)
  PROVE  /\ PendingWrites' = PendingWrites \cup AnswerWrites(c, s) \cup LogoutWrites(c, i, s)
         /\ Distinct'
<1>1. writes \in [Conn -> Seq(Write)] /\ \A d \in Conn : IsInjective(writes[d])
  BY DEF Structure, TypeOK, Distinct
<1>2. LogonWrite(s).of = s /\ LogonWrite(s).kind = "logon"
  BY DEF LogonWrite
<1>3. \A d \in Conn : \A w \in ToSet(writes[d]) : w.of # s /\ w.next # s
  BY Pending, NoneAssumption
<1>4. CASE AdmitAtOnce(c, i, s) \/ AdmitOverUnwritable(c, i, s)
  <2>1. Answer(c, s, writes) /\ ~AdmitTakeover(c, i, s)
    BY <1>4 DEF AdmitAtOnce, AdmitOverUnwritable, AdmitTakeover
  <2>2. LogoutWrites(c, i, s) = {}
    BY <2>1 DEF LogoutWrites
  <2>3. LogonWrite(s) \notin ToSet(writes[c])
    BY <1>2, <1>3
  <2>4. PendingWrites' = AllOf(writes) \cup AnswerWrites(c, s) /\ Distinct'
    BY <1>1, <2>1, <2>3, AnswerPending
  <2> QED BY <2>2, <2>4, InAllOf
<1>5. CASE AdmitTakeover(c, i, s)
  <2> DEFINE old == sessions[i]
             e == LogoutWrite(old, s)
             wr == [writes EXCEPT ![conn[old]] = Append(@, e)]
  <2>1. old # None /\ Answer(c, s, wr) /\ LogoutWrites(c, i, s) = {e}
    BY <1>5 DEF AdmitTakeover, LogoutWrites
  <2>2. old \in Sess /\ conn[old] \in Conn
    BY <2>1, RegisteredLinked
  <2>3. e \in Write /\ e.next = s /\ e.kind = "logout"
    BY <2>2 DEF LogoutWrite, Write
  <2>4. e \notin ToSet(writes[conn[old]])
    BY <1>3, <2>2, <2>3
  <2> HIDE DEF e
  <2>5. /\ wr \in [Conn -> Seq(Write)] /\ \A d \in Conn : IsInjective(wr[d])
        /\ \A d \in Conn : ToSet(wr[d]) \subseteq ToSet(writes[d]) \cup {e}
        /\ AllOf(wr) = PendingWrites \cup {e}
    <3> DEFINE o == conn[old]
    <3>1. o \in Conn /\ e \in Write /\ e \notin ToSet(writes[o])
      BY <2>2, <2>3, <2>4
    <3> HIDE DEF o
    <3>2. wr = [writes EXCEPT ![o] = Append(@, e)]
      BY DEF o
    <3> HIDE DEF wr
    <3>3. /\ wr \in [Conn -> Seq(Write)] /\ \A d \in Conn : IsInjective(wr[d])
          /\ \A d \in Conn : ToSet(wr[d]) = IF d = o THEN ToSet(writes[d]) \cup {e} ELSE ToSet(writes[d])
          /\ AllOf(wr) = AllOf(writes) \cup {e}
      BY <1>1, <3>1, <3>2, AppendWrite
    <3> QED BY <3>3, InAllOf
  <2>6. LogonWrite(s) \notin ToSet(wr[c])
    BY <1>2, <1>3, <2>3, <2>5
  <2>7. Answer(c, s, wr)
    BY <2>1 DEF e
  <2> HIDE DEF wr
  <2>8. /\ PendingWrites' = PendingWrites \cup {e} \cup AnswerWrites(c, s)
        /\ Distinct'
    <3>1. PendingWrites' = AllOf(wr) \cup AnswerWrites(c, s) /\ Distinct'
      BY <1>1, <2>5, <2>6, <2>7, AnswerPending
    <3> QED BY <2>5, <3>1
  <2> QED BY <2>1, <2>8
<1> QED BY <1>4, <1>5

\* An admission as the proofs below use it. Enrol on a registry that is not full
\* is what the other two cases of the registry are.
Admission(c, i, s) ==
  /\ ~Born(s) /\ <<c, i>> \in auths /\ auths' = auths \ {<<c, i>>}
  /\ sid' = [sid EXCEPT ![s] = i] /\ conn' = [conn EXCEPT ![s] = c]
  /\ AdmitAtOnce(c, i, s) \/ AdmitTakeover(c, i, s) \/ AdmitOverUnwritable(c, i, s)
  /\ \A j \in SessionId : j # i => sessions'[j] = sessions[j]
  /\ UNCHANGED <<activeSockets, joined, doomed>>

LEMMA AdmissionIs ==
  ASSUME Structure, NEW c \in Conn, NEW i \in SessionId, AuthAccepted(c, i)
  PROVE  \E s \in Sess : Admission(c, i, s)
<1>1. PICK s \in Sess :
        /\ ~Born(s) /\ sid' = [sid EXCEPT ![s] = i]
        /\ AdmitAtOnce(c, i, s) \/ AdmitTakeover(c, i, s) \/ AdmitOverUnwritable(c, i, s)
  BY DEF AuthAccepted
<1>2. conn' = [conn EXCEPT ![s] = c]
  BY <1>1 DEF AdmitAtOnce, AdmitTakeover, AdmitOverUnwritable, Answer
<1>3. sessions \in [SessionId -> Sess \cup {None}]
  BY DEF Structure, TypeOK
<1>4. \A j \in SessionId : j # i => sessions'[j] = sessions[j]
  <2>1. CASE AdmitAtOnce(c, i, s)
    BY <1>3, <2>1 DEF AdmitAtOnce, Enrol
  <2>2. CASE AdmitTakeover(c, i, s)
    BY <2>2 DEF AdmitTakeover
  <2>3. CASE AdmitOverUnwritable(c, i, s)
    <3>1. sessions' = Without({i}) \/ sessions' = [Without({i}) EXCEPT ![i] = s]
      BY <2>3 DEF AdmitOverUnwritable, Enrol
    <3>2. \A j \in SessionId : j # i => Without({i})[j] = sessions[j]
      BY DEF Without
    <3>3. Without({i}) \in [SessionId -> Sess \cup {None}]
      BY <1>3 DEF Without
    <3> HIDE DEF Without
    <3> QED BY <3>1, <3>2, <3>3
  <2> QED BY <1>1, <2>1, <2>2, <2>3
<1> QED BY <1>1, <1>2, <1>4 DEF AuthAccepted, Admission

\* What every step but stop() does to the pending writes.
LEMMA PendingCases ==
  ASSUME Structure, Distinct, [Next]_vars, ~Stop
  PROVE  \/ PendingWrites' = PendingWrites /\ Distinct'
         \/ \E c \in Conn, kind \in {"logon", "logout"} :
              /\ Completes(c, kind) /\ Oldest(c) \in PendingWrites
              /\ PendingWrites' = PendingWrites \ {Oldest(c)} /\ Distinct'
         \/ \E c \in Conn, i \in SessionId, s \in Sess :
              /\ Admission(c, i, s)
              /\ PendingWrites' = PendingWrites \cup AnswerWrites(c, s) \cup LogoutWrites(c, i, s)
              /\ Distinct'
<1>1. CASE UNCHANGED writes
  BY <1>1 DEF PendingWrites, Distinct
<1>2. ASSUME NEW c \in Conn, NEW kind \in {"logon", "logout"}, Completes(c, kind)
      PROVE  /\ Completes(c, kind) /\ Oldest(c) \in PendingWrites
             /\ PendingWrites' = PendingWrites \ {Oldest(c)} /\ Distinct'
  BY <1>2, CompletesPending
<1>3. ASSUME NEW c \in Conn, NEW i \in SessionId, AuthAccepted(c, i)
      PROVE  \E s \in Sess :
               /\ Admission(c, i, s)
               /\ PendingWrites' = PendingWrites \cup AnswerWrites(c, s) \cup LogoutWrites(c, i, s)
               /\ Distinct'
  <2>1. PICK s \in Sess : Admission(c, i, s)
    BY <1>3, AdmissionIs
  <2> QED BY <2>1, AdmissionPending DEF Admission
<1>4. ASSUME NEW c \in Conn, Quiescent(c) \/ SocketClosed(c) \/ \E i \in SessionId : ReceiveLogout(c, i)
      PROVE  UNCHANGED writes
  BY <1>4, QuiescentFrame DEF SocketClosed, ReceiveLogout
<1>5. ASSUME NEW c \in Conn, \/ LogonAnswered(c) \/ LogonAnswerFails(c)
                             \/ LogoutWrittenForSuccessor(c) \/ LogoutWrittenForStop(c)
      PROVE  \E kind \in {"logon", "logout"} : Completes(c, kind)
  BY <1>5 DEF LogonAnswered, LogonAnswerFails, LogoutWrittenForSuccessor, LogoutWrittenForStop
<1>6. CASE Still
  BY <1>1, <1>6 DEF Still
<1> QED BY <1>1, <1>2, <1>3, <1>4, <1>5, <1>6, StepCases

\* The new writes of an admission.
LEMMA NewWrites ==
  ASSUME Structure, NEW c \in Conn, NEW i \in SessionId, NEW s \in Sess, Admission(c, i, s)
  PROVE  /\ \A w \in AnswerWrites(c, s) :
              /\ w = LogonWrite(s) /\ w.of = s /\ w.kind = "logon" /\ w.next = None
              /\ w = LogonWrite(w.of)
         /\ \A w \in LogoutWrites(c, i, s) :
              /\ w.of = sessions[i] /\ w.kind = "logout" /\ w.next = s
              /\ sessions[i] \in Sess /\ Born(sessions[i]) /\ sessions[i] # s /\ sid[sessions[i]] = i
              /\ sessions' = sessions
<1>1. \A w \in AnswerWrites(c, s) :
              /\ w = LogonWrite(s) /\ w.of = s /\ w.kind = "logon" /\ w.next = None
              /\ w = LogonWrite(w.of)
  BY DEF AnswerWrites, LogonWrite
<1>2. ASSUME NEW w \in LogoutWrites(c, i, s)
      PROVE  /\ w.of = sessions[i] /\ w.kind = "logout" /\ w.next = s
             /\ sessions[i] \in Sess /\ Born(sessions[i]) /\ sessions[i] # s /\ sid[sessions[i]] = i
             /\ sessions' = sessions
  <2>1. AdmitTakeover(c, i, s) /\ w = LogoutWrite(sessions[i], s)
    BY <1>2 DEF LogoutWrites
  <2>2. sessions[i] # None /\ sessions' = sessions
    BY <2>1 DEF AdmitTakeover
  <2> QED BY <2>1, <2>2, RegisteredLinked DEF Admission, LogoutWrite
<1> QED BY <1>1, <1>2

LEMMA TidyStep == Structure /\ Tidy /\ [Next]_vars => Tidy'
<1> SUFFICES ASSUME Structure, Tidy, [Next]_vars, Before' PROVE Distinct' /\ Paired'
  BY DEF Tidy
<1>1. ~Stop /\ Distinct /\ Paired
  BY BeforeStep DEF Tidy
<1>2. ASSUME PendingWrites' \subseteq PendingWrites PROVE Paired'
  BY <1>1, <1>2 DEF Paired
<1>3. ASSUME NEW c \in Conn, NEW i \in SessionId, NEW s \in Sess, Admission(c, i, s),
             PendingWrites' = PendingWrites \cup AnswerWrites(c, s) \cup LogoutWrites(c, i, s)
      PROVE  Paired'
  <2> SUFFICES ASSUME NEW w \in PendingWrites'
               PROVE  \/ w = LogonWrite(w.of)
                      \/ w.kind = "logout" /\ w.next \in Sess /\ w.next # w.of
    BY DEF Paired
  <2>1. CASE w \in PendingWrites
    BY <1>1, <2>1 DEF Paired
  <2> QED BY <1>3, <2>1, NewWrites
<1> QED BY <1>1, <1>2, <1>3, PendingCases

LEMMA TidyInit == Init => Tidy
<1> SUFFICES ASSUME Init PROVE Distinct /\ Paired
  BY DEF Tidy
<1>1. \A c \in Conn : writes[c] = << >>
  BY DEF Init
<1>2. \A c \in Conn : ToSet(writes[c]) = {} /\ IsInjective(writes[c])
  BY <1>1 DEF ToSet, IsInjective
<1> QED BY <1>2 DEF Distinct, Paired, PendingWrites

-----------------------------------------------------------------------------
(* Identifiers are served in turn *)

\* Credentials are checked for an identifier on one socket at a time, and not while
\* a logon or a logout of it is being written; of an identifier one Logout message
\* is pending at most; the session a successor waits for is the registered one.
OneLogon == \A c, d \in Conn, i \in SessionId : <<c, i>> \in auths /\ <<d, i>> \in auths => c = d

LogonAlone ==
  \A c \in Conn, i \in SessionId : <<c, i>> \in auths => \A w \in PendingWrites : sid[w.of] # i

OneLogout ==
  \A w, v \in PendingWrites :
    w.kind = "logout" /\ v.kind = "logout" /\ sid[w.of] = sid[v.of] => w = v

InWaiting == \A w \in PendingWrites : w.next # None => sessions[sid[w.of]] \in {w.of, None}

Serial == OneLogon /\ LogonAlone /\ OneLogout /\ InWaiting

InTurn == Before => Serial

\* A step that starts nothing and registers nobody.
LEMMA SerialFrame ==
  ASSUME Structure, Serial, UNCHANGED sid, auths' \subseteq auths,
         PendingWrites' \subseteq PendingWrites,
         \A i \in SessionId : sessions'[i] \in {None, sessions[i]}
  PROVE  Serial'
<1>1. \A w \in PendingWrites' : w \in PendingWrites /\ sid[w.of] \in SessionId
  BY Pending
<1>2. OneLogon' /\ LogonAlone' /\ OneLogout'
  BY <1>1 DEF Serial, OneLogon, LogonAlone, OneLogout
<1>3. InWaiting'
  BY <1>1 DEF Serial, InWaiting
<1> QED BY <1>2, <1>3 DEF Serial

\* A logon is taken up when nothing of its identifier is in progress.
LEMMA SerialReceiveLogon ==
  ASSUME Structure, Serial, "hasty" \notin Irregular,
         NEW c \in Conn, NEW i \in SessionId, ReceiveLogon(c, i)
  PROVE  Serial'
<1>1. /\ auths' = auths \cup {<<c, i>>} /\ Settled(i)
      /\ UNCHANGED <<sid, sessions, writes>>
  BY DEF ReceiveLogon, LogonExpected, sessionVars
<1>2. \A d \in Conn, j \in SessionId : <<d, j>> \in auths' => <<d, j>> \in auths \/ (d = c /\ j = i)
  BY <1>1
<1>3. PendingWrites' = PendingWrites
  BY <1>1 DEF PendingWrites
<1>4. OneLogon'
  BY <1>1, <1>2 DEF Serial, OneLogon, Settled
<1>5. LogonAlone'
  BY <1>1, <1>2, <1>3 DEF Serial, LogonAlone, Settled
<1>6. OneLogout' /\ InWaiting'
  BY <1>1, <1>3 DEF Serial, OneLogout, InWaiting
<1> QED BY <1>4, <1>5, <1>6 DEF Serial

\* No other write waits for the registration that a write callback completes.
LEMMA SerialSuccessor ==
  ASSUME Structure, Distinct, Paired, Serial, NEW c \in Conn, LogoutWrittenForSuccessor(c)
  PROVE  Serial'
<1> DEFINE o == Oldest(c)
<1>1. /\ Completes(c, "logout") /\ o.next # None /\ UNCHANGED <<sid, auths>>
      /\ Enrol(Without({sid[o.of]}), sid[o.next], o.next)
  BY DEF LogoutWrittenForSuccessor, LoggedOut
<1>2. /\ o \in PendingWrites /\ o.kind = "logout"
      /\ PendingWrites' = PendingWrites \ {o}
  BY <1>1, CompletesPending
<1>3. sid[o.of] \in SessionId /\ sid[o.next] = sid[o.of] /\ o.next \in Sess
  BY <1>1, <1>2, Pending
<1>4. \A j \in SessionId : j # sid[o.of] => sessions'[j] = sessions[j]
  <2>1. \A j \in SessionId : j # sid[o.of] => Without({sid[o.of]})[j] = sessions[j]
    BY DEF Without
  <2>2. Without({sid[o.of]}) \in [SessionId -> Sess \cup {None}] /\ TypeOK
    BY RegistryTypes DEF Structure
  <2> HIDE DEF o
  <2>3. \A j \in SessionId : \/ sessions'[j] = Without({sid[o.of]})[j]
                             \/ j = sid[o.of] /\ sessions'[j] = o.next
    BY <1>1, <1>3, <2>2, EnrolTypes
  <2> QED BY <2>1, <2>3
<1>5. OneLogon' /\ LogonAlone' /\ OneLogout'
  BY <1>1, <1>2 DEF Serial, OneLogon, LogonAlone, OneLogout
<1>6. InWaiting'
  <2> SUFFICES ASSUME NEW w \in PendingWrites', w.next # None
               PROVE  sessions'[sid[w.of]] \in {w.of, None}
    BY <1>1 DEF InWaiting
  <2>1. w \in PendingWrites /\ w # o
    BY <1>2
  <2>2. w.kind = "logout" /\ sid[w.of] \in SessionId
    BY <2>1, Pending DEF Paired, LogonWrite
  <2>3. sid[w.of] # sid[o.of]
    BY <1>2, <2>1, <2>2 DEF Serial, OneLogout
  <2> QED BY <1>4, <2>1, <2>2, <2>3 DEF Serial, InWaiting
<1> QED BY <1>5, <1>6 DEF Serial

\* An admission ends the only check of its identifier's credentials, when no other
\* write of the identifier is pending.
LEMMA SerialAdmission ==
  ASSUME Structure, Serial, NEW c \in Conn, NEW i \in SessionId, NEW s \in Sess,
         Admission(c, i, s),
         PendingWrites' = PendingWrites \cup AnswerWrites(c, s) \cup LogoutWrites(c, i, s)
  PROVE  Serial'
<1>1. /\ ~Born(s) /\ <<c, i>> \in auths /\ auths' = auths \ {<<c, i>>}
      /\ sid' = [sid EXCEPT ![s] = i]
      /\ \A j \in SessionId : j # i => sessions'[j] = sessions[j]
  BY DEF Admission
<1>2. sid'[s] = i /\ \A t \in Sess : t # s => sid'[t] = sid[t]
  BY <1>1 DEF Structure, TypeOK
<1>3. \A w \in PendingWrites : /\ w.of \in Sess /\ w.of # s /\ sid'[w.of] = sid[w.of]
                               /\ sid[w.of] \in SessionId /\ sid[w.of] # i
  <2>1. \A w \in PendingWrites : w.of \in Sess /\ w.of # s /\ sid[w.of] \in SessionId
    BY <1>1, Pending
  <2> QED BY <1>1, <1>2, <2>1 DEF Serial, LogonAlone
<1>4. \A w \in AnswerWrites(c, s) : sid'[w.of] = i /\ w.kind = "logon" /\ w.next = None
  BY <1>2, NewWrites
<1>5. \A w \in LogoutWrites(c, i, s) :
        /\ sid'[w.of] = i /\ w = LogoutWrite(sessions[i], s) /\ w.of = sessions[i] /\ sessions' = sessions
  BY <1>2, NewWrites DEF LogoutWrites
<1>6. \A d \in Conn, j \in SessionId : <<d, j>> \in auths' => <<d, j>> \in auths /\ j # i
  BY <1>1 DEF Serial, OneLogon
<1>7. OneLogon'
  BY <1>6 DEF Serial, OneLogon
<1>8. LogonAlone'
  BY <1>3, <1>4, <1>5, <1>6 DEF Serial, LogonAlone
<1>9. OneLogout'
  BY <1>3, <1>4, <1>5 DEF Serial, OneLogout
<1>10. InWaiting'
  BY <1>1, <1>3, <1>4, <1>5 DEF Serial, InWaiting
<1> QED BY <1>7, <1>8, <1>9, <1>10 DEF Serial

\* Only a logon that arrives adds to the checks of credentials.
LEMMA AuthsCases ==
  ASSUME [Next]_vars
  PROVE  auths' \subseteq auths \/ \E c \in Conn, i \in SessionId : ReceiveLogon(c, i)
<1> USE DEF networkVars, sessionVars, roomVars
<1>1. CASE Still \/ Stop
  BY <1>1 DEF Still, Stop
<1>2. ASSUME NEW c \in Conn,
             \/ LogonAnswered(c) \/ LogonAnswerFails(c) \/ SocketClosed(c)
             \/ LogoutWrittenForSuccessor(c) \/ LogoutWrittenForStop(c)
             \/ \E i \in SessionId : AuthAccepted(c, i) \/ ReceiveLogout(c, i)
      PROVE  auths' \subseteq auths
  BY <1>2 DEF LogonAnswered, LogonAnswerFails, SocketClosed, LogoutWrittenForSuccessor,
     LogoutWrittenForStop, AuthAccepted, ReceiveLogout
<1>3. ASSUME NEW c \in Conn, Quiescent(c)
      PROVE  auths' \subseteq auths \/ \E i \in SessionId : ReceiveLogon(c, i)
  BY <1>3 DEF Quiescent, Connect, ReceiveRefused, ReceiveMalformed, DelayedDestroy, PeerCloses,
     SocketError, AuthRejected, ReceiveJoin, ReceiveLeave, SendLogoutAndClose
<1> QED BY <1>1, <1>2, <1>3, StepCases

\* Steps that register nobody and give birth to no session.
LEMMA RegistersNobody ==
  ASSUME Structure, NEW c \in Conn,
         \/ Quiescent(c) \/ LogonAnswered(c) \/ LogonAnswerFails(c) \/ SocketClosed(c)
         \/ LogoutWrittenForStop(c) \/ \E i \in SessionId : ReceiveLogout(c, i)
  PROVE  /\ UNCHANGED <<sid, conn>>
         /\ \A i \in SessionId : sessions'[i] \in {None, sessions[i]}
<1>1. TypeOK
  BY DEF Structure
<1>2. CASE Quiescent(c) \/ LogonAnswered(c) \/ LogonAnswerFails(c)
  BY <1>2, QuiescentFrame DEF LogonAnswered, LogonAnswerFails, sessionVars
<1>3. CASE SocketClosed(c)
  BY <1>1, <1>3, RegistryTypes DEF SocketClosed
<1>4. CASE LogoutWrittenForStop(c)
  BY <1>1, <1>4, RegistryTypes DEF LogoutWrittenForStop, FinishStop, LoggedOut
<1>5. CASE \E i \in SessionId : ReceiveLogout(c, i)
  BY <1>1, <1>5, RegistryTypes DEF ReceiveLogout, LoggedOut
<1> QED BY <1>2, <1>3, <1>4, <1>5

LEMMA InTurnStep ==
  ASSUME "hasty" \notin Irregular, Structure, Tidy, InTurn, [Next]_vars
  PROVE  InTurn'
<1> SUFFICES ASSUME Before' PROVE Serial'
  BY DEF InTurn
<1>1. ~Stop /\ Distinct /\ Paired /\ Serial
  BY BeforeStep DEF Tidy, InTurn
<1>2. CASE Still
  BY <1>1, <1>2, SerialFrame DEF Still, sessionVars, PendingWrites
<1>3. ASSUME NEW c \in Conn, NEW i \in SessionId, ReceiveLogon(c, i) PROVE Serial'
  BY <1>1, <1>3, SerialReceiveLogon
<1>4. ASSUME NEW c \in Conn, LogoutWrittenForSuccessor(c) PROVE Serial'
  BY <1>1, <1>4, SerialSuccessor
<1>5. ASSUME NEW c \in Conn, NEW i \in SessionId, AuthAccepted(c, i) PROVE Serial'
  <2>1. PICK s \in Sess : Admission(c, i, s)
    BY <1>5, AdmissionIs
  <2>2. PendingWrites' = PendingWrites \cup AnswerWrites(c, s) \cup LogoutWrites(c, i, s)
    BY <1>1, <2>1, AdmissionPending DEF Admission
  <2> QED BY <1>1, <2>1, <2>2, SerialAdmission
<1>6. ASSUME NEW c \in Conn,
             \/ Quiescent(c) \/ LogonAnswered(c) \/ LogonAnswerFails(c) \/ SocketClosed(c)
             \/ LogoutWrittenForStop(c) \/ \E i \in SessionId : ReceiveLogout(c, i),
             auths' \subseteq auths
      PROVE  Serial'
  <2>1. PendingWrites' \subseteq PendingWrites
    <3>1. CASE UNCHANGED writes
      BY <3>1 DEF PendingWrites
    <3>2. ASSUME NEW kind, Completes(c, kind) PROVE PendingWrites' \subseteq PendingWrites
      BY <1>1, <3>2, CompletesPending
    <3> QED BY <1>6, <3>1, <3>2, QuiescentFrame DEF LogonAnswered, LogonAnswerFails, SocketClosed,
               LogoutWrittenForStop, ReceiveLogout
  <2> QED BY <1>1, <1>6, <2>1, RegistersNobody, SerialFrame
<1> QED BY <1>1, <1>2, <1>3, <1>4, <1>5, <1>6, AuthsCases, StepCases

LEMMA InTurnInit == Init => InTurn
<1> SUFFICES ASSUME Init PROVE Serial
  BY DEF InTurn
<1>1. auths = {} /\ \A c \in Conn : ToSet(writes[c]) = {}
  BY DEF Init, ToSet
<1> QED BY <1>1 DEF Serial, OneLogon, LogonAlone, OneLogout, InWaiting, PendingWrites

-----------------------------------------------------------------------------
(* Peers that keep a connection up, and use it for one logon *)

LEMMA OtherSockets ==
  ASSUME NEW sk, NEW c \in Conn, NEW d \in Conn, d # c
  PROVE  Destroyed(sk, {c})[d] = sk[d] /\ Ended(sk, {c})[d] = sk[d]
BY DEF Destroyed, Ended

\* A registered session in terms of the session.
LEMMA RegisteredIs ==
  ASSUME Structure, NEW s \in Registered
  PROVE  /\ s \in Sess /\ Born(s) /\ conn[s] \in Conn /\ sid[s] \in SessionId
         /\ sessions[sid[s]] = s
BY RegisteredLinked, NoneAssumption DEF Registered

\* stop() was not called, so no Logout message is its own.
LEMMA NoStopLogout ==
  ASSUME Structure, Paired, NEW c \in Conn
  PROVE  ~LogoutWrittenForStop(c)
<1> SUFFICES ASSUME LogoutWrittenForStop(c) PROVE FALSE
  OBVIOUS
<1>1. Completes(c, "logout") /\ Oldest(c).next = None
  BY DEF LogoutWrittenForStop
<1>2. Oldest(c) \in PendingWrites /\ Oldest(c).kind = "logout"
  BY <1>1, OldestWrite DEF PendingWrites
<1> QED BY <1>1, <1>2, NoneAssumption DEF Paired, LogonWrite

\* A session that waits for its registration is not registered yet.
LEMMA NotYetRegistered ==
  ASSUME Structure, Paired, Serial, NEW s \in Sess, Succeeds(s)
  PROVE  s \notin Registered
<1>1. PICK w \in PendingWrites : w.next = s
  BY DEF Succeeds
<1>2. s # None /\ sid[s] = sid[w.of] /\ s # w.of
  <2>1. s # None
    BY NoneAssumption
  <2> QED BY <1>1, <2>1, Pending DEF Paired, LogonWrite
<1>3. sessions[sid[s]] \in {w.of, None}
  BY <1>1, <1>2 DEF Serial, InWaiting
<1> QED BY <1>2, <1>3, RegisteredIs

\* The socket of a logon in progress is open, and nobody's yet; no two sessions
\* share a socket; a session that waits for its registration is logged on, on an
\* open socket, and nobody logs it out; a registered session is not disconnected,
\* and its close hook will run.
OnItsOwn ==
  \A c \in Conn, i \in SessionId : <<c, i>> \in auths =>
    /\ sock[c] = "open" /\ c \notin doomed
    /\ \A s \in Sess : conn[s] # c
    /\ \A j \in SessionId : <<c, j>> \in auths => j = i

OwnSocket == \A s, t \in Sess : Born(s) /\ Born(t) /\ conn[s] = conn[t] => s = t

Expectant ==
  \A s \in Sess : Succeeds(s) =>
    /\ sock[conn[s]] = "open" /\ conn[s] \notin doomed /\ state[s] = "LOGGED_ON"
    /\ \A w \in PendingWrites : w.kind = "logout" => w.of # s

Alive ==
  \A s \in Registered :
    state[s] # "DISCONNECTED" /\ sock[conn[s]] # "closed" /\ s \in hooks[conn[s]]

Steady == OnItsOwn /\ OwnSocket /\ Expectant /\ Alive

Orderly == Before => Steady

Patient == Irregular \cap {"hasty", "relogon", "drop"} = {}

\* What closes an open socket whose peer waits for an answer, or dooms it.
LEMMA OpenKept ==
  ASSUME Structure, Paired, Patient, [Next]_vars, ~Stop,
         NEW d \in Conn, sock[d] = "open", d \notin doomed, ~Quiet(d)
  PROVE  /\ \/ sock'[d] = "open"
            \/ LogoutWrittenForSuccessor(d)
            \/ \E c \in Conn, i \in SessionId : ReceiveLogout(c, i) /\ conn[sessions[i]] = d
         /\ d \in doomed' => \E i \in SessionId : AuthRejected(d, i)
<1> USE DEF networkVars, sessionVars, roomVars
<1>0. "hasty" \notin Irregular /\ "drop" \notin Irregular /\ sock \in [Conn -> SockState]
  BY DEF Patient, Structure, TypeOK, SockState
<1>1. CASE UNCHANGED <<sock, doomed>>
  BY <1>1
<1>2. ASSUME NEW c \in Conn, c # d,
             \/ sock' = sock \/ sock' = Destroyed(sock, {c}) \/ sock' = Ended(sock, {c})
             \/ \E x : sock' = [sock EXCEPT ![c] = x],
             doomed' \subseteq doomed \cup {c}
      PROVE  sock'[d] = "open" /\ d \notin doomed'
  <2>1. Destroyed(sock, {c})[d] = "open" /\ Ended(sock, {c})[d] = "open"
    BY <1>2, OtherSockets
  <2>2. \A x : [sock EXCEPT ![c] = x][d] = "open"
    BY <1>0, <1>2
  <2>3. sock'[d] = "open"
    BY <1>2, <2>1, <2>2
  <2> QED BY <1>2, <2>3
<1>3. ASSUME NEW c \in Conn, Quiescent(c)
      PROVE  sock'[d] = "open" /\ (d \in doomed' => \E i \in SessionId : AuthRejected(d, i))
  <2>1. CASE Connect(c)
    <3>1. c # d /\ sock' = [sock EXCEPT ![c] = "open"] /\ UNCHANGED doomed
      BY <2>1 DEF Connect
    <3> QED BY <1>2, <3>1
  <2>2. CASE ReceiveRefused(c)
    <3>1. c # d /\ doomed' = doomed \cup {c} /\ (sock' = sock \/ sock' = Destroyed(sock, {c}))
      BY <1>0, <2>2 DEF ReceiveRefused, Waits, SendLogoutAndClose
    <3> QED BY <1>2, <3>1
  <2>3. CASE ReceiveMalformed(c) \/ PeerCloses(c) \/ DelayedDestroy(c) \/ SocketError(c)
    <3>1. c # d
      BY <1>0, <2>3 DEF ReceiveMalformed, PeerCloses, DelayedDestroy, SocketError, Waits
    <3>2. /\ doomed' \subseteq doomed
          /\ sock' = Destroyed(sock, {c}) \/ sock' = Ended(sock, {c})
      BY <2>3 DEF ReceiveMalformed, PeerCloses, DelayedDestroy, SocketError
    <3> QED BY <1>2, <3>1, <3>2
  <2>4. ASSUME NEW i \in SessionId, AuthRejected(c, i)
        PROVE  sock'[d] = "open" /\ (d \in doomed' => \E j \in SessionId : AuthRejected(d, j))
    <3>1. /\ doomed' = doomed \cup {c}
          /\ sock' = IF sock[c] = "ended" THEN Destroyed(sock, {c}) ELSE sock
      BY <2>4 DEF AuthRejected, SendLogoutAndClose
    <3>2. CASE c = d
      BY <2>4, <3>1, <3>2
    <3>3. CASE c # d
      BY <1>2, <3>1, <3>3
    <3> QED BY <3>2, <3>3
  <2>5. CASE \/ \E i \in SessionId : ReceiveLogon(c, i)
             \/ \E i \in SessionId, r \in Room : ReceiveJoin(c, i, r) \/ ReceiveLeave(c, i, r)
    BY <1>1, <2>5 DEF ReceiveLogon, ReceiveJoin, ReceiveLeave
  <2> QED BY <1>3, <2>1, <2>2, <2>3, <2>4, <2>5 DEF Quiescent
<1>4. ASSUME NEW c \in Conn, LogonAnswered(c) PROVE sock'[d] = "open" /\ d \notin doomed'
  BY <1>1, <1>4 DEF LogonAnswered
<1>5. ASSUME NEW c \in Conn, LogonAnswerFails(c) \/ SocketClosed(c)
      PROVE  sock'[d] = "open" /\ d \notin doomed'
  <2>1. /\ c # d /\ UNCHANGED doomed
        /\ sock' = Destroyed(sock, {c}) \/ sock' = [sock EXCEPT ![c] = "closed"]
    BY <1>5 DEF LogonAnswerFails, SocketClosed, Writable
  <2> QED BY <1>2, <2>1
<1>6. ASSUME NEW c \in Conn, LogoutWrittenForSuccessor(c)
      PROVE  d \notin doomed' /\ (sock'[d] = "open" \/ c = d)
  <2>1. UNCHANGED doomed /\ sock' = Ended(sock, {c})
    BY <1>6 DEF LogoutWrittenForSuccessor
  <2> QED BY <2>1, OtherSockets
<1>7. ASSUME NEW c \in Conn, NEW i \in SessionId, ReceiveLogout(c, i)
      PROVE  d \notin doomed' /\ (sock'[d] = "open" \/ conn[sessions[i]] = d)
  <2>1. UNCHANGED doomed /\ sock' = Ended(sock, {conn[sessions[i]]}) /\ conn[sessions[i]] \in Conn
    BY <1>7, RegisteredLinked DEF ReceiveLogout
  <2> QED BY <2>1, OtherSockets
<1>8. ASSUME NEW c \in Conn, NEW i \in SessionId, AuthAccepted(c, i)
      PROVE  d \notin doomed' /\ sock'[d] = "open"
  <2>1. /\ UNCHANGED doomed
        /\ sock' = IF Writable(c) THEN sock ELSE Destroyed(sock, {c})
    BY <1>8 DEF AuthAccepted, AdmitAtOnce, AdmitTakeover, AdmitOverUnwritable, Answer
  <2> QED BY <1>2, <2>1 DEF Writable
<1>9. CASE Still
  BY <1>1, <1>9 DEF Still
<1> QED BY <1>3, <1>4, <1>5, <1>6, <1>7, <1>8, <1>9, NoStopLogout, StepCases

LEMMA AdmissionBirth ==
  ASSUME Structure, NEW c \in Conn, NEW i \in SessionId, NEW s \in Sess, Admission(c, i, s)
  PROVE  \A t \in Sess : Born(t)' <=> Born(t) \/ t = s
<1>0. state \in [Sess -> SessionState]
  BY DEF Structure, TypeOK, SessionState
<1>1. CASE AdmitAtOnce(c, i, s)
  BY <1>0, <1>1, AnsweredState DEF AdmitAtOnce, Born
<1>2. CASE AdmitTakeover(c, i, s)
  <2>1. /\ sessions[i] # None
        /\ state' = [state EXCEPT ![sessions[i]] = "LOGGING_OUT", ![s] = Answered(c)]
    BY <1>2 DEF AdmitTakeover
  <2>2. sessions[i] \in Sess /\ Born(sessions[i])
    BY <2>1, RegisteredLinked
  <2> QED BY <1>0, <2>1, <2>2, AnsweredState DEF Born
<1>3. CASE AdmitOverUnwritable(c, i, s)
  <2>1. /\ sessions[i] # None
        /\ state' = [state EXCEPT ![sessions[i]] = "DISCONNECTED", ![s] = Answered(c)]
    BY <1>3 DEF AdmitOverUnwritable
  <2>2. sessions[i] \in Sess /\ Born(sessions[i])
    BY <2>1, RegisteredLinked
  <2> QED BY <1>0, <2>1, <2>2, AnsweredState DEF Born
<1> QED BY <1>1, <1>2, <1>3 DEF Admission

\* Sessions are born by admissions only.
LEMMA Births ==
  ASSUME Structure, [Next]_vars, ~Stop
  PROVE  \/ UNCHANGED <<conn, sid>> /\ \A t \in Sess : Born(t)' <=> Born(t)
         \/ \E c \in Conn, i \in SessionId, s \in Sess :
              /\ Admission(c, i, s)
              /\ \A t \in Sess : Born(t)' <=> Born(t) \/ t = s
<1>0. state \in [Sess -> SessionState]
  BY DEF Structure, TypeOK, SessionState
<1>1. CASE Still
  BY <1>1 DEF Still, sessionVars, Born
<1>2. ASSUME NEW c \in Conn, Quiescent(c) \/ LogonAnswered(c)
      PROVE  UNCHANGED <<conn, sid>> /\ \A t \in Sess : Born(t)' <=> Born(t)
  BY <1>2, QuiescentFrame DEF LogonAnswered, sessionVars, Born
<1>3. ASSUME NEW c \in Conn, LogonAnswerFails(c)
      PROVE  UNCHANGED <<conn, sid>> /\ \A t \in Sess : Born(t)' <=> Born(t)
  <2>1. /\ Completes(c, "logon") /\ state' = [state EXCEPT ![Oldest(c).of] = "ERROR"]
        /\ UNCHANGED <<conn, sid>>
    BY <1>3 DEF LogonAnswerFails
  <2>2. Oldest(c).of \in Sess /\ Born(Oldest(c).of)
    BY <2>1, OldestWrite DEF WriteLinked
  <2> QED BY <1>0, <2>1, <2>2 DEF Born
<1>4. ASSUME NEW c \in Conn,
             \/ LogoutWrittenForSuccessor(c) \/ LogoutWrittenForStop(c)
             \/ \E i \in SessionId : ReceiveLogout(c, i)
      PROVE  UNCHANGED <<conn, sid>> /\ \A t \in Sess : Born(t)' <=> Born(t)
  BY <1>4, LogoutCases, LoggedOutTypes
<1>5. ASSUME NEW c \in Conn, SocketClosed(c)
      PROVE  UNCHANGED <<conn, sid>> /\ \A t \in Sess : Born(t)' <=> Born(t)
  <2> DEFINE gone == (IF listening[c] THEN {t \in Registered : conn[t] = c} ELSE {}) \cup hooks[c]
  <2>1. /\ state' = [t \in Sess |-> IF t \in gone THEN "DISCONNECTED" ELSE state[t]]
        /\ UNCHANGED <<conn, sid>>
    BY <1>5 DEF SocketClosed
  <2>2. \A t \in gone : Born(t)
    BY RegisteredIs DEF Structure, Links
  <2> HIDE DEF gone
  <2> QED BY <2>1, <2>2 DEF Born
<1>6. ASSUME NEW c \in Conn, NEW i \in SessionId, AuthAccepted(c, i)
      PROVE  \E s \in Sess : /\ Admission(c, i, s)
                             /\ \A t \in Sess : Born(t)' <=> Born(t) \/ t = s
  <2>1. PICK s \in Sess : Admission(c, i, s)
    BY <1>6, AdmissionIs
  <2> QED BY <2>1, AdmissionBirth
<1> QED BY <1>1, <1>2, <1>3, <1>4, <1>5, <1>6, StepCases

LEMMA OnItsOwnStep ==
  ASSUME Structure, Paired, Patient, Steady, [Next]_vars, ~Stop
  PROVE  OnItsOwn'
<1> SUFFICES ASSUME NEW d \in Conn, NEW i \in SessionId, <<d, i>> \in auths'
             PROVE  /\ sock'[d] = "open" /\ d \notin doomed'
                    /\ \A s \in Sess : conn'[s] # d
                    /\ \A j \in SessionId : <<d, j>> \in auths' => j = i
  BY DEF OnItsOwn
<1>1. CASE <<d, i>> \in auths
  <2>1. /\ sock[d] = "open" /\ d \notin doomed /\ ~Quiet(d)
        /\ \A s \in Sess : conn[s] # d
        /\ \A j \in SessionId : <<d, j>> \in auths => j = i
    BY <1>1 DEF Steady, OnItsOwn, Quiet
  <2>2. ~LogoutWrittenForSuccessor(d)
    BY <2>1, OldestWrite DEF LogoutWrittenForSuccessor, WriteLinked
  <2>3. \A c \in Conn, j \in SessionId : ReceiveLogout(c, j) => conn[sessions[j]] # d
    BY <2>1, RegisteredLinked DEF ReceiveLogout
  <2>4. \A j \in SessionId : ~AuthRejected(d, j)
    BY <1>1, <2>1 DEF AuthRejected
  <2>5. sock'[d] = "open" /\ d \notin doomed'
    BY <2>1, <2>2, <2>3, <2>4, OpenKept
  <2>6. \A s \in Sess : conn'[s] # d
    <3>1. ASSUME NEW c \in Conn, NEW j \in SessionId, NEW s \in Sess, Admission(c, j, s)
          PROVE  c # d /\ conn' = [conn EXCEPT ![s] = c]
      BY <1>1, <2>1, <3>1 DEF Admission
    <3>2. conn \in [Sess -> Conn \cup {None}]
      BY DEF Structure, TypeOK
    <3> QED BY <2>1, <3>1, <3>2, Births
  <2>7. ASSUME NEW c \in Conn, NEW j \in SessionId, ReceiveLogon(c, j)
        PROVE  c # d /\ auths' = auths \cup {<<c, j>>}
    BY <2>1, <2>7 DEF ReceiveLogon, LogonExpected, Waits, Patient
  <2>8. \A j \in SessionId : <<d, j>> \in auths' => <<d, j>> \in auths
    BY <2>7, AuthsCases
  <2> QED BY <2>1, <2>5, <2>6, <2>8
<1>2. CASE <<d, i>> \notin auths
  <2>1. PICK c \in Conn, k \in SessionId : ReceiveLogon(c, k)
    BY <1>2, AuthsCases
  <2>2. auths' = auths \cup {<<c, k>>} /\ UNCHANGED <<sock, doomed, conn>>
    BY <2>1 DEF ReceiveLogon, networkVars, sessionVars
  <2>3. c = d /\ k = i
    BY <1>2, <2>2
  <2>4. /\ sock[d] = "open" /\ Quiet(d) /\ \A s \in Sess : conn[s] # d
    BY <2>1, <2>3 DEF ReceiveLogon, Readable, LogonExpected, Waits, Patient
  <2> QED BY <2>2, <2>3, <2>4 DEF Quiet
<1> QED BY <1>1, <1>2

LEMMA OwnSocketStep ==
  ASSUME Structure, Steady, [Next]_vars, ~Stop
  PROVE  OwnSocket'
<1>1. CASE UNCHANGED <<conn, sid>> /\ \A t \in Sess : Born(t)' <=> Born(t)
  BY <1>1 DEF Steady, OwnSocket
<1>2. ASSUME NEW c \in Conn, NEW i \in SessionId, NEW s \in Sess, Admission(c, i, s),
             \A t \in Sess : Born(t)' <=> Born(t) \/ t = s
      PROVE  OwnSocket'
  <2>1. \A t \in Sess : conn[t] # c
    BY <1>2 DEF Admission, Steady, OnItsOwn
  <2>2. conn'[s] = c /\ \A t \in Sess : t # s => conn'[t] = conn[t]
    BY <1>2 DEF Admission, Structure, TypeOK
  <2> QED BY <1>2, <2>1, <2>2 DEF Steady, OwnSocket
<1> QED BY <1>1, <1>2, Births

\* As long as its socket is open a session changes state only by its own Logout,
\* or while it is registered.
LEMMA OpenStateKept ==
  ASSUME Structure, Paired, [Next]_vars, ~Stop, NEW s \in Sess, Born(s), sock[conn[s]] = "open"
  PROVE  \/ state'[s] = state[s]
         \/ s \in Registered
         \/ \E w \in PendingWrites : w.kind = "logout" /\ w.of = s
<1>0. state \in [Sess -> SessionState]
  BY DEF Structure, TypeOK, SessionState
<1>1. CASE Still
  BY <1>1 DEF Still, sessionVars
<1>2. ASSUME NEW c \in Conn, Quiescent(c) \/ LogonAnswered(c) PROVE state'[s] = state[s]
  BY <1>2, QuiescentFrame DEF LogonAnswered, sessionVars
<1>3. ASSUME NEW c \in Conn, LogonAnswerFails(c) PROVE state'[s] = state[s]
  <2>1. /\ Completes(c, "logon") /\ sock[c] # "open"
        /\ state' = [state EXCEPT ![Oldest(c).of] = "ERROR"]
    BY <1>3 DEF LogonAnswerFails, Writable
  <2>2. conn[Oldest(c).of] = c
    BY <2>1, OldestWrite DEF WriteLinked
  <2> QED BY <1>0, <2>1, <2>2
<1>4. ASSUME NEW c \in Conn, SocketClosed(c) PROVE state'[s] = state[s]
  <2> DEFINE gone == (IF listening[c] THEN {t \in Registered : conn[t] = c} ELSE {}) \cup hooks[c]
  <2>1. /\ state' = [t \in Sess |-> IF t \in gone THEN "DISCONNECTED" ELSE state[t]]
        /\ sock[c] # "open"
    BY <1>4 DEF SocketClosed
  <2>2. \A t \in gone : conn[t] = c
    BY DEF Structure, Links
  <2> HIDE DEF gone
  <2> QED BY <2>1, <2>2
<1>5. ASSUME NEW c \in Conn, LogoutWrittenForSuccessor(c)
      PROVE  state'[s] = state[s] \/ \E w \in PendingWrites : w.kind = "logout" /\ w.of = s
  <2>1. Completes(c, "logout") /\ state' = [state EXCEPT ![Oldest(c).of] = "DISCONNECTED"]
    BY <1>5 DEF LogoutWrittenForSuccessor, LoggedOut
  <2>2. Oldest(c) \in PendingWrites /\ Oldest(c).kind = "logout"
    BY <2>1, OldestWrite DEF PendingWrites
  <2> QED BY <1>0, <2>1, <2>2
<1>6. ASSUME NEW c \in Conn, NEW i \in SessionId, ReceiveLogout(c, i)
      PROVE  state'[s] = state[s] \/ s \in Registered
  <2>1. state' = [state EXCEPT ![sessions[i]] = "DISCONNECTED"]
    BY <1>6 DEF ReceiveLogout, LoggedOut
  <2> QED BY <1>0, <2>1 DEF Registered
<1>7. ASSUME NEW c \in Conn, NEW i \in SessionId, NEW n \in Sess, Admission(c, i, n)
      PROVE  state'[s] = state[s] \/ s \in Registered
  <2>1. s # n
    BY <1>7 DEF Admission
  <2>2. \/ state' = [state EXCEPT ![n] = Answered(c)]
        \/ state' = [state EXCEPT ![sessions[i]] = "LOGGING_OUT", ![n] = Answered(c)]
        \/ state' = [state EXCEPT ![sessions[i]] = "DISCONNECTED", ![n] = Answered(c)]
    BY <1>7 DEF Admission, AdmitAtOnce, AdmitTakeover, AdmitOverUnwritable
  <2> QED BY <1>0, <2>1, <2>2 DEF Registered
<1> QED BY <1>1, <1>2, <1>3, <1>4, <1>5, <1>6, <1>7, NoStopLogout, AdmissionIs, StepCases

\* Where a pending write comes from.
LEMMA WriteOrigin ==
  ASSUME Structure, Distinct, [Next]_vars, ~Stop, NEW w \in PendingWrites'
  PROVE  \/ w \in PendingWrites
         \/ \E c \in Conn, i \in SessionId, s \in Sess :
              Admission(c, i, s) /\ w \in AnswerWrites(c, s) \cup LogoutWrites(c, i, s)
BY PendingCases

LEMMA ExpectantStep ==
  ASSUME Structure, Distinct, Paired, Serial, Patient, Steady, [Next]_vars, ~Stop
  PROVE  Expectant'
<1> SUFFICES ASSUME NEW s \in Sess, NEW w \in PendingWrites', w.next = s
             PROVE  /\ sock'[conn'[s]] = "open" /\ conn'[s] \notin doomed'
                    /\ state'[s] = "LOGGED_ON"
                    /\ \A v \in PendingWrites' : v.kind = "logout" => v.of # s
  BY DEF Expectant, Succeeds
<1>1. CASE w \in PendingWrites
  <2> DEFINE d == conn[s]
  <2>1. Succeeds(s) /\ s # None
    BY <1>1, NoneAssumption DEF Succeeds
  <2>2. Born(s) /\ d \in Conn /\ s \notin Registered
    BY <1>1, <2>1, Pending, NotYetRegistered
  <2>3. /\ sock[d] = "open" /\ d \notin doomed /\ state[s] = "LOGGED_ON" /\ ~Quiet(d)
        /\ \A v \in PendingWrites : v.kind = "logout" => v.of # s
    BY <2>1 DEF Steady, Expectant, Quiet
  <2>4. conn'[s] = d
    <3>1. ASSUME NEW c \in Conn, NEW i \in SessionId, NEW n \in Sess, Admission(c, i, n)
          PROVE  s # n /\ conn' = [conn EXCEPT ![n] = c]
      BY <2>2, <3>1 DEF Admission
    <3>2. conn \in [Sess -> Conn \cup {None}]
      BY DEF Structure, TypeOK
    <3> QED BY <3>1, <3>2, Births
  <2>5. ~LogoutWrittenForSuccessor(d)
    <3>1. ASSUME Completes(d, "logout") PROVE FALSE
      <4>1. /\ Oldest(d).of \in Sess /\ Born(Oldest(d).of) /\ conn[Oldest(d).of] = d
            /\ Oldest(d) \in PendingWrites /\ Oldest(d).kind = "logout"
        BY <2>2, <3>1, OldestWrite DEF WriteLinked, PendingWrites
      <4> QED BY <2>2, <2>3, <4>1 DEF Steady, OwnSocket
    <3> QED BY <3>1 DEF LogoutWrittenForSuccessor
  <2>6. ASSUME NEW c \in Conn, NEW i \in SessionId, ReceiveLogout(c, i)
        PROVE  conn[sessions[i]] # d
    <3>1. sessions[i] \in Sess /\ Born(sessions[i]) /\ sessions[i] \in Registered
      BY <2>6, RegisteredLinked DEF ReceiveLogout, Registered
    <3> QED BY <2>2, <3>1 DEF Steady, OwnSocket
  <2>7. \A i \in SessionId : ~AuthRejected(d, i)
    BY <2>2 DEF AuthRejected, Steady, OnItsOwn
  <2>8. sock'[d] = "open" /\ d \notin doomed'
    BY <2>2, <2>3, <2>5, <2>6, <2>7, OpenKept
  <2>9. state'[s] = "LOGGED_ON"
    BY <2>2, <2>3, OpenStateKept
  <2>10. \A v \in PendingWrites' : v.kind = "logout" => v.of # s
    <3>1. ASSUME NEW c \in Conn, NEW i \in SessionId, NEW n \in Sess, Admission(c, i, n),
                 NEW v \in AnswerWrites(c, n) \cup LogoutWrites(c, i, n), v.kind = "logout"
          PROVE  v.of \in Registered
      BY <3>1, NewWrites DEF Registered
    <3> QED BY <2>2, <2>3, <3>1, WriteOrigin
  <2> QED BY <2>4, <2>8, <2>9, <2>10
<1>2. CASE w \notin PendingWrites
  <2>1. PICK c \in Conn, i \in SessionId, n \in Sess :
          /\ Admission(c, i, n)
          /\ PendingWrites' = PendingWrites \cup AnswerWrites(c, n) \cup LogoutWrites(c, i, n)
    BY <1>2, PendingCases
  <2>2. /\ w \in LogoutWrites(c, i, n) /\ w.next = n /\ n = s
        /\ sessions[i] # s /\ sessions[i] \in Sess
    BY <1>2, <2>1, NewWrites, NoneAssumption
  <2>3. /\ AdmitTakeover(c, i, s) /\ conn' = [conn EXCEPT ![s] = c]
        /\ <<c, i>> \in auths /\ UNCHANGED doomed /\ ~Born(s)
    BY <2>1, <2>2 DEF Admission, LogoutWrites
  <2>4. sock[c] = "open" /\ c \notin doomed
    BY <2>3 DEF Steady, OnItsOwn
  <2>5. /\ state' = [state EXCEPT ![sessions[i]] = "LOGGING_OUT", ![s] = Answered(c)]
        /\ sock' = sock
    BY <2>3, <2>4 DEF AdmitTakeover, Answer, Writable
  <2>6. state'[s] = "LOGGED_ON"
    <3>1. state \in [Sess -> SessionState] /\ Answered(c) = "LOGGED_ON"
      BY <2>4 DEF Structure, TypeOK, SessionState, Answered, Writable
    <3> QED BY <2>5, <3>1
  <2>7. conn'[s] = c
    BY <2>3 DEF Structure, TypeOK
  <2>8. ASSUME NEW v \in PendingWrites', v.kind = "logout" PROVE v.of # s
    <3>1. CASE v \in PendingWrites
      BY <2>3, <3>1, Pending
    <3>2. CASE v \in AnswerWrites(c, n) \cup LogoutWrites(c, i, n)
      BY <2>1, <2>2, <2>8, <3>2, NewWrites
    <3> QED BY <2>1, <3>1, <3>2
  <2> QED BY <2>3, <2>4, <2>5, <2>6, <2>7, <2>8
<1> QED BY <1>1, <1>2

\* What the end of session t leaves of a session on another socket.
LEMMA OtherSession ==
  ASSUME Structure, NEW t \in Sess, LoggedOut(t), NEW s \in Sess, conn[s] # conn[t], conn[s] \in Conn
  PROVE  state'[s] = state[s] /\ hooks'[conn[s]] = hooks[conn[s]] /\ conn'[s] = conn[s]
<1>1. state \in [Sess -> SessionState]
  BY DEF Structure, TypeOK, SessionState
<1> QED BY <1>1 DEF LoggedOut, Deafened

\* Closing sockets is not 'close'.
LEMMA NotClosed ==
  ASSUME NEW sk, NEW C, NEW d \in Conn, sk[d] # "closed"
  PROVE  Destroyed(sk, C)[d] # "closed" /\ Ended(sk, C)[d] # "closed"
BY DEF Destroyed, Ended

LEMMA AliveSuccessor ==
  ASSUME Structure, Attended, Paired, Steady, NEW c \in Conn, LogoutWrittenForSuccessor(c)
  PROVE  Alive'
<1> DEFINE o == Oldest(c)
<1>1. /\ Completes(c, "logout") /\ o.next # None /\ LoggedOut(o.of)
      /\ sock' = Ended(sock, {c})
      /\ Enrol(Without({sid[o.of]}), sid[o.next], o.next)
  BY DEF LogoutWrittenForSuccessor
<1>2. o \in PendingWrites /\ o.of \in Sess /\ conn[o.of] = c
  BY <1>1, OldestWrite DEF PendingWrites, WriteLinked
<1>3. /\ o.next \in Sess /\ Born(o.next) /\ conn[o.next] \in Conn /\ o.next # o.of
      /\ sid[o.next] = sid[o.of] /\ sid[o.of] \in SessionId /\ Born(o.of)
  BY <1>1, <1>2, Pending DEF Paired, LogonWrite
<1> HIDE DEF o
<1>4. \A j \in SessionId :
        \/ sessions'[j] = o.next
        \/ sessions'[j] = None
        \/ sessions'[j] = sessions[j] /\ j # sid[o.of]
  <2>1. Without({sid[o.of]}) \in [SessionId -> Sess \cup {None}] /\ TypeOK
    BY RegistryTypes DEF Structure
  <2>2. \A j \in SessionId : \/ sessions'[j] = Without({sid[o.of]})[j]
                             \/ j = sid[o.of] /\ sessions'[j] = o.next
    BY <1>1, <1>3, <2>1, EnrolTypes
  <2> QED BY <2>2 DEF Without
<1> SUFFICES ASSUME NEW s \in Sess, NEW j \in SessionId, sessions'[j] = s
             PROVE  /\ state'[s] # "DISCONNECTED" /\ sock'[conn'[s]] # "closed"
                    /\ s \in hooks'[conn'[s]]
  BY DEF Alive, Registered
<1>5. CASE s = o.next
  <2>1. sock[conn[s]] = "open" /\ state[s] = "LOGGED_ON" /\ s \in hooks[conn[s]]
    BY <1>2, <1>3, <1>5 DEF Steady, Expectant, Succeeds, Attended
  <2>2. conn[s] # conn[o.of]
    BY <1>2, <1>3, <1>5 DEF Steady, OwnSocket
  <2> QED BY <1>1, <1>2, <1>3, <1>5, <2>1, <2>2, OtherSession, NotClosed
<1>6. CASE s # o.next
  <2>1. sessions[j] = s /\ j # sid[o.of] /\ s # None
    BY <1>4, <1>6, NoneAssumption
  <2>2. Born(s) /\ sid[s] = j /\ conn[s] \in Conn
    BY <2>1, RegisteredLinked
  <2>3. state[s] # "DISCONNECTED" /\ sock[conn[s]] # "closed" /\ s \in hooks[conn[s]]
    BY <2>1 DEF Steady, Alive, Registered
  <2>4. conn[s] # conn[o.of]
    BY <1>2, <1>3, <2>1, <2>2 DEF Steady, OwnSocket
  <2> QED BY <1>1, <1>2, <2>2, <2>3, <2>4, OtherSession, NotClosed
<1> QED BY <1>5, <1>6

LEMMA AliveLogout ==
  ASSUME Structure, Steady, NEW c \in Conn, NEW i \in SessionId, ReceiveLogout(c, i)
  PROVE  Alive'
<1> DEFINE t == sessions[i]
<1>1. /\ t # None /\ LoggedOut(t) /\ sock' = Ended(sock, {conn[t]}) /\ sessions' = Without({i})
  BY DEF ReceiveLogout
<1>2. t \in Sess /\ Born(t) /\ sid[t] = i
  BY <1>1, RegisteredLinked
<1> HIDE DEF t
<1> SUFFICES ASSUME NEW s \in Sess, NEW j \in SessionId, sessions'[j] = s
             PROVE  /\ state'[s] # "DISCONNECTED" /\ sock'[conn'[s]] # "closed"
                    /\ s \in hooks'[conn'[s]]
  BY DEF Alive, Registered
<1>3. sessions[j] = s /\ j # i
  BY <1>1, NoneAssumption DEF Without
<1>4. Born(s) /\ sid[s] = j /\ conn[s] \in Conn
  BY <1>3, RegisteredLinked, NoneAssumption
<1>5. state[s] # "DISCONNECTED" /\ sock[conn[s]] # "closed" /\ s \in hooks[conn[s]]
  BY <1>3 DEF Steady, Alive, Registered
<1>6. conn[s] # conn[t]
  BY <1>2, <1>3, <1>4 DEF Steady, OwnSocket
<1> QED BY <1>1, <1>2, <1>4, <1>5, <1>6, OtherSession, NotClosed

LEMMA AliveSocketClosed ==
  ASSUME Structure, Steady, NEW c \in Conn, SocketClosed(c)
  PROVE  Alive'
<1> DEFINE gone == (IF listening[c] THEN {s \in Registered : conn[s] = c} ELSE {}) \cup hooks[c]
           ids == {sid[s] : s \in gone}
<1>1. /\ sock' = [sock EXCEPT ![c] = "closed"]
      /\ hooks' = [hooks EXCEPT ![c] = {}]
      /\ state' = [s \in Sess |-> IF s \in gone THEN "DISCONNECTED" ELSE state[s]]
      /\ sessions' = Without(ids) /\ conn' = conn
  BY DEF SocketClosed
<1>2. (\A s \in gone : conn[s] = c) /\ hooks[c] \subseteq gone
  BY DEF Structure, Links
<1> HIDE DEF gone
<1> SUFFICES ASSUME NEW s \in Sess, NEW j \in SessionId, sessions'[j] = s
             PROVE  /\ state'[s] # "DISCONNECTED" /\ sock'[conn'[s]] # "closed"
                    /\ s \in hooks'[conn'[s]]
  BY DEF Alive, Registered
<1>3. sessions[j] = s /\ j \notin ids
  BY <1>1, NoneAssumption DEF Without
<1>4. sid[s] = j /\ conn[s] \in Conn
  BY <1>3, RegisteredLinked, NoneAssumption
<1>5. s \notin gone
  BY <1>3, <1>4
<1>6. state[s] # "DISCONNECTED" /\ sock[conn[s]] # "closed" /\ s \in hooks[conn[s]]
  BY <1>3 DEF Steady, Alive, Registered
<1>7. conn[s] # c
  BY <1>2, <1>5, <1>6
<1>8. sock \in [Conn -> SockState] /\ hooks \in [Conn -> SUBSET Sess]
  BY DEF Structure, TypeOK, SockState
<1> HIDE DEF ids
<1> QED BY <1>1, <1>4, <1>5, <1>6, <1>7, <1>8

LEMMA AliveAdmission ==
  ASSUME Structure, Steady, NEW c \in Conn, NEW i \in SessionId, NEW n \in Sess,
         Admission(c, i, n)
  PROVE  Alive'
<1>1. /\ ~Born(n) /\ conn' = [conn EXCEPT ![n] = c]
      /\ \A j \in SessionId : j # i => sessions'[j] = sessions[j]
      /\ sock[c] = "open" /\ \A s \in Sess : conn[s] # c
  BY DEF Admission, Steady, OnItsOwn
<1>2. /\ state \in [Sess -> SessionState] /\ hooks \in [Conn -> SUBSET Sess]
      /\ sessions \in [SessionId -> Sess \cup {None}] /\ conn \in [Sess -> Conn \cup {None}]
  BY DEF Structure, TypeOK, SessionState
<1>3. sock' = sock /\ Answered(c) = "LOGGED_ON"
  BY <1>1 DEF Admission, AdmitAtOnce, AdmitTakeover, AdmitOverUnwritable, Answer, Writable, Answered
<1>4. state'[n] = "LOGGED_ON" /\ n \in hooks'[c] /\ conn'[n] = c
  <2>1. CASE AdmitAtOnce(c, i, n)
    BY <1>1, <1>2, <1>3, <2>1 DEF AdmitAtOnce
  <2>2. CASE AdmitTakeover(c, i, n)
    BY <1>1, <1>2, <1>3, <2>2 DEF AdmitTakeover
  <2>3. CASE AdmitOverUnwritable(c, i, n)
    BY <1>1, <1>2, <1>3, <2>3 DEF AdmitOverUnwritable
  <2> QED BY <2>1, <2>2, <2>3 DEF Admission
<1> SUFFICES ASSUME NEW s \in Sess, NEW j \in SessionId, sessions'[j] = s
             PROVE  /\ state'[s] # "DISCONNECTED" /\ sock'[conn'[s]] # "closed"
                    /\ s \in hooks'[conn'[s]]
  BY DEF Alive, Registered
<1>5. CASE s = n
  BY <1>1, <1>3, <1>4, <1>5
<1>6. CASE s # n
  <2>1. sessions[j] = s
    <3>1. CASE j # i
      BY <1>1, <3>1
    <3>2. CASE j = i
      <4>1. sessions'[i] \in {sessions[i], None, n}
        <5>1. CASE AdmitAtOnce(c, i, n)
          BY <1>2, <5>1 DEF AdmitAtOnce, Enrol
        <5>2. CASE AdmitTakeover(c, i, n)
          BY <5>2 DEF AdmitTakeover
        <5>3. CASE AdmitOverUnwritable(c, i, n)
          <6>1. Without({i}) \in [SessionId -> Sess \cup {None}] /\ Without({i})[i] = None
            BY <1>2 DEF Without
          <6>2. sessions' = Without({i}) \/ sessions' = [Without({i}) EXCEPT ![i] = n]
            BY <5>3 DEF AdmitOverUnwritable, Enrol
          <6> HIDE DEF Without
          <6> QED BY <6>1, <6>2
        <5> QED BY <5>1, <5>2, <5>3 DEF Admission
      <4> QED BY <1>6, <3>2, <4>1, NoneAssumption
    <3> QED BY <3>1, <3>2
  <2>2. /\ s \in Registered /\ Born(s) /\ conn[s] \in Conn /\ sid[s] = j
        /\ conn[s] # c /\ conn'[s] = conn[s]
    BY <1>1, <1>2, <1>6, <2>1, RegisteredLinked, NoneAssumption DEF Registered
  <2>3. state[s] # "DISCONNECTED" /\ sock[conn[s]] # "closed" /\ s \in hooks[conn[s]]
    BY <2>2 DEF Steady, Alive
  <2>4. state'[s] # "DISCONNECTED" /\ s \in hooks'[conn[s]]
    <3>1. CASE AdmitAtOnce(c, i, n)
      BY <1>2, <1>6, <2>2, <2>3, <3>1 DEF AdmitAtOnce
    <3>2. CASE AdmitTakeover(c, i, n)
      BY <1>2, <1>6, <2>2, <2>3, <3>2 DEF AdmitTakeover
    <3>3. CASE AdmitOverUnwritable(c, i, n)
      <4> DEFINE old == sessions[i]
                 deaf == [d \in Conn |-> IF d = conn[old] THEN {} ELSE hooks[d]]
      <4>1. /\ old # None /\ Enrol(Without({i}), i, n)
            /\ state' = [state EXCEPT ![old] = "DISCONNECTED", ![n] = Answered(c)]
            /\ hooks' = [deaf EXCEPT ![c] = @ \cup {n}]
        BY <3>3 DEF AdmitOverUnwritable
      <4>2. old \in Sess /\ Born(old)
        BY <4>1, RegisteredLinked
      <4>3. s # old
        <5>1. sessions'[i] \in {None, n}
          BY <4>1 DEF Enrol, Without
        <5> QED BY <1>1, <1>6, <2>1, <2>2, <4>2, <5>1, RegisteredLinked, NoneAssumption
      <4>4. conn[s] # conn[old]
        BY <2>2, <4>2, <4>3 DEF Steady, OwnSocket
      <4>5. deaf[conn[s]] = hooks[conn[s]]
        BY <2>2, <4>4
      <4> HIDE DEF deaf, old
      <4> QED BY <1>2, <1>6, <2>2, <2>3, <4>1, <4>3, <4>5
    <3> QED BY <3>1, <3>2, <3>3 DEF Admission
  <2> QED BY <1>3, <2>2, <2>3, <2>4
<1> QED BY <1>5, <1>6

LEMMA AliveStep ==
  ASSUME Structure, Attended, Paired, Steady, [Next]_vars, ~Stop
  PROVE  Alive'
<1>1. ASSUME UNCHANGED <<sessions, conn, hooks>>,
             \A s \in Sess : state'[s] \in {state[s], "ERROR"},
             \A d \in Conn : sock[d] # "closed" => sock'[d] # "closed"
      PROVE  Alive'
  BY <1>1, RegisteredIs DEF Steady, Alive, Registered
<1>2. CASE Still
  BY <1>1, <1>2 DEF Still, networkVars, sessionVars
<1>3. ASSUME NEW c \in Conn, Quiescent(c) PROVE Alive'
  <2>1. UNCHANGED <<sessions, conn, hooks, state>>
    BY <1>3, QuiescentFrame
  <2>2. \A d \in Conn : sock[d] # "closed" => sock'[d] # "closed"
    <3>1. CASE sock' = [sock EXCEPT ![c] = "open"]
      BY <3>1 DEF Structure, TypeOK
    <3>2. CASE sock' \in {Destroyed(sock, {c}), Ended(sock, {c})}
      BY <3>2, NotClosed
    <3>3. CASE sock' = sock
      BY <3>3
    <3> QED BY <1>3, <3>1, <3>2, <3>3, QuiescentFrame
  <2> QED BY <1>1, <2>1, <2>2
<1>4. ASSUME NEW c \in Conn, LogonAnswered(c) PROVE Alive'
  BY <1>1, <1>4 DEF LogonAnswered, networkVars, sessionVars
<1>5. ASSUME NEW c \in Conn, LogonAnswerFails(c) PROVE Alive'
  <2>1. /\ state' = [state EXCEPT ![Oldest(c).of] = "ERROR"] /\ sock' = Destroyed(sock, {c})
        /\ UNCHANGED <<sessions, conn, hooks>>
    BY <1>5 DEF LogonAnswerFails
  <2>2. \A s \in Sess : state'[s] \in {state[s], "ERROR"}
    BY <2>1 DEF Structure, TypeOK
  <2> QED BY <1>1, <2>1, <2>2, NotClosed
<1> QED BY <1>2, <1>3, <1>4, <1>5, AliveSuccessor, AliveLogout, AliveSocketClosed, AliveAdmission,
           AdmissionIs, NoStopLogout, StepCases

LEMMA OrderlyStep ==
  ASSUME Patient, Structure, Attended, Tidy, InTurn, Orderly, [Next]_vars
  PROVE  Orderly'
<1> SUFFICES ASSUME Before' PROVE Steady'
  BY DEF Orderly
<1>1. ~Stop /\ Distinct /\ Paired /\ Serial /\ Steady
  BY BeforeStep DEF Tidy, InTurn, Orderly
<1> QED BY <1>1, OnItsOwnStep, OwnSocketStep, ExpectantStep, AliveStep DEF Steady

LEMMA OrderlyInit == Init => Orderly
<1> SUFFICES ASSUME Init PROVE Steady
  BY DEF Orderly
<1>1. /\ auths = {} /\ \A c \in Conn : ToSet(writes[c]) = {}
      /\ \A s \in Sess : ~Born(s) /\ s \notin Registered
  BY NoneAssumption DEF Init, ToSet, Born, Registered
<1> QED BY <1>1 DEF Steady, OnItsOwn, OwnSocket, Expectant, Alive, Succeeds, PendingWrites, Registered

\* The layers up to Orderly, as one invariant.
Layers == Structure /\ Attended /\ Tidy /\ InTurn /\ Orderly

LEMMA LayersInvariant ==
  ASSUME Patient
  PROVE  /\ Init => Layers
         /\ Layers /\ [Next]_vars => Layers'
<1>1. Init => Layers
  <2>1. Init => Attended
    BY DEF Init, Attended, Born
  <2> QED BY <2>1, StructureInit, TidyInit, InTurnInit, OrderlyInit DEF Layers
<1>2. Layers /\ [Next]_vars => Layers'
  BY StructureStep, AttendedStep, TidyStep, InTurnStep, OrderlyStep DEF Layers, Patient
<1> QED BY <1>1, <1>2

\* Every registered session can still exchange messages: it is not disconnected and
\* its socket has not closed. Asked of the peers: one logon per connection, no
\* message and no close before the last one is answered. They may take an identifier
\* over from another connection, and name identifiers that are not theirs.
THEOREM RegisteredAreActive ==
  ASSUME Irregular \subseteq {"takeover", "foreign"}
  PROVE  Spec => []ActiveSessionsOnly
<1>1. Patient /\ "stop" \notin Irregular
  BY DEF Patient
<1>2. Init => Layers
  BY <1>1, LayersInvariant
<1>3. Layers /\ [Next]_vars => Layers'
  BY <1>1, LayersInvariant
<1>4. Layers => ActiveSessionsOnly
  BY <1>1 DEF Layers, Orderly, Before, Steady, Alive, ActiveSessionsOnly
<1> QED BY <1>2, <1>3, <1>4, PTL DEF Spec

LEMMA StopFailsOnDead ==
  ASSUME [Next]_vars, process' = "stop failed", process # "stop failed"
  PROVE  /\ process = "running"
         /\ \E s \in Registered : state[s] = "DISCONNECTED"
<1> USE DEF SendLogoutAndClose, Enrol, FinishStop, networkVars, sessionVars, roomVars
<1>1. CASE Still
  BY <1>1 DEF Still
<1>2. CASE Stop
  BY <1>2 DEF Stop
<1>3. ASSUME NEW c \in Conn, Quiescent(c) PROVE process' # "stop failed"
  BY <1>3 DEF Quiescent, Connect, ReceiveRefused, ReceiveMalformed, DelayedDestroy, PeerCloses,
     SocketError, ReceiveLogon, AuthRejected, ReceiveJoin, ReceiveLeave
<1>4. ASSUME NEW c \in Conn,
             \/ LogonAnswered(c) \/ LogonAnswerFails(c) \/ SocketClosed(c)
             \/ LogoutWrittenForSuccessor(c) \/ LogoutWrittenForStop(c)
             \/ \E i \in SessionId : ReceiveLogout(c, i)
      PROVE  process' # "stop failed"
  BY <1>4 DEF LogonAnswered, LogonAnswerFails, SocketClosed, LogoutWrittenForSuccessor,
     LogoutWrittenForStop, ReceiveLogout
<1>5. ASSUME NEW c \in Conn, NEW i \in SessionId, AuthAccepted(c, i)
      PROVE  process' # "stop failed"
  BY <1>5 DEF AuthAccepted, AdmitAtOnce, AdmitTakeover, AdmitOverUnwritable
<1> QED BY <1>1, <1>2, <1>3, <1>4, <1>5, StepCases

\* stop() does not give up half-way: when it begins, no registered session is
\* already disconnected, so none rejects its logout. Asked of the peers: as above.
THEOREM StopIsCarriedThrough ==
  ASSUME Irregular \subseteq {"takeover", "foreign", "stop"}
  PROVE  Spec => []StopSucceeds
<1>1. Patient
  BY DEF Patient
<1>2. Init => Layers /\ StopSucceeds
  <2>1. Init => StopSucceeds
    BY DEF Init, StopSucceeds
  <2> QED BY <1>1, <2>1, LayersInvariant
<1>3. Layers /\ [Next]_vars => Layers'
  BY <1>1, LayersInvariant
<1>4. Layers /\ StopSucceeds /\ [Next]_vars => StopSucceeds'
  <2>1. Layers /\ process = "running" => \A s \in Registered : state[s] # "DISCONNECTED"
    BY DEF Layers, Orderly, Before, Steady, Alive
  <2> QED BY <2>1, StopFailsOnDead DEF StopSucceeds
<1> QED BY <1>2, <1>3, <1>4, PTL DEF Spec

-----------------------------------------------------------------------------
(* Reaching logged-on sessions through the registry *)

\* A session whose close hook is set is accounted for: it is registered, or waits
\* for that, or its Logout message is being written.
Accounted(g) ==
  \/ sessions[sid[g]] = g
  \/ Succeeds(g)
  \/ \E w \in PendingWrites : w.kind = "logout" /\ w.of = g

\* The close hook of a disconnected session is gone; one that can still run is that
\* of a session accounted for, so it removes nobody else's registration.
Unhooked == \A s \in Sess : Born(s) /\ state[s] = "DISCONNECTED" => s \notin hooks[conn[s]]

Hooked == \A c \in Conn : sock[c] # "closed" => \A g \in hooks[c] : Accounted(g)

Reachable == LoggedOnIsRegistered /\ Unhooked /\ Hooked

\* The registry has room for every identifier. Where a disconnected session can
\* stay registered it counts against the limit while its own successor is checked,
\* so there has to be room for one more.
Spacious ==
  \/ MaxSessions = 0
  \/ Cardinality(SessionId) < MaxSessions
  \/ Cardinality(SessionId) <= MaxSessions /\ Irregular \subseteq {"takeover", "foreign"}

LEMMA RoomForOne ==
  ASSUME NEW reg, NEW i \in SessionId, reg[i] = None,
         MaxSessions # 0 => Cardinality(SessionId) <= MaxSessions
  PROVE  ~Full(reg)
<1> DEFINE R == {j \in SessionId : reg[j] # None}
<1>1. R \subseteq SessionId \ {i}
  OBVIOUS
<1>2. /\ IsFiniteSet(SessionId \ {i})
      /\ Cardinality(SessionId \ {i}) = Cardinality(SessionId) - 1
  BY SessionIdAssumption, FS_RemoveElement
<1> HIDE DEF R
<1>3. /\ Cardinality(R) \in Nat /\ Cardinality(SessionId) \in Nat
      /\ Cardinality(R) <= Cardinality(SessionId \ {i})
  BY <1>1, <1>2, SessionIdAssumption, FS_Subset, FS_CardinalityType
<1>4. MaxSessions # 0 => ~(Cardinality(R) >= MaxSessions)
  BY <1>2, <1>3, MaxSessionsAssumption
<1> QED BY <1>4 DEF Full, Size, R

LEMMA RoomToSpare ==
  ASSUME NEW reg, MaxSessions # 0 => Cardinality(SessionId) < MaxSessions
  PROVE  ~Full(reg)
<1> DEFINE R == {j \in SessionId : reg[j] # None}
<1>1. R \subseteq SessionId
  OBVIOUS
<1> HIDE DEF R
<1>2. /\ Cardinality(R) \in Nat /\ Cardinality(SessionId) \in Nat
      /\ Cardinality(R) <= Cardinality(SessionId)
  BY <1>1, SessionIdAssumption, FS_Subset, FS_CardinalityType
<1>3. MaxSessions # 0 => ~(Cardinality(R) >= MaxSessions)
  BY <1>2, MaxSessionsAssumption
<1> QED BY <1>3 DEF Full, Size, R

LEMMA SpaciousSuffices ==
  ASSUME Spacious
  PROVE  MaxSessions # 0 => Cardinality(SessionId) <= MaxSessions
<1>1. Cardinality(SessionId) \in Nat
  BY SessionIdAssumption, FS_CardinalityType
<1> QED BY <1>1, MaxSessionsAssumption DEF Spacious

\* Registrations are never refused.
LEMMA Enrolled ==
  ASSUME Structure, NEW reg \in [SessionId -> Sess \cup {None}], ~Full(reg),
         NEW i \in SessionId, NEW s \in Sess, Enrol(reg, i, s)
  PROVE  /\ sessions'[i] = s
         /\ \A j \in SessionId : j # i => sessions'[j] = reg[j]
BY DEF Enrol

\* The write a session waits for.
LEMMA Waiting ==
  ASSUME Structure, Paired, Serial, LogoutsAreFinal,
         NEW g \in Sess, NEW w \in PendingWrites, w.next = g
  PROVE  /\ w.kind = "logout" /\ w.of \in Sess /\ w.of # g /\ state[w.of] # "LOGGED_ON"
         /\ sid[g] \in SessionId /\ sid[w.of] = sid[g] /\ sessions[sid[g]] \in {w.of, None}
<1>1. g # None
  BY NoneAssumption
<1>2. w.kind = "logout" /\ w.of # g
  BY <1>1, NoneAssumption DEF Paired, LogonWrite
<1>3. w.of \in Sess /\ sid[w.of] \in SessionId /\ sid[w.of] = sid[g]
  BY <1>1, Pending
<1>4. state[w.of] # "LOGGED_ON"
  BY <1>2, LogoutsAreFinalIsLogoutQuietensInterval DEF LogoutQuietensInterval
<1> QED BY <1>1, <1>2, <1>3, <1>4 DEF Serial, InWaiting

\* A step that ends no session and no wait.
LEMMA ReachableFrame ==
  ASSUME Structure, Reachable, UNCHANGED <<sid, conn, sessions, hooks>>,
         \A s \in Sess : state'[s] \in {state[s], "ERROR"},
         \A s \in Sess : Born(s)' <=> Born(s),
         \A w \in PendingWrites : w.kind = "logout" \/ w.next # None => w \in PendingWrites',
         \A d \in Conn : sock[d] = "closed" => sock'[d] = "closed"
  PROVE  Reachable'
<1>1. \A s \in Sess : Succeeds(s) => Succeeds(s)'
  BY NoneAssumption DEF Succeeds
<1>2. LoggedOnIsRegistered'
  BY <1>1 DEF Reachable, LoggedOnIsRegistered
<1>3. Unhooked'
  BY DEF Reachable, Unhooked
<1>4. Hooked'
  <2> SUFFICES ASSUME NEW d \in Conn, sock'[d] # "closed", NEW g \in hooks'[d] PROVE Accounted(g)'
    BY DEF Hooked
  <2>1. g \in Sess /\ Accounted(g)
    BY DEF Reachable, Hooked, Structure, TypeOK
  <2> QED BY <1>1, <2>1 DEF Accounted
<1> QED BY <1>2, <1>3, <1>4 DEF Reachable

\* A socket that closes takes no registration but those of its own sessions with it.
LEMMA ReachableClosed ==
  ASSUME Structure, Paired, Serial, LogoutsAreFinal, Reachable, NEW c \in Conn, SocketClosed(c)
  PROVE  Reachable'
<1> DEFINE gone == (IF listening[c] THEN {s \in Registered : conn[s] = c} ELSE {}) \cup hooks[c]
           ids == {sid[s] : s \in gone}
<1>1. /\ sock[c] # "closed" /\ writes[c] = << >>
      /\ sock' = [sock EXCEPT ![c] = "closed"]
      /\ hooks' = [hooks EXCEPT ![c] = {}]
      /\ state' = [s \in Sess |-> IF s \in gone THEN "DISCONNECTED" ELSE state[s]]
      /\ sessions' = Without(ids) /\ UNCHANGED <<conn, sid, writes>>
  BY DEF SocketClosed
<1>2. sock \in [Conn -> SockState] /\ hooks \in [Conn -> SUBSET Sess]
  BY DEF Structure, TypeOK, SockState
<1>3. PendingWrites' = PendingWrites
  BY <1>1 DEF PendingWrites
<1>4. \A g \in gone : g \in Sess /\ Born(g) /\ conn[g] = c
  BY <1>2, RegisteredIs DEF Structure, Links
\* Whose registration a session that is gone may take with it.
<1>5. ASSUME NEW s \in Sess, s \notin gone, sid[s] \in SessionId, sessions[sid[s]] = s,
             sid[s] \in ids
      PROVE  state[s] # "LOGGED_ON" /\ \E w \in PendingWrites : w.kind = "logout" /\ w.of = s
  <2>1. PICK g \in gone : sid[g] = sid[s]
    BY <1>5
  <2>2. g \in Sess /\ conn[g] = c /\ g # s
    BY <1>4, <1>5, <2>1
  <2>3. sessions[sid[g]] # g
    BY <1>5, <2>1, <2>2
  <2>4. g \in hooks[c]
    BY <2>3, RegisteredIs
  <2>5. Accounted(g)
    BY <1>1, <2>4 DEF Reachable, Hooked
  <2>6. \A w \in PendingWrites : w.of # g
    BY <1>1, <2>2, Pending DEF ToSet
  <2>7. PICK w \in PendingWrites : w.next = g
    BY <2>3, <2>5, <2>6 DEF Accounted, Succeeds
  <2>8. w.kind = "logout" /\ state[w.of] # "LOGGED_ON" /\ sessions[sid[g]] \in {w.of, None}
    BY <2>2, <2>7, Waiting
  <2> QED BY <1>5, <2>1, <2>8, NoneAssumption
<1>6. \A s \in Sess : Succeeds(s)' <=> Succeeds(s)
  BY <1>3 DEF Succeeds
<1> HIDE DEF gone, ids
<1>7. LoggedOnIsRegistered'
  <2> SUFFICES ASSUME NEW s \in Sess, state'[s] = "LOGGED_ON"
               PROVE  sessions'[sid[s]] = s \/ Succeeds(s)
    BY <1>1, <1>6 DEF LoggedOnIsRegistered
  <2>1. s \notin gone /\ state[s] = "LOGGED_ON"
    BY <1>1
  <2>2. sid[s] \in SessionId
    BY <2>1 DEF Structure, Links, Born
  <2>3. CASE Succeeds(s)
    BY <2>3
  <2>4. CASE sessions[sid[s]] = s
    <3>1. sid[s] \notin ids
      BY <1>5, <2>1, <2>2, <2>4
    <3> QED BY <1>1, <2>2, <2>4, <3>1 DEF Without
  <2> QED BY <2>1, <2>3, <2>4 DEF Reachable, LoggedOnIsRegistered
<1>8. Unhooked'
  <2> SUFFICES ASSUME NEW s \in Sess, Born(s)', state'[s] = "DISCONNECTED"
               PROVE  s \notin hooks'[conn[s]]
    BY <1>1 DEF Unhooked
  <2>1. CASE s \in gone
    BY <1>1, <1>2, <1>4, <2>1
  <2>2. CASE s \notin gone
    <3>1. state[s] = "DISCONNECTED" /\ Born(s)
      BY <1>1, <2>2 DEF Born
    <3>2. conn[s] \in Conn /\ s \notin hooks[conn[s]]
      BY <3>1 DEF Structure, Links, Reachable, Unhooked
    <3> QED BY <1>1, <1>2, <3>2
  <2> QED BY <2>1, <2>2
<1>9. Hooked'
  <2> SUFFICES ASSUME NEW d \in Conn, sock'[d] # "closed", NEW g \in hooks'[d]
               PROVE  Accounted(g)'
    BY DEF Hooked
  <2>1. d # c /\ sock[d] # "closed" /\ g \in hooks[d]
    BY <1>1, <1>2
  <2>2. g \in Sess /\ conn[g] = d /\ sid[g] \in SessionId /\ g \notin gone
    BY <1>2, <1>4, <2>1 DEF Structure, Links
  <2>3. Accounted(g)
    BY <2>1 DEF Reachable, Hooked
  <2>4. CASE sessions[sid[g]] = g /\ sid[g] \notin ids
    <3>1. sessions'[sid[g]] = g
      BY <1>1, <2>2, <2>4 DEF Without
    <3> QED BY <1>1, <3>1 DEF Accounted
  <2>5. CASE sessions[sid[g]] = g /\ sid[g] \in ids
    BY <1>3, <1>5, <2>2, <2>5 DEF Accounted
  <2>6. CASE sessions[sid[g]] # g
    BY <1>3, <1>6, <2>2, <2>3, <2>6 DEF Accounted
  <2> QED BY <2>4, <2>5, <2>6
<1> QED BY <1>7, <1>8, <1>9 DEF Reachable

\* What LoggedOut(t) leaves: no hook of t, and of the others what they had.
LEMMA HooksAfterLogout ==
  ASSUME Structure, NEW t \in Sess, Born(t), LoggedOut(t)
  PROVE  /\ UNCHANGED <<conn, sid>>
         /\ \A s \in Sess : Born(s)' <=> Born(s)
         /\ state'[t] = "DISCONNECTED" /\ \A s \in Sess : s # t => state'[s] = state[s]
         /\ \A d \in Conn : hooks'[d] \subseteq hooks[d]
         /\ \A d \in Conn : \A g \in hooks'[d] :
              g \in Sess /\ Born(g) /\ conn[g] = d /\ sid[g] \in SessionId /\ g # t
<1>1. state \in [Sess -> SessionState] /\ hooks \in [Conn -> SUBSET Sess]
  BY DEF Structure, TypeOK, SessionState
<1>2. hooks' = [d \in Conn |-> IF conn[t] = d THEN {} ELSE hooks[d]]
  BY DEF LoggedOut, Deafened
<1>3. \A d \in Conn : \A g \in hooks[d] : g \in Sess /\ Born(g) /\ conn[g] = d /\ sid[g] \in SessionId
  BY <1>1 DEF Structure, Links
<1>4. \A d \in Conn : hooks'[d] \subseteq hooks[d] /\ t \notin hooks'[d]
  BY <1>2, <1>3
<1>5. state'[t] = "DISCONNECTED" /\ \A s \in Sess : s # t => state'[s] = state[s]
  BY <1>1 DEF LoggedOut
<1> QED BY <1>3, <1>4, <1>5, LoggedOutTypes

LEMMA UnhookedLogout ==
  ASSUME Structure, Reachable, NEW t \in Sess, Born(t), LoggedOut(t)
  PROVE  Unhooked'
<1> SUFFICES ASSUME NEW s \in Sess, Born(s)', state'[s] = "DISCONNECTED"
             PROVE  s \notin hooks'[conn'[s]]
  BY DEF Unhooked
<1>1. Born(s) /\ conn[s] \in Conn /\ conn' = conn
  BY HooksAfterLogout DEF Structure, Links
<1>2. CASE s = t
  BY <1>1, <1>2, HooksAfterLogout
<1>3. CASE s # t
  <2>1. s \notin hooks[conn[s]]
    BY <1>1, <1>3, HooksAfterLogout DEF Reachable, Unhooked
  <2> QED BY <1>1, <2>1, HooksAfterLogout
<1> QED BY <1>2, <1>3

\* The successor that a write callback registers is the one that waited for it.
LEMMA ReachableSuccessor ==
  ASSUME Structure, Distinct, Paired, Serial, LogoutsAreFinal, Reachable, Spacious,
         NEW c \in Conn, LogoutWrittenForSuccessor(c)
  PROVE  Reachable'
<1> DEFINE o == Oldest(c)
           i == sid[o.of]
<1>1. /\ Completes(c, "logout") /\ o.next # None /\ LoggedOut(o.of)
      /\ sock' = Ended(sock, {c}) /\ Enrol(Without({i}), sid[o.next], o.next)
  BY DEF LogoutWrittenForSuccessor
<1>2. o \in PendingWrites /\ PendingWrites' = PendingWrites \ {o}
  BY <1>1, CompletesPending
<1>3. /\ o.of \in Sess /\ Born(o.of) /\ o.next \in Sess /\ o.kind = "logout"
      /\ i \in SessionId /\ sid[o.next] = i /\ sessions[i] \in {o.of, None}
  BY <1>1, <1>2, Pending, Waiting
<1> HIDE DEF o
<1>4. sessions'[i] = o.next /\ \A j \in SessionId : j # i => sessions'[j] = sessions[j]
  <2> HIDE DEF i
  <2>1. Without({i}) \in [SessionId -> Sess \cup {None}] /\ TypeOK
    BY RegistryTypes DEF Structure
  <2>2. Without({i})[i] = None /\ \A j \in SessionId : j # i => Without({i})[j] = sessions[j]
    BY <1>3 DEF Without
  <2>3. ~Full(Without({i}))
    BY <1>3, <2>2, RoomForOne, SpaciousSuffices
  <2> QED BY <1>1, <1>3, <2>1, <2>2, <2>3, Enrolled
<1> HIDE DEF i
<1>5. /\ UNCHANGED <<conn, sid>> /\ state'[o.of] = "DISCONNECTED"
      /\ \A s \in Sess : s # o.of => state'[s] = state[s]
  BY <1>1, <1>3, HooksAfterLogout
\* Whoever was registered still is, but for the one that logged out.
<1>6. ASSUME NEW s \in Sess, s # o.of, sid[s] \in SessionId, sessions[sid[s]] = s
      PROVE  sessions'[sid[s]] = s
  <2>1. sid[s] # i
    BY <1>3, <1>6, NoneAssumption
  <2> QED BY <1>4, <1>6, <2>1
\* Whoever waited still does, but for the successor, which is registered.
<1>7. ASSUME NEW s \in Sess, Succeeds(s)
      PROVE  sessions'[sid[s]] = s \/ Succeeds(s)'
  BY <1>2, <1>3, <1>4, <1>7 DEF Succeeds
<1>8. LoggedOnIsRegistered'
  <2> SUFFICES ASSUME NEW s \in Sess, state'[s] = "LOGGED_ON"
               PROVE  sessions'[sid[s]] = s \/ Succeeds(s)'
    BY <1>5 DEF LoggedOnIsRegistered
  <2>1. s # o.of /\ state[s] = "LOGGED_ON"
    BY <1>5
  <2>2. sid[s] \in SessionId
    BY <2>1 DEF Structure, Links, Born
  <2> QED BY <1>6, <1>7, <2>1, <2>2 DEF Reachable, LoggedOnIsRegistered
<1>9. Unhooked'
  BY <1>1, <1>3, UnhookedLogout
<1>10. Hooked'
  <2> SUFFICES ASSUME NEW d \in Conn, sock'[d] # "closed", NEW g \in hooks'[d]
               PROVE  Accounted(g)'
    BY DEF Hooked
  <2>1. g \in hooks[d] /\ g \in Sess /\ sid[g] \in SessionId /\ g # o.of
    BY <1>1, <1>3, HooksAfterLogout
  <2>2. sock[d] # "closed"
    BY <1>1 DEF Ended
  <2>3. Accounted(g)
    BY <2>1, <2>2 DEF Reachable, Hooked
  <2>4. \A w \in PendingWrites : w.of = g => w \in PendingWrites'
    BY <1>2, <2>1
  <2> QED BY <1>5, <1>6, <1>7, <2>1, <2>3, <2>4 DEF Accounted
<1> QED BY <1>8, <1>9, <1>10 DEF Reachable

LEMMA ReachableLogout ==
  ASSUME Structure, Reachable, NEW c \in Conn, NEW i \in SessionId, ReceiveLogout(c, i)
  PROVE  Reachable'
<1> DEFINE t == sessions[i]
<1>1. /\ t # None /\ LoggedOut(t) /\ sessions' = Without({i})
      /\ sock' = Ended(sock, {conn[t]}) /\ UNCHANGED writes
  BY DEF ReceiveLogout
<1>2. t \in Sess /\ Born(t)
  BY <1>1, RegisteredLinked
<1>3. /\ UNCHANGED <<conn, sid>> /\ state'[t] = "DISCONNECTED"
      /\ \A s \in Sess : s # t => state'[s] = state[s]
  BY <1>1, <1>2, HooksAfterLogout
<1>4. PendingWrites' = PendingWrites
  BY <1>1 DEF PendingWrites
<1>5. ASSUME NEW s \in Sess, s # t, sid[s] \in SessionId, sessions[sid[s]] = s
      PROVE  sessions'[sid[s]] = s
  <2>1. sid[s] # i
    BY <1>5
  <2> QED BY <1>1, <1>5, <2>1 DEF Without
<1>6. \A s \in Sess : Succeeds(s)' <=> Succeeds(s)
  BY <1>4 DEF Succeeds
<1> HIDE DEF t
<1>7. LoggedOnIsRegistered'
  <2> SUFFICES ASSUME NEW s \in Sess, state'[s] = "LOGGED_ON"
               PROVE  sessions'[sid[s]] = s \/ Succeeds(s)'
    BY <1>3 DEF LoggedOnIsRegistered
  <2>1. s # t /\ state[s] = "LOGGED_ON"
    BY <1>3
  <2>2. sid[s] \in SessionId
    BY <2>1 DEF Structure, Links, Born
  <2> QED BY <1>5, <1>6, <2>1, <2>2 DEF Reachable, LoggedOnIsRegistered
<1>8. Unhooked'
  BY <1>1, <1>2, UnhookedLogout
<1>9. Hooked'
  <2> SUFFICES ASSUME NEW d \in Conn, sock'[d] # "closed", NEW g \in hooks'[d]
               PROVE  Accounted(g)'
    BY DEF Hooked
  <2>1. g \in hooks[d] /\ g \in Sess /\ sid[g] \in SessionId /\ g # t
    BY <1>1, <1>2, HooksAfterLogout
  <2>2. sock[d] # "closed"
    BY <1>1 DEF Ended
  <2>3. Accounted(g)
    BY <2>1, <2>2 DEF Reachable, Hooked
  <2> QED BY <1>3, <1>4, <1>5, <1>6, <2>1, <2>3 DEF Accounted
<1> QED BY <1>7, <1>8, <1>9 DEF Reachable

\* What an admission comes to for the registry: the new session is registered and
\* the one it replaces is over, or it waits for the older one to be.
Outcome(c, i, n) ==
  /\ state'[n] # "DISCONNECTED"
  /\ \A d \in Conn : hooks'[d] \subseteq hooks[d] \cup {n}
  /\ \A s \in Sess \ {n} : state'[s] = "LOGGED_ON" => state[s] = "LOGGED_ON"
  /\ \A s \in Sess \ {n} :
       state'[s] = "DISCONNECTED" => state[s] = "DISCONNECTED" \/ \A d \in Conn : s \notin hooks'[d]
  /\ \/ sessions' = sessions /\ Succeeds(n)'
     \/ /\ sessions'[i] = n
        /\ sessions[i] # None => /\ state'[sessions[i]] # "LOGGED_ON"
                                 /\ \A d \in Conn : sessions[i] \notin hooks'[d]

LEMMA OutcomeAtOnce ==
  ASSUME Structure, Spacious, Reachable, Patient => Steady,
         NEW c \in Conn, NEW i \in SessionId, NEW n \in Sess, ~Born(n), AdmitAtOnce(c, i, n)
  PROVE  Outcome(c, i, n)
<1>1. /\ sessions[i] # None => state[sessions[i]] = "DISCONNECTED"
      /\ Enrol(sessions, i, n) /\ state' = [state EXCEPT ![n] = Answered(c)]
      /\ hooks' = [hooks EXCEPT ![c] = @ \cup {n}]
  BY DEF AdmitAtOnce
<1>2. /\ state \in [Sess -> SessionState] /\ hooks \in [Conn -> SUBSET Sess]
      /\ sessions \in [SessionId -> Sess \cup {None}]
  BY DEF Structure, TypeOK, SessionState
<1>3. ~Full(sessions)
  <2>1. CASE sessions[i] = None
    BY <2>1, RoomForOne, SpaciousSuffices
  <2>2. CASE sessions[i] # None /\ Irregular \subseteq {"takeover", "foreign"}
    <3>1. Steady
      BY <2>2 DEF Patient
    <3> QED BY <1>1, <1>2, <2>2, <3>1 DEF Steady, Alive, Registered
  <2>3. CASE MaxSessions # 0 => Cardinality(SessionId) < MaxSessions
    BY <2>3, RoomToSpare
  <2> QED BY <2>1, <2>2, <2>3 DEF Spacious
<1>4. sessions'[i] = n
  BY <1>1, <1>2, <1>3, Enrolled
<1>5. state'[n] # "DISCONNECTED" /\ \A s \in Sess \ {n} : state'[s] = state[s]
  BY <1>1, <1>2, AnsweredState
<1>6. \A d \in Conn : hooks'[d] \subseteq hooks[d] \cup {n}
  BY <1>1, <1>2
<1>7. ASSUME sessions[i] # None
      PROVE  /\ state'[sessions[i]] # "LOGGED_ON"
             /\ \A d \in Conn : sessions[i] \notin hooks'[d]
  <2>1. sessions[i] \in Sess /\ Born(sessions[i]) /\ sessions[i] # n
    BY <1>7, RegisteredLinked
  <2>2. \A d \in Conn : sessions[i] \notin hooks[d]
    BY <1>1, <1>7, <2>1 DEF Reachable, Unhooked, Structure, Links
  <2> QED BY <1>1, <1>5, <1>6, <1>7, <2>1, <2>2
<1> QED BY <1>4, <1>5, <1>6, <1>7 DEF Outcome

LEMMA OutcomeTakeover ==
  ASSUME Structure, NEW c \in Conn, NEW i \in SessionId, NEW n \in Sess, ~Born(n),
         AdmitTakeover(c, i, n), LogoutWrites(c, i, n) \subseteq PendingWrites'
  PROVE  Outcome(c, i, n)
<1>1. /\ sessions[i] # None /\ sessions' = sessions
      /\ state' = [state EXCEPT ![sessions[i]] = "LOGGING_OUT", ![n] = Answered(c)]
      /\ hooks' = [hooks EXCEPT ![c] = @ \cup {n}]
  BY DEF AdmitTakeover
<1>2. state \in [Sess -> SessionState] /\ hooks \in [Conn -> SUBSET Sess]
  BY DEF Structure, TypeOK, SessionState
<1>3. sessions[i] \in Sess
  BY <1>1, RegisteredLinked
<1>4. Succeeds(n)'
  <2>1. LogoutWrite(sessions[i], n) \in PendingWrites' /\ LogoutWrite(sessions[i], n).next = n
    BY DEF LogoutWrites, LogoutWrite
  <2> QED BY <2>1 DEF Succeeds
<1>5. state'[n] # "DISCONNECTED" /\ \A s \in Sess \ {n} : state'[s] \in {state[s], "LOGGING_OUT"}
  BY <1>1, <1>2, <1>3, AnsweredState
<1>6. \A d \in Conn : hooks'[d] \subseteq hooks[d] \cup {n}
  BY <1>1, <1>2
<1> QED BY <1>1, <1>4, <1>5, <1>6 DEF Outcome

LEMMA OutcomeOverUnwritable ==
  ASSUME Structure, Spacious,
         NEW c \in Conn, NEW i \in SessionId, NEW n \in Sess, ~Born(n), AdmitOverUnwritable(c, i, n)
  PROVE  Outcome(c, i, n)
<1> DEFINE old == sessions[i]
           deaf == [d \in Conn |-> IF d = conn[old] THEN {} ELSE hooks[d]]
<1>1. /\ old # None /\ Enrol(Without({i}), i, n)
      /\ state' = [state EXCEPT ![old] = "DISCONNECTED", ![n] = Answered(c)]
      /\ hooks' = [deaf EXCEPT ![c] = @ \cup {n}]
  BY DEF AdmitOverUnwritable
<1>2. state \in [Sess -> SessionState] /\ hooks \in [Conn -> SUBSET Sess]
  BY DEF Structure, TypeOK, SessionState
<1>3. old \in Sess /\ Born(old) /\ conn[old] \in Conn /\ old # n
  BY <1>1, RegisteredLinked
<1>4. sessions'[i] = n
  <2>1. Without({i}) \in [SessionId -> Sess \cup {None}] /\ Without({i})[i] = None
    BY DEF Structure, TypeOK, Without
  <2>2. ~Full(Without({i}))
    BY <2>1, RoomForOne, SpaciousSuffices
  <2> HIDE DEF old, deaf
  <2> QED BY <1>1, <2>1, <2>2, Enrolled
<1>5. \A d \in Conn : deaf[d] \subseteq hooks[d] /\ old \notin deaf[d]
  BY <1>2, <1>3 DEF Structure, Links
<1>6. deaf \in [Conn -> SUBSET Sess]
  BY <1>2
<1> HIDE DEF deaf
<1>7. \A d \in Conn : hooks'[d] \subseteq hooks[d] \cup {n} /\ old \notin hooks'[d]
  BY <1>1, <1>3, <1>5, <1>6
<1>8. /\ state'[n] # "DISCONNECTED" /\ state'[old] = "DISCONNECTED"
      /\ \A s \in Sess \ {n} : s # old => state'[s] = state[s]
  <2> HIDE DEF old
  <2> QED BY <1>1, <1>2, <1>3, AnsweredState
<1> QED BY <1>4, <1>7, <1>8 DEF Outcome

LEMMA ReachableAdmission ==
  ASSUME Structure, Spacious, Reachable, Patient => Steady,
         NEW c \in Conn, NEW i \in SessionId, NEW n \in Sess, Admission(c, i, n),
         \A t \in Sess : Born(t)' <=> Born(t) \/ t = n,
         PendingWrites' = PendingWrites \cup AnswerWrites(c, n) \cup LogoutWrites(c, i, n)
  PROVE  Reachable'
<1>1. /\ ~Born(n) /\ sid' = [sid EXCEPT ![n] = i] /\ conn' = [conn EXCEPT ![n] = c]
      /\ \A j \in SessionId : j # i => sessions'[j] = sessions[j]
  BY DEF Admission
<1>2. Outcome(c, i, n)
  BY <1>1, OutcomeAtOnce, OutcomeTakeover, OutcomeOverUnwritable DEF Admission
<1>3. /\ sid'[n] = i /\ \A t \in Sess : t # n => sid'[t] = sid[t] /\ conn'[t] = conn[t]
      /\ \A t \in Sess : Born(t) => t # n /\ sid[t] \in SessionId /\ conn[t] \in Conn
  BY <1>1 DEF Structure, TypeOK, Links
<1>4. \A s \in Sess : Succeeds(s) => Succeeds(s)'
  BY DEF Succeeds
<1>5. sessions'[i] = n \/ Succeeds(n)'
  BY <1>2 DEF Outcome
\* The registration of another session is lost only if that session is over.
<1>6. ASSUME NEW s \in Sess, Born(s), sessions[sid[s]] = s, sessions'[sid[s]] # s
      PROVE  state'[s] # "LOGGED_ON" /\ \A d \in Conn : s \notin hooks'[d]
  <2>1. sid[s] = i /\ s = sessions[i] /\ s # None
    BY <1>1, <1>3, <1>6, NoneAssumption
  <2> QED BY <1>2, <1>6, <2>1 DEF Outcome
<1>7. LoggedOnIsRegistered'
  <2> SUFFICES ASSUME NEW s \in Sess, state'[s] = "LOGGED_ON"
               PROVE  sessions'[sid'[s]] = s \/ Succeeds(s)'
    BY DEF LoggedOnIsRegistered
  <2>1. CASE s = n
    BY <1>3, <1>5, <2>1
  <2>2. CASE s # n
    <3>1. state[s] = "LOGGED_ON" /\ Born(s)
      BY <1>2, <2>2 DEF Outcome, Born
    <3> QED BY <1>3, <1>4, <1>6, <2>2, <3>1 DEF Reachable, LoggedOnIsRegistered
  <2> QED BY <2>1, <2>2
<1>8. Unhooked'
  <2> SUFFICES ASSUME NEW s \in Sess, Born(s)', state'[s] = "DISCONNECTED"
               PROVE  s \notin hooks'[conn'[s]]
    BY DEF Unhooked
  <2>1. s # n
    BY <1>2 DEF Outcome
  <2>2. Born(s) /\ conn'[s] = conn[s] /\ conn[s] \in Conn
    BY <1>3, <2>1
  <2>3. CASE state[s] = "DISCONNECTED"
    <3>1. s \notin hooks[conn[s]]
      BY <2>2, <2>3 DEF Reachable, Unhooked
    <3> QED BY <1>2, <2>1, <2>2, <3>1 DEF Outcome
  <2>4. CASE state[s] # "DISCONNECTED"
    BY <1>2, <2>1, <2>2, <2>4 DEF Outcome
  <2> QED BY <2>3, <2>4
<1>9. Hooked'
  <2> SUFFICES ASSUME NEW d \in Conn, sock'[d] # "closed", NEW g \in hooks'[d]
               PROVE  Accounted(g)'
    BY DEF Hooked
  <2>1. CASE g = n
    BY <1>3, <1>5, <2>1 DEF Accounted
  <2>2. CASE g # n
    <3>1. g \in hooks[d]
      BY <1>2, <2>2 DEF Outcome
    <3>2. g \in Sess /\ Born(g)
      BY <3>1 DEF Structure, TypeOK, Links
    <3>3. sock[d] # "closed"
      <4>1. sock' = sock \/ sock' = Destroyed(sock, {c})
        BY DEF Admission, AdmitAtOnce, AdmitTakeover, AdmitOverUnwritable, Answer
      <4> QED BY <4>1 DEF Destroyed
    <3>4. Accounted(g)
      BY <3>1, <3>3 DEF Reachable, Hooked
    <3>5. \A w \in PendingWrites : w \in PendingWrites'
      OBVIOUS
    <3> QED BY <1>3, <1>4, <1>6, <2>2, <3>2, <3>4, <3>5 DEF Accounted
  <2> QED BY <2>1, <2>2
<1> QED BY <1>7, <1>8, <1>9 DEF Reachable

LEMMA ReachableStep ==
  ASSUME Structure, Distinct, Paired, Serial, LogoutsAreFinal, Reachable, Spacious,
         Patient => Steady, [Next]_vars, ~Stop
  PROVE  Reachable'
<1>0. state \in [Sess -> SessionState] /\ sock \in [Conn -> SockState]
  BY DEF Structure, TypeOK, SessionState, SockState
<1>1. CASE Still
  BY <1>1, ReachableFrame DEF Still, networkVars, sessionVars, Born, PendingWrites
<1>2. ASSUME NEW c \in Conn, Quiescent(c) PROVE Reachable'
  <2>1. UNCHANGED <<state, conn, sid, sessions, hooks, writes>>
    BY <1>2, QuiescentFrame
  <2>2. \A d \in Conn : sock[d] = "closed" => sock'[d] = "closed"
    <3>1. CASE sock' = [sock EXCEPT ![c] = "open"] /\ sock[c] = "unused"
      BY <1>0, <3>1
    <3>2. CASE sock' \in {sock, Destroyed(sock, {c}), Ended(sock, {c})}
      BY <3>2 DEF Destroyed, Ended
    <3> QED BY <1>2, <3>1, <3>2, QuiescentFrame
  <2> QED BY <2>1, <2>2, ReachableFrame DEF Born, PendingWrites
\* The answer to a logon is awaited by nobody but its own session.
<1>3. ASSUME NEW c \in Conn, Completes(c, "logon")
      PROVE  \A w \in PendingWrites : w.kind = "logout" \/ w.next # None => w \in PendingWrites'
  BY <1>3, CompletesPending DEF Paired, LogonWrite
<1>4. ASSUME NEW c \in Conn, LogonAnswered(c) PROVE Reachable'
  BY <1>3, <1>4, ReachableFrame DEF LogonAnswered, networkVars, sessionVars, Born
<1>5. ASSUME NEW c \in Conn, LogonAnswerFails(c) PROVE Reachable'
  <2>1. /\ Completes(c, "logon") /\ state' = [state EXCEPT ![Oldest(c).of] = "ERROR"]
        /\ sock' = Destroyed(sock, {c}) /\ UNCHANGED <<conn, sid, sessions, hooks>>
    BY <1>5 DEF LogonAnswerFails
  <2>2. Born(Oldest(c).of) /\ Oldest(c).of \in Sess
    BY <2>1, OldestWrite DEF WriteLinked
  <2>3. /\ \A s \in Sess : state'[s] \in {state[s], "ERROR"}
        /\ \A s \in Sess : Born(s)' <=> Born(s)
    BY <1>0, <2>1, <2>2 DEF Born
  <2>4. \A d \in Conn : sock[d] = "closed" => sock'[d] = "closed"
    BY <2>1 DEF Destroyed
  <2> QED BY <1>3, <2>1, <2>3, <2>4, ReachableFrame
<1>6. ASSUME NEW c \in Conn, NEW i \in SessionId, AuthAccepted(c, i) PROVE Reachable'
  <2>1. PICK n \in Sess : Admission(c, i, n)
    BY <1>6, AdmissionIs
  <2>2. PendingWrites' = PendingWrites \cup AnswerWrites(c, n) \cup LogoutWrites(c, i, n)
    BY <2>1, AdmissionPending DEF Admission
  <2> QED BY <2>1, <2>2, AdmissionBirth, ReachableAdmission
<1> QED BY <1>1, <1>2, <1>4, <1>5, <1>6, ReachableClosed, ReachableSuccessor, ReachableLogout,
           NoStopLogout, StepCases

\* All layers but the rooms.
Serving ==
  /\ Structure /\ Attended /\ Tidy /\ InTurn /\ LogoutsAreFinal
  /\ Patient => Orderly
  /\ Reachable

LEMMA ServingInvariant ==
  ASSUME Irregular \cap {"hasty", "stop"} = {}, Spacious
  PROVE  /\ Init => Serving
         /\ Serving /\ [Next]_vars => Serving'
<1>1. Before /\ Before' /\ "hasty" \notin Irregular
  BY DEF Before
<1>2. Init => Serving
  <2> SUFFICES ASSUME Init PROVE Serving
    OBVIOUS
  <2>1. Attended /\ LogoutsAreFinal
    BY DEF Init, Attended, Born, LogoutsAreFinal, ToSet
  <2>2. Reachable
    BY DEF Init, Reachable, LoggedOnIsRegistered, Unhooked, Hooked, Born
  <2> QED BY <2>1, <2>2, StructureInit, TidyInit, InTurnInit, OrderlyInit DEF Serving
<1>3. Serving /\ [Next]_vars => Serving'
  <2> SUFFICES ASSUME Serving, [Next]_vars PROVE Serving'
    OBVIOUS
  <2>1. ~Stop
    BY <1>1, BeforeStep
  <2>2. Structure' /\ Attended' /\ Tidy' /\ InTurn' /\ LogoutsAreFinal'
    BY <1>1, StructureStep, AttendedStep, TidyStep, InTurnStep, FinalStep DEF Serving
  <2>3. (Patient => Orderly)'
    BY OrderlyStep DEF Serving, Patient
  <2>4. /\ Structure /\ Distinct /\ Paired /\ Serial /\ LogoutsAreFinal /\ Reachable
        /\ Patient => Steady
    BY <1>1 DEF Serving, Tidy, InTurn, Orderly
  <2>5. Reachable'
    BY <2>1, <2>4, ReachableStep
  <2> QED BY <2>2, <2>3, <2>5 DEF Serving
<1> QED BY <1>2, <1>3

\* A logged-on session can be reached through the registry, or will be once the
\* session it replaces is gone. Asked of the peers and the application: logons of one
\* identifier come one after the other, stop() is not called, and the limit leaves
\* room for every identifier (Spacious). Connections may be lost at any moment,
\* reused for further logons and taken over, and messages name any identifier.
THEOREM LoggedOnAreReachable ==
  ASSUME Irregular \cap {"hasty", "stop"} = {}, Spacious
  PROVE  Spec => []LoggedOnIsRegistered
<1>1. Init => Serving
  BY ServingInvariant
<1>2. Serving /\ [Next]_vars => Serving'
  BY ServingInvariant
<1>3. Serving => LoggedOnIsRegistered
  BY DEF Serving, Reachable
<1> QED BY <1>1, <1>2, <1>3, PTL DEF Spec

\* At most one session of an identifier is logged on, also while one replaces
\* another: of two, one would be registered, and the other be the one it replaces or
\* that replaces it, and the older of those is no longer logged on. Asked as above.
THEOREM OneLoggedOnPerIdentifier ==
  ASSUME Irregular \cap {"hasty", "stop"} = {}, Spacious
  PROVE  Spec => []OneLoggedOn
<1>1. Init => Serving
  BY ServingInvariant
<1>2. Serving /\ [Next]_vars => Serving'
  BY ServingInvariant
<1>3. Serving => OneLoggedOn
  <2> SUFFICES ASSUME Serving, NEW s \in Sess, NEW t \in Sess,
                      state[s] = "LOGGED_ON", state[t] = "LOGGED_ON", sid[s] = sid[t]
               PROVE  s = t
    BY DEF OneLoggedOn
  <2>1. Structure /\ Paired /\ Serial /\ LogoutsAreFinal
    BY DEF Serving, Before, Tidy, InTurn
  <2>2. \A u \in {s, t} : sessions[sid[u]] = u \/ Succeeds(u)
    BY DEF Serving, Reachable, LoggedOnIsRegistered
  \* The registered one would be the one the other waits for.
  <2>3. ASSUME NEW u \in Sess, NEW v \in Sess, sid[u] = sid[v], state[u] = "LOGGED_ON",
               sessions[sid[u]] = u, Succeeds(v)
        PROVE  FALSE
    <3>1. PICK w \in PendingWrites : w.next = v
      BY <2>3 DEF Succeeds
    <3> QED BY <2>1, <2>3, <3>1, Waiting, NoneAssumption
  <2>4. CASE Succeeds(s) /\ Succeeds(t)
    <3>1. PICK w \in PendingWrites : w.next = s
      BY <2>4 DEF Succeeds
    <3>2. PICK v \in PendingWrites : v.next = t
      BY <2>4 DEF Succeeds
    <3>3. w.kind = "logout" /\ v.kind = "logout" /\ sid[w.of] = sid[v.of]
      BY <2>1, <3>1, <3>2, Waiting
    <3> QED BY <2>1, <3>1, <3>2, <3>3 DEF Serial, OneLogout
  <2>5. CASE sessions[sid[s]] = s /\ sessions[sid[t]] = t
    BY <2>5
  <2> QED BY <2>2, <2>3, <2>4, <2>5
<1> QED BY <1>1, <1>2, <1>3, PTL DEF Spec

-----------------------------------------------------------------------------
(* Rooms *)

\* A logon is taken up for an identifier that is not registered, what is written is
\* the answer to a registered session, the close hooks that can still run are those
\* of registered sessions, and the sessions of rooms were born.
Vacant == \A c \in Conn, i \in SessionId : <<c, i>> \in auths => sessions[i] = None

Welcomed == \A w \in PendingWrites : w.kind = "logon" /\ sessions[sid[w.of]] = w.of

HooksRegistered == \A c \in Conn : sock[c] # "closed" => \A g \in hooks[c] : sessions[sid[g]] = g

JoinedBorn == \A p \in joined : Born(p[2])

\* RoomsFollowSessions, an identifier and a room at a time.
InRoom(r, i) == <<r, i>> \in members <=> sessions[i] # None /\ <<r, sessions[i]>> \in joined

RoomsInStep == \A r \in Room, i \in SessionId : InRoom(r, i)

Housed == Vacant /\ Welcomed /\ HooksRegistered /\ JoinedBorn /\ RoomsInStep

Settling == Irregular \subseteq {"relogon", "drop"}

LimitSuffices == MaxSessions # 0 => Cardinality(SessionId) <= MaxSessions

LEMMA RoomsInStepIs ==
  ASSUME Structure
  PROVE  RoomsInStep <=> RoomsFollowSessions
<1> DEFINE M == {<<p[1], sid[p[2]]>> : p \in {q \in joined : q[2] \in Registered}}
<1>1. members \subseteq Room \X SessionId /\ joined \subseteq Room \X Sess
  BY DEF Structure, TypeOK
<1>2. ASSUME NEW r \in Room, NEW i \in SessionId
      PROVE  <<r, i>> \in M <=> sessions[i] # None /\ <<r, sessions[i]>> \in joined
  <2>1. ASSUME <<r, i>> \in M PROVE sessions[i] # None /\ <<r, sessions[i]>> \in joined
    <3>1. PICK p \in joined : p[2] \in Registered /\ p[1] = r /\ sid[p[2]] = i
      BY <2>1
    <3>2. p = <<r, p[2]>> /\ p[2] \in Sess
      BY <1>1, <3>1
    <3>3. sessions[i] = p[2]
      BY <3>1, RegisteredIs
    <3> QED BY <3>2, <3>3, NoneAssumption
  <2>2. ASSUME sessions[i] # None, <<r, sessions[i]>> \in joined PROVE <<r, i>> \in M
    <3>1. sid[sessions[i]] = i /\ sessions[i] \in Registered
      BY <2>2, RegisteredLinked DEF Registered
    <3> QED BY <2>2, <3>1
  <2> QED BY <2>1, <2>2
<1>3. M \subseteq Room \X SessionId
  BY <1>1, RegisteredIs
<1> HIDE DEF M
<1>4. RoomsInStep <=> \A r \in Room, i \in SessionId : <<r, i>> \in members <=> <<r, i>> \in M
  BY <1>2 DEF RoomsInStep, InRoom
<1>5. (\A r \in Room, i \in SessionId : <<r, i>> \in members <=> <<r, i>> \in M) <=> members = M
  BY <1>1, <1>3
<1> QED BY <1>4, <1>5 DEF RoomsFollowSessions, M

\* The sessions of I leave registry and rooms together.
LEMMA RoomsWithout ==
  ASSUME RoomsInStep, NEW I, sessions' = Without(I), members' = MembersWithout(I), UNCHANGED joined
  PROVE  RoomsInStep'
<1> SUFFICES ASSUME NEW r \in Room, NEW i \in SessionId PROVE InRoom(r, i)'
  BY DEF RoomsInStep
<1>1. InRoom(r, i)
  BY DEF RoomsInStep
<1>2. <<r, i>> \in members' <=> <<r, i>> \in members /\ ~(i \in I /\ sessions[i] # None)
  BY DEF MembersWithout, Rooms!WithoutSessions
<1>3. sessions'[i] = IF i \in I THEN None ELSE sessions[i]
  BY DEF Without
<1> QED BY <1>1, <1>2, <1>3 DEF InRoom

\* A registered session joins the rooms R, for its identifier and for itself.
LEMMA RoomsJoined ==
  ASSUME Structure, RoomsInStep, NEW s \in Sess, sessions[sid[s]] = s, sid[s] \in SessionId,
         NEW R \in SUBSET Room, UNCHANGED sessions,
         members' = members \cup Rooms!Pairs(R, sid[s]), joined' = joined \cup (R \X {s})
  PROVE  RoomsInStep'
<1> SUFFICES ASSUME NEW r \in Room, NEW i \in SessionId PROVE InRoom(r, i)'
  BY DEF RoomsInStep
<1>1. InRoom(r, i)
  BY DEF RoomsInStep
<1>2. <<r, i>> \in members' <=> <<r, i>> \in members \/ (r \in R /\ i = sid[s])
  BY DEF Rooms!Pairs
<1>3. \A t : <<r, t>> \in joined' <=> <<r, t>> \in joined \/ (r \in R /\ t = s)
  OBVIOUS
<1>4. sessions[i] # None => (sessions[i] = s <=> i = sid[s])
  BY RegisteredLinked
<1>5. s # None
  BY NoneAssumption
<1> QED BY <1>1, <1>2, <1>3, <1>4, <1>5 DEF InRoom

LEMMA RoomsLeft ==
  ASSUME Structure, RoomsInStep, NEW i \in SessionId, sessions[i] # None, NEW q \in Room,
         UNCHANGED sessions,
         members' = members \ Rooms!Pairs({q}, i), joined' = joined \ {<<q, sessions[i]>>}
  PROVE  RoomsInStep'
<1> SUFFICES ASSUME NEW r \in Room, NEW j \in SessionId PROVE InRoom(r, j)'
  BY DEF RoomsInStep
<1>1. InRoom(r, j)
  BY DEF RoomsInStep
<1>2. <<r, j>> \in members' <=> <<r, j>> \in members /\ ~(r = q /\ j = i)
  BY DEF Rooms!Pairs
<1>3. \A t : <<r, t>> \in joined' <=> <<r, t>> \in joined /\ ~(r = q /\ t = sessions[i])
  OBVIOUS
<1>4. sessions[j] # None => (sessions[j] = sessions[i] <=> j = i)
  BY RegisteredLinked
<1> QED BY <1>1, <1>2, <1>3, <1>4 DEF InRoom

\* Steps that change neither registry nor hooks.
LEMMA HousedFrame ==
  ASSUME Structure, Housed, UNCHANGED <<sid, sessions, hooks>>,
         PendingWrites' \subseteq PendingWrites,
         \A c \in Conn, i \in SessionId : <<c, i>> \in auths' => <<c, i>> \in auths \/ sessions[i] = None,
         \A d \in Conn : sock[d] = "closed" => sock'[d] = "closed",
         \A s \in Sess : Born(s) => Born(s)',
         \A p \in joined' : p \in joined \/ (p[2] \in Sess /\ Born(p[2])),
         RoomsInStep'
  PROVE  Housed'
<1>1. Vacant' /\ Welcomed' /\ HooksRegistered'
  BY DEF Housed, Vacant, Welcomed, HooksRegistered
<1>2. \A p \in joined : p[2] \in Sess /\ Born(p[2])
  BY DEF Structure, TypeOK, Housed, JoinedBorn
<1>3. JoinedBorn'
  BY <1>2 DEF JoinedBorn
<1> QED BY <1>1, <1>3 DEF Housed

LEMMA RoomsUnchanged ==
  ASSUME RoomsInStep, UNCHANGED <<sessions, members, joined>>
  PROVE  RoomsInStep'
BY DEF RoomsInStep, InRoom

LEMMA HousedQuiescent ==
  ASSUME Structure, Housed, Settling, NEW c \in Conn, Quiescent(c)
  PROVE  Housed'
<1>1. UNCHANGED <<state, conn, sid, sessions, hooks, writes>>
  BY QuiescentFrame
<1>2. \A d \in Conn : sock[d] = "closed" => sock'[d] = "closed"
  <2>1. CASE sock' = [sock EXCEPT ![c] = "open"] /\ sock[c] = "unused"
    BY <2>1 DEF Structure, TypeOK
  <2>2. CASE sock' \in {sock, Destroyed(sock, {c}), Ended(sock, {c})}
    BY <2>2 DEF Destroyed, Ended
  <2> QED BY <2>1, <2>2, QuiescentFrame
<1>3. /\ PendingWrites' = PendingWrites
      /\ \A s \in Sess : Born(s) => Born(s)'
  BY <1>1 DEF PendingWrites, Born
<1>4. \A d \in Conn, j \in SessionId : <<d, j>> \in auths' => <<d, j>> \in auths \/ sessions[j] = None
  <2>1. ASSUME NEW i \in SessionId, ReceiveLogon(c, i)
        PROVE  auths' = auths \cup {<<c, i>>} /\ sessions[i] = None
    BY <2>1 DEF ReceiveLogon, LogonExpected, Settling
  <2>2. CASE auths' \subseteq auths
    BY <2>2
  <2>3. auths' \subseteq auths \/ \E i \in SessionId : ReceiveLogon(c, i)
    BY DEF Quiescent, Connect, ReceiveRefused, ReceiveMalformed, DelayedDestroy, PeerCloses,
       SocketError, AuthRejected, ReceiveJoin, ReceiveLeave, SendLogoutAndClose
  <2> QED BY <2>1, <2>2, <2>3
<1>5. /\ RoomsInStep'
      /\ \A p \in joined' : p \in joined \/ (p[2] \in Sess /\ Born(p[2]))
  <2>1. RoomsInStep
    BY DEF Housed
  <2>2. ASSUME NEW i \in SessionId, NEW r \in Room, ReceiveJoin(c, i, r)
        PROVE  /\ RoomsInStep'
               /\ \A p \in joined' : p \in joined \/ (p[2] \in Sess /\ Born(p[2]))
    <3>1. /\ sessions[i] # None /\ members' = members \cup Rooms!Pairs({r}, i)
          /\ joined' = joined \cup ({r} \X {sessions[i]})
      BY <2>2 DEF ReceiveJoin
    <3>2. sessions[i] \in Sess /\ Born(sessions[i]) /\ sid[sessions[i]] = i
      BY <3>1, RegisteredLinked
    <3>3. RoomsInStep'
      BY <1>1, <2>1, <3>1, <3>2, RoomsJoined
    <3> QED BY <3>1, <3>2, <3>3
  <2>3. ASSUME NEW i \in SessionId, NEW r \in Room, ReceiveLeave(c, i, r)
        PROVE  /\ RoomsInStep'
               /\ \A p \in joined' : p \in joined \/ (p[2] \in Sess /\ Born(p[2]))
    <3>1. /\ sessions[i] # None /\ members' = members \ Rooms!Pairs({r}, i)
          /\ joined' = joined \ {<<r, sessions[i]>>}
      BY <2>3 DEF ReceiveLeave
    <3> QED BY <1>1, <2>1, <3>1, RoomsLeft
  <2>4. ASSUME UNCHANGED <<members, joined>>
        PROVE  /\ RoomsInStep'
               /\ \A p \in joined' : p \in joined \/ (p[2] \in Sess /\ Born(p[2]))
    BY <1>1, <2>1, <2>4, RoomsUnchanged
  <2>5. \/ UNCHANGED <<members, joined>>
        \/ \E i \in SessionId, r \in Room : ReceiveJoin(c, i, r) \/ ReceiveLeave(c, i, r)
    BY DEF Quiescent, Connect, ReceiveRefused, ReceiveMalformed, DelayedDestroy, PeerCloses,
       SocketError, ReceiveLogon, AuthRejected, SendLogoutAndClose, roomVars
  <2> QED BY <2>2, <2>3, <2>4, <2>5
<1> QED BY <1>1, <1>2, <1>3, <1>4, <1>5, HousedFrame

\* The session whose handlers join is still the registered one.
LEMMA HousedAnswered ==
  ASSUME Structure, Distinct, Housed, NEW c \in Conn, LogonAnswered(c) \/ LogonAnswerFails(c)
  PROVE  Housed'
<1> DEFINE s == Oldest(c).of
<1>1. Completes(c, "logon") /\ UNCHANGED <<conn, sid, sessions, hooks, auths>>
  BY DEF LogonAnswered, LogonAnswerFails, networkVars, sessionVars
<1>2. Oldest(c) \in PendingWrites /\ PendingWrites' \subseteq PendingWrites
  BY <1>1, CompletesPending
<1>3. s \in Sess /\ Born(s) /\ sid[s] \in SessionId /\ sessions[sid[s]] = s
  BY <1>2, Pending DEF Housed, Welcomed
<1> HIDE DEF s
<1>4. RoomsInStep
  BY DEF Housed
<1>5. CASE LogonAnswered(c)
  <2>1. /\ UNCHANGED <<sock, state>>
        /\ \E R \in SUBSET Room : /\ members' = members \cup Rooms!Pairs(R, sid[s])
                                  /\ joined' = joined \cup (R \X {s})
    BY <1>5 DEF LogonAnswered, networkVars, sessionVars, s
  <2>2. RoomsInStep'
    BY <1>1, <1>3, <1>4, <2>1, RoomsJoined
  <2>3. \A p \in joined' : p \in joined \/ (p[2] \in Sess /\ Born(p[2]))
    BY <1>3, <2>1
  <2> QED BY <1>1, <1>2, <2>1, <2>2, <2>3, HousedFrame DEF Born
<1>6. CASE LogonAnswerFails(c)
  <2>1. /\ state' = [state EXCEPT ![s] = "ERROR"] /\ sock' = Destroyed(sock, {c})
        /\ UNCHANGED <<members, joined>>
    BY <1>6 DEF LogonAnswerFails, roomVars, s
  <2>2. \A t \in Sess : Born(t) => Born(t)'
    BY <2>1 DEF Structure, TypeOK, Born
  <2>3. \A d \in Conn : sock[d] = "closed" => sock'[d] = "closed"
    BY <2>1 DEF Destroyed
  <2>4. RoomsInStep'
    BY <1>1, <1>4, <2>1, RoomsUnchanged
  <2> QED BY <1>1, <1>2, <2>1, <2>2, <2>3, <2>4, HousedFrame
<1> QED BY <1>5, <1>6

\* A socket that closes, or a Logout message of a peer, takes the registrations of
\* the identifiers I: those of its own sessions, whose answers were written.
LEMMA HousedWithout ==
  ASSUME Structure, Housed, NEW I, sessions' = Without(I), members' = MembersWithout(I),
         UNCHANGED <<sid, joined, auths, writes>>,
         \A s \in Sess : Born(s) => Born(s)',
         \A w \in PendingWrites : sid[w.of] \notin I,
         \A d \in Conn : sock'[d] # "closed" =>
           sock[d] # "closed" /\ \A g \in hooks'[d] : g \in hooks[d] /\ sid[g] \notin I
  PROVE  Housed'
<1>1. PendingWrites' = PendingWrites
  BY DEF PendingWrites
<1>2. \A j \in SessionId : /\ sessions[j] = None => sessions'[j] = None
                           /\ j \notin I => sessions'[j] = sessions[j]
  BY DEF Without
<1>3. Vacant'
  BY <1>2 DEF Housed, Vacant
<1>4. Welcomed'
  BY <1>1, <1>2, Pending DEF Housed, Welcomed
<1>5. HooksRegistered'
  <2> SUFFICES ASSUME NEW d \in Conn, sock'[d] # "closed", NEW g \in hooks'[d]
               PROVE  sessions'[sid[g]] = g
    BY DEF HooksRegistered
  <2>1. g \in hooks[d] /\ sid[g] \notin I /\ sock[d] # "closed"
    OBVIOUS
  <2>2. sid[g] \in SessionId
    BY <2>1 DEF Structure, TypeOK, Links
  <2> QED BY <1>2, <2>1, <2>2 DEF Housed, HooksRegistered
<1>6. \A p \in joined : p[2] \in Sess /\ Born(p[2])
  BY DEF Structure, TypeOK, Housed, JoinedBorn
<1>7. JoinedBorn'
  BY <1>6 DEF JoinedBorn
<1>8. RoomsInStep'
  BY RoomsWithout DEF Housed
<1> QED BY <1>3, <1>4, <1>5, <1>7, <1>8 DEF Housed

LEMMA HousedClosed ==
  ASSUME Structure, Housed, NEW c \in Conn, SocketClosed(c)
  PROVE  Housed'
<1> DEFINE gone == (IF listening[c] THEN {s \in Registered : conn[s] = c} ELSE {}) \cup hooks[c]
           ids == {sid[s] : s \in gone}
<1>1. /\ sock[c] # "closed" /\ writes[c] = << >>
      /\ sock' = [sock EXCEPT ![c] = "closed"]
      /\ hooks' = [hooks EXCEPT ![c] = {}]
      /\ state' = [s \in Sess |-> IF s \in gone THEN "DISCONNECTED" ELSE state[s]]
      /\ sessions' = Without(ids) /\ members' = MembersWithout(ids)
      /\ UNCHANGED <<conn, sid, joined, auths, writes>>
  BY DEF SocketClosed
<1>2. sock \in [Conn -> SockState] /\ hooks \in [Conn -> SUBSET Sess]
  BY DEF Structure, TypeOK, SockState
<1>3. \A g \in gone : g \in Sess /\ conn[g] = c /\ sessions[sid[g]] = g
  BY <1>1, <1>2, RegisteredIs DEF Structure, Links, Housed, HooksRegistered
<1>4. ASSUME NEW s, sessions[sid[s]] = s, sid[s] \in ids PROVE s \in gone
  BY <1>3, <1>4
<1> HIDE DEF gone, ids
<1>5. \A w \in PendingWrites : sid[w.of] \notin ids
  <2>1. \A w \in PendingWrites : sessions[sid[w.of]] = w.of /\ w \in ToSet(writes[conn[w.of]])
    BY Pending DEF Housed, Welcomed
  <2>2. ToSet(writes[c]) = {}
    BY <1>1 DEF ToSet
  <2> QED BY <1>3, <1>4, <2>1, <2>2
<1>6. ASSUME NEW d \in Conn, sock'[d] # "closed"
      PROVE  sock[d] # "closed" /\ \A g \in hooks'[d] : g \in hooks[d] /\ sid[g] \notin ids
  <2>1. d # c /\ sock[d] # "closed" /\ hooks'[d] = hooks[d]
    BY <1>1, <1>2, <1>6
  <2>2. \A g \in hooks[d] : conn[g] = d /\ sessions[sid[g]] = g
    BY <1>2, <2>1 DEF Structure, Links, Housed, HooksRegistered
  <2> QED BY <1>3, <1>4, <2>1, <2>2
<1>7. \A s \in Sess : Born(s) => Born(s)'
  BY <1>1 DEF Born
<1> QED BY <1>1, <1>5, <1>6, <1>7, HousedWithout

\* A peer that logs out names itself, and has had its answer.
LEMMA HousedLogout ==
  ASSUME Structure, Housed, Settling, NEW c \in Conn, NEW i \in SessionId, ReceiveLogout(c, i)
  PROVE  Housed'
<1> DEFINE t == sessions[i]
<1>1. /\ t # None /\ conn[t] = c /\ writes[c] = << >> /\ LoggedOut(t)
      /\ sock' = Ended(sock, {conn[t]}) /\ sessions' = Without({i})
      /\ UNCHANGED <<auths, writes>>
  BY DEF ReceiveLogout, Owns, Waits, Quiet, Settling
<1>2. t \in Sess /\ Born(t) /\ sid[t] = i
  BY <1>1, RegisteredLinked
<1>3. members' = MembersWithout({i}) /\ UNCHANGED <<sid, joined>>
  BY <1>1, <1>2 DEF LoggedOut
<1>4. ASSUME NEW s, sessions[sid[s]] = s, sid[s] = i PROVE s = t
  BY <1>4
<1> HIDE DEF t
<1>5. \A w \in PendingWrites : sid[w.of] \notin {i}
  <2>1. \A w \in PendingWrites : sessions[sid[w.of]] = w.of /\ w \in ToSet(writes[conn[w.of]])
    BY Pending DEF Housed, Welcomed
  <2>2. ToSet(writes[c]) = {}
    BY <1>1 DEF ToSet
  <2> QED BY <1>1, <1>4, <2>1, <2>2
<1>6. ASSUME NEW d \in Conn, sock'[d] # "closed"
      PROVE  sock[d] # "closed" /\ \A g \in hooks'[d] : g \in hooks[d] /\ sid[g] \notin {i}
  <2>1. sock[d] # "closed"
    BY <1>1, <1>6 DEF Ended
  <2>2. \A g \in hooks'[d] : g \in hooks[d] /\ g # t
    BY <1>1, <1>2, HooksAfterLogout
  <2>3. \A g \in hooks[d] : sessions[sid[g]] = g
    BY <2>1 DEF Housed, HooksRegistered
  <2> QED BY <1>4, <2>1, <2>2, <2>3
<1>7. \A s \in Sess : Born(s) => Born(s)'
  BY <1>1, <1>2, HooksAfterLogout
<1> QED BY <1>1, <1>3, <1>5, <1>6, <1>7, HousedWithout

\* The identifier is free and the limit leaves room, so that the new session is
\* registered in this turn.
LEMMA HousedAdmission ==
  ASSUME Structure, Serial, Housed, LimitSuffices,
         NEW c \in Conn, NEW i \in SessionId, NEW n \in Sess, Admission(c, i, n),
         \A t \in Sess : Born(t)' <=> Born(t) \/ t = n,
         PendingWrites' = PendingWrites \cup AnswerWrites(c, n) \cup LogoutWrites(c, i, n)
  PROVE  Housed'
<1>1. /\ ~Born(n) /\ <<c, i>> \in auths /\ auths' = auths \ {<<c, i>>}
      /\ sid' = [sid EXCEPT ![n] = i] /\ UNCHANGED joined
      /\ \A j \in SessionId : j # i => sessions'[j] = sessions[j]
  BY DEF Admission
<1>2. sessions[i] = None /\ AdmitAtOnce(c, i, n)
  BY <1>1 DEF Housed, Vacant, Admission, AdmitTakeover, AdmitOverUnwritable
<1>3. /\ Enrol(sessions, i, n) /\ hooks' = [hooks EXCEPT ![c] = @ \cup {n}]
      /\ UNCHANGED members /\ LogoutWrites(c, i, n) = {}
      /\ sock' = sock \/ sock' = Destroyed(sock, {c})
  BY <1>2 DEF AdmitAtOnce, Answer, LogoutWrites, AdmitTakeover
<1>4. sessions'[i] = n
  <2>1. ~Full(sessions)
    BY <1>2, RoomForOne DEF LimitSuffices
  <2> QED BY <1>3, <2>1, Enrolled DEF Structure, TypeOK
<1>5. /\ sid'[n] = i /\ n # None /\ \A t \in Sess : t # n => sid'[t] = sid[t]
      /\ \A t \in Sess : Born(t) => t # n /\ sid[t] \in SessionId
  BY <1>1, NoneAssumption DEF Structure, TypeOK, Links
\* Who was registered still is.
<1>6. ASSUME NEW t \in Sess, Born(t), sessions[sid[t]] = t PROVE sessions'[sid'[t]] = t
  BY <1>1, <1>2, <1>5, <1>6, NoneAssumption
<1>7. Vacant'
  <2> SUFFICES ASSUME NEW d \in Conn, NEW j \in SessionId, <<d, j>> \in auths' PROVE sessions'[j] = None
    BY DEF Vacant
  <2>1. <<d, j>> \in auths /\ j # i
    BY <1>1 DEF Serial, OneLogon
  <2> QED BY <1>1, <2>1 DEF Housed, Vacant
<1>8. Welcomed'
  <2> SUFFICES ASSUME NEW w \in PendingWrites' PROVE w.kind = "logon" /\ sessions'[sid'[w.of]] = w.of
    BY DEF Welcomed
  <2>1. CASE w \in PendingWrites
    BY <1>6, <2>1, Pending DEF Housed, Welcomed
  <2>2. CASE w \in AnswerWrites(c, n)
    BY <1>4, <1>5, <2>2, NewWrites
  <2> QED BY <1>3, <2>1, <2>2
<1>9. HooksRegistered'
  <2> SUFFICES ASSUME NEW d \in Conn, sock'[d] # "closed", NEW g \in hooks'[d]
               PROVE  sessions'[sid'[g]] = g
    BY DEF HooksRegistered
  <2>1. hooks \in [Conn -> SUBSET Sess]
    BY DEF Structure, TypeOK
  <2>2. g \in hooks[d] \/ g = n
    BY <1>3, <2>1
  <2>3. sock[d] # "closed"
    BY <1>3 DEF Destroyed
  <2>4. CASE g \in hooks[d]
    <3>1. g \in Sess /\ Born(g) /\ sessions[sid[g]] = g
      BY <2>1, <2>3, <2>4 DEF Structure, Links, Housed, HooksRegistered
    <3> QED BY <1>6, <3>1
  <2> QED BY <1>4, <1>5, <2>2, <2>4
<1>10. \A p \in joined : p[2] \in Sess /\ Born(p[2])
  BY DEF Structure, TypeOK, Housed, JoinedBorn
<1>11. JoinedBorn'
  BY <1>1, <1>10 DEF JoinedBorn
<1>12. RoomsInStep'
  <2> SUFFICES ASSUME NEW r \in Room, NEW j \in SessionId PROVE InRoom(r, j)'
    BY DEF RoomsInStep
  <2>1. InRoom(r, j)
    BY DEF Housed, RoomsInStep
  <2>2. CASE j # i
    BY <1>1, <1>3, <2>1, <2>2 DEF InRoom
  <2>3. CASE j = i
    <3>1. <<r, n>> \notin joined
      BY <1>1, <1>10
    <3> QED BY <1>1, <1>2, <1>3, <1>4, <2>1, <2>3, <3>1 DEF InRoom
  <2> QED BY <2>2, <2>3
<1> QED BY <1>7, <1>8, <1>9, <1>11, <1>12 DEF Housed

LEMMA HousedStep ==
  ASSUME Structure, Distinct, Paired, Serial, Housed, Settling, LimitSuffices,
         [Next]_vars, ~Stop
  PROVE  Housed'
<1>1. CASE Still
  <2>1. UNCHANGED <<sid, state, sessions, hooks, sock, writes, auths, members, joined>>
    BY <1>1 DEF Still, networkVars, sessionVars, roomVars
  <2>2. RoomsInStep'
    BY <2>1, RoomsUnchanged DEF Housed
  <2> QED BY <2>1, <2>2, HousedFrame DEF Born, PendingWrites
<1>2. ASSUME NEW c \in Conn, NEW i \in SessionId, AuthAccepted(c, i) PROVE Housed'
  <2>1. PICK n \in Sess : Admission(c, i, n)
    BY <1>2, AdmissionIs
  <2>2. PendingWrites' = PendingWrites \cup AnswerWrites(c, n) \cup LogoutWrites(c, i, n)
    BY <2>1, AdmissionPending DEF Admission
  <2> QED BY <2>1, <2>2, AdmissionBirth, HousedAdmission
\* Nobody is logged out in favour of another session.
<1>3. ASSUME NEW c \in Conn PROVE ~LogoutWrittenForSuccessor(c)
  <2> SUFFICES ASSUME LogoutWrittenForSuccessor(c) PROVE FALSE
    OBVIOUS
  <2>1. Completes(c, "logout")
    BY DEF LogoutWrittenForSuccessor
  <2>2. Oldest(c) \in PendingWrites /\ Oldest(c).kind = "logout"
    BY <2>1, OldestWrite DEF PendingWrites
  <2> QED BY <2>2 DEF Housed, Welcomed
<1> QED BY <1>1, <1>2, <1>3, HousedQuiescent, HousedAnswered, HousedClosed, HousedLogout,
           NoStopLogout, StepCases

\* Room membership is exactly what the handlers of the registered sessions asked for.
\* Asked of the peers and the application: an identifier is logged on where it is not
\* registered, logons of it come one after the other, messages name the sender's own
\* identifier once it is answered, stop() is not called, and the limit leaves room for
\* every identifier. Connections may be lost at any moment and used for further logons.
THEOREM RoomsAreInStep ==
  ASSUME Irregular \subseteq {"relogon", "drop"}, LimitSuffices
  PROVE  Spec => []RoomsFollowSessions
<1> DEFINE IInv == Structure /\ Tidy /\ InTurn /\ Housed
<1>1. Settling /\ "hasty" \notin Irregular /\ "stop" \notin Irregular /\ Before /\ Before'
  BY DEF Settling, Before
<1>2. Init => IInv
  <2> SUFFICES ASSUME Init PROVE Housed
    BY StructureInit, TidyInit, InTurnInit
  <2>1. /\ auths = {} /\ members = {} /\ joined = {}
        /\ \A c \in Conn : hooks[c] = {} /\ ToSet(writes[c]) = {}
        /\ \A i \in SessionId : sessions[i] = None
    BY DEF Init, ToSet
  <2>2. PendingWrites = {}
    BY <2>1 DEF PendingWrites
  <2> QED BY <2>1, <2>2 DEF Housed, Vacant, Welcomed, HooksRegistered, JoinedBorn, RoomsInStep, InRoom
<1>3. IInv /\ [Next]_vars => IInv'
  <2> SUFFICES ASSUME IInv, [Next]_vars PROVE IInv'
    OBVIOUS
  <2>1. Structure' /\ Tidy' /\ InTurn'
    BY <1>1, StructureStep, TidyStep, InTurnStep
  <2>2. Distinct /\ Paired /\ Serial /\ ~Stop
    BY <1>1, BeforeStep DEF Tidy, InTurn
  <2>3. Housed'
    BY <1>1, <2>2, HousedStep
  <2> QED BY <2>1, <2>3
<1>4. IInv => RoomsFollowSessions
  BY RoomsInStepIs DEF Housed
<1> QED BY <1>2, <1>3, <1>4, PTL DEF Spec

-----------------------------------------------------------------------------
(* The acceptor as a directory of sessions *)

\* An admission ends the older session of its identifier, and leaves the others alone.
LEMMA OlderEnds ==
  ASSUME Structure, NEW c \in Conn, NEW i \in SessionId, NEW n \in Sess, Admission(c, i, n)
  PROVE  /\ sessions[i] # None => state'[sessions[i]] # "LOGGED_ON"
         /\ \A s \in Sess : s # n /\ s # sessions[i] => state'[s] = state[s]
<1>1. state \in [Sess -> SessionState] /\ ~Born(n)
  BY DEF Structure, TypeOK, SessionState, Admission
<1>2. sessions[i] # None => sessions[i] \in Sess /\ sessions[i] # n
  BY <1>1, RegisteredLinked
<1>3. CASE AdmitAtOnce(c, i, n)
  <2>1. /\ state' = [state EXCEPT ![n] = Answered(c)]
        /\ sessions[i] # None => state[sessions[i]] = "DISCONNECTED"
    BY <1>3 DEF AdmitAtOnce
  <2> QED BY <1>1, <1>2, <2>1
<1>4. CASE AdmitTakeover(c, i, n)
  <2>1. /\ sessions[i] # None
        /\ state' = [state EXCEPT ![sessions[i]] = "LOGGING_OUT", ![n] = Answered(c)]
    BY <1>4 DEF AdmitTakeover
  <2> QED BY <1>1, <1>2, <2>1
<1>5. CASE AdmitOverUnwritable(c, i, n)
  <2>1. /\ sessions[i] # None
        /\ state' = [state EXCEPT ![sessions[i]] = "DISCONNECTED", ![n] = Answered(c)]
    BY <1>5 DEF AdmitOverUnwritable
  <2> QED BY <1>1, <1>2, <2>1
<1> QED BY <1>3, <1>4, <1>5 DEF Admission

\* Only admissions log a session on.
LEMMA NobodyLogsOn ==
  ASSUME Structure, [Next]_vars, ~Stop, \A t \in Sess : Born(t)' <=> Born(t)
  PROVE  \A t \in Sess : state'[t] = "LOGGED_ON" => state[t] = "LOGGED_ON"
<1>0. state \in [Sess -> SessionState]
  BY DEF Structure, TypeOK, SessionState
<1>1. CASE Still
  BY <1>1 DEF Still, sessionVars
<1>2. ASSUME NEW c \in Conn, Quiescent(c) \/ LogonAnswered(c) PROVE UNCHANGED state
  BY <1>2, QuiescentFrame DEF LogonAnswered, sessionVars
<1>3. ASSUME NEW c \in Conn, LogonAnswerFails(c)
      PROVE  \A t \in Sess : state'[t] \in {state[t], "ERROR"}
  BY <1>0, <1>3 DEF LogonAnswerFails
<1>4. ASSUME NEW c \in Conn, SocketClosed(c)
      PROVE  \A t \in Sess : state'[t] \in {state[t], "DISCONNECTED"}
  BY <1>4 DEF SocketClosed
<1>5. ASSUME NEW c \in Conn,
             \/ LogoutWrittenForSuccessor(c) \/ LogoutWrittenForStop(c)
             \/ \E i \in SessionId : ReceiveLogout(c, i)
      PROVE  \A t \in Sess : state'[t] \in {state[t], "DISCONNECTED"}
  <2>1. \E s \in Sess : Born(s) /\ LoggedOut(s)
    BY <1>5, LogoutCases
  <2> QED BY <1>0, <2>1 DEF LoggedOut
<1>6. ASSUME NEW c \in Conn, NEW i \in SessionId, AuthAccepted(c, i) PROVE FALSE
  <2>1. PICK s \in Sess : Admission(c, i, s)
    BY <1>6, AdmissionIs
  <2> QED BY <2>1, AdmissionBirth DEF Admission
<1> QED BY <1>1, <1>2, <1>3, <1>4, <1>5, <1>6, StepCases

LEMMA DirectoryAdmission ==
  ASSUME Structure, Serial, Reachable, Reachable', NEW c \in Conn, NEW i \in SessionId, NEW n \in Sess,
         Admission(c, i, n), \A t \in Sess : Born(t)' <=> Born(t) \/ t = n
  PROVE  Directory!LogOn(n, i) \/ Directory!Fail(n, i)
<1>1. n \notin Used /\ Used' = Used \cup {n}
  BY DEF Used, Admission
<1>2. /\ <<c, i>> \in auths /\ sid'[n] = i
      /\ \A s \in Sess : s # n => sid'[s] = sid[s]
  BY DEF Admission, Structure, TypeOK
\* Of this identifier only the registered session can be logged on.
<1>3. \A s \in Sess : s # n /\ sid[s] = i => state'[s] # "LOGGED_ON"
  <2> SUFFICES ASSUME NEW s \in Sess, s # n, sid[s] = i, state'[s] = "LOGGED_ON" PROVE FALSE
    OBVIOUS
  <2>1. s # sessions[i] /\ state[s] = "LOGGED_ON"
    BY OlderEnds, NoneAssumption
  <2>2. Succeeds(s)
    BY <2>1 DEF Reachable, LoggedOnIsRegistered
  <2>3. PICK w \in PendingWrites : w.next = s
    BY <2>2 DEF Succeeds
  <2>4. sid[w.of] = i
    BY <2>3, Pending, NoneAssumption
  <2> QED BY <1>2, <2>4 DEF Serial, LogonAlone
<1>4. \A j \in SessionId : j # i => On'[j] = On[j]
  <2> SUFFICES ASSUME NEW j \in SessionId, j # i, NEW s \in Sess
               PROVE  /\ state'[s] = "LOGGED_ON" /\ sid'[s] = j
                         <=> state[s] = "LOGGED_ON" /\ sid[s] = j
    BY DEF On
  <2>1. CASE s = n
    <3>1. state[n] = "unborn"
      BY DEF Admission, Born
    <3> QED BY <1>2, <2>1, <3>1
  <2>2. CASE s = sessions[i]
    <3>1. sid[s] = i
      BY <2>2, RegisteredLinked, NoneAssumption
    <3> QED BY <1>2, <2>1, <3>1
  <2>3. CASE s # n /\ s # sessions[i]
    BY <1>2, <2>3, OlderEnds
  <2> QED BY <2>1, <2>2, <2>3
<1>5. On'[i] = IF state'[n] = "LOGGED_ON" THEN {n} ELSE {}
  BY <1>2, <1>3 DEF On
<1>6. On \in [SessionId -> SUBSET Sess] /\ On' \in [SessionId -> SUBSET Sess]
  BY DEF On
<1>7. On' = [On EXCEPT ![i] = On'[i]]
  BY <1>4, <1>6
<1> QED BY <1>1, <1>5, <1>7 DEF Directory!LogOn, Directory!Fail

\* Identifiers change hands in one step: who logs on ends the older session of the
\* identifier at once, and no session is logged on twice. Asked as for
\* LoggedOnAreReachable.
THEOREM ImplementsSessionDirectory ==
  ASSUME Irregular \cap {"hasty", "stop"} = {}, Spacious
  PROVE  Spec => ImplementsDirectory
<1>1. Init => Serving
  BY ServingInvariant
<1>2. Serving /\ [Next]_vars => Serving'
  BY ServingInvariant
<1>3. Init => Directory!Init
  BY DEF Init, Directory!Init, On, Used, Born
<1>4. Serving /\ Serving' /\ [Next]_vars => [Directory!Next]_Directory!vars
  <2> SUFFICES ASSUME Serving, Serving', [Next]_vars PROVE Directory!Next
    OBVIOUS
  <2>1. ~Stop /\ Serial /\ Structure /\ Reachable /\ Reachable'
    <3>1. Before /\ Before'
      BY DEF Before
    <3> QED BY <3>1, BeforeStep DEF Serving, InTurn
  <2>2. ASSUME NEW c \in Conn, NEW i \in SessionId, NEW n \in Sess, Admission(c, i, n),
               \A t \in Sess : Born(t)' <=> Born(t) \/ t = n
        PROVE  Directory!Next
    BY <2>1, <2>2, DirectoryAdmission DEF Directory!Next
  <2>3. ASSUME UNCHANGED sid, \A t \in Sess : Born(t)' <=> Born(t) PROVE Directory!Next
    <3> DEFINE S == {t \in Sess : state'[t] # "LOGGED_ON"}
    <3>1. \A t \in Sess : state'[t] = "LOGGED_ON" => state[t] = "LOGGED_ON"
      BY <2>1, <2>3, NobodyLogsOn
    <3>2. On' = [i \in SessionId |-> On[i] \ S]
      BY <2>3, <3>1 DEF On
    <3>3. Used' = Used
      BY <2>3 DEF Used
    <3> QED BY <3>2, <3>3 DEF Directory!End, Directory!Next
  <2> QED BY <2>1, <2>2, <2>3, Births
<1> QED BY <1>1, <1>2, <1>3, <1>4, PTL DEF Spec, ImplementsDirectory, Directory!Spec
=============================================================================
