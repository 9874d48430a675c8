----------------------- MODULE AcceptorSessionsProofs -----------------------
(***************************************************************************)
(* What holds of AcceptorSessions for any sockets, identifiers, sessions   *)
(* and limit, and whatever the peers do (any value of Irregular).          *)
(*                                                                         *)
(* The inductive invariant is Structure: the types, and the links between  *)
(* sessions, sockets, close hooks, pending writes and registry entries.    *)
(* The other theorems are one induction each on top of it.                 *)
(***************************************************************************)
EXTENDS AcceptorSessions, TLAPS, FiniteSetTheorems, FunctionTheorems, SequenceTheorems

-----------------------------------------------------------------------------
(* The elements of a sequence of writes *)

LEMMA ToSetAppend ==
  ASSUME NEW S, NEW q \in Seq(S), NEW e \in S
  PROVE  Append(q, e) \in Seq(S) /\ ToSet(Append(q, e)) = ToSet(q) \cup {e}
<1>1. Append(q, e) \in Seq(S) /\ Len(Append(q, e)) = Len(q) + 1
  OBVIOUS
<1>2. \A k \in 1..Len(q) : Append(q, e)[k] = q[k]
  OBVIOUS
<1>3. Append(q, e)[Len(q) + 1] = e
  OBVIOUS
<1>4. DOMAIN q = 1..Len(q) /\ DOMAIN Append(q, e) = 1..(Len(q) + 1) /\ Len(q) \in Nat
  BY <1>1
<1>5. 1..(Len(q) + 1) = 1..Len(q) \cup {Len(q) + 1}
  BY <1>4
<1> HIDE <1>1
<1> QED BY <1>1, <1>2, <1>3, <1>4, <1>5 DEF ToSet

LEMMA ToSetHeadTail ==
  ASSUME NEW S, NEW q \in Seq(S), q # << >>
  PROVE  /\ Tail(q) \in Seq(S) /\ ToSet(Tail(q)) \subseteq ToSet(q)
         /\ Head(q) \in ToSet(q) /\ Head(q) \in S
<1>1. Tail(q) \in Seq(S) /\ Len(Tail(q)) = Len(q) - 1 /\ Len(q) \in Nat \ {0}
  OBVIOUS
<1>2. \A k \in 1..Len(Tail(q)) : Tail(q)[k] = q[k + 1] /\ k + 1 \in 1..Len(q)
  BY <1>1
<1>3. DOMAIN q = 1..Len(q) /\ DOMAIN Tail(q) = 1..Len(Tail(q))
  BY <1>1
<1>4. Head(q) = q[1] /\ 1 \in 1..Len(q)
  BY <1>1
<1>5. q[1] \in S
  BY <1>3, <1>4
<1> QED BY <1>1, <1>2, <1>3, <1>4, <1>5 DEF ToSet

LEMMA ToSetConcat ==
  ASSUME NEW S, NEW q \in Seq(S), NEW r \in Seq(S)
  PROVE  q \o r \in Seq(S) /\ ToSet(q \o r) \subseteq ToSet(q) \cup ToSet(r)
<1>1. /\ q \o r \in Seq(S) /\ Len(q \o r) = Len(q) + Len(r)
      /\ Len(q) \in Nat /\ Len(r) \in Nat
  OBVIOUS
<1>2. \A k \in 1..Len(q \o r) : (q \o r)[k] = IF k <= Len(q) THEN q[k] ELSE r[k - Len(q)]
  BY <1>1
<1>3. DOMAIN q = 1..Len(q) /\ DOMAIN r = 1..Len(r) /\ DOMAIN (q \o r) = 1..Len(q \o r)
  BY <1>1
<1>4. \A k \in 1..Len(q \o r) : k <= Len(q) => k \in DOMAIN q
  BY <1>1, <1>3
<1>5. \A k \in 1..Len(q \o r) : ~(k <= Len(q)) => k - Len(q) \in DOMAIN r
  BY <1>1, <1>3
<1> QED BY <1>1, <1>2, <1>3, <1>4, <1>5 DEF ToSet

LEMMA ToSetOfSeq ==
  ASSUME NEW S, NEW q \in Seq(S)
  PROVE  ToSet(q) \subseteq S
BY DEF ToSet

LEMMA SetToSeqIsSeq ==
  ASSUME NEW S, IsFiniteSet(S)
  PROVE  SetToSeq(S) \in Seq(S)
<1>1. PICK f \in Bijection(1..Cardinality(S), S) : TRUE
  BY FS_CardinalityType DEF ExistsBijection
<1>2. f \in [1..Cardinality(S) -> S] /\ IsInjective(f)
  BY <1>1 DEF Bijection, Injection, IsInjective
<1>3. SetToSeq(S) \in [1..Cardinality(S) -> S]
  BY <1>2 DEF SetToSeq
<1> QED BY <1>3, FS_CardinalityType
-----------------------------------------------------------------------------
(* The inductive invariant *)

\* A born session has a socket and an identifier, a registered one is born and
\* registered under its own identifier, close hooks and pending writes are those
\* of born sessions of that socket, and a successor has its predecessor's
\* identifier.
WriteLinked(c, w) ==
  /\ Born(w.of) /\ conn[w.of] = c
  /\ w.next # None => Born(w.next) /\ sid[w.next] = sid[w.of]

Links ==
  /\ \A s \in Sess : Born(s) => conn[s] \in Conn /\ sid[s] \in SessionId
  /\ \A i \in SessionId : sessions[i] # None => Born(sessions[i]) /\ sid[sessions[i]] = i
  /\ \A c \in Conn : \A s \in hooks[c] : Born(s) /\ conn[s] = c
  /\ \A c \in Conn : \A w \in ToSet(writes[c]) : WriteLinked(c, w)

Structure == TypeOK /\ Links

LEMMA StructureInit == Init => Structure
<1> SUFFICES ASSUME Init PROVE Structure
  OBVIOUS
<1>1. TypeOK
  BY DEF Init, TypeOK
<1>2. Links
  BY DEF Init, Links, Born, WriteLinked, ToSet
<1> QED BY <1>1, <1>2 DEF Structure

\* What is registered is a born session of that identifier, on some socket.
LEMMA RegisteredLinked ==
  ASSUME Structure, NEW j \in SessionId, sessions[j] # None
  PROVE  /\ sessions[j] \in Sess /\ Born(sessions[j])
         /\ sid[sessions[j]] = j /\ conn[sessions[j]] \in Conn
<1>1. sessions[j] \in Sess
  BY DEF Structure, TypeOK
<1>2. Born(sessions[j]) /\ sid[sessions[j]] = j
  BY DEF Structure, Links
<1> QED BY <1>1, <1>2 DEF Structure, Links

\* A step that gives birth to no session and adds no link keeps the links.
LEMMA LinksFrame ==
  ASSUME Links, TypeOK, UNCHANGED <<conn, sid>>,
         \A s \in Sess : Born(s)' <=> Born(s),
         \A i \in SessionId : sessions'[i] \in {None, sessions[i]},
         \A c \in Conn : hooks'[c] \subseteq hooks[c],
         \A c \in Conn : ToSet(writes'[c]) \subseteq ToSet(writes[c])
  PROVE  Links'
<1>1. \A s \in Sess : Born(s)' => conn'[s] \in Conn /\ sid'[s] \in SessionId
  BY DEF Links
<1>2. (\A i \in SessionId : sessions[i] # None => Born(sessions[i]) /\ sid[sessions[i]] = i)'
  <2> SUFFICES ASSUME NEW i \in SessionId, sessions'[i] # None
               PROVE  (Born(sessions[i]) /\ sid[sessions[i]] = i)'
    OBVIOUS
  <2>1. sessions'[i] = sessions[i] /\ sessions[i] \in Sess
    BY DEF TypeOK
  <2>2. Born(sessions[i]) /\ sid[sessions[i]] = i
    BY <2>1 DEF Links
  <2> QED BY <2>1, <2>2 DEF Born
<1>3. \A c \in Conn : \A s \in hooks'[c] : Born(s)' /\ conn'[s] = c
  BY DEF Links, TypeOK
<1>4. \A c \in Conn : \A w \in ToSet(writes'[c]) : WriteLinked(c, w)'
  <2> SUFFICES ASSUME NEW c \in Conn, NEW w \in ToSet(writes'[c])
               PROVE  WriteLinked(c, w)'
    OBVIOUS
  <2>1. w \in ToSet(writes[c]) /\ writes[c] \in Seq(Write)
    BY DEF TypeOK
  <2>2. w \in Write /\ WriteLinked(c, w)
    BY <2>1, ToSetOfSeq DEF Links
  <2>3. w.of \in Sess /\ w.next \in Sess \cup {None}
    BY <2>2 DEF Write
  <2> QED BY <2>2, <2>3 DEF WriteLinked
<1> QED BY <1>1, <1>2, <1>3, <1>4 DEF Links

-----------------------------------------------------------------------------
(* Types of the operators the actions are made of *)

SockState == {"unused", "open", "ended", "destroyed", "closed"}

LEMMA AddPair ==
  ASSUME NEW S, NEW T, NEW P, P \subseteq S \X T, NEW x \in S, NEW y \in T
  PROVE  P \cup {<<x, y>>} \subseteq S \X T
OBVIOUS

LEMMA SockTypes ==
  ASSUME NEW sk \in [Conn -> SockState], NEW C
  PROVE  Destroyed(sk, C) \in [Conn -> SockState] /\ Ended(sk, C) \in [Conn -> SockState]
BY DEF Destroyed, Ended, SockState

LEMMA RegistryTypes ==
  ASSUME TypeOK, NEW I
  PROVE  /\ Without(I) \in [SessionId -> Sess \cup {None}]
         /\ \A i \in SessionId : Without(I)[i] \in {None, sessions[i]}
         /\ MembersWithout(I) \subseteq Room \X SessionId
BY DEF TypeOK, Without, MembersWithout, Rooms!WithoutSessions

LEMMA EnrolTypes ==
  ASSUME TypeOK, NEW reg \in [SessionId -> Sess \cup {None}],
         NEW i \in SessionId, NEW s \in Sess, Enrol(reg, i, s)
  PROVE  /\ sessions' \in [SessionId -> Sess \cup {None}]
         /\ process' \in {process, "crashed"}
         /\ \A j \in SessionId : sessions'[j] = reg[j] \/ (j = i /\ sessions'[j] = s)
BY DEF Enrol

LEMMA DeafenedTypes ==
  ASSUME TypeOK, NEW S, Deafened(S)
  PROVE  /\ listening' \in [Conn -> BOOLEAN] /\ hooks' \in [Conn -> SUBSET Sess]
         /\ \A c \in Conn : hooks'[c] \subseteq hooks[c]
BY DEF TypeOK, Deafened

\* The write whose callback runs next belongs to a born session of the socket.
LEMMA OldestWrite ==
  ASSUME Structure, NEW c \in Conn, NEW kind, Completes(c, kind)
  PROVE  /\ Oldest(c) \in Write /\ WriteLinked(c, Oldest(c)) /\ Oldest(c) \in ToSet(writes[c])
         /\ Oldest(c).of \in Sess /\ Oldest(c).next \in Sess \cup {None}
         /\ Oldest(c).kind = kind
         /\ writes' \in [Conn -> Seq(Write)]
         /\ \A d \in Conn : ToSet(writes'[d]) \subseteq ToSet(writes[d])
<1>1. writes[c] \in Seq(Write) /\ writes[c] # << >>
  BY DEF Structure, TypeOK, Completes
<1>2. /\ Oldest(c) \in Write /\ Oldest(c) \in ToSet(writes[c])
      /\ Tail(writes[c]) \in Seq(Write) /\ ToSet(Tail(writes[c])) \subseteq ToSet(writes[c])
  BY <1>1, ToSetHeadTail DEF Oldest
<1>3. writes' = [writes EXCEPT ![c] = Tail(@)] /\ Oldest(c).kind = kind
  BY DEF Completes
<1>4. WriteLinked(c, Oldest(c))
  BY <1>2 DEF Structure, Links
<1>5. writes' \in [Conn -> Seq(Write)] /\ \A d \in Conn : ToSet(writes'[d]) \subseteq ToSet(writes[d])
  BY <1>2, <1>3 DEF Structure, TypeOK
<1>6. Oldest(c).of \in Sess /\ Oldest(c).next \in Sess \cup {None}
  BY <1>2 DEF Write
<1> QED BY <1>2, <1>3, <1>4, <1>5, <1>6
-----------------------------------------------------------------------------
(* Structure is inductive, one lemma per group of actions *)

LEMMA StructureAnswered ==
  ASSUME Structure, NEW c \in Conn,
         LogonAnswered(c) \/ LogonAnswerFails(c)
  PROVE  Structure'
<1> USE DEF Structure
<1>1. CASE LogonAnswered(c)
  <2>1. Completes(c, "logon")
    BY <1>1 DEF LogonAnswered
  <2>2. sid[Oldest(c).of] \in SessionId
    BY <2>1, OldestWrite DEF Links, WriteLinked
  <2>3. members' \subseteq Room \X SessionId /\ joined' \subseteq Room \X Sess
    BY <1>1, <2>1, <2>2, OldestWrite DEF TypeOK, LogonAnswered, Rooms!Pairs
  <2>4. TypeOK'
    BY <1>1, <2>1, <2>3, OldestWrite DEF TypeOK, LogonAnswered, networkVars, sessionVars
  <2>5. Links'
    BY <1>1, <2>1, OldestWrite, LinksFrame DEF LogonAnswered, networkVars, sessionVars, Born
  <2> QED BY <2>4, <2>5
<1>2. CASE LogonAnswerFails(c)
  <2>1. Completes(c, "logon") /\ Oldest(c).of \in Sess
    BY <1>2, OldestWrite DEF LogonAnswerFails
  <2>2. sock' \in [Conn -> SockState]
    BY <1>2, SockTypes DEF LogonAnswerFails, TypeOK, SockState
  <2>3. TypeOK'
    BY <1>2, <2>1, <2>2, OldestWrite DEF TypeOK, LogonAnswerFails, roomVars, SockState
  <2>4. Born(Oldest(c).of)
    BY <2>1, OldestWrite DEF WriteLinked
  <2>5. \A s \in Sess : Born(s)' <=> Born(s)
    BY <1>2, <2>1, <2>4 DEF LogonAnswerFails, TypeOK, Born
  <2>6. Links'
    BY <1>2, <2>1, <2>5, OldestWrite, LinksFrame DEF LogonAnswerFails
  <2> QED BY <2>3, <2>6
<1> QED BY <1>1, <1>2

\* What LoggedOut(s) does to the types and to the births.
LEMMA LoggedOutTypes ==
  ASSUME Structure, NEW s \in Sess, Born(s), LoggedOut(s)
  PROVE  /\ state' = [state EXCEPT ![s] = "DISCONNECTED"]
         /\ state' \in [Sess -> {"unborn", "LOGGED_ON", "LOGGING_OUT", "DISCONNECTED", "ERROR"}]
         /\ timer' \subseteq Sess
         /\ listening' \in [Conn -> BOOLEAN] /\ hooks' \in [Conn -> SUBSET Sess]
         /\ \A c \in Conn : hooks'[c] \subseteq hooks[c]
         /\ members' \subseteq Room \X SessionId
         /\ \A t \in Sess : Born(t)' <=> Born(t)
         /\ UNCHANGED <<conn, sid, joined>>
<1>1. Deafened({s}) /\ TypeOK
  BY DEF LoggedOut, Structure
<1>2. members' \subseteq Room \X SessionId
  BY <1>1, RegistryTypes DEF LoggedOut
<1>3. state' = [state EXCEPT ![s] = "DISCONNECTED"] /\ timer' = timer \ {s} /\ UNCHANGED <<conn, sid, joined>>
  BY DEF LoggedOut
<1>4. \A t \in Sess : Born(t)' <=> Born(t)
  BY <1>1, <1>3 DEF TypeOK, Born
<1> QED BY <1>1, <1>2, <1>3, <1>4, DeafenedTypes DEF TypeOK

LEMMA StructureLoggedOut ==
  ASSUME Structure, NEW c \in Conn,
         \/ LogoutWrittenForSuccessor(c) \/ LogoutWrittenForStop(c)
         \/ \E i \in SessionId : ReceiveLogout(c, i)
  PROVE  Structure'
<1> USE DEF Structure
<1>1. CASE LogoutWrittenForSuccessor(c)
  <2> DEFINE old == Oldest(c).of
             new == Oldest(c).next
  <2>1. Completes(c, "logout") /\ new # None /\ LoggedOut(old)
    BY <1>1 DEF LogoutWrittenForSuccessor
  <2>2. /\ old \in Sess /\ Born(old) /\ new \in Sess /\ Born(new)
        /\ sid[new] = sid[old] /\ sid[new] \in SessionId
    BY <2>1, OldestWrite DEF WriteLinked, Links
  <2>3. Enrol(Without({sid[old]}), sid[new], new) /\ sock' = Ended(sock, {c})
        /\ UNCHANGED <<activeSockets, auths, doomed>>
    BY <1>1 DEF LogoutWrittenForSuccessor
  <2> HIDE DEF old, new
  <2>4. /\ sessions' \in [SessionId -> Sess \cup {None}] /\ process' \in {process, "crashed"}
        /\ \A j \in SessionId : sessions'[j] \in {None, sessions[j]} \/ (j = sid[new] /\ sessions'[j] = new)
    BY <2>2, <2>3, EnrolTypes, RegistryTypes
  <2>5. sock' \in [Conn -> SockState]
    BY <2>3, SockTypes DEF TypeOK, SockState
  <2>6. TypeOK'
    BY <2>1, <2>2, <2>3, <2>4, <2>5, LoggedOutTypes, OldestWrite DEF TypeOK, SockState
  <2>7. Links'
    <3>1. (\A s \in Sess : Born(s) => conn[s] \in Conn /\ sid[s] \in SessionId)'
      BY <2>1, <2>2, LoggedOutTypes DEF Links
    <3>2. (\A i \in SessionId : sessions[i] # None => Born(sessions[i]) /\ sid[sessions[i]] = i)'
      <4> SUFFICES ASSUME NEW i \in SessionId, sessions'[i] # None
                   PROVE  (Born(sessions[i]) /\ sid[sessions[i]] = i)'
        OBVIOUS
      <4>0. ASSUME sessions'[i] \in {None, sessions[i]}
            PROVE  sessions'[i] \in Sess /\ Born(sessions'[i]) /\ sid[sessions'[i]] = i
        <5>1. sessions'[i] = sessions[i] /\ sessions[i] \in Sess /\ sessions[i] # None
          BY <4>0 DEF TypeOK
        <5>2. Born(sessions[i]) /\ sid[sessions[i]] = i
          BY <5>1 DEF Links
        <5> QED BY <5>1, <5>2
      <4>1. sessions'[i] \in Sess /\ Born(sessions'[i]) /\ sid[sessions'[i]] = i
        <5>1. CASE i = sid[new] /\ sessions'[i] = new
          BY <2>2, <5>1
        <5> QED BY <2>4, <4>0, <5>1
      <4>2. \A t \in Sess : Born(t) => state'[t] # "unborn"
        BY <2>1, <2>2, LoggedOutTypes DEF Born
      <4>3. sid' = sid
        BY <2>1, <2>2, LoggedOutTypes
      <4> QED BY <4>1, <4>2, <4>3 DEF Born
    <3>3. (\A d \in Conn : \A s \in hooks[d] : Born(s) /\ conn[s] = d)'
      <4> SUFFICES ASSUME NEW d \in Conn, NEW s \in hooks'[d]
                   PROVE  (Born(s) /\ conn[s] = d)'
        OBVIOUS
      <4>1. s \in hooks[d] /\ s \in Sess
        BY <2>1, <2>2, LoggedOutTypes DEF TypeOK
      <4>2. Born(s) /\ conn[s] = d
        BY <4>1 DEF Links
      <4> QED BY <2>1, <2>2, <4>1, <4>2, LoggedOutTypes
    <3>4. (\A d \in Conn : \A w \in ToSet(writes[d]) : WriteLinked(d, w))'
      <4> SUFFICES ASSUME NEW d \in Conn, NEW w \in ToSet(writes'[d])
                   PROVE  WriteLinked(d, w)'
        OBVIOUS
      <4>1. w \in ToSet(writes[d]) /\ writes[d] \in Seq(Write)
        BY <2>1, OldestWrite DEF TypeOK
      <4>2. w \in Write /\ WriteLinked(d, w)
        BY <4>1, ToSetOfSeq DEF Links
      <4>3. w.of \in Sess /\ w.next \in Sess \cup {None}
        BY <4>2 DEF Write
      <4> QED BY <2>1, <2>2, <4>2, <4>3, LoggedOutTypes DEF WriteLinked
    <3> QED BY <3>1, <3>2, <3>3, <3>4 DEF Links
  <2> QED BY <2>6, <2>7
<1>2. CASE LogoutWrittenForStop(c)
  <2> DEFINE s == Oldest(c).of
  <2>1. Completes(c, "logout") /\ LoggedOut(s) /\ UNCHANGED <<auths, doomed>>
    BY <1>2 DEF LogoutWrittenForStop
  <2>2. s \in Sess /\ Born(s)
    BY <2>1, OldestWrite DEF WriteLinked
  <2>3. /\ process' \in {process, "closing"}
        /\ sessions' \in [SessionId -> Sess \cup {None}]
        /\ \A i \in SessionId : sessions'[i] \in {None, sessions[i]}
        /\ sock' \in [Conn -> SockState]
        /\ activeSockets' \subseteq Conn
    <3>1. Ended(sock, {c}) \in [Conn -> SockState]
      BY SockTypes DEF TypeOK, SockState
    <3>2. CASE FinishStop(Ended(sock, {c}))
      BY <3>1, <3>2, SockTypes DEF FinishStop, TypeOK
    <3>3. CASE /\ sock' = Ended(sock, {c}) /\ sessions' = Without({sid[s]})
               /\ UNCHANGED <<process, activeSockets>>
      BY <3>1, <3>3, RegistryTypes DEF TypeOK
    <3> QED BY <1>2, <3>2, <3>3 DEF LogoutWrittenForStop
  <2> HIDE DEF s
  <2>4. TypeOK'
    BY <2>1, <2>2, <2>3, LoggedOutTypes, OldestWrite DEF TypeOK, SockState
  <2>5. Links'
    BY <2>1, <2>2, <2>3, LoggedOutTypes, OldestWrite, LinksFrame
  <2> QED BY <2>4, <2>5
<1>3. ASSUME NEW i \in SessionId, ReceiveLogout(c, i) PROVE Structure'
  <2> DEFINE s == sessions[i]
  <2>1. /\ s # None /\ LoggedOut(s) /\ sock' = Ended(sock, {conn[s]}) /\ sessions' = Without({i})
        /\ UNCHANGED <<process, activeSockets, auths, writes, doomed>>
    BY <1>3 DEF ReceiveLogout
  <2>2. s \in Sess /\ Born(s)
    BY <2>1 DEF TypeOK, Links
  <2> HIDE DEF s
  <2>3. sock' \in [Conn -> SockState]
    BY <2>1, SockTypes DEF TypeOK, SockState
  <2>4. TypeOK'
    BY <2>1, <2>2, <2>3, LoggedOutTypes, RegistryTypes DEF TypeOK, SockState
  <2>5. Links'
    BY <2>1, <2>2, LoggedOutTypes, RegistryTypes, LinksFrame
  <2> QED BY <2>4, <2>5
<1> QED BY <1>1, <1>2, <1>3
-----------------------------------------------------------------------------
(* Admission *)

\* The birth of session s for identifier i on socket c: the only new links are
\* those of s itself and of the Logout write it waits for.
Birth(c, i, s) ==
  /\ sid' = [sid EXCEPT ![s] = i] /\ conn' = [conn EXCEPT ![s] = c]
  /\ \A t \in Sess : Born(t)' <=> (Born(t) \/ t = s)
  /\ \A j \in SessionId : sessions'[j] \in {None, sessions[j]} \/ (j = i /\ sessions'[j] = s)
  /\ \A d \in Conn : \A t \in hooks'[d] : t \in hooks[d] \/ (d = c /\ t = s)
  /\ \A d \in Conn : \A w \in ToSet(writes'[d]) :
       \/ w \in ToSet(writes[d])
       \/ d = c /\ w = LogonWrite(s)
       \/ sessions[i] # None /\ d = conn[sessions[i]] /\ w = LogoutWrite(sessions[i], s)

\* A birth keeps the links.
LEMMA LinksBirth ==
  ASSUME Structure, NEW c \in Conn, NEW i \in SessionId, NEW s \in Sess, ~Born(s), Birth(c, i, s)
  PROVE  Links'
<1> USE DEF Birth
<1> USE DEF Structure
<1>1. /\ sid'[s] = i /\ conn'[s] = c
      /\ \A t \in Sess : t # s => sid'[t] = sid[t] /\ conn'[t] = conn[t]
  BY DEF TypeOK
<1>2. \A t \in Sess : Born(t) => t # s
  OBVIOUS
<1>3. (\A t \in Sess : Born(t) => conn[t] \in Conn /\ sid[t] \in SessionId)'
  BY <1>1, <1>2 DEF Links
<1>4. (\A j \in SessionId : sessions[j] # None => Born(sessions[j]) /\ sid[sessions[j]] = j)'
  <2> SUFFICES ASSUME NEW j \in SessionId, sessions'[j] # None
               PROVE  (Born(sessions[j]) /\ sid[sessions[j]] = j)'
    OBVIOUS
  <2>1. ASSUME sessions'[j] = sessions[j]
        PROVE  sessions[j] \in Sess /\ Born(sessions[j]) /\ sid[sessions[j]] = j
    BY <2>1, RegisteredLinked
  <2>2. CASE sessions'[j] = sessions[j]
    BY <1>1, <1>2, <2>1, <2>2 DEF Born
  <2>3. CASE j = i /\ sessions'[j] = s
    BY <1>1, <2>3 DEF Born
  <2> QED BY <2>2, <2>3
<1>5. (\A d \in Conn : \A t \in hooks[d] : Born(t) /\ conn[t] = d)'
  <2> SUFFICES ASSUME NEW d \in Conn, NEW t \in hooks'[d]
               PROVE  (Born(t) /\ conn[t] = d)'
    OBVIOUS
  <2>1. CASE t \in hooks[d]
    <3>1. t \in Sess /\ Born(t) /\ conn[t] = d
      BY <2>1 DEF Links, TypeOK
    <3> QED BY <1>1, <1>2, <3>1
  <2>2. CASE d = c /\ t = s
    BY <1>1, <2>2
  <2> QED BY <2>1, <2>2
<1>6. (\A d \in Conn : \A w \in ToSet(writes[d]) : WriteLinked(d, w))'
  <2> SUFFICES ASSUME NEW d \in Conn, NEW w \in ToSet(writes'[d])
               PROVE  WriteLinked(d, w)'
    OBVIOUS
  <2>1. CASE w \in ToSet(writes[d])
    <3>1. w \in Write /\ WriteLinked(d, w)
      BY <2>1, ToSetOfSeq DEF Links, TypeOK
    <3>2. w.of \in Sess /\ w.next \in Sess \cup {None}
      BY <3>1 DEF Write
    <3> QED BY <1>1, <1>2, <3>1, <3>2 DEF WriteLinked
  <2>2. CASE d = c /\ w = LogonWrite(s)
    <3>1. w.of = s /\ w.next = None
      BY <2>2 DEF LogonWrite
    <3> QED BY <1>1, <2>2, <3>1 DEF WriteLinked
  <2>3. CASE sessions[i] # None /\ d = conn[sessions[i]] /\ w = LogoutWrite(sessions[i], s)
    <3>1. w.of = sessions[i] /\ w.next = s
      BY <2>3 DEF LogoutWrite
    <3>2. sessions[i] \in Sess /\ Born(sessions[i]) /\ sid[sessions[i]] = i
      BY <2>3, RegisteredLinked
    <3> QED BY <1>1, <1>2, <2>3, <3>1, <3>2 DEF WriteLinked
  <2> QED BY <2>1, <2>2, <2>3
<1> QED BY <1>3, <1>4, <1>5, <1>6 DEF Links

\* Answer writes at most the answer to the logon of s, after what wr holds.
LEMMA AnswerTypes ==
  ASSUME TypeOK, NEW c \in Conn, NEW s \in Sess, NEW wr \in [Conn -> Seq(Write)], Answer(c, s, wr)
  PROVE  /\ conn' = [conn EXCEPT ![s] = c] /\ conn' \in [Sess -> Conn \cup {None}]
         /\ sock' \in [Conn -> SockState]
         /\ writes' \in [Conn -> Seq(Write)]
         /\ \A d \in Conn : \A w \in ToSet(writes'[d]) :
              w \in ToSet(wr[d]) \/ (d = c /\ w = LogonWrite(s))
<1>1. conn' = [conn EXCEPT ![s] = c] /\ conn' \in [Sess -> Conn \cup {None}]
  BY DEF Answer, TypeOK
<1>2. sock' \in [Conn -> SockState]
  BY SockTypes DEF Answer, TypeOK, SockState
<1>3. LogonWrite(s) \in Write /\ wr[c] \in Seq(Write)
  BY DEF LogonWrite, Write
<1>4. Append(wr[c], LogonWrite(s)) \in Seq(Write)
      /\ ToSet(Append(wr[c], LogonWrite(s))) = ToSet(wr[c]) \cup {LogonWrite(s)}
  BY <1>3, ToSetAppend
<1>5. writes' = wr \/ writes' = [wr EXCEPT ![c] = Append(@, LogonWrite(s))]
  BY DEF Answer
<1>6. CASE writes' = wr
  BY <1>1, <1>2, <1>6
<1>7. CASE writes' = [wr EXCEPT ![c] = Append(@, LogonWrite(s))]
  <2>1. writes' \in [Conn -> Seq(Write)]
    BY <1>4, <1>7
  <2>2. \A d \in Conn : \A w \in ToSet(writes'[d]) :
              w \in ToSet(wr[d]) \/ (d = c /\ w = LogonWrite(s))
    BY <1>4, <1>7
  <2> QED BY <1>1, <1>2, <2>1, <2>2
<1> QED BY <1>5, <1>6, <1>7

SessionState == {"unborn", "LOGGED_ON", "LOGGING_OUT", "DISCONNECTED", "ERROR"}

LEMMA AnsweredState == \A c : Answered(c) \in {"LOGGED_ON", "ERROR"}
BY DEF Answered

\* What the three ways of admitting a session have in common.
LEMMA StructureAdmitted ==
  ASSUME Structure, NEW c \in Conn, NEW i \in SessionId, NEW s \in Sess, ~Born(s),
         sid' = [sid EXCEPT ![s] = i],
         \/ AdmitAtOnce(c, i, s) \/ AdmitTakeover(c, i, s) \/ AdmitOverUnwritable(c, i, s)
  PROVE  /\ Links'
         /\ process' \in {process, "crashed"}
         /\ sock' \in [Conn -> SockState]
         /\ listening' \in [Conn -> BOOLEAN] /\ hooks' \in [Conn -> SUBSET Sess]
         /\ state' \in [Sess -> SessionState]
         /\ conn' \in [Sess -> Conn \cup {None}]
         /\ timer' \subseteq Sess
         /\ sessions' \in [SessionId -> Sess \cup {None}]
         /\ members' \subseteq Room \X SessionId
         /\ writes' \in [Conn -> Seq(Write)]
<1> USE DEF Structure, SessionState
<1>1. CASE AdmitAtOnce(c, i, s)
  <2>1. /\ Enrol(sessions, i, s) /\ Answer(c, s, writes)
        /\ state' = [state EXCEPT ![s] = Answered(c)]
        /\ timer' = timer \cup {s}
        /\ hooks' = [hooks EXCEPT ![c] = @ \cup {s}]
        /\ UNCHANGED <<listening, members>>
    BY <1>1 DEF AdmitAtOnce
  <2>2. /\ sessions' \in [SessionId -> Sess \cup {None}] /\ process' \in {process, "crashed"}
        /\ \A j \in SessionId : sessions'[j] = sessions[j] \/ (j = i /\ sessions'[j] = s)
    BY <2>1, EnrolTypes DEF TypeOK
  <2>3. /\ conn' = [conn EXCEPT ![s] = c] /\ conn' \in [Sess -> Conn \cup {None}]
        /\ sock' \in [Conn -> SockState] /\ writes' \in [Conn -> Seq(Write)]
        /\ \A d \in Conn : \A w \in ToSet(writes'[d]) :
             w \in ToSet(writes[d]) \/ (d = c /\ w = LogonWrite(s))
    BY <2>1, AnswerTypes DEF TypeOK
  <2>4. state' \in [Sess -> SessionState] /\ hooks' \in [Conn -> SUBSET Sess] /\ timer' \subseteq Sess
    BY <2>1, AnsweredState DEF TypeOK
  <2>5. \A t \in Sess : Born(t)' <=> (Born(t) \/ t = s)
    BY <2>1, AnsweredState DEF TypeOK, Born
  <2>6. \A d \in Conn : \A t \in hooks'[d] : t \in hooks[d] \/ (d = c /\ t = s)
    BY <2>1 DEF TypeOK
  <2>7. Links'
    <3>1. \A d \in Conn : \A w \in ToSet(writes'[d]) :
           \/ w \in ToSet(writes[d])
           \/ d = c /\ w = LogonWrite(s)
           \/ sessions[i] # None /\ d = conn[sessions[i]] /\ w = LogoutWrite(sessions[i], s)
      BY <2>3
    <3>2. \A j \in SessionId : sessions'[j] \in {None, sessions[j]} \/ (j = i /\ sessions'[j] = s)
      BY <2>2
    <3>3. Birth(c, i, s)
      BY <2>3, <2>5, <2>6, <3>1, <3>2 DEF Birth
    <3> QED BY <3>3, LinksBirth
  <2> QED BY <2>1, <2>2, <2>3, <2>4, <2>7 DEF TypeOK
<1>2. CASE AdmitTakeover(c, i, s)
  <2> DEFINE old == sessions[i]
             wr == [writes EXCEPT ![conn[old]] = Append(@, LogoutWrite(old, s))]
  <2>1. /\ old # None /\ Answer(c, s, wr)
        /\ state' = [state EXCEPT ![old] = "LOGGING_OUT", ![s] = Answered(c)]
        /\ timer' = timer \cup {s}
        /\ hooks' = [hooks EXCEPT ![c] = @ \cup {s}]
        /\ UNCHANGED <<process, listening, sessions, members>>
    BY <1>2 DEF AdmitTakeover
  <2>2. old \in Sess /\ Born(old) /\ conn[old] \in Conn /\ old # s
    BY <2>1, RegisteredLinked
  <2>3. LogoutWrite(old, s) \in Write /\ writes[conn[old]] \in Seq(Write)
    BY <2>2 DEF LogoutWrite, Write, TypeOK
  <2>4. /\ Append(writes[conn[old]], LogoutWrite(old, s)) \in Seq(Write)
        /\ ToSet(Append(writes[conn[old]], LogoutWrite(old, s)))
             = ToSet(writes[conn[old]]) \cup {LogoutWrite(old, s)}
    BY <2>3, ToSetAppend
  <2>5. /\ wr \in [Conn -> Seq(Write)]
        /\ \A d \in Conn : \A w \in ToSet(wr[d]) :
             w \in ToSet(writes[d]) \/ (d = conn[old] /\ w = LogoutWrite(old, s))
    BY <2>2, <2>4 DEF TypeOK
  <2>6. state' \in [Sess -> SessionState] /\ hooks' \in [Conn -> SUBSET Sess] /\ timer' \subseteq Sess
    BY <2>1, <2>2, AnsweredState DEF TypeOK
  <2>7. \A t \in Sess : Born(t)' <=> (Born(t) \/ t = s)
    BY <2>1, <2>2, AnsweredState DEF TypeOK, Born
  <2>8. \A d \in Conn : \A t \in hooks'[d] : t \in hooks[d] \/ (d = c /\ t = s)
    BY <2>1 DEF TypeOK
  <2> HIDE DEF wr
  <2>9. /\ conn' = [conn EXCEPT ![s] = c] /\ conn' \in [Sess -> Conn \cup {None}]
        /\ sock' \in [Conn -> SockState] /\ writes' \in [Conn -> Seq(Write)]
        /\ \A d \in Conn : \A w \in ToSet(writes'[d]) :
             w \in ToSet(wr[d]) \/ (d = c /\ w = LogonWrite(s))
    BY <2>1, <2>5, AnswerTypes
  <2>10. Links'
    <3>1. \A d \in Conn : \A w \in ToSet(writes'[d]) :
           \/ w \in ToSet(writes[d])
           \/ d = c /\ w = LogonWrite(s)
           \/ sessions[i] # None /\ d = conn[sessions[i]] /\ w = LogoutWrite(sessions[i], s)
      BY <2>1, <2>5, <2>9
    <3>2. \A j \in SessionId : sessions'[j] \in {None, sessions[j]} \/ (j = i /\ sessions'[j] = s)
      BY <2>1
    <3> HIDE DEF old
    <3>3. Birth(c, i, s)
      BY <2>7, <2>8, <2>9, <3>1, <3>2 DEF Birth
    <3> QED BY <3>3, LinksBirth
  <2> QED BY <2>1, <2>6, <2>9, <2>10 DEF TypeOK
<1>3. CASE AdmitOverUnwritable(c, i, s)
  <2> DEFINE old == sessions[i]
             deaf == [d \in Conn |-> IF d = conn[old] THEN {} ELSE hooks[d]]
  <2>1. /\ old # None /\ Enrol(Without({i}), i, s) /\ Answer(c, s, writes)
        /\ members' = MembersWithout({i})
        /\ state' = [state EXCEPT ![old] = "DISCONNECTED", ![s] = Answered(c)]
        /\ timer' = (timer \ {old}) \cup {s}
        /\ listening' = [listening EXCEPT ![conn[old]] = FALSE]
        /\ hooks' = [deaf EXCEPT ![c] = @ \cup {s}]
    BY <1>3 DEF AdmitOverUnwritable
  <2>2. old \in Sess /\ Born(old) /\ conn[old] \in Conn /\ old # s
    BY <2>1 DEF TypeOK, Links
  <2>3. /\ sessions' \in [SessionId -> Sess \cup {None}] /\ process' \in {process, "crashed"}
        /\ \A j \in SessionId : sessions'[j] \in {None, sessions[j]} \/ (j = i /\ sessions'[j] = s)
    BY <2>1, EnrolTypes, RegistryTypes
  <2>4. /\ conn' = [conn EXCEPT ![s] = c] /\ conn' \in [Sess -> Conn \cup {None}]
        /\ sock' \in [Conn -> SockState] /\ writes' \in [Conn -> Seq(Write)]
        /\ \A d \in Conn : \A w \in ToSet(writes'[d]) :
             w \in ToSet(writes[d]) \/ (d = c /\ w = LogonWrite(s))
    BY <2>1, AnswerTypes DEF TypeOK
  <2>5. deaf \in [Conn -> SUBSET Sess] /\ \A d \in Conn : deaf[d] \subseteq hooks[d]
    BY DEF TypeOK
  <2>6. /\ hooks' \in [Conn -> SUBSET Sess]
        /\ \A d \in Conn : \A t \in hooks'[d] : t \in hooks[d] \/ (d = c /\ t = s)
    <3> HIDE DEF deaf
    <3> QED BY <2>1, <2>5
  <2>7. /\ state' \in [Sess -> SessionState] /\ timer' \subseteq Sess
        /\ listening' \in [Conn -> BOOLEAN]
    BY <2>1, <2>2, AnsweredState DEF TypeOK
  <2>8. \A t \in Sess : Born(t)' <=> (Born(t) \/ t = s)
    BY <2>1, <2>2, AnsweredState DEF TypeOK, Born
  <2>9. members' \subseteq Room \X SessionId
    BY <2>1, RegistryTypes
  <2> HIDE DEF old, deaf
  <2>10. Links'
    <3>1. \A d \in Conn : \A w \in ToSet(writes'[d]) :
           \/ w \in ToSet(writes[d])
           \/ d = c /\ w = LogonWrite(s)
           \/ sessions[i] # None /\ d = conn[sessions[i]] /\ w = LogoutWrite(sessions[i], s)
      BY <2>4
    <3>2. Birth(c, i, s)
      BY <2>3, <2>4, <2>6, <2>8, <3>1 DEF Birth
    <3> QED BY <3>2, LinksBirth
  <2> QED BY <2>3, <2>4, <2>6, <2>7, <2>9, <2>10
<1> QED BY <1>1, <1>2, <1>3

LEMMA StructureAuthAccepted ==
  ASSUME Structure, NEW c \in Conn, NEW i \in SessionId, AuthAccepted(c, i)
  PROVE  Structure'
<1>1. PICK s \in Sess :
        /\ ~Born(s) /\ sid' = [sid EXCEPT ![s] = i]
        /\ AdmitAtOnce(c, i, s) \/ AdmitTakeover(c, i, s) \/ AdmitOverUnwritable(c, i, s)
  BY DEF AuthAccepted
<1>2. auths' \subseteq auths /\ UNCHANGED <<activeSockets, joined, doomed>>
  BY DEF AuthAccepted
<1>3. sid' \in [Sess -> SessionId \cup {None}]
  BY <1>1 DEF Structure, TypeOK
<1>4. TypeOK'
  BY <1>1, <1>2, <1>3, StructureAdmitted DEF Structure, TypeOK, SockState, SessionState
<1> QED BY <1>1, <1>4, StructureAdmitted DEF Structure
-----------------------------------------------------------------------------
(* The other actions *)

\* Actions that touch neither sessions, registry, close hooks nor writes.
LEMMA StructureNetwork ==
  ASSUME Structure, NEW c \in Conn,
         \/ Connect(c) \/ ReceiveRefused(c) \/ ReceiveMalformed(c) \/ DelayedDestroy(c)
         \/ PeerCloses(c) \/ SocketError(c)
         \/ \E i \in SessionId : ReceiveLogon(c, i) \/ AuthRejected(c, i)
         \/ \E i \in SessionId, r \in Room : ReceiveJoin(c, i, r) \/ ReceiveLeave(c, i, r)
  PROVE  Structure'
<1> USE DEF Structure, networkVars, sessionVars, roomVars, SockState
<1>0. /\ Destroyed(sock, {c}) \in [Conn -> SockState]
      /\ Ended(sock, {c}) \in [Conn -> SockState]
  BY SockTypes DEF TypeOK
<1>1. UNCHANGED <<sessionVars, sessions, hooks, writes>>
  BY DEF Connect, ReceiveRefused, ReceiveMalformed, DelayedDestroy, PeerCloses, SocketError,
         ReceiveLogon, AuthRejected, ReceiveJoin, ReceiveLeave, SendLogoutAndClose
<1>2. Links'
  BY <1>1, LinksFrame DEF Born
<1>3. CASE Connect(c)
  BY <1>2, <1>3 DEF Connect, TypeOK
<1>4. CASE ReceiveMalformed(c) \/ DelayedDestroy(c) \/ PeerCloses(c) \/ SocketError(c)
  <2>1. /\ sock' \in {Destroyed(sock, {c}), Ended(sock, {c})} /\ process' \in {process, "crashed"}
        /\ doomed' \subseteq doomed
        /\ UNCHANGED <<listening, activeSockets, auths, members, joined>>
    BY <1>4 DEF ReceiveMalformed, DelayedDestroy, PeerCloses, SocketError
  <2> QED BY <1>0, <1>1, <1>2, <2>1 DEF TypeOK
<1>5. CASE ReceiveRefused(c) \/ \E i \in SessionId : AuthRejected(c, i)
  <2>1. SendLogoutAndClose(c) /\ auths' \subseteq auths
    BY <1>5 DEF ReceiveRefused, AuthRejected
  <2>2. /\ sock' \in {sock, Destroyed(sock, {c})} /\ process' \in {process, "crashed"}
        /\ doomed' = doomed \cup {c}
        /\ UNCHANGED <<listening, activeSockets, members, joined>>
    BY <2>1 DEF SendLogoutAndClose
  <2> QED BY <1>0, <1>1, <1>2, <2>1, <2>2 DEF TypeOK
<1>6. ASSUME NEW i \in SessionId, ReceiveLogon(c, i) PROVE Structure'
  <2>1. auths' = auths \cup {<<c, i>>} /\ UNCHANGED <<process, networkVars, sessionVars, sessions, roomVars, writes, doomed>>
    BY <1>6 DEF ReceiveLogon
  <2>2. auths' \subseteq Conn \X SessionId
    <3>1. auths \subseteq Conn \X SessionId
      BY DEF TypeOK
    <3>2. auths \cup {<<c, i>>} \subseteq Conn \X SessionId
      BY <3>1, AddPair
    <3> QED BY <2>1, <3>2
  <2> QED BY <1>2, <2>1, <2>2 DEF TypeOK
<1>7. ASSUME NEW i \in SessionId, NEW r \in Room, ReceiveJoin(c, i, r) \/ ReceiveLeave(c, i, r)
      PROVE  Structure'
  <2>1. sessions[i] \in Sess
    BY <1>7, RegisteredLinked DEF ReceiveJoin, ReceiveLeave
  <2>2. /\ members' = members \cup Rooms!Pairs({r}, i) \/ members' = members \ Rooms!Pairs({r}, i)
        /\ joined' = joined \cup {<<r, sessions[i]>>} \/ joined' = joined \ {<<r, sessions[i]>>}
        /\ UNCHANGED <<process, sock, listening, activeSockets, auths, doomed>>
    BY <1>7 DEF ReceiveJoin, ReceiveLeave
  <2>3. members \subseteq Room \X SessionId /\ joined \subseteq Room \X Sess
    BY DEF TypeOK
  <2>4. members' \subseteq Room \X SessionId
    <3>1. Rooms!Pairs({r}, i) = {<<r, i>>}
      BY DEF Rooms!Pairs
    <3>2. members \cup {<<r, i>>} \subseteq Room \X SessionId
      BY <2>3, AddPair
    <3> QED BY <2>2, <2>3, <3>1, <3>2
  <2>5. joined' \subseteq Room \X Sess
    <3>1. joined \cup {<<r, sessions[i]>>} \subseteq Room \X Sess
      BY <2>1, <2>3, AddPair
    <3> QED BY <2>2, <2>3, <3>1
  <2> QED BY <1>1, <1>2, <2>2, <2>4, <2>5 DEF TypeOK
<1> QED BY <1>3, <1>4, <1>5, <1>6, <1>7

LEMMA StructureSocketClosed ==
  ASSUME Structure, NEW c \in Conn, SocketClosed(c)
  PROVE  Structure'
<1> USE DEF Structure, SockState, SessionState
<1> DEFINE gone == (IF listening[c] THEN {s \in Registered : conn[s] = c} ELSE {}) \cup hooks[c]
           ids == {sid[s] : s \in gone}
<1>1. /\ sock' = [sock EXCEPT ![c] = "closed"]
      /\ listening' = [listening EXCEPT ![c] = FALSE]
      /\ hooks' = [hooks EXCEPT ![c] = {}]
      /\ activeSockets' \subseteq activeSockets
      /\ state' = [s \in Sess |-> IF s \in gone THEN "DISCONNECTED" ELSE state[s]]
      /\ timer' = timer \ gone
      /\ sessions' = Without(ids)
      /\ members' = MembersWithout(ids)
      /\ UNCHANGED <<process, conn, sid, joined, auths, writes, doomed>>
  BY DEF SocketClosed
<1>2. \A s \in gone : s \in Sess /\ Born(s)
  <2>1. \A s \in Registered : s \in Sess /\ Born(s)
    BY RegisteredLinked, NoneAssumption DEF Registered
  <2> QED BY <2>1 DEF Links, TypeOK
<1> HIDE DEF gone, ids
<1>3. TypeOK'
  BY <1>1, RegistryTypes DEF TypeOK
<1>4. \A s \in Sess : Born(s)' <=> Born(s)
  BY <1>1, <1>2 DEF Born
<1>5. Links'
  BY <1>1, <1>4, RegistryTypes, LinksFrame DEF TypeOK
<1> QED BY <1>3, <1>5

\* The Logout writes stop() adds are those of registered sessions of the socket.
LEMMA StopWrites ==
  ASSUME Structure, NEW S, S \subseteq Registered, NEW c \in Conn
  PROVE  LET L == {LogoutWrite(s, None) : s \in {t \in S : conn[t] = c}}
         IN  IsFiniteSet(L) /\ SetToSeq(L) \in Seq(L) /\ L \subseteq Write
<1> DEFINE L == {LogoutWrite(s, None) : s \in {t \in S : conn[t] = c}}
           I == {i \in SessionId : sessions[i] \in S /\ conn[sessions[i]] = c}
<1>1. IsFiniteSet(I)
  BY SessionIdAssumption, FS_Subset
<1>2. L = {LogoutWrite(sessions[i], None) : i \in I}
  BY DEF Registered
<1>3. IsFiniteSet(L)
  <2> DEFINE f == [i \in I |-> LogoutWrite(sessions[i], None)]
  <2>1. f \in Surjection(I, L)
    BY <1>2 DEF Surjection
  <2> HIDE DEF I, L, f
  <2> QED BY <1>1, <2>1, FS_Surjection
<1>4. L \subseteq Write
  BY DEF Registered, LogoutWrite, Write
<1> HIDE DEF L
<1>5. SetToSeq(L) \in Seq(L)
  BY <1>3, SetToSeqIsSeq
<1> QED BY <1>3, <1>4, <1>5 DEF L
LEMMA StructureStop ==
  ASSUME Structure, Stop
  PROVE  Structure'
<1> USE DEF Structure, SockState, SessionState
<1> DEFINE dead == {s \in Registered : state[s] = "DISCONNECTED"}
           mute == {s \in Registered \ dead : ~Writable(conn[s])}
           told == (Registered \ dead) \ mute
           ids == {sid[s] : s \in mute}
           L(c) == {LogoutWrite(s, None) : s \in {t \in told : conn[t] = c}}
<1>1. /\ state' = [s \in Sess |-> IF s \in told THEN "LOGGING_OUT"
                                ELSE IF s \in mute THEN "DISCONNECTED" ELSE state[s]]
      /\ timer' = timer \ mute
      /\ Deafened(mute)
      /\ members' = MembersWithout(ids)
      /\ writes' = [c \in Conn |-> writes[c] \o SetToSeq(L(c))]
      /\ \/ FinishStop(sock)
         \/ /\ process' \in {"stopping", "stop failed"} /\ sessions' = Without(ids)
            /\ UNCHANGED <<sock, activeSockets>>
      /\ UNCHANGED <<conn, sid, joined, auths, doomed>>
  BY DEF Stop
<1>2. \A s \in Registered : s \in Sess /\ Born(s)
  BY RegisteredLinked, NoneAssumption DEF Registered
<1>3. mute \subseteq Registered /\ told \subseteq Registered
  OBVIOUS
<1>4. \A c \in Conn : SetToSeq(L(c)) \in Seq(L(c)) /\ L(c) \subseteq Write
  <2> HIDE DEF told
  <2> QED BY <1>3, StopWrites
<1> HIDE DEF dead, mute, told, ids
<1>5. /\ process' \in {"closing", "stopping", "stop failed"}
      /\ sessions' \in [SessionId -> Sess \cup {None}]
      /\ \A i \in SessionId : sessions'[i] \in {None, sessions[i]}
      /\ sock' \in [Conn -> SockState] /\ activeSockets' \subseteq Conn
  <2>1. CASE FinishStop(sock)
    BY <2>1, SockTypes DEF FinishStop, TypeOK
  <2>2. CASE /\ process' \in {"stopping", "stop failed"} /\ sessions' = Without(ids)
             /\ UNCHANGED <<sock, activeSockets>>
    BY <2>2, RegistryTypes DEF TypeOK
  <2> QED BY <1>1, <2>1, <2>2
<1>6. \A c \in Conn : /\ writes'[c] \in Seq(Write)
                      /\ \A w \in ToSet(writes'[c]) : w \in ToSet(writes[c]) \/ w \in L(c)
  <2> SUFFICES ASSUME NEW c \in Conn
               PROVE  /\ writes'[c] \in Seq(Write)
                      /\ \A w \in ToSet(writes'[c]) : w \in ToSet(writes[c]) \/ w \in L(c)
    OBVIOUS
  <2>1. SetToSeq(L(c)) \in Seq(L(c)) /\ L(c) \subseteq Write
    BY <1>4
  <2>2. writes'[c] = writes[c] \o SetToSeq(L(c)) /\ writes[c] \in Seq(Write)
    BY <1>1 DEF TypeOK
  <2> HIDE DEF L
  <2>3. SetToSeq(L(c)) \in Seq(Write) /\ ToSet(SetToSeq(L(c))) \subseteq L(c)
    BY <2>1, ToSetOfSeq
  <2> QED BY <2>2, <2>3, ToSetConcat
<1>7. TypeOK'
  <2>1. writes' \in [Conn -> Seq(Write)]
    BY <1>1, <1>6
  <2>2. state' \in [Sess -> SessionState] /\ timer' \subseteq Sess /\ members' \subseteq Room \X SessionId
    BY <1>1, RegistryTypes DEF TypeOK
  <2> QED BY <1>1, <1>5, <2>1, <2>2, DeafenedTypes DEF TypeOK
<1>8. /\ \A s \in Sess : Born(s)' <=> Born(s)
      /\ UNCHANGED <<conn, sid>>
  BY <1>1, <1>2, <1>3 DEF Born
<1>9. \A c \in Conn : \A w \in ToSet(writes'[c]) : WriteLinked(c, w)'
  <2> SUFFICES ASSUME NEW c \in Conn, NEW w \in ToSet(writes'[c]) PROVE WriteLinked(c, w)'
    OBVIOUS
  <2>1. CASE w \in ToSet(writes[c])
    <3>1. w \in Write /\ WriteLinked(c, w)
      BY <2>1, ToSetOfSeq DEF Links, TypeOK
    <3>2. w.of \in Sess /\ w.next \in Sess \cup {None}
      BY <3>1 DEF Write
    <3> QED BY <1>8, <3>1, <3>2 DEF WriteLinked
  <2>2. CASE w \in L(c)
    <3>1. PICK s \in told : conn[s] = c /\ w = LogoutWrite(s, None)
      BY <2>2
    <3>2. w.of = s /\ w.next = None /\ s \in Sess /\ Born(s)
      BY <1>2, <1>3, <3>1 DEF LogoutWrite
    <3> QED BY <1>8, <3>1, <3>2 DEF WriteLinked
  <2> QED BY <1>6, <2>1, <2>2
<1>10. /\ \A c \in Conn : hooks'[c] \subseteq hooks[c]
       /\ \A c \in Conn : hooks[c] \subseteq Sess
  BY <1>1, DeafenedTypes DEF TypeOK
<1>11. Links'
  <2>1. (\A s \in Sess : Born(s) => conn[s] \in Conn /\ sid[s] \in SessionId)'
    BY <1>8 DEF Links
  <2>2. (\A i \in SessionId : sessions[i] # None => Born(sessions[i]) /\ sid[sessions[i]] = i)'
    <3> SUFFICES ASSUME NEW i \in SessionId, sessions'[i] # None
                 PROVE  (Born(sessions[i]) /\ sid[sessions[i]] = i)'
      OBVIOUS
    <3>1. sessions'[i] = sessions[i]
      BY <1>5
    <3>2. sessions[i] \in Sess /\ Born(sessions[i]) /\ sid[sessions[i]] = i
      BY <3>1, RegisteredLinked
    <3> QED BY <1>8, <3>1, <3>2 DEF Born
  <2>3. (\A c \in Conn : \A s \in hooks[c] : Born(s) /\ conn[s] = c)'
    <3> SUFFICES ASSUME NEW c \in Conn, NEW s \in hooks'[c] PROVE (Born(s) /\ conn[s] = c)'
      OBVIOUS
    <3>1. s \in hooks[c] /\ s \in Sess
      BY <1>10
    <3>2. Born(s) /\ conn[s] = c
      BY <3>1 DEF Links
    <3> QED BY <1>8, <3>1, <3>2
  <2> QED BY <1>9, <2>1, <2>2, <2>3 DEF Links
<1> QED BY <1>7, <1>11

\* Nothing happens, or the callback of server.close() ends stop().
Still ==
  /\ UNCHANGED <<networkVars, sessionVars, sessions, roomVars, auths, writes, doomed>>
  /\ process' = process \/ (process = "closing" /\ process' = "stopped")

LEMMA StillSteps == UNCHANGED vars \/ ServerClosed => Still
BY DEF vars, ServerClosed, Still

LEMMA StructureStep == Structure /\ [Next]_vars => Structure'
<1> SUFFICES ASSUME Structure, [Next]_vars PROVE Structure'
  OBVIOUS
<1>1. CASE Still
  <2>1. TypeOK'
    BY <1>1 DEF Structure, TypeOK, Still, networkVars, sessionVars, roomVars
  <2>2. Links'
    BY <1>1, LinksFrame DEF Structure, Born, Still, networkVars, sessionVars, roomVars
  <2> QED BY <2>1, <2>2 DEF Structure
<1>2. CASE Stop
  BY <1>2, StructureStop
<1>3. ASSUME NEW c \in Conn, NEW i \in SessionId, AuthAccepted(c, i) PROVE Structure'
  BY <1>3, StructureAuthAccepted
<1> QED BY <1>1, <1>2, <1>3, StructureNetwork, StructureAnswered, StructureLoggedOut,
           StructureSocketClosed, StillSteps DEF Next

\* Every variable has its type, whatever the peers do.
THEOREM TypeCorrect == Spec => []TypeOK
<1>1. Structure => TypeOK
  BY DEF Structure
<1> QED BY <1>1, StructureInit, StructureStep, PTL DEF Spec
-----------------------------------------------------------------------------
(* Further invariants, each by one more induction over Structure *)

\* Actions that leave state and timer alone, or send one session to ERROR.
Quiescent(c) ==
  \/ Connect(c) \/ ReceiveRefused(c) \/ ReceiveMalformed(c) \/ DelayedDestroy(c)
  \/ PeerCloses(c) \/ SocketError(c)
  \/ \E i \in SessionId : ReceiveLogon(c, i) \/ AuthRejected(c, i)
  \/ \E i \in SessionId, r \in Room : ReceiveJoin(c, i, r) \/ ReceiveLeave(c, i, r)

LEMMA QuiescentFrame ==
  ASSUME NEW c \in Conn, Quiescent(c)
  PROVE  /\ UNCHANGED <<state, conn, sid, timer, sessions, hooks, writes>>
         /\ \/ UNCHANGED <<sock, listening>>
            \/ sock' \in {Destroyed(sock, {c}), Ended(sock, {c})} /\ UNCHANGED listening
            \/ sock' = [sock EXCEPT ![c] = "open"] /\ listening' = [listening EXCEPT ![c] = TRUE]
               /\ sock[c] = "unused"
BY DEF Quiescent, Connect, ReceiveRefused, ReceiveMalformed, DelayedDestroy, PeerCloses, SocketError,
       ReceiveLogon, AuthRejected, ReceiveJoin, ReceiveLeave, SendLogoutAndClose, networkVars, sessionVars

\* The cases of a step, grouped as the proofs below use them.
LEMMA StepCases ==
  ASSUME [Next]_vars
  PROVE  \/ Still
         \/ Stop
         \/ \E c \in Conn :
              \/ Quiescent(c) \/ LogonAnswered(c) \/ LogonAnswerFails(c) \/ SocketClosed(c)
              \/ LogoutWrittenForSuccessor(c) \/ LogoutWrittenForStop(c)
              \/ \E i \in SessionId : AuthAccepted(c, i) \/ ReceiveLogout(c, i)
BY StillSteps DEF Next, Quiescent

\* Whoever logs a session out, it is a born one.
LEMMA LogoutCases ==
  ASSUME Structure, NEW c \in Conn,
         \/ LogoutWrittenForSuccessor(c) \/ LogoutWrittenForStop(c)
         \/ \E i \in SessionId : ReceiveLogout(c, i)
  PROVE  \E s \in Sess : /\ Born(s) /\ LoggedOut(s)
                         /\ \A d \in Conn : ToSet(writes'[d]) \subseteq ToSet(writes[d])
<1>1. CASE LogoutWrittenForSuccessor(c) \/ LogoutWrittenForStop(c)
  <2>1. Completes(c, "logout") /\ LoggedOut(Oldest(c).of)
    BY <1>1 DEF LogoutWrittenForSuccessor, LogoutWrittenForStop
  <2> QED BY <2>1, OldestWrite DEF WriteLinked
<1>2. ASSUME NEW i \in SessionId, ReceiveLogout(c, i)
      PROVE  \E s \in Sess : /\ Born(s) /\ LoggedOut(s)
                             /\ \A d \in Conn : ToSet(writes'[d]) \subseteq ToSet(writes[d])
  <2>1. sessions[i] # None /\ LoggedOut(sessions[i]) /\ UNCHANGED writes
    BY <1>2 DEF ReceiveLogout
  <2> QED BY <2>1, RegisteredLinked
<1> QED BY <1>1, <1>2

\* What an admission does to the session it creates and to the older one.
LEMMA AdmissionCases ==
  ASSUME Structure, NEW c \in Conn, NEW i \in SessionId, AuthAccepted(c, i)
  PROVE  \E s \in Sess : \E st \in {"LOGGED_ON", "ERROR"} :
           /\ ~Born(s) /\ conn' = [conn EXCEPT ![s] = c]
           /\ AdmitAtOnce(c, i, s) \/ AdmitTakeover(c, i, s) \/ AdmitOverUnwritable(c, i, s)
           /\ \/ state' = [state EXCEPT ![s] = st] /\ timer' = timer \cup {s}
              \/ /\ sessions[i] \in Sess /\ sessions[i] # s /\ Born(sessions[i])
                 /\ \/ /\ state' = [state EXCEPT ![sessions[i]] = "LOGGING_OUT", ![s] = st]
                       /\ timer' = timer \cup {s}
                    \/ /\ state' = [state EXCEPT ![sessions[i]] = "DISCONNECTED", ![s] = st]
                       /\ timer' = (timer \ {sessions[i]}) \cup {s}
<1>1. PICK s \in Sess :
        /\ ~Born(s)
        /\ AdmitAtOnce(c, i, s) \/ AdmitTakeover(c, i, s) \/ AdmitOverUnwritable(c, i, s)
  BY DEF AuthAccepted
<1>2. conn' = [conn EXCEPT ![s] = c]
  BY <1>1 DEF AdmitAtOnce, AdmitTakeover, AdmitOverUnwritable, Answer
<1>3. Answered(c) \in {"LOGGED_ON", "ERROR"}
  BY AnsweredState
<1>4. CASE AdmitAtOnce(c, i, s)
  BY <1>1, <1>2, <1>3, <1>4 DEF AdmitAtOnce
<1>5. CASE AdmitTakeover(c, i, s)
  <2>1. /\ sessions[i] # None /\ timer' = timer \cup {s}
        /\ state' = [state EXCEPT ![sessions[i]] = "LOGGING_OUT", ![s] = Answered(c)]
    BY <1>5 DEF AdmitTakeover
  <2>2. sessions[i] \in Sess /\ Born(sessions[i])
    BY <2>1, RegisteredLinked
  <2> QED BY <1>1, <1>2, <1>3, <2>1, <2>2
<1>6. CASE AdmitOverUnwritable(c, i, s)
  <2>1. /\ sessions[i] # None /\ timer' = (timer \ {sessions[i]}) \cup {s}
        /\ state' = [state EXCEPT ![sessions[i]] = "DISCONNECTED", ![s] = Answered(c)]
    BY <1>6 DEF AdmitOverUnwritable
  <2>2. sessions[i] \in Sess /\ Born(sessions[i])
    BY <2>1, RegisteredLinked
  <2> QED BY <1>1, <1>2, <1>3, <2>1, <2>2
<1> QED BY <1>1, <1>4, <1>5, <1>6

-----------------------------------------------------------------------------
(* Heartbeat timers *)

LEMMA TimerStep ==
  Structure /\ TimerFollowsState /\ [Next]_vars => TimerFollowsState'
<1> SUFFICES ASSUME Structure, TimerFollowsState, [Next]_vars PROVE TimerFollowsState'
  OBVIOUS
<1> USE DEF TimerFollowsState
<1>0. state \in [Sess -> SessionState] /\ timer \subseteq Sess
  BY DEF Structure, TypeOK, SessionState
<1>1. CASE Still
  BY <1>1 DEF Still, sessionVars
<1>2. CASE Stop
  <2> DEFINE dead == {s \in Registered : state[s] = "DISCONNECTED"}
             mute == {s \in Registered \ dead : ~Writable(conn[s])}
             told == (Registered \ dead) \ mute
  <2>1. /\ state' = [s \in Sess |-> IF s \in told THEN "LOGGING_OUT"
                                ELSE IF s \in mute THEN "DISCONNECTED" ELSE state[s]]
        /\ timer' = timer \ mute
    BY <1>2 DEF Stop
  <2>2. told \cap mute = {}
    OBVIOUS
  <2> HIDE DEF dead, mute, told
  <2> QED BY <2>1, <2>2
<1>3. ASSUME NEW c \in Conn, Quiescent(c) PROVE TimerFollowsState'
  BY <1>3, QuiescentFrame
<1>4. ASSUME NEW c \in Conn, LogonAnswered(c) PROVE TimerFollowsState'
  BY <1>4 DEF LogonAnswered, sessionVars
<1>5. ASSUME NEW c \in Conn, LogonAnswerFails(c) PROVE TimerFollowsState'
  BY <1>0, <1>5 DEF LogonAnswerFails
<1>6. ASSUME NEW c \in Conn, SocketClosed(c) PROVE TimerFollowsState'
  BY <1>6 DEF SocketClosed
<1>7. ASSUME NEW c \in Conn,
             \/ LogoutWrittenForSuccessor(c) \/ LogoutWrittenForStop(c)
             \/ \E i \in SessionId : ReceiveLogout(c, i)
      PROVE  TimerFollowsState'
  BY <1>0, <1>7, LogoutCases DEF LoggedOut
<1>8. ASSUME NEW c \in Conn, NEW i \in SessionId, AuthAccepted(c, i) PROVE TimerFollowsState'
  BY <1>0, <1>8, AdmissionCases
<1> QED BY <1>1, <1>2, <1>3, <1>4, <1>5, <1>6, <1>7, <1>8, StepCases

\* A logged-on session has its heartbeat interval and a disconnected one has none.
THEOREM TimersFollowStates == Spec => []TimerFollowsState
<1>1. Init => TimerFollowsState
  BY DEF Init, TimerFollowsState
<1> QED BY <1>1, TimerStep, StructureInit, StructureStep, PTL DEF Spec

-----------------------------------------------------------------------------
(* The heartbeat interval after a Logout message *)

LogoutsAreFinal ==
  \A c \in Conn : \A w \in ToSet(writes[c]) : w.kind = "logout" => state[w.of] # "LOGGED_ON"

LEMMA LogoutsAreFinalIsLogoutQuietensInterval == LogoutsAreFinal <=> LogoutQuietensInterval
BY DEF LogoutsAreFinal, LogoutQuietensInterval, PendingWrites

\* Reading the write buffers of a socket.
LEMMA BufferedWrite ==
  ASSUME Structure, NEW c \in Conn, NEW w \in ToSet(writes[c])
  PROVE  w \in Write /\ w.of \in Sess /\ Born(w.of)
<1>1. writes[c] \in Seq(Write)
  BY DEF Structure, TypeOK
<1>2. w \in Write
  BY <1>1, ToSetOfSeq
<1>3. Born(w.of)
  BY DEF Structure, Links, WriteLinked
<1> QED BY <1>2, <1>3 DEF Write

\* A step that writes nothing and logs nobody on who was born before.
LEMMA FinalFrame ==
  ASSUME Structure, LogoutsAreFinal,
         \A c \in Conn : ToSet(writes'[c]) \subseteq ToSet(writes[c]),
         \A s \in Sess : Born(s) /\ state'[s] = "LOGGED_ON" => state[s] = "LOGGED_ON"
  PROVE  LogoutsAreFinal'
<1> SUFFICES ASSUME NEW c \in Conn, NEW w \in ToSet(writes'[c]), w.kind = "logout"
             PROVE  state'[w.of] # "LOGGED_ON"
  BY DEF LogoutsAreFinal
<1>1. w \in ToSet(writes[c])
  OBVIOUS
<1>2. w.of \in Sess /\ Born(w.of) /\ state[w.of] # "LOGGED_ON"
  BY <1>1, BufferedWrite DEF LogoutsAreFinal
<1> QED BY <1>2

\* The Logout message an admission writes is that of a session it marks first.
LEMMA AdmissionWrites ==
  ASSUME Structure, NEW c \in Conn, NEW i \in SessionId, NEW s \in Sess, ~Born(s),
         AdmitAtOnce(c, i, s) \/ AdmitTakeover(c, i, s) \/ AdmitOverUnwritable(c, i, s)
  PROVE  \A d \in Conn : \A w \in ToSet(writes'[d]) :
           \/ w \in ToSet(writes[d])
           \/ w.kind = "logon" /\ w.next = None
           \/ w.kind = "logout" /\ state'[w.of] = "LOGGING_OUT"
<1>1. writes \in [Conn -> Seq(Write)] /\ TypeOK
  BY DEF Structure, TypeOK
<1>2. LogonWrite(s).kind = "logon" /\ LogonWrite(s).next = None
  BY DEF LogonWrite
<1>3. CASE AdmitAtOnce(c, i, s) \/ AdmitOverUnwritable(c, i, s)
  <2>1. Answer(c, s, writes)
    BY <1>3 DEF AdmitAtOnce, AdmitOverUnwritable
  <2> QED BY <1>1, <1>2, <2>1, AnswerTypes
<1>4. CASE AdmitTakeover(c, i, s)
  <2> DEFINE old == sessions[i]
             wr == [writes EXCEPT ![conn[old]] = Append(@, LogoutWrite(old, s))]
  <2>1. /\ old # None /\ Answer(c, s, wr)
        /\ state' = [state EXCEPT ![old] = "LOGGING_OUT", ![s] = Answered(c)]
    BY <1>4 DEF AdmitTakeover
  <2>2. old \in Sess /\ conn[old] \in Conn /\ old # s
    BY <2>1, RegisteredLinked
  <2>3. LogoutWrite(old, s) \in Write /\ writes[conn[old]] \in Seq(Write)
    BY <1>1, <2>2 DEF LogoutWrite, Write
  <2>4. /\ Append(writes[conn[old]], LogoutWrite(old, s)) \in Seq(Write)
        /\ ToSet(Append(writes[conn[old]], LogoutWrite(old, s)))
             = ToSet(writes[conn[old]]) \cup {LogoutWrite(old, s)}
    BY <2>3, ToSetAppend
  <2>5. /\ wr \in [Conn -> Seq(Write)]
        /\ \A d \in Conn : \A w \in ToSet(wr[d]) :
             w \in ToSet(writes[d]) \/ w = LogoutWrite(old, s)
    BY <1>1, <2>2, <2>4
  <2>6. /\ state'[old] = "LOGGING_OUT" /\ LogoutWrite(old, s).of = old
        /\ LogoutWrite(old, s).kind = "logout"
    BY <1>1, <2>1, <2>2 DEF LogoutWrite, TypeOK
  <2> HIDE DEF wr, old
  <2>7. \A d \in Conn : \A w \in ToSet(writes'[d]) : w \in ToSet(wr[d]) \/ w = LogonWrite(s)
    BY <1>1, <2>1, <2>5, AnswerTypes
  <2> QED BY <1>2, <2>5, <2>6, <2>7
<1> QED BY <1>3, <1>4

LEMMA FinalStop ==
  ASSUME Structure, LogoutsAreFinal, Stop
  PROVE  LogoutsAreFinal'
<1> DEFINE dead == {s \in Registered : state[s] = "DISCONNECTED"}
           mute == {s \in Registered \ dead : ~Writable(conn[s])}
           told == (Registered \ dead) \ mute
           L(c) == {LogoutWrite(s, None) : s \in {t \in told : conn[t] = c}}
<1>1. /\ state' = [s \in Sess |-> IF s \in told THEN "LOGGING_OUT"
                                ELSE IF s \in mute THEN "DISCONNECTED" ELSE state[s]]
      /\ writes' = [c \in Conn |-> writes[c] \o SetToSeq(L(c))]
  BY DEF Stop
<1>2. told \subseteq Registered /\ Registered \subseteq Sess
  BY DEF Registered
<1> SUFFICES ASSUME NEW c \in Conn, NEW w \in ToSet(writes'[c]), w.kind = "logout"
             PROVE  state'[w.of] # "LOGGED_ON"
  BY DEF LogoutsAreFinal
<1>3. w \in ToSet(writes[c]) \/ w \in L(c)
  <2> HIDE DEF told
  <2>1. SetToSeq(L(c)) \in Seq(L(c)) /\ L(c) \subseteq Write
    BY <1>2, StopWrites
  <2>2. writes'[c] = writes[c] \o SetToSeq(L(c)) /\ writes[c] \in Seq(Write)
    BY <1>1 DEF Structure, TypeOK
  <2> HIDE DEF L
  <2>3. SetToSeq(L(c)) \in Seq(Write) /\ ToSet(SetToSeq(L(c))) \subseteq L(c)
    BY <2>1, ToSetOfSeq
  <2> QED BY <2>2, <2>3, ToSetConcat
<1>4. CASE w \in ToSet(writes[c])
  <2>1. w.of \in Sess /\ state[w.of] # "LOGGED_ON"
    BY <1>4, BufferedWrite DEF LogoutsAreFinal
  <2> HIDE DEF told, mute, dead
  <2> QED BY <1>1, <2>1
<1>5. CASE w \in L(c)
  <2>1. w.of \in told
    BY <1>5 DEF LogoutWrite
  <2> HIDE DEF told, mute, dead, L
  <2> QED BY <1>1, <1>2, <2>1
<1> QED BY <1>3, <1>4, <1>5

LEMMA FinalStep ==
  Structure /\ LogoutsAreFinal /\ [Next]_vars => LogoutsAreFinal'
<1> SUFFICES ASSUME Structure, LogoutsAreFinal, [Next]_vars PROVE LogoutsAreFinal'
  OBVIOUS
<1>0. state \in [Sess -> SessionState]
  BY DEF Structure, TypeOK, SessionState
<1>1. CASE Still
  BY <1>1 DEF Still, sessionVars, LogoutsAreFinal
<1>2. CASE Stop
  BY <1>2, FinalStop
<1>3. ASSUME NEW c \in Conn, Quiescent(c) PROVE LogoutsAreFinal'
  BY <1>3, QuiescentFrame DEF LogoutsAreFinal
<1>4. ASSUME NEW c \in Conn, LogonAnswered(c) PROVE LogoutsAreFinal'
  BY <1>4, OldestWrite, FinalFrame DEF LogonAnswered, sessionVars
<1>5. ASSUME NEW c \in Conn, LogonAnswerFails(c) PROVE LogoutsAreFinal'
  <2>1. Completes(c, "logon") /\ state' = [state EXCEPT ![Oldest(c).of] = "ERROR"]
    BY <1>5 DEF LogonAnswerFails
  <2>2. \A s \in Sess : state'[s] = "LOGGED_ON" => state[s] = "LOGGED_ON"
    BY <1>0, <2>1
  <2> QED BY <2>1, <2>2, OldestWrite, FinalFrame
<1>6. ASSUME NEW c \in Conn, SocketClosed(c) PROVE LogoutsAreFinal'
  <2>1. UNCHANGED writes /\ \A s \in Sess : state'[s] \in {"DISCONNECTED", state[s]}
    BY <1>6 DEF SocketClosed
  <2> QED BY <2>1, FinalFrame
<1>7. ASSUME NEW c \in Conn,
             \/ LogoutWrittenForSuccessor(c) \/ LogoutWrittenForStop(c)
             \/ \E i \in SessionId : ReceiveLogout(c, i)
      PROVE  LogoutsAreFinal'
  <2>1. PICK s \in Sess : /\ Born(s) /\ LoggedOut(s)
                          /\ \A d \in Conn : ToSet(writes'[d]) \subseteq ToSet(writes[d])
    BY <1>7, LogoutCases
  <2>2. \A t \in Sess : state'[t] = "LOGGED_ON" => state[t] = "LOGGED_ON"
    BY <1>0, <2>1 DEF LoggedOut
  <2> QED BY <2>1, <2>2, FinalFrame
<1>8. ASSUME NEW c \in Conn, NEW i \in SessionId, AuthAccepted(c, i) PROVE LogoutsAreFinal'
  <2>1. PICK s \in Sess : \E st \in {"LOGGED_ON", "ERROR"} :
          /\ ~Born(s)
          /\ AdmitAtOnce(c, i, s) \/ AdmitTakeover(c, i, s) \/ AdmitOverUnwritable(c, i, s)
          /\ \/ state' = [state EXCEPT ![s] = st]
             \/ /\ sessions[i] \in Sess /\ sessions[i] # s
                /\ \/ state' = [state EXCEPT ![sessions[i]] = "LOGGING_OUT", ![s] = st]
                   \/ state' = [state EXCEPT ![sessions[i]] = "DISCONNECTED", ![s] = st]
    BY <1>8, AdmissionCases
  <2>2. \A t \in Sess : Born(t) /\ state'[t] = "LOGGED_ON" => state[t] = "LOGGED_ON"
    BY <1>0, <2>1 DEF Born
  <2>3. \A d \in Conn : \A w \in ToSet(writes'[d]) :
           \/ w \in ToSet(writes[d]) \/ w.kind = "logon" \/ state'[w.of] = "LOGGING_OUT"
    BY <2>1, AdmissionWrites
  <2> SUFFICES ASSUME NEW d \in Conn, NEW w \in ToSet(writes'[d]), w.kind = "logout"
               PROVE  state'[w.of] # "LOGGED_ON"
    BY DEF LogoutsAreFinal
  <2>4. CASE w \in ToSet(writes[d])
    BY <2>2, <2>4, BufferedWrite DEF LogoutsAreFinal
  <2> QED BY <2>3, <2>4
<1> QED BY <1>1, <1>2, <1>3, <1>4, <1>5, <1>6, <1>7, <1>8, StepCases

\* Once its Logout message is on its way a session is never LOGGED_ON again, so
\* its heartbeat interval writes nothing after the Logout.
THEOREM NoIntervalAfterLogout == Spec => []LogoutQuietensInterval
<1>1. Init => LogoutsAreFinal
  BY DEF Init, LogoutsAreFinal, ToSet
<1>2. LogoutsAreFinal => LogoutQuietensInterval
  BY LogoutsAreFinalIsLogoutQuietensInterval
<1> QED BY <1>1, <1>2, FinalStep, StructureInit, StructureStep, PTL DEF Spec

-----------------------------------------------------------------------------
(* The limit of the registry *)

LEMMA SizeMonotone ==
  ASSUME NEW reg, NEW less, \A i \in SessionId : less[i] # None => reg[i] # None
  PROVE  Size(reg) \in Nat /\ Size(less) \in Nat /\ Size(less) <= Size(reg)
<1> DEFINE R == {i \in SessionId : reg[i] # None}
           L == {i \in SessionId : less[i] # None}
<1>1. IsFiniteSet(R) /\ L \in SUBSET R
  BY SessionIdAssumption, FS_Subset
<1> HIDE DEF R, L
<1>2. Cardinality(R) \in Nat /\ Cardinality(L) \in Nat /\ Cardinality(L) <= Cardinality(R)
  BY <1>1, FS_Subset, FS_CardinalityType
<1> QED BY <1>2 DEF Size, R, L

Within(reg) == MaxSessions # 0 => Size(reg) <= MaxSessions

LEMMA WithinMonotone ==
  ASSUME NEW reg, NEW less, Within(reg), \A i \in SessionId : less[i] # None => reg[i] # None
  PROVE  Within(less)
BY SizeMonotone, MaxSessionsAssumption DEF Within

LEMMA WithoutShrinks ==
  ASSUME NEW I, Within(sessions)
  PROVE  Within(Without(I))
<1>1. \A i \in SessionId : Without(I)[i] # None => sessions[i] # None
  BY DEF Without
<1> QED BY <1>1, WithinMonotone

\* The check at the end of registerSession is enough: whatever happened since
\* the registration was asked for, the registry it looks at is the one it extends.
LEMMA EnrolWithin ==
  ASSUME NEW reg \in [SessionId -> Sess \cup {None}], NEW i \in SessionId, NEW s \in Sess,
         Within(reg), Enrol(reg, i, s)
  PROVE  Within(sessions')
<1>1. CASE Full(reg)
  BY <1>1 DEF Enrol
<1>2. CASE ~Full(reg)
  <2> DEFINE R == {j \in SessionId : reg[j] # None}
             S == {j \in SessionId : sessions'[j] # None}
  <2>1. sessions' = [reg EXCEPT ![i] = s]
    BY <1>2 DEF Enrol
  <2>2. IsFiniteSet(R)
    BY SessionIdAssumption, FS_Subset
  <2>3. S \in SUBSET (R \cup {i})
    BY <2>1
  <2> HIDE DEF R, S
  <2>4. /\ IsFiniteSet(R \cup {i}) /\ Cardinality(R) \in Nat /\ Cardinality(R \cup {i}) \in Nat
        /\ Cardinality(R \cup {i}) <= Cardinality(R) + 1
    <3>1. /\ IsFiniteSet(R \cup {i})
          /\ Cardinality(R \cup {i}) = IF i \in R THEN Cardinality(R) ELSE Cardinality(R) + 1
      BY <2>2, FS_AddElement
    <3>2. Cardinality(R) \in Nat /\ Cardinality(R \cup {i}) \in Nat
      BY <2>2, <3>1, FS_CardinalityType
    <3> QED BY <3>1, <3>2
  <2>5. Cardinality(S) \in Nat /\ Cardinality(S) <= Cardinality(R) + 1
    BY <2>3, <2>4, FS_Subset, FS_CardinalityType
  <2>6. MaxSessions # 0 => ~(Cardinality(R) >= MaxSessions)
    BY <1>2 DEF Full, Size, R
  <2>7. MaxSessions # 0 => Cardinality(S) <= MaxSessions
    BY <2>4, <2>5, <2>6, MaxSessionsAssumption
  <2> QED BY <2>7 DEF Within, Size, S
<1> QED BY <1>1, <1>2

LEMMA WithinStep ==
  Structure /\ Within(sessions) /\ [Next]_vars => Within(sessions')
<1> SUFFICES ASSUME Structure, Within(sessions), [Next]_vars PROVE Within(sessions')
  OBVIOUS
<1>0. TypeOK /\ sessions \in [SessionId -> Sess \cup {None}]
  BY DEF Structure, TypeOK
<1>1. CASE UNCHANGED sessions
  BY <1>1
<1>2. ASSUME NEW I, sessions' = Without(I) PROVE Within(sessions')
  BY <1>2, WithoutShrinks
<1>3. CASE sessions' = [i \in SessionId |-> None]
  BY <1>3, WithinMonotone
<1>4. CASE Stop
  BY <1>2, <1>3, <1>4 DEF Stop, FinishStop
<1>5. ASSUME NEW c \in Conn, LogoutWrittenForSuccessor(c) PROVE Within(sessions')
  <2> DEFINE old == Oldest(c).of
             new == Oldest(c).next
  <2>1. Completes(c, "logout") /\ new # None /\ Enrol(Without({sid[old]}), sid[new], new)
    BY <1>5 DEF LogoutWrittenForSuccessor
  <2>2. new \in Sess /\ sid[new] \in SessionId
    BY <2>1, OldestWrite DEF WriteLinked, Structure, Links
  <2> HIDE DEF old, new
  <2>3. Without({sid[old]}) \in [SessionId -> Sess \cup {None}] /\ Within(Without({sid[old]}))
    BY <1>0, RegistryTypes, WithoutShrinks
  <2> QED BY <2>1, <2>2, <2>3, EnrolWithin
<1>6. ASSUME NEW c \in Conn, LogoutWrittenForStop(c) PROVE Within(sessions')
  BY <1>2, <1>3, <1>6 DEF LogoutWrittenForStop, FinishStop
<1>7. ASSUME NEW c \in Conn, NEW i \in SessionId, ReceiveLogout(c, i) PROVE Within(sessions')
  BY <1>2, <1>7 DEF ReceiveLogout
<1>8. ASSUME NEW c \in Conn, SocketClosed(c) PROVE Within(sessions')
  BY <1>2, <1>8 DEF SocketClosed
<1>9. ASSUME NEW c \in Conn, NEW i \in SessionId, AuthAccepted(c, i) PROVE Within(sessions')
  <2>1. PICK s \in Sess :
          AdmitAtOnce(c, i, s) \/ AdmitTakeover(c, i, s) \/ AdmitOverUnwritable(c, i, s)
    BY <1>9 DEF AuthAccepted
  <2>2. CASE AdmitAtOnce(c, i, s)
    BY <1>0, <2>2, EnrolWithin DEF AdmitAtOnce
  <2>3. CASE AdmitTakeover(c, i, s)
    BY <1>1, <2>3 DEF AdmitTakeover
  <2>4. CASE AdmitOverUnwritable(c, i, s)
    <3>1. Enrol(Without({i}), i, s)
      BY <2>4 DEF AdmitOverUnwritable
    <3>2. Without({i}) \in [SessionId -> Sess \cup {None}] /\ Within(Without({i}))
      BY <1>0, RegistryTypes, WithoutShrinks
    <3> QED BY <3>1, <3>2, EnrolWithin
  <2> QED BY <2>1, <2>2, <2>3, <2>4
<1>10. ASSUME NEW c \in Conn, Quiescent(c) \/ LogonAnswered(c) \/ LogonAnswerFails(c)
       PROVE  Within(sessions')
  BY <1>1, <1>10, QuiescentFrame DEF LogonAnswered, LogonAnswerFails
<1>11. CASE Still
  BY <1>1, <1>11 DEF Still
<1> QED BY <1>4, <1>5, <1>6, <1>7, <1>8, <1>9, <1>10, <1>11, StepCases

\* The registry never exceeds the limit, whatever limit and whatever peers.
THEOREM LimitHolds == Spec => []RegistryBounded
<1>1. Init => Within(sessions)
  <2> SUFFICES ASSUME Init PROVE Within(sessions)
    OBVIOUS
  <2>1. {i \in SessionId : sessions[i] # None} = {}
    BY DEF Init
  <2> QED BY <2>1, FS_EmptySet, MaxSessionsAssumption DEF Within, Size
<1>2. Within(sessions) => RegistryBounded
  BY DEF Within, RegistryBounded
<1>3. Structure /\ Within(sessions) /\ [Next]_vars => (Within(sessions))'
  BY WithinStep DEF Within, Size
<1> QED BY <1>1, <1>2, <1>3, StructureInit, StructureStep, PTL DEF Spec

-----------------------------------------------------------------------------
(* Sockets are attended *)

\* An open socket has the acceptor's listeners and the close hooks of all its
\* sessions. What keeps this inductive: a socket that a session or a logon has
\* was connected once, so Connect opens none of those.
Attended ==
  /\ \A c \in Conn : sock[c] = "open" => listening[c]
  /\ \A s \in Sess : Born(s) => /\ sock[conn[s]] # "unused"
                                /\ sock[conn[s]] = "open" => s \in hooks[conn[s]]
  /\ \A c \in Conn, i \in SessionId : <<c, i>> \in auths => sock[c] # "unused"

\* A step that opens no socket and takes listeners only from sockets that it
\* leaves, or finds, no longer open.
LEMMA AttendedFrame ==
  ASSUME Structure, Attended, UNCHANGED conn,
         \A s \in Sess : Born(s)' <=> Born(s),
         \A c \in Conn : sock'[c] = "unused" => sock[c] = "unused",
         \A c \in Conn : sock'[c] = "open" => /\ sock[c] = "open"
                                              /\ listening'[c] = listening[c]
                                              /\ hooks'[c] = hooks[c],
         auths' \subseteq auths
  PROVE  Attended'
<1>1. (\A c \in Conn : sock[c] = "open" => listening[c])'
  BY DEF Attended
<1>2. (\A s \in Sess : Born(s) => /\ sock[conn[s]] # "unused"
                                  /\ sock[conn[s]] = "open" => s \in hooks[conn[s]])'
  <2> SUFFICES ASSUME NEW s \in Sess, Born(s)'
               PROVE  (/\ sock[conn[s]] # "unused"
                       /\ sock[conn[s]] = "open" => s \in hooks[conn[s]])'
    OBVIOUS
  <2>1. Born(s) /\ conn[s] \in Conn
    BY DEF Structure, Links
  <2> QED BY <2>1 DEF Attended
<1>3. (\A c \in Conn, i \in SessionId : <<c, i>> \in auths => sock[c] # "unused")'
  BY DEF Attended
<1> QED BY <1>1, <1>2, <1>3 DEF Attended

\* destroy() and end() open nothing.
LEMMA ClosingSockets ==
  ASSUME NEW sk \in [Conn -> SockState], NEW C, NEW c \in Conn
  PROVE  /\ Destroyed(sk, C)[c] = "unused" => sk[c] = "unused"
         /\ Destroyed(sk, C)[c] = "open" => sk[c] = "open" /\ c \notin C
         /\ Ended(sk, C)[c] = "unused" => sk[c] = "unused"
         /\ Ended(sk, C)[c] = "open" => sk[c] = "open" /\ c \notin C
BY DEF Destroyed, Ended

LEMMA AttendedQuiescent ==
  ASSUME Structure, Attended, NEW c \in Conn, Quiescent(c)
  PROVE  Attended'
<1>0. sock \in [Conn -> SockState]
  BY DEF Structure, TypeOK, SockState
<1>1. CASE Connect(c)
  <2>1. /\ sock[c] = "unused" /\ sock' = [sock EXCEPT ![c] = "open"]
        /\ listening' = [listening EXCEPT ![c] = TRUE]
        /\ UNCHANGED <<state, conn, hooks, auths>>
    BY <1>1 DEF Connect, sessionVars
  <2>2. listening \in [Conn -> BOOLEAN]
    BY DEF Structure, TypeOK
  <2>3. \A s \in Sess : Born(s) => conn[s] \in Conn /\ conn[s] # c
    BY <2>1 DEF Attended, Structure, Links
  <2>4. (\A d \in Conn : sock[d] = "open" => listening[d])'
    BY <1>0, <2>1, <2>2 DEF Attended
  <2>5. (\A s \in Sess : Born(s) => /\ sock[conn[s]] # "unused"
                                    /\ sock[conn[s]] = "open" => s \in hooks[conn[s]])'
    BY <1>0, <2>1, <2>3 DEF Attended, Born
  <2>6. (\A d \in Conn, i \in SessionId : <<d, i>> \in auths => sock[d] # "unused")'
    BY <1>0, <2>1 DEF Attended
  <2> QED BY <2>4, <2>5, <2>6 DEF Attended
<1>2. ASSUME NEW i \in SessionId, ReceiveLogon(c, i) PROVE Attended'
  <2>1. /\ sock[c] = "open" /\ auths' = auths \cup {<<c, i>>}
        /\ UNCHANGED <<sock, listening, hooks, state, conn>>
    BY <1>2 DEF ReceiveLogon, Readable, networkVars, sessionVars
  <2>2. (\A d \in Conn, j \in SessionId : <<d, j>> \in auths => sock[d] # "unused")'
    BY <2>1 DEF Attended
  <2> QED BY <2>1, <2>2 DEF Attended, Born
<1>3. CASE \/ ReceiveRefused(c) \/ ReceiveMalformed(c) \/ DelayedDestroy(c)
           \/ PeerCloses(c) \/ SocketError(c)
           \/ \E i \in SessionId : AuthRejected(c, i)
           \/ \E i \in SessionId, r \in Room : ReceiveJoin(c, i, r) \/ ReceiveLeave(c, i, r)
  <2>1. /\ sock' \in {sock, Destroyed(sock, {c}), Ended(sock, {c})} /\ auths' \subseteq auths
        /\ UNCHANGED <<listening, hooks, state, conn>>
    BY <1>3 DEF ReceiveRefused, ReceiveMalformed, DelayedDestroy, PeerCloses, SocketError,
       AuthRejected, ReceiveJoin, ReceiveLeave, SendLogoutAndClose, networkVars, sessionVars
  <2>2. \A d \in Conn : /\ sock'[d] = "unused" => sock[d] = "unused"
                        /\ sock'[d] = "open" => sock[d] = "open"
    BY <1>0, <2>1, ClosingSockets
  <2>3. \A s \in Sess : Born(s)' <=> Born(s)
    BY <2>1 DEF Born
  <2> QED BY <2>1, <2>2, <2>3, AttendedFrame
<1> QED BY <1>1, <1>2, <1>3 DEF Quiescent

\* handleDisconnect deafens the socket of its session and ends it in the same turn.
LEMMA AttendedLoggedOut ==
  ASSUME Structure, Attended, NEW s \in Sess, Born(s), LoggedOut(s),
         \/ sock' = Ended(sock, {conn[s]})
         \/ \E C : sock' = Destroyed(Ended(sock, {conn[s]}), C),
         UNCHANGED auths
  PROVE  Attended'
<1>0. sock \in [Conn -> SockState] /\ Ended(sock, {conn[s]}) \in [Conn -> SockState]
  BY SockTypes DEF Structure, TypeOK, SockState
<1>1. \A d \in Conn : /\ sock'[d] = "unused" => sock[d] = "unused"
                      /\ sock'[d] = "open" => sock[d] = "open" /\ d # conn[s]
  <2> DEFINE e == Ended(sock, {conn[s]})
  <2>1. \A d \in Conn : /\ e[d] = "unused" => sock[d] = "unused"
                        /\ e[d] = "open" => sock[d] = "open" /\ d # conn[s]
    BY <1>0, ClosingSockets
  <2>2. e \in [Conn -> SockState] /\ (sock' = e \/ \E C : sock' = Destroyed(e, C))
    BY <1>0
  <2> HIDE DEF e
  <2>3. \A C : \A d \in Conn : /\ Destroyed(e, C)[d] = "unused" => e[d] = "unused"
                               /\ Destroyed(e, C)[d] = "open" => e[d] = "open"
    BY <2>2, ClosingSockets
  <2> QED BY <2>1, <2>2, <2>3
<1>2. /\ \A t \in Sess : Born(t)' <=> Born(t)
      /\ UNCHANGED conn
  BY LoggedOutTypes
<1>3. \A d \in Conn : d # conn[s] => /\ listening'[d] = listening[d]
                                     /\ hooks'[d] = hooks[d]
  <2>1. listening \in [Conn -> BOOLEAN]
    BY DEF Structure, TypeOK
  <2> QED BY <2>1 DEF LoggedOut, Deafened
<1> QED BY <1>1, <1>2, <1>3, AttendedFrame

LEMMA AttendedLogouts ==
  ASSUME Structure, Attended, NEW c \in Conn,
         \/ LogoutWrittenForSuccessor(c) \/ LogoutWrittenForStop(c)
         \/ \E i \in SessionId : ReceiveLogout(c, i)
  PROVE  Attended'
<1>1. CASE LogoutWrittenForSuccessor(c)
  <2>1. Completes(c, "logout") /\ LoggedOut(Oldest(c).of) /\ sock' = Ended(sock, {c}) /\ UNCHANGED auths
    BY <1>1 DEF LogoutWrittenForSuccessor
  <2>2. Oldest(c).of \in Sess /\ Born(Oldest(c).of) /\ conn[Oldest(c).of] = c
    BY <2>1, OldestWrite DEF WriteLinked
  <2> QED BY <2>1, <2>2, AttendedLoggedOut
<1>2. CASE LogoutWrittenForStop(c)
  <2>1. /\ Completes(c, "logout") /\ LoggedOut(Oldest(c).of) /\ UNCHANGED auths
        /\ \/ sock' = Ended(sock, {c})
           \/ \E C : sock' = Destroyed(Ended(sock, {c}), C)
    BY <1>2 DEF LogoutWrittenForStop, FinishStop
  <2>2. Oldest(c).of \in Sess /\ Born(Oldest(c).of) /\ conn[Oldest(c).of] = c
    BY <2>1, OldestWrite DEF WriteLinked
  <2> QED BY <2>1, <2>2, AttendedLoggedOut
<1>3. ASSUME NEW i \in SessionId, ReceiveLogout(c, i) PROVE Attended'
  <2>1. /\ sessions[i] # None /\ LoggedOut(sessions[i]) /\ UNCHANGED auths
        /\ sock' = Ended(sock, {conn[sessions[i]]})
    BY <1>3 DEF ReceiveLogout
  <2>2. sessions[i] \in Sess /\ Born(sessions[i])
    BY <2>1, RegisteredLinked
  <2> QED BY <2>1, <2>2, AttendedLoggedOut
<1> QED BY <1>1, <1>2, <1>3

LEMMA AttendedSocketClosed ==
  ASSUME Structure, Attended, NEW c \in Conn, SocketClosed(c)
  PROVE  Attended'
<1> DEFINE gone == (IF listening[c] THEN {s \in Registered : conn[s] = c} ELSE {}) \cup hooks[c]
<1>1. /\ sock' = [sock EXCEPT ![c] = "closed"]
      /\ listening' = [listening EXCEPT ![c] = FALSE]
      /\ hooks' = [hooks EXCEPT ![c] = {}]
      /\ state' = [s \in Sess |-> IF s \in gone THEN "DISCONNECTED" ELSE state[s]]
      /\ UNCHANGED <<conn, auths>>
  BY DEF SocketClosed
<1>2. \A s \in gone : s \in Sess /\ Born(s)
  <2>1. \A s \in Registered : s \in Sess /\ Born(s)
    BY RegisteredLinked, NoneAssumption DEF Registered
  <2> QED BY <2>1 DEF Structure, Links, TypeOK
<1>3. sock \in [Conn -> SockState]
  BY DEF Structure, TypeOK, SockState
<1> HIDE DEF gone
<1>4. \A s \in Sess : Born(s)' <=> Born(s)
  BY <1>1, <1>2 DEF Born
<1>5. \A d \in Conn : /\ sock'[d] = "unused" => sock[d] = "unused"
                      /\ sock'[d] = "open" => sock[d] = "open" /\ d # c
  BY <1>1, <1>3
<1>6. \A d \in Conn : d # c => listening'[d] = listening[d] /\ hooks'[d] = hooks[d]
  BY <1>1 DEF Structure, TypeOK
<1> QED BY <1>1, <1>4, <1>5, <1>6, AttendedFrame

\* stop() deafens the sessions whose sockets take no Logout message: none of
\* those is open.
LEMMA AttendedStop ==
  ASSUME Structure, Attended, Stop
  PROVE  Attended'
<1> DEFINE dead == {s \in Registered : state[s] = "DISCONNECTED"}
           mute == {s \in Registered \ dead : ~Writable(conn[s])}
           told == (Registered \ dead) \ mute
<1>1. /\ state' = [s \in Sess |-> IF s \in told THEN "LOGGING_OUT"
                                ELSE IF s \in mute THEN "DISCONNECTED" ELSE state[s]]
      /\ Deafened(mute)
      /\ sock' = sock \/ \E C : sock' = Destroyed(sock, C)
      /\ UNCHANGED <<conn, auths>>
  BY DEF Stop, FinishStop
<1>2. \A s \in Registered : s \in Sess /\ Born(s)
  BY RegisteredLinked, NoneAssumption DEF Registered
<1>3. /\ mute \subseteq Registered /\ told \subseteq Registered
      /\ \A s \in mute : sock[conn[s]] # "open"
  BY DEF Writable
<1>4. sock \in [Conn -> SockState]
  BY DEF Structure, TypeOK, SockState
<1> HIDE DEF dead, mute, told
<1>5. \A s \in Sess : Born(s)' <=> Born(s)
  BY <1>1, <1>2, <1>3 DEF Born
<1>6. \A d \in Conn : /\ sock'[d] = "unused" => sock[d] = "unused"
                      /\ sock'[d] = "open" => sock[d] = "open"
  BY <1>1, <1>4, ClosingSockets
<1>7. \A d \in Conn : sock[d] = "open" => listening'[d] = listening[d] /\ hooks'[d] = hooks[d]
  <2>1. listening \in [Conn -> BOOLEAN]
    BY DEF Structure, TypeOK
  <2> QED BY <1>1, <1>3, <2>1 DEF Deafened
<1> QED BY <1>1, <1>5, <1>6, <1>7, AttendedFrame

\* The hook of a new session is set after an unwritable predecessor was deafened;
\* they cannot be on the same socket if the new one can be written.
LEMMA AttendedAdmission ==
  ASSUME Structure, Attended, NEW c \in Conn, NEW i \in SessionId, AuthAccepted(c, i)
  PROVE  Attended'
<1>1. PICK s \in Sess : \E st \in {"LOGGED_ON", "ERROR"} :
        /\ ~Born(s) /\ conn' = [conn EXCEPT ![s] = c]
        /\ AdmitAtOnce(c, i, s) \/ AdmitTakeover(c, i, s) \/ AdmitOverUnwritable(c, i, s)
        /\ \/ state' = [state EXCEPT ![s] = st]
           \/ /\ sessions[i] \in Sess /\ sessions[i] # s /\ Born(sessions[i])
              /\ \/ state' = [state EXCEPT ![sessions[i]] = "LOGGING_OUT", ![s] = st]
                 \/ state' = [state EXCEPT ![sessions[i]] = "DISCONNECTED", ![s] = st]
  BY AdmissionCases
<1>2. /\ sock \in [Conn -> SockState] /\ state \in [Sess -> SessionState]
      /\ conn \in [Sess -> Conn \cup {None}] /\ hooks \in [Conn -> SUBSET Sess]
      /\ listening \in [Conn -> BOOLEAN]
  BY DEF Structure, TypeOK, SockState, SessionState
<1>3. \A t \in Sess : Born(t)' <=> Born(t) \/ t = s
  BY <1>1, <1>2 DEF Born
<1>4. /\ conn'[s] = c
      /\ \A t \in Sess : t # s => conn'[t] = conn[t]
      /\ \A t \in Sess : Born(t) => t # s
  BY <1>1, <1>2
<1>5. <<c, i>> \in auths /\ auths' \subseteq auths
  BY DEF AuthAccepted
<1>6. \A d \in Conn : /\ sock'[d] = "unused" => sock[d] = "unused"
                      /\ sock'[d] = "open" => sock[d] = "open"
  <2>1. sock' \in {sock, Destroyed(sock, {c})}
    BY <1>1 DEF AdmitAtOnce, AdmitTakeover, AdmitOverUnwritable, Answer
  <2> QED BY <1>2, <2>1, ClosingSockets
<1>7. \A d \in Conn : sock[d] = "open" =>
        /\ listening'[d] = listening[d]
        /\ hooks[d] \subseteq hooks'[d]
        /\ d = c => s \in hooks'[d]
  <2>1. CASE AdmitAtOnce(c, i, s) \/ AdmitTakeover(c, i, s)
    <3>1. hooks' = [hooks EXCEPT ![c] = @ \cup {s}] /\ UNCHANGED listening
      BY <2>1 DEF AdmitAtOnce, AdmitTakeover
    <3> QED BY <1>2, <3>1
  <2>2. CASE AdmitOverUnwritable(c, i, s)
    <3> DEFINE o == conn[sessions[i]]
               deaf == [d \in Conn |-> IF d = o THEN {} ELSE hooks[d]]
    <3>1. /\ sock[o] # "open" /\ listening' = [listening EXCEPT ![o] = FALSE]
          /\ hooks' = [deaf EXCEPT ![c] = @ \cup {s}]
      BY <2>2 DEF AdmitOverUnwritable, Writable
    <3> HIDE DEF o
    <3> QED BY <1>2, <3>1
  <2> QED BY <1>1, <2>1, <2>2
<1>8. (\A d \in Conn : sock[d] = "open" => listening[d])'
  BY <1>6, <1>7 DEF Attended
<1>9. (\A t \in Sess : Born(t) => /\ sock[conn[t]] # "unused"
                                  /\ sock[conn[t]] = "open" => t \in hooks[conn[t]])'
  <2> SUFFICES ASSUME NEW t \in Sess, Born(t)'
               PROVE  /\ sock'[conn'[t]] # "unused"
                      /\ sock'[conn'[t]] = "open" => t \in hooks'[conn'[t]]
    OBVIOUS
  <2>1. CASE t = s
    BY <1>4, <1>5, <1>6, <1>7, <2>1 DEF Attended
  <2>2. CASE t # s
    <3>1. Born(t) /\ conn[t] \in Conn /\ conn'[t] = conn[t]
      BY <1>3, <1>4, <2>2 DEF Structure, Links
    <3> QED BY <1>6, <1>7, <3>1 DEF Attended
  <2> QED BY <2>1, <2>2
<1>10. (\A d \in Conn, j \in SessionId : <<d, j>> \in auths => sock[d] # "unused")'
  BY <1>5, <1>6 DEF Attended
<1> QED BY <1>8, <1>9, <1>10 DEF Attended

LEMMA AttendedStep ==
  Structure /\ Attended /\ [Next]_vars => Attended'
<1> SUFFICES ASSUME Structure, Attended, [Next]_vars PROVE Attended'
  OBVIOUS
<1>0. sock \in [Conn -> SockState]
  BY DEF Structure, TypeOK, SockState
<1>1. CASE Still
  BY <1>1 DEF Still, networkVars, sessionVars, Attended, Born
<1>2. ASSUME NEW c \in Conn, LogonAnswered(c) PROVE Attended'
  BY <1>2, AttendedFrame DEF LogonAnswered, networkVars, sessionVars, Born
<1>3. ASSUME NEW c \in Conn, LogonAnswerFails(c) PROVE Attended'
  <2>1. /\ Completes(c, "logon") /\ state' = [state EXCEPT ![Oldest(c).of] = "ERROR"]
        /\ sock' = Destroyed(sock, {c}) /\ UNCHANGED <<listening, hooks, conn, auths>>
    BY <1>3 DEF LogonAnswerFails
  <2>2. Born(Oldest(c).of) /\ Oldest(c).of \in Sess /\ state \in [Sess -> SessionState]
    BY <2>1, OldestWrite DEF WriteLinked, Structure, TypeOK, SessionState
  <2>3. \A s \in Sess : Born(s)' <=> Born(s)
    BY <2>1, <2>2 DEF Born
  <2>4. \A d \in Conn : /\ sock'[d] = "unused" => sock[d] = "unused"
                        /\ sock'[d] = "open" => sock[d] = "open"
    BY <1>0, <2>1, ClosingSockets
  <2> QED BY <2>1, <2>3, <2>4, AttendedFrame
<1> QED BY <1>1, <1>2, <1>3, AttendedQuiescent, AttendedLogouts, AttendedSocketClosed,
           AttendedStop, AttendedAdmission, StepCases

\* No open socket of a session is left without the listeners that clean up after
\* it, although every session takes all listeners off its socket when it ends.
THEOREM OpenSocketsAreAttended == Spec => []CleanupArmed
<1>1. Init => Attended
  BY DEF Init, Attended, Born
<1>2. Structure /\ Attended => CleanupArmed
  BY DEF Structure, Links, Attended, CleanupArmed
<1> QED BY <1>1, <1>2, AttendedStep, StructureInit, StructureStep, PTL DEF Spec
-----------------------------------------------------------------------------
(* What is waited for is on its way. TLC checks that waits end; what is    *)
(* proved here is the part of it that is a safety property: nobody waits   *)
(* for a callback that is not to come.                                     *)

LEMMA TailKeeps ==
  ASSUME NEW S, NEW q \in Seq(S), NEW e \in ToSet(q), e # Head(q)
  PROVE  e \in ToSet(Tail(q))
<1>1. PICK k \in 1..Len(q) : e = q[k]
  BY DEF ToSet
<1>2. q # << >> /\ Len(q) \in Nat /\ Head(q) = q[1]
  BY <1>1
<1>3. k \in Nat /\ k > 1 /\ k <= Len(q)
  BY <1>1, <1>2
<1>4. Tail(q) \in Seq(S) /\ Len(Tail(q)) = Len(q) - 1
  BY <1>2
<1>5. k - 1 \in 1..Len(Tail(q)) /\ Tail(q)[k - 1] = q[(k - 1) + 1]
  BY <1>2, <1>3, <1>4
<1>6. DOMAIN Tail(q) = 1..Len(Tail(q)) /\ (k - 1) + 1 = k
  BY <1>3, <1>4
<1> QED BY <1>1, <1>5, <1>6 DEF ToSet

LEMMA ConcatKeeps ==
  ASSUME NEW S, NEW q \in Seq(S), NEW r \in Seq(S)
  PROVE  ToSet(q) \subseteq ToSet(q \o r) /\ ToSet(r) \subseteq ToSet(q \o r)
<1>1. /\ q \o r \in Seq(S) /\ Len(q \o r) = Len(q) + Len(r)
      /\ Len(q) \in Nat /\ Len(r) \in Nat
      /\ DOMAIN q = 1..Len(q) /\ DOMAIN r = 1..Len(r) /\ DOMAIN (q \o r) = 1..Len(q \o r)
  OBVIOUS
<1>2. ASSUME NEW k \in 1..Len(q) PROVE q[k] \in ToSet(q \o r)
  <2>1. (q \o r)[k] = q[k] /\ k \in 1..Len(q \o r)
    BY <1>1
  <2> QED BY <1>1, <2>1 DEF ToSet
<1>3. ASSUME NEW k \in 1..Len(r) PROVE r[k] \in ToSet(q \o r)
  <2>1. k + Len(q) \in 1..Len(q \o r) /\ k + Len(q) > Len(q) /\ (k + Len(q)) - Len(q) = k
    BY <1>1
  <2>2. (q \o r)[k + Len(q)] = r[k]
    BY <1>1, <2>1
  <2> QED BY <1>1, <2>1, <2>2 DEF ToSet
<1> QED BY <1>1, <1>2, <1>3 DEF ToSet

\* SetToSeq leaves nothing out.
LEMMA SetToSeqCovers ==
  ASSUME NEW S, IsFiniteSet(S)
  PROVE  S \subseteq ToSet(SetToSeq(S))
<1> DEFINE n == Cardinality(S)
<1>1. n \in Nat /\ \E f \in [1..n -> S] : IsInjective(f)
  <2>1. PICK f \in Bijection(1..Cardinality(S), S) : TRUE
    BY FS_CardinalityType DEF ExistsBijection
  <2> QED BY <2>1, FS_CardinalityType DEF Bijection, Injection, IsInjective
<1>2. SetToSeq(S) \in [1..n -> S] /\ IsInjective(SetToSeq(S))
  BY <1>1 DEF SetToSeq
<1> HIDE DEF n
<1>3. SetToSeq(S) \in Injection(1..n, S)
  BY <1>2 DEF Injection, IsInjective
<1>4. IsFiniteSet(1..n) /\ Cardinality(1..n) = n
  BY <1>1, FS_Interval
<1>5. SetToSeq(S) \in Surjection(1..n, S)
  BY <1>3, <1>4, FS_Injection DEF n
<1>6. \A e \in S : \E k \in 1..n : SetToSeq(S)[k] = e
  BY <1>5 DEF Surjection
<1> QED BY <1>2, <1>6 DEF ToSet

\* A pending write stays pending until its callback runs.
LEMMA WriteKept ==
  ASSUME Structure, [Next]_vars, NEW c \in Conn, NEW w \in ToSet(writes[c])
  PROVE  \/ w \in ToSet(writes'[c])
         \/ w = Oldest(c) /\ \/ LogonAnswered(c) \/ LogonAnswerFails(c)
                             \/ LogoutWrittenForSuccessor(c) \/ LogoutWrittenForStop(c)
<1>1. writes \in [Conn -> Seq(Write)]
  BY DEF Structure, TypeOK
<1>2. CASE writes' = writes
  BY <1>2
<1>3. ASSUME NEW d \in Conn, NEW kind, Completes(d, kind),
             \/ LogonAnswered(d) \/ LogonAnswerFails(d)
             \/ LogoutWrittenForSuccessor(d) \/ LogoutWrittenForStop(d)
      PROVE  \/ w \in ToSet(writes'[c])
             \/ w = Oldest(c) /\ \/ LogonAnswered(c) \/ LogonAnswerFails(c)
                                 \/ LogoutWrittenForSuccessor(c) \/ LogoutWrittenForStop(c)
  <2>1. writes'[c] = IF c = d THEN Tail(writes[c]) ELSE writes[c]
    BY <1>1, <1>3 DEF Completes
  <2>2. w # Head(writes[c]) => w \in ToSet(Tail(writes[c]))
    BY <1>1, TailKeeps
  <2> QED BY <1>3, <2>1, <2>2 DEF Oldest
<1>4. ASSUME NEW d \in Conn, NEW i \in SessionId, AuthAccepted(d, i)
      PROVE  w \in ToSet(writes'[c])
  <2>1. PICK s \in Sess :
          /\ ~Born(s)
          /\ AdmitAtOnce(d, i, s) \/ AdmitTakeover(d, i, s) \/ AdmitOverUnwritable(d, i, s)
    BY <1>4 DEF AuthAccepted
  <2>2. \A wr \in [Conn -> Seq(Write)], e \in Conn, v \in Write :
          LET new == [wr EXCEPT ![e] = Append(@, v)]
          IN new \in [Conn -> Seq(Write)] /\ ToSet(wr[c]) \subseteq ToSet(new[c])
    <3> SUFFICES ASSUME NEW wr \in [Conn -> Seq(Write)], NEW e \in Conn, NEW v \in Write
                 PROVE  LET new == [wr EXCEPT ![e] = Append(@, v)]
                        IN new \in [Conn -> Seq(Write)] /\ ToSet(wr[c]) \subseteq ToSet(new[c])
      OBVIOUS
    <3>1. Append(wr[e], v) \in Seq(Write) /\ ToSet(Append(wr[e], v)) = ToSet(wr[e]) \cup {v}
      BY ToSetAppend
    <3> QED BY <3>1
  <2>3. LogonWrite(s) \in Write
    BY DEF LogonWrite, Write
  <2>4. ASSUME NEW wr \in [Conn -> Seq(Write)], Answer(d, s, wr)
        PROVE  ToSet(wr[c]) \subseteq ToSet(writes'[c])
    BY <2>2, <2>3, <2>4 DEF Answer
  <2>5. CASE AdmitTakeover(d, i, s)
    <3> DEFINE v == LogoutWrite(sessions[i], s)
    <3>1. sessions[i] \in Sess /\ conn[sessions[i]] \in Conn
      BY <2>5, RegisteredLinked DEF AdmitTakeover
    <3>2. v \in Write
      BY <3>1 DEF LogoutWrite, Write
    <3>3. Answer(d, s, [writes EXCEPT ![conn[sessions[i]]] = Append(@, v)])
      BY <2>5 DEF AdmitTakeover
    <3> HIDE DEF v
    <3> DEFINE wr == [writes EXCEPT ![conn[sessions[i]]] = Append(@, v)]
    <3>4. wr \in [Conn -> Seq(Write)] /\ ToSet(writes[c]) \subseteq ToSet(wr[c])
      BY <1>1, <2>2, <3>1, <3>2
    <3> HIDE DEF wr
    <3> QED BY <2>4, <3>3, <3>4 DEF wr
  <2>6. CASE AdmitAtOnce(d, i, s) \/ AdmitOverUnwritable(d, i, s)
    BY <1>1, <2>4, <2>6 DEF AdmitAtOnce, AdmitOverUnwritable
  <2> QED BY <2>1, <2>5, <2>6
<1>5. CASE Stop
  <2>1. PICK S \in SUBSET Registered :
          writes' = [d \in Conn |->
                      writes[d] \o SetToSeq({LogoutWrite(s, None) : s \in {t \in S : conn[t] = d}})]
    BY <1>5 DEF Stop
  <2> DEFINE L == {LogoutWrite(s, None) : s \in {t \in S : conn[t] = c}}
  <2>2. SetToSeq(L) \in Seq(L) /\ L \subseteq Write
    BY StopWrites
  <2>3. writes'[c] = writes[c] \o SetToSeq(L)
    BY <2>1
  <2> HIDE DEF L
  <2>4. SetToSeq(L) \in Seq(Write)
    BY <2>2
  <2> QED BY <1>1, <2>3, <2>4, ConcatKeeps
<1>6. ASSUME NEW d \in Conn, Quiescent(d) \/ SocketClosed(d) \/ \E i \in SessionId : ReceiveLogout(d, i)
      PROVE  writes' = writes
  BY <1>6, QuiescentFrame DEF SocketClosed, ReceiveLogout
<1>7. ASSUME NEW d \in Conn,
             \/ LogonAnswered(d) \/ LogonAnswerFails(d)
             \/ LogoutWrittenForSuccessor(d) \/ LogoutWrittenForStop(d)
      PROVE  Completes(d, "logon") \/ Completes(d, "logout")
  BY <1>7 DEF LogonAnswered, LogonAnswerFails, LogoutWrittenForSuccessor, LogoutWrittenForStop
<1>8. CASE Still
  BY <1>2, <1>8 DEF Still
<1> QED BY <1>2, <1>3, <1>4, <1>5, <1>6, <1>7, <1>8, StepCases

\* Nobody waits for the answer to a logon of another session.
AnswersStandAlone ==
  \A c \in Conn : \A w \in ToSet(writes[c]) : w.kind = "logon" => w.next = None

LEMMA AnswersStandAloneStep ==
  ASSUME Structure, AnswersStandAlone, [Next]_vars
  PROVE  AnswersStandAlone'
<1> SUFFICES ASSUME NEW c \in Conn, NEW w \in ToSet(writes'[c]), w.kind = "logon"
             PROVE  w \in ToSet(writes[c]) \/ w.next = None
  BY DEF AnswersStandAlone
<1>1. CASE Stop
  <2>1. PICK S \in SUBSET Registered :
          writes' = [d \in Conn |->
                      writes[d] \o SetToSeq({LogoutWrite(s, None) : s \in {t \in S : conn[t] = d}})]
    BY <1>1 DEF Stop
  <2> DEFINE L == {LogoutWrite(s, None) : s \in {t \in S : conn[t] = c}}
  <2>2. SetToSeq(L) \in Seq(L) /\ L \subseteq Write
    BY StopWrites
  <2>3. writes'[c] = writes[c] \o SetToSeq(L) /\ writes[c] \in Seq(Write)
    BY <2>1 DEF Structure, TypeOK
  <2>4. \A v \in L : v.next = None
    BY DEF LogoutWrite
  <2> HIDE DEF L
  <2>5. SetToSeq(L) \in Seq(Write) /\ ToSet(SetToSeq(L)) \subseteq L
    BY <2>2, ToSetOfSeq
  <2> QED BY <2>3, <2>4, <2>5, ToSetConcat
<1>2. ASSUME NEW d \in Conn, NEW i \in SessionId, AuthAccepted(d, i)
      PROVE  w \in ToSet(writes[c]) \/ w.next = None
  <2>1. PICK s \in Sess :
          /\ ~Born(s)
          /\ AdmitAtOnce(d, i, s) \/ AdmitTakeover(d, i, s) \/ AdmitOverUnwritable(d, i, s)
    BY <1>2 DEF AuthAccepted
  <2> QED BY <2>1, AdmissionWrites
<1>3. ASSUME NEW d \in Conn,
             \/ Quiescent(d) \/ SocketClosed(d) \/ LogonAnswered(d) \/ LogonAnswerFails(d)
             \/ LogoutWrittenForSuccessor(d) \/ LogoutWrittenForStop(d)
             \/ \E i \in SessionId : ReceiveLogout(d, i)
      PROVE  w \in ToSet(writes[c])
  <2>1. CASE writes' = writes
    BY <2>1
  <2>2. ASSUME NEW kind, Completes(d, kind) PROVE w \in ToSet(writes[c])
    BY <2>2, OldestWrite
  <2> QED BY <1>3, <2>1, <2>2, QuiescentFrame DEF SocketClosed, ReceiveLogout, LogonAnswered,
         LogonAnswerFails, LogoutWrittenForSuccessor, LogoutWrittenForStop
<1> QED BY <1>1, <1>2, <1>3, StepCases DEF Still

\* While stop() waits, the Logout message of one of its sessions is still to be
\* written: no callback is counted twice, taken for another's or left out, whatever
\* takeovers, closes and logons happen meanwhile (acceptor.ts:65-71 and
\* session.manager.ts:76-83).
StopIsAwaited == process = "stopping" => StopAwaits(writes)

LEMMA StopBegins ==
  ASSUME Structure, Stop, process' = "stopping"
  PROVE  StopAwaits(writes')
<1> DEFINE dead == {s \in Registered : state[s] = "DISCONNECTED"}
           mute == {s \in Registered \ dead : ~Writable(conn[s])}
           told == (Registered \ dead) \ mute
           L(c) == {LogoutWrite(s, None) : s \in {t \in told : conn[t] = c}}
<1>1. /\ writes' = [c \in Conn |-> writes[c] \o SetToSeq(L(c))]
      /\ \/ dead = {} /\ told = {} /\ FinishStop(sock)
         \/ /\ dead # {} \/ told # {}
            /\ process' = IF dead = {} THEN "stopping" ELSE "stop failed"
  BY DEF Stop
<1>2. PICK s \in told : TRUE
  BY <1>1 DEF FinishStop
<1>3. s \in Registered /\ told \subseteq Registered
  BY <1>2
<1> HIDE DEF dead, mute, told
<1>4. conn[s] \in Conn
  BY <1>3, RegisteredLinked, NoneAssumption DEF Registered
<1> DEFINE M == L(conn[s])
<1>5. IsFiniteSet(M) /\ SetToSeq(M) \in Seq(M) /\ M \subseteq Write
  BY <1>3, <1>4, StopWrites
<1>6. LogoutWrite(s, None) \in M
  BY <1>2
<1>7. writes'[conn[s]] = writes[conn[s]] \o SetToSeq(M)
  BY <1>1, <1>4
<1> HIDE DEF M
<1>8. LogoutWrite(s, None) \in ToSet(writes'[conn[s]])
  <2>1. writes[conn[s]] \in Seq(Write)
    BY <1>4 DEF Structure, TypeOK
  <2>2. SetToSeq(M) \in Seq(Write)
    BY <1>5
  <2>3. LogoutWrite(s, None) \in ToSet(SetToSeq(M))
    BY <1>5, <1>6, SetToSeqCovers
  <2> QED BY <1>7, <2>1, <2>2, <2>3, ConcatKeeps
<1>9. LogoutWrite(s, None).kind = "logout" /\ LogoutWrite(s, None).next = None
  BY DEF LogoutWrite
<1> QED BY <1>4, <1>8, <1>9 DEF StopAwaits

\* Nobody but Stop begins to wait for its own Logout messages.
LEMMA OnlyStopWaits ==
  ASSUME Structure, [Next]_vars, process' = "stopping"
  PROVE  Stop \/ process = "stopping"
<1>1. ASSUME NEW c \in Conn, Quiescent(c) PROVE process' \in {process, "crashed"}
  BY <1>1 DEF Quiescent, Connect, ReceiveRefused, ReceiveMalformed, DelayedDestroy, PeerCloses,
     SocketError, ReceiveLogon, AuthRejected, ReceiveJoin, ReceiveLeave, SendLogoutAndClose
<1>2. ASSUME NEW c \in Conn, NEW i \in SessionId, AuthAccepted(c, i)
      PROVE  process' \in {process, "crashed"}
  BY <1>2 DEF AuthAccepted, AdmitAtOnce, AdmitTakeover, AdmitOverUnwritable, Enrol
<1>3. ASSUME NEW c \in Conn,
             \/ LogonAnswered(c) \/ LogonAnswerFails(c) \/ SocketClosed(c)
             \/ LogoutWrittenForSuccessor(c) \/ LogoutWrittenForStop(c)
             \/ \E i \in SessionId : ReceiveLogout(c, i)
      PROVE  process' \in {process, "crashed", "closing"}
  BY <1>3 DEF LogonAnswered, LogonAnswerFails, SocketClosed, LogoutWrittenForSuccessor,
     LogoutWrittenForStop, ReceiveLogout, Enrol, FinishStop
<1> QED BY <1>1, <1>2, <1>3, StepCases DEF Still

LEMMA StopIsAwaitedStep ==
  ASSUME Structure, StopIsAwaited, [Next]_vars
  PROVE  StopIsAwaited'
<1> SUFFICES ASSUME process' = "stopping" PROVE StopAwaits(writes')
  BY DEF StopIsAwaited, StopAwaits
<1>1. CASE Stop
  BY <1>1, StopBegins
<1>2. CASE process = "stopping"
  <2>0. PICK c \in Conn : \E w \in ToSet(writes[c]) : w.kind = "logout" /\ w.next = None
    BY <1>2 DEF StopIsAwaited, StopAwaits
  <2>1. PICK w \in ToSet(writes[c]) : w.kind = "logout" /\ w.next = None
    BY <2>0
  <2>2. CASE w \in ToSet(writes'[c])
    BY <2>1, <2>2 DEF StopAwaits
  <2>3. CASE LogoutWrittenForStop(c)
    BY <1>2, <2>3 DEF LogoutWrittenForStop, FinishStop
  <2>4. ASSUME w = Oldest(c),
               \/ LogonAnswered(c) \/ LogonAnswerFails(c) \/ LogoutWrittenForSuccessor(c)
        PROVE  FALSE
    BY <2>1, <2>4 DEF LogonAnswered, LogonAnswerFails, LogoutWrittenForSuccessor, Completes
  <2> QED BY <2>2, <2>3, <2>4, WriteKept
<1> QED BY <1>1, <1>2, OnlyStopWaits

\* Promise.all of closeAll never waits for a logout that nobody will finish, for any
\* sessions and peers (session.manager.ts:76-83).
THEOREM StopAlwaysAwaited == Spec => []StopIsAwaited
<1>1. Init => Structure /\ StopIsAwaited
  BY StructureInit DEF Init, StopIsAwaited
<1>2. Structure /\ StopIsAwaited /\ [Next]_vars => (Structure /\ StopIsAwaited)'
  BY StructureStep, StopIsAwaitedStep
<1> QED BY <1>1, <1>2, PTL DEF Spec

\* A session that replaces another is not forgotten: it waits until it is registered
\* itself, unless the registry is full by then, whoever ends the older session
\* meanwhile and however often (session.manager.ts:118-129).
SuccessorsAreServed ==
  \A s \in Sess : Succeeds(s) => \/ Succeeds(s)'
                                 \/ sessions'[sid[s]] = s
                                 \/ Full(sessions')
NoSuccessorForgotten == [][SuccessorsAreServed]_vars

\* registerSession never loses track of whom it registers after its wait, for any
\* sessions and peers (session.manager.ts:114-129).
THEOREM SuccessorsNeverForgotten == Spec => NoSuccessorForgotten
<1>1. ASSUME Structure, AnswersStandAlone, [Next]_vars PROVE SuccessorsAreServed
  <2> SUFFICES ASSUME NEW s \in Sess, Succeeds(s)
               PROVE  Succeeds(s)' \/ sessions'[sid[s]] = s \/ Full(sessions')
    BY DEF SuccessorsAreServed
  <2>0. PICK c \in Conn : \E w \in ToSet(writes[c]) : w.next = s
    BY DEF Succeeds, PendingWrites
  <2>1. PICK w \in ToSet(writes[c]) : w.next = s
    BY <2>0
  <2>2. CASE w \in ToSet(writes'[c])
    BY <2>1, <2>2 DEF Succeeds, PendingWrites
  <2>3. w.next # None /\ sid[s] = sid[w.of] /\ sid[s] \in SessionId /\ w.of \in Sess
    <3>1. w \in Write /\ WriteLinked(c, w)
      BY <1>1, ToSetOfSeq DEF Structure, TypeOK, Links
    <3> QED BY <1>1, <2>1, <3>1, NoneAssumption DEF WriteLinked, Write, Structure, Links
  <2>4. CASE w = Oldest(c) /\ LogoutWrittenForSuccessor(c)
    <3>1. Enrol(Without({sid[w.of]}), sid[s], s)
      BY <2>1, <2>4 DEF LogoutWrittenForSuccessor
    <3>2. Without({sid[w.of]}) \in [SessionId -> Sess \cup {None}]
      BY <1>1, RegistryTypes DEF Structure
    <3> QED BY <2>3, <3>1, <3>2 DEF Enrol
  <2>5. ASSUME w = Oldest(c), LogoutWrittenForStop(c) PROVE FALSE
    BY <2>1, <2>3, <2>5 DEF LogoutWrittenForStop
  <2>6. ASSUME w = Oldest(c), LogonAnswered(c) \/ LogonAnswerFails(c) PROVE FALSE
    BY <1>1, <2>1, <2>3, <2>6 DEF AnswersStandAlone, LogonAnswered, LogonAnswerFails, Completes
  <2> QED BY <1>1, <2>2, <2>4, <2>5, <2>6, WriteKept
<1>2. Init => Structure /\ AnswersStandAlone
  BY StructureInit DEF Init, AnswersStandAlone, ToSet
<1>3. Structure /\ AnswersStandAlone /\ [Next]_vars => (Structure /\ AnswersStandAlone)'
  BY StructureStep, AnswersStandAloneStep
<1> QED BY <1>1, <1>2, <1>3, PTL DEF Spec, NoSuccessorForgotten

-----------------------------------------------------------------------------
(* Nothing keeps the server from closing *)

\* Every connection that is still up is listed in activeSockets, and from the turn
\* in which stop() destroys the listed ones on there is no connection left.
Listed == \A c \in Conn : sock[c] \in {"open", "ended"} => c \in activeSockets
ClosingEndsConnections ==
  process \in {"closing", "stopped"} => \A c \in Conn : sock[c] \in {"unused", "destroyed", "closed"}

\* Socket states a turn leaves behind if it neither opens nor closes a connection.
LEMMA NoNewConnection ==
  ASSUME Structure, NEW C, sock' \in {sock, Destroyed(sock, C), Ended(sock, C)}
  PROVE  \A c \in Conn : /\ sock'[c] \in {"open", "ended"} => sock[c] \in {"open", "ended"}
                         /\ sock'[c] \in {"unused", "destroyed", "closed"} \/ sock[c] \in {"open", "ended"}
BY DEF Structure, TypeOK, Destroyed, Ended

LEMMA ClosingStep ==
  ASSUME Structure, Listed, ClosingEndsConnections, [Next]_vars
  PROVE  Listed' /\ ClosingEndsConnections'
<1> DEFINE Frame == /\ process' \in {process, "crashed", "stopping", "stop failed"}
                    /\ activeSockets' = activeSockets
                    /\ \E C : sock' \in {sock, Destroyed(sock, C), Ended(sock, C)}
           Finish == \E sk \in {sock} \cup {Ended(sock, {c}) : c \in Conn} : FinishStop(sk)
<1>0. sock \in [Conn -> SockState] /\ activeSockets \subseteq Conn
  BY DEF Structure, TypeOK, SockState
<1>1. CASE Frame
  <2>1. PICK C : sock' \in {sock, Destroyed(sock, C), Ended(sock, C)}
    BY <1>1
  <2>2. \A c \in Conn : /\ sock'[c] \in {"open", "ended"} => sock[c] \in {"open", "ended"}
                        /\ sock'[c] \in {"unused", "destroyed", "closed"} \/ sock[c] \in {"open", "ended"}
    BY <2>1, NoNewConnection
  <2> QED BY <1>1, <2>2 DEF Listed, ClosingEndsConnections
<1>2. CASE Finish
  <2>1. PICK sk \in {sock} \cup {Ended(sock, {c}) : c \in Conn} : FinishStop(sk)
    BY <1>2
  <2>2. sk \in [Conn -> SockState] /\ \A c \in Conn : sk[c] \in {"open", "ended"} => c \in activeSockets
    BY <1>0, <2>1 DEF Ended, Listed, SockState
  <2>3. \A c \in Conn : sock'[c] \in {"unused", "destroyed", "closed"}
    BY <1>0, <2>1, <2>2 DEF FinishStop, Destroyed, SockState
  <2> QED BY <2>3 DEF Listed, ClosingEndsConnections
<1>3. CASE Still
  BY <1>3 DEF Still, networkVars, Listed, ClosingEndsConnections
<1>4. ASSUME NEW c \in Conn, Connect(c) PROVE Listed' /\ ClosingEndsConnections'
  BY <1>0, <1>4 DEF Connect, Listed, ClosingEndsConnections
<1>5. ASSUME NEW c \in Conn, SocketClosed(c) PROVE Listed' /\ ClosingEndsConnections'
  BY <1>0, <1>5 DEF SocketClosed, Listed, ClosingEndsConnections
<1>6. ASSUME NEW c \in Conn,
             \/ ReceiveRefused(c) \/ ReceiveMalformed(c) \/ LogonAnswered(c) \/ LogonAnswerFails(c)
             \/ DelayedDestroy(c) \/ PeerCloses(c) \/ SocketError(c)
             \/ \E i \in SessionId : ReceiveLogon(c, i) \/ AuthRejected(c, i)
             \/ \E i \in SessionId, r \in Room : ReceiveJoin(c, i, r) \/ ReceiveLeave(c, i, r)
      PROVE  Frame
  BY <1>6 DEF ReceiveRefused, ReceiveMalformed, LogonAnswered, LogonAnswerFails, DelayedDestroy,
     PeerCloses, SocketError, ReceiveLogon, AuthRejected, ReceiveJoin, ReceiveLeave,
     SendLogoutAndClose, networkVars
<1>7. ASSUME NEW c \in Conn, NEW i \in SessionId, AuthAccepted(c, i) PROVE Frame
  BY <1>7 DEF AuthAccepted, AdmitAtOnce, AdmitTakeover, AdmitOverUnwritable, Enrol, Answer
<1>8. ASSUME NEW c \in Conn,
             \/ LogoutWrittenForSuccessor(c) \/ LogoutWrittenForStop(c)
             \/ \E i \in SessionId : ReceiveLogout(c, i)
      PROVE  Frame \/ Finish
  BY <1>8 DEF LogoutWrittenForSuccessor, LogoutWrittenForStop, ReceiveLogout, Enrol
<1>9. ASSUME Stop PROVE Frame \/ Finish
  BY <1>9 DEF Stop
<1> HIDE DEF Frame, Finish
<1>10. ASSUME NEW c \in Conn, Quiescent(c) PROVE Connect(c) \/ Frame
  BY <1>6, <1>10 DEF Quiescent
<1> QED BY <1>1, <1>2, <1>3, <1>4, <1>5, <1>6, <1>7, <1>8, <1>9, <1>10, StepCases

\* When stop() asks the server to close, no connection is up that it did not destroy,
\* also none accepted while it waited for the logouts, for any sessions and peers
\* (acceptor.ts:114-125): server.close() has nothing to wait for but 'close' events.
THEOREM NothingHoldsTheServer == Spec => []ClosingEndsConnections
<1>1. Init => Structure /\ Listed /\ ClosingEndsConnections
  <2>1. Init => Listed /\ ClosingEndsConnections
    BY DEF Init, Listed, ClosingEndsConnections
  <2> QED BY <2>1, StructureInit
<1>2. /\ Structure /\ Listed /\ ClosingEndsConnections /\ [Next]_vars
      => (Structure /\ Listed /\ ClosingEndsConnections)'
  BY StructureStep, ClosingStep
<1> QED BY <1>1, <1>2, PTL DEF Spec
=============================================================================
