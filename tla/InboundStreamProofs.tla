------------------------ MODULE InboundStreamProofs ------------------------
(***************************************************************************)
(* However TCP cuts the stream, and for any number of messages and chunks: *)
(* no message is handled twice, and messages right behind a Logon are      *)
(* covered by it.                                                          *)
(***************************************************************************)
EXTENDS InboundStream, FiniteSetTheorems, WellFoundedInduction, TLAPS

-----------------------------------------------------------------------------
(* Operators *)

\* A set of pieces that is not empty has a first one.
LEMMA FirstIn ==
  ASSUME NEW T \in SUBSET Piece, T # {}
  PROVE  First(T) \in T /\ \A q \in T : First(T).msg <= q.msg
<1> DEFINE R == {ss \in Nat \X Nat : ss[1] < ss[2]}
           M == {p.msg : p \in T}
<1>1. IsWellFoundedOn(R, Nat)
  BY NatLessThanWellFounded DEF OpToRel
<1>2. \A p \in T : p.msg \in Nat
  BY DEF Piece
<1>3. M \in SUBSET Nat /\ M # {}
  BY <1>2
<1> HIDE DEF R
<1>4. \E x \in M : \A y \in M : <<y, x>> \notin R
  BY <1>1, <1>3, WFMin
<1>5. PICK x \in M : \A y \in M : <<y, x>> \notin R
  BY <1>4
<1>6. ASSUME NEW y \in M PROVE x <= y
  <2> HIDE DEF M
  <2>1. x \in Nat /\ y \in Nat
    BY <1>3
  <2>2. y < x => <<y, x>> \in R
    BY <2>1 DEF R
  <2> QED BY <1>5, <2>1, <2>2
<1>7. PICK p \in T : p.msg = x
  BY <1>5
<1>8. \A q \in T : p.msg <= q.msg
  BY <1>6, <1>7
<1> QED BY <1>8 DEF First

\* The end of the last chunk is where the stream was received to.
LEMMA LargestIs ==
  ASSUME NEW S \in SUBSET Nat, NEW x \in S, \A y \in S : y <= x
  PROVE  Largest(S) = x
<1>1. \A z \in S : (\A y \in S : y <= z) => z = x
  OBVIOUS
<1> QED BY <1>1 DEF Largest

\* What is made of two chunks is not the same message twice: a piece that makes one
\* begins no later than part 3 and ends no earlier than part 4.
LEMMA PiecesApart ==
  ASSUME NEW p \in Piece, NEW n \in 1..MaxChunks, NEW lo \in Nat, NEW hi \in Nat,
         NEW q \in Pieces(n, lo, hi), Parsed(p), Parsed(q),
         (p.msg - 1) * Parts + p.to <= lo
  PROVE  p.msg # q.msg
<1>1. q \in Piece /\ q.from \in q.from..q.to /\ q.from \in 1..Parts
  BY DEF Pieces, Piece, Parts
<1>2. (q.msg - 1) * Parts + q.from \in lo + 1..hi
  BY <1>1 DEF Pieces
<1>3. p.msg \in Int /\ q.msg \in Int /\ p.to \in Int /\ q.from \in Int
  BY MessagesAssumption DEF Pieces, Piece, Parts
<1> SUFFICES ASSUME p.msg = q.msg PROVE FALSE
  OBVIOUS
<1> DEFINE a == (p.msg - 1) * Parts
<1>4. a \in Int /\ a + p.to <= lo /\ a + q.from \in lo + 1..hi
  BY <1>2, <1>3 DEF Parts
<1> HIDE DEF a
<1> QED BY <1>3, <1>4 DEF Parsed

\* A chunk holds one piece of a message.
LEMMA OnePieceEach ==
  ASSUME NEW n \in 1..MaxChunks, NEW lo \in Nat, NEW hi \in Nat,
         NEW p \in Pieces(n, lo, hi), NEW q \in Pieces(n, lo, hi), p.msg = q.msg
  PROVE  p = q
<1>1. p \in Piece /\ q \in Piece /\ p.chunk = n /\ q.chunk = n /\ p.from <= p.to /\ q.from <= q.to
      /\ \A k \in 1..Parts : k \in p.from..p.to <=> k \in q.from..q.to
  BY DEF Pieces
<1>2. p.from \in 1..Parts /\ p.to \in 1..Parts /\ q.from \in 1..Parts /\ q.to \in 1..Parts
  BY <1>1 DEF Piece
<1>3. /\ p.from \in q.from..q.to /\ p.to \in q.from..q.to
      /\ q.from \in p.from..p.to /\ q.to \in p.from..p.to
  <2>1. p.from \in p.from..p.to /\ p.to \in p.from..p.to
        /\ q.from \in q.from..q.to /\ q.to \in q.from..q.to
    BY <1>1, <1>2 DEF Parts
  <2> QED BY <1>1, <1>2, <2>1
<1>4. p.from = q.from /\ p.to = q.to
  BY <1>2, <1>3 DEF Parts
<1> QED BY <1>1, <1>4 DEF Piece

\* Where the pieces of a chunk end.
LEMMA PieceEnds ==
  ASSUME NEW n \in 1..MaxChunks, NEW lo \in Nat, NEW hi \in Nat, NEW p \in Pieces(n, lo, hi)
  PROVE  p \in Piece /\ p.chunk = n /\ (p.msg - 1) * Parts + p.to <= hi
<1>1. p \in Piece /\ p.chunk = n /\ p.to \in p.from..p.to /\ p.to \in 1..Parts
  BY DEF Pieces, Piece, Parts
<1>2. (p.msg - 1) * Parts + p.to \in lo + 1..hi
  BY <1>1 DEF Pieces
<1> QED BY <1>1, <1>2

-----------------------------------------------------------------------------
(* The invariant *)

\* All pieces that made a message, handled or not.
Known == begun \cup UNION {todo[n] : n \in 1..MaxChunks}

\* The last chunk ended where the stream was received to.
Ends == /\ 0 \in ends
        /\ Received \in ends /\ \A y \in ends : y <= Received

\* Each of them lies in a chunk received, ...
Found == \A p \in Known : /\ Parsed(p)
                          /\ (p.msg - 1) * Parts + p.to <= Received
                          /\ p.chunk <= Chunks

\* ... is the only one of its message, ...
Single == \A p, q \in Known : p.msg = q.msg => p = q

\* ... and is handled in the turns of its own chunk, in the order of the stream.
OwnChunk == \A n \in 1..MaxChunks : \A p \in todo[n] : p.chunk = n
InOrder == \A n \in 1..MaxChunks : \A q \in begun, r \in todo[n] :
             q.chunk = n => q.msg <= r.msg

\* The loop of a chunk waits for a handler it called, ...
Begun == \A n \in 1..MaxChunks : todo[n] # {} => InHand(n) \in begun

\* ... and a Logon nobody answered yet is what its chunk waits for.
Deciding == \A p \in begun : IsLogon(p) /\ p \notin refused \cup served =>
              todo[p.chunk] # {} /\ p = InHand(p.chunk)

\* There is a session, or was one, once a Logon was served.
Open == session # "none" <=> \E p \in served : IsLogon(p)

IInv == /\ TypeOK /\ Ends /\ Found /\ Single /\ OwnChunk /\ InOrder /\ Begun /\ Deciding /\ Open
        /\ LogonCoversItsChunk

-----------------------------------------------------------------------------
(* One turn of the loop over a chunk *)

\* What a turn over chunk n with pieces T is entitled to.
Turn(n, T) ==
  /\ T \in SUBSET Piece
  /\ \A r \in T : r.chunk = n
  /\ \A p, q \in Known \cup T : p.msg = q.msg => p = q
  /\ \A q \in begun, r \in T : q.chunk = n => q.msg <= r.msg
  /\ \A q \in begun : q.chunk = n /\ IsLogon(q) => q \in refused \cup served

\* It hands over the first of them, ...
Hands(n, T) ==
  /\ T # {}
  /\ todo' = [todo EXCEPT ![n] = T]
  /\ sock' \in {sock, Down(sock)}
  /\ Handed(First(T), Registered)

\* ... or ends the loop.
Stops(n) ==
  /\ todo' = [todo EXCEPT ![n] = {}]
  /\ sock' \in {sock, Down(sock)}
  /\ UNCHANGED <<begun, refused, served>>

LEMMA ContinueIs ==
  ASSUME NEW n, NEW T, NEW sk \in {sock, Down(sock)}, Continue(n, T, Registered, sk)
  PROVE  Hands(n, T) \/ Stops(n)
<1>1. Down(Down(sock)) = Down(sock)
  BY DEF Down
<1> QED BY <1>1 DEF Continue, Hands, Stops

\* The variables but ends have their types.
LoopTypes ==
  /\ todo \in [1..MaxChunks -> SUBSET Piece]
  /\ sock \in {"open", "down", "closed"}
  /\ session \in {"none", "registered", "turned away", "over"}
  /\ begun \subseteq Piece
  /\ refused \subseteq begun
  /\ served \subseteq begun
  /\ refused \cap served = {}

\* What the loop keeps.
Loop == /\ LoopTypes /\ OwnChunk /\ InOrder /\ Begun /\ Deciding /\ Open
        /\ LogonCoversItsChunk

LEMMA StopsStep ==
  ASSUME Loop, NEW n \in 1..MaxChunks, NEW T, Turn(n, T), Stops(n), session' = session
  PROVE  Loop' /\ Known' \subseteq Known \cup T
<1>1. todo' \in [1..MaxChunks -> SUBSET Piece]
      /\ todo'[n] = {} /\ \A m \in 1..MaxChunks \ {n} : todo'[m] = todo[m]
  BY DEF Loop, LoopTypes, Stops
<1>2. LoopTypes' /\ OwnChunk' /\ InOrder'
  BY <1>1 DEF Loop, LoopTypes, Stops, OwnChunk, InOrder, Down
<1>3. Deciding'
  <2> SUFFICES ASSUME NEW p \in begun, IsLogon(p), p \notin refused \cup served
               PROVE  todo'[p.chunk] # {} /\ p = First(todo'[p.chunk])
    BY DEF Deciding, InHand, Stops
  <2>1. p.chunk \in 1..MaxChunks \ {n}
    BY DEF Turn, Loop, LoopTypes, Piece
  <2> QED BY <1>1, <2>1 DEF Loop, Deciding, InHand
<1>4. Open' /\ LogonCoversItsChunk'
  BY DEF Loop, Stops, Open, LogonCoversItsChunk, Down
<1>5. Known' \subseteq Known
  BY <1>1 DEF Known, Stops
<1>6. Begun'
  BY <1>1 DEF Loop, Begun, InHand, Stops
<1> QED BY <1>2, <1>3, <1>4, <1>5, <1>6 DEF Loop

LEMMA HandsStep ==
  ASSUME Loop, NEW n \in 1..MaxChunks, NEW T, Turn(n, T), Hands(n, T),
         session' = session, First(T) \notin begun
  PROVE  Loop' /\ Known' \subseteq Known \cup T
<1> DEFINE f == First(T)
<1>1. /\ f \in T /\ f \in Piece /\ f.chunk = n /\ f \notin begun
      /\ T \in SUBSET Piece /\ \A q \in T : f.msg <= q.msg
  BY FirstIn DEF Turn, Hands
<1>2. todo' \in [1..MaxChunks -> SUBSET Piece]
      /\ todo'[n] = T /\ \A m \in 1..MaxChunks \ {n} : todo'[m] = todo[m]
  BY <1>1 DEF Loop, LoopTypes, Hands
<1>3. /\ begun' = begun \cup {f}
      /\ refused' = IF (IsLogon(f) /\ RefusesLogon(f)) \/ (~IsLogon(f) /\ ~Registered)
                    THEN refused \cup {f} ELSE refused
      /\ served' = IF ~IsLogon(f) /\ Registered THEN served \cup {f} ELSE served
      /\ sock' \in {sock, Down(sock)}
  BY DEF Hands, Handed, Serves
<1> HIDE DEF f
<1>4. LoopTypes'
  BY <1>1, <1>2, <1>3 DEF Loop, LoopTypes, Down
<1>5. OwnChunk'
  BY <1>2 DEF Turn, Loop, OwnChunk
<1>6. InOrder'
  <2> SUFFICES ASSUME NEW m \in 1..MaxChunks, NEW q \in begun', NEW r \in todo'[m], q.chunk = m
               PROVE  q.msg <= r.msg
    BY DEF InOrder
  <2>1. CASE q = f
    BY <1>1, <1>2, <2>1
  <2>2. CASE q \in begun /\ m = n
    BY <1>2, <2>2 DEF Turn
  <2>3. CASE q \in begun /\ m # n
    BY <1>2, <2>3 DEF Loop, InOrder
  <2> QED BY <1>3, <2>1, <2>2, <2>3
<1>7. Deciding'
  <2> SUFFICES ASSUME NEW p \in begun', IsLogon(p), p \notin refused' \cup served'
               PROVE  todo'[p.chunk] # {} /\ p = First(todo'[p.chunk])
    BY DEF Deciding, InHand
  <2>1. CASE p = f
    BY <1>1, <1>2, <2>1 DEF f
  <2>2. CASE p \in begun
    <3>1. p.chunk \in 1..MaxChunks \ {n}
      BY <1>3, <2>2 DEF Turn, Loop, LoopTypes, Piece
    <3> QED BY <1>2, <1>3, <2>2, <3>1 DEF Loop, Deciding, InHand
  <2> QED BY <1>3, <2>1, <2>2
<1>8. Open'
  BY <1>3 DEF Loop, Open
<1>9. LogonCoversItsChunk'
  <2> SUFFICES ASSUME NEW p \in begun', NEW q \in refused', Whole(p), IsLogon(p), q.chunk = p.chunk
               PROVE  p \in refused' \/ session' \in {"turned away", "over"}
    BY DEF LogonCoversItsChunk
  <2>1. CASE p \in begun /\ q \in refused
    BY <1>3, <2>1 DEF Loop, LogonCoversItsChunk
  <2>2. CASE p \notin begun
    \* the Logon is handed over now: nothing of its chunk came before it
    <3>1. p = f /\ f.msg = 1
      BY <1>3, <2>2 DEF IsLogon
    <3>2. CASE q = f
      BY <3>1, <3>2
    <3>3. CASE q # f
      <4>1. q \in begun /\ q.chunk = n
        BY <1>1, <1>3, <3>1, <3>3 DEF Loop, LoopTypes
      <4>2. q.msg <= f.msg /\ q.msg \in 1..Messages
        BY <1>1, <4>1 DEF Turn, Loop, LoopTypes, Piece
      <4>3. q.msg = f.msg
        BY <3>1, <4>2
      <4>4. q \in Known \cup T /\ f \in Known \cup T
        BY <1>1, <4>1 DEF Known
      <4> QED BY <3>3, <4>3, <4>4 DEF Turn
    <3> QED BY <3>2, <3>3
  <2>3. CASE p \in begun /\ q \notin refused
    <3>1. q = f /\ p.chunk = n
      BY <1>1, <1>3, <2>3
    <3>2. p \in refused \cup served
      BY <2>3, <3>1 DEF Turn
    <3>3. CASE p \in refused
      BY <1>3, <3>3
    <3>4. CASE p \in served
      <4>1. ~IsLogon(f)
        <5>1. p \in Known \cup T /\ f \in Known \cup T
          BY <1>1, <2>3 DEF Known
        <5> SUFFICES ASSUME IsLogon(f) PROVE FALSE
          OBVIOUS
        <5>2. p = f
          BY <5>1 DEF Turn, IsLogon
        <5> QED BY <1>1, <2>3, <5>2
      <4>2. ~Registered
        BY <1>3, <2>3, <4>1
      <4>3. session # "none" /\ IsLogon(p)
        BY <2>3, <3>4 DEF Loop, Open
      <4> QED BY <4>2, <4>3 DEF Registered, Loop, LoopTypes
    <3> QED BY <3>2, <3>3, <3>4
  <2> QED BY <1>3, <2>1, <2>2, <2>3
<1>10. Known' \subseteq Known \cup T
  BY <1>1, <1>2, <1>3 DEF Known
<1>11. Begun'
  <2> SUFFICES ASSUME NEW m \in 1..MaxChunks, todo'[m] # {}
               PROVE  First(todo'[m]) \in begun'
    BY DEF Begun, InHand
  <2>1. CASE m = n
    BY <1>2, <1>3, <2>1 DEF f
  <2>2. CASE m # n
    BY <1>2, <1>3, <2>2 DEF Loop, Begun, InHand
  <2> QED BY <2>1, <2>2
<1> QED BY <1>4, <1>5, <1>6, <1>7, <1>8, <1>9, <1>10, <1>11 DEF Loop

\* A turn that hands over what nobody was given before keeps what the loop keeps.
LEMMA TurnStep ==
  ASSUME Loop, NEW n \in 1..MaxChunks, NEW T, Turn(n, T), T # {} => First(T) \notin begun,
         NEW sk \in {sock, Down(sock)}, Continue(n, T, Registered, sk), session' = session
  PROVE  Loop' /\ Known' \subseteq Known \cup T
<1>1. CASE Hands(n, T)
  BY <1>1, HandsStep DEF Hands
<1>2. CASE Stops(n)
  BY <1>2, StopsStep
<1> QED BY <1>1, <1>2, ContinueIs

-----------------------------------------------------------------------------
(* The steps *)

LEMMA LoopParts ==
  IInv <=> /\ malformed \subseteq 1..Messages /\ ends \subseteq 0..Messages * Parts
           /\ Ends /\ Found /\ Single /\ Loop
BY DEF IInv, TypeOK, Loop, LoopTypes

LEMMA KnownPieces == LoopTypes => Known \subseteq Piece
BY DEF LoopTypes, Known

\* The places where chunks ended, and how many chunks there were.
LEMMA EndsType ==
  ASSUME ends \subseteq 0..Messages * Parts, Ends
  PROVE  IsFiniteSet(ends) /\ Received \in Nat /\ Chunks \in Nat /\ ends \subseteq Nat
<1>1. Messages * Parts \in Nat
  BY MessagesAssumption DEF Parts
<1>2. IsFiniteSet(ends) /\ ends \subseteq Nat
  <2> DEFINE N == Messages * Parts
  <2>1. N \in Int /\ 0 \in Int /\ ends \in SUBSET (0..N)
    BY <1>1
  <2> HIDE DEF N
  <2>2. IsFiniteSet(0..N)
    BY <2>1, FS_Interval
  <2>3. IsFiniteSet(ends)
    BY <2>1, <2>2, FS_Subset
  <2> QED BY <2>1, <2>3
<1>3. Cardinality(ends) \in Nat /\ Cardinality(ends) # 0
  BY <1>2, FS_CardinalityType, FS_EmptySet DEF Ends
<1> QED BY <1>2, <1>3 DEF Ends, Chunks

LEMMA ArriveStep ==
  ASSUME IInv, NEW k \in 1..Messages * Parts, Arrive(k)
  PROVE  IInv'
<1> DEFINE n == Chunks + 1
           T == {p \in Pieces(n, Received, k) : Parsed(p)}
<1>1. Loop /\ Ends /\ Found /\ Single /\ Known \subseteq Piece
      /\ ends \subseteq 0..Messages * Parts /\ malformed \subseteq 1..Messages
  BY LoopParts, KnownPieces DEF Loop
<1>2. IsFiniteSet(ends) /\ Received \in Nat /\ Chunks \in Nat /\ ends \subseteq Nat /\ k \in Nat
      /\ MaxChunks \in Nat /\ Messages * Parts \in Nat
  BY <1>1, EndsType, MessagesAssumption, MaxChunksAssumption DEF Parts
<1>3. n \in 1..MaxChunks
  BY <1>2 DEF Arrive
<1>4. ends' = ends \cup {k} /\ k > Received /\ session' = session
      /\ Continue(n, T, Registered, sock)
  BY DEF Arrive
<1>5. ends' \subseteq 0..Messages * Parts /\ ends' \subseteq Nat
  BY <1>1, <1>2, <1>4
<1>6. Received' = k /\ Ends'
  <2>1. k \in ends' /\ \A y \in ends' : y <= k
    BY <1>1, <1>2, <1>4 DEF Ends
  <2>2. Largest(ends') = k
    BY <1>5, <2>1, LargestIs
  <2>3. Received' = k
    BY <2>2 DEF Received
  <2> QED BY <1>1, <1>4, <2>1, <2>3 DEF Ends
<1>7. Chunks' = Chunks + 1
  <2>1. k \notin ends
    BY <1>1, <1>2, <1>4 DEF Ends
  <2>2. Cardinality(ends \cup {k}) = Cardinality(ends) + 1
    BY <1>2, <2>1, FS_AddElement
  <2>3. Cardinality(ends) \in Nat
    BY <1>2, FS_CardinalityType
  <2> QED BY <1>4, <2>2, <2>3 DEF Chunks
<1> HIDE DEF n
<1>8. T \in SUBSET Piece
      /\ \A p \in T : Parsed(p) /\ p.chunk = n /\ (p.msg - 1) * Parts + p.to <= k
  BY <1>2, <1>3, PieceEnds
<1>9. \A p \in Known : p.chunk < n
  BY <1>1, <1>2 DEF Found, Piece, n
<1>10. \A p, q \in Known \cup T : p.msg = q.msg => p = q
  <2>1. ASSUME NEW p \in Known, NEW q \in T PROVE p.msg # q.msg
    BY <1>1, <1>2, <1>3, PiecesApart DEF Found
  <2>2. ASSUME NEW p \in T, NEW q \in T, p.msg = q.msg PROVE p = q
    BY <1>2, <1>3, <2>2, OnePieceEach
  <2> HIDE DEF T
  <2> QED BY <1>1, <2>1, <2>2 DEF Single
<1> HIDE DEF T
<1>11. \A q \in begun : q \in Known /\ q.chunk # n
  <2>1. n \in Nat /\ \A p \in Known : p.chunk \in Nat
    BY <1>1, <1>3 DEF Piece
  <2> QED BY <1>9, <2>1 DEF Known
<1>12. Turn(n, T)
  BY <1>8, <1>10, <1>11 DEF Turn
<1>13. T # {} => First(T) \notin begun
  BY <1>8, <1>11, FirstIn
<1>14. Loop' /\ Known' \subseteq Known \cup T
  BY <1>1, <1>3, <1>4, <1>12, <1>13, TurnStep
<1>15. Found'
  <2> SUFFICES ASSUME NEW p \in Known'
               PROVE  Parsed(p) /\ (p.msg - 1) * Parts + p.to <= k /\ p.chunk <= Chunks + 1
    BY <1>6, <1>7 DEF Found
  <2>1. CASE p \in T
    BY <1>2, <1>8, <2>1 DEF n
  <2>2. CASE p \in Known
    <3>1. Parsed(p) /\ (p.msg - 1) * Parts + p.to <= Received /\ p.chunk <= Chunks /\ p \in Piece
      BY <1>1, <2>2 DEF Found
    <3>2. p.chunk \in Nat /\ p.msg \in Int /\ p.to \in Int
      BY <3>1 DEF Piece
    <3>3. (p.msg - 1) * Parts + p.to \in Int
      BY <3>2 DEF Parts
    <3>4. p.chunk <= Chunks + 1
      BY <1>2, <3>1, <3>2
    <3>5. (p.msg - 1) * Parts + p.to <= k
      <4> DEFINE e == (p.msg - 1) * Parts + p.to
      <4>1. e \in Int /\ e <= Received
        BY <3>1, <3>3
      <4> HIDE DEF e
      <4>2. e <= k
        BY <1>2, <1>4, <4>1
      <4> QED BY <4>2 DEF e
    <3> QED BY <3>1, <3>4, <3>5
  <2> QED BY <1>14, <2>1, <2>2
<1>16. Single'
  BY <1>10, <1>14 DEF Single
<1>17. malformed' \subseteq 1..Messages
  BY <1>1 DEF Arrive
<1> QED BY <1>5, <1>6, <1>14, <1>15, <1>16, <1>17, LoopParts DEF IInv, TypeOK, Loop, LoopTypes

LEMMA SettledStep ==
  ASSUME IInv, NEW n \in 1..MaxChunks, Settled(n)
  PROVE  IInv'
<1>1. Loop /\ Ends /\ Found /\ Single /\ Known \subseteq Piece
      /\ ends \subseteq 0..Messages * Parts /\ malformed \subseteq 1..Messages
  BY LoopParts, KnownPieces DEF Loop
<1>2. todo[n] # {} /\ todo[n] \in SUBSET Piece /\ todo[n] \subseteq Known
  BY <1>1 DEF Settled, Loop, LoopTypes, Known
<1>3. /\ InHand(n) \in todo[n] /\ InHand(n).chunk = n
      /\ \A q \in todo[n] : InHand(n).msg <= q.msg
  BY <1>1, <1>2, FirstIn DEF InHand, Loop, OwnChunk
<1>4. Behind(n) \subseteq todo[n]
  BY DEF Behind
<1>5. ASSUME NEW q \in begun, q.chunk = n, IsLogon(q) PROVE q \in refused \cup served
  <2> SUFFICES ASSUME q \notin refused \cup served PROVE FALSE
    OBVIOUS
  <2>1. q = InHand(n)
    BY <1>1, <1>5 DEF Loop, Deciding
  <2> QED BY <1>2, <1>5, <2>1 DEF Settled, Authenticating
<1>6. Turn(n, Behind(n))
  <2>1. Known \cup Behind(n) = Known
    BY <1>2, <1>4
  <2>2. \A p, q \in Known \cup Behind(n) : p.msg = q.msg => p = q
    BY <1>1, <2>1 DEF Single
  <2>3. \A r \in Behind(n) : r.chunk = n
    BY <1>1, <1>4 DEF Loop, OwnChunk
  <2>4. \A q \in begun, r \in Behind(n) : q.chunk = n => q.msg <= r.msg
    BY <1>1, <1>4 DEF Loop, InOrder
  <2> QED BY <1>2, <1>4, <1>5, <2>2, <2>3, <2>4 DEF Turn
<1>7. Behind(n) # {} => First(Behind(n)) \notin begun
  <2> SUFFICES ASSUME Behind(n) # {}, First(Behind(n)) \in begun PROVE FALSE
    OBVIOUS
  <2> DEFINE f == First(Behind(n))
             h == InHand(n)
  <2>1. f \in Behind(n) /\ f \in begun
    BY <1>2, <1>4, FirstIn
  <2>2. f.chunk = n /\ f \in todo[n] /\ f # h
    BY <1>1, <1>4, <2>1 DEF Loop, OwnChunk, Behind
  <2>3. f.msg <= h.msg /\ h.msg <= f.msg
    BY <1>1, <1>3, <2>1, <2>2 DEF Loop, InOrder
  <2>4. f \in Piece /\ h \in Piece
    BY <1>2, <1>3, <2>2
  <2> HIDE DEF f, h
  <2>5. f.msg = h.msg
    BY <2>3, <2>4 DEF Piece
  <2> QED BY <1>1, <1>2, <1>3, <2>2, <2>5 DEF Single, h
<1>8. Loop' /\ Known' \subseteq Known \cup Behind(n)
  <2>1. PICK sk \in {sock, Down(sock)} : Continue(n, Behind(n), Registered, sk)
    BY DEF Settled
  <2>2. session' = session
    BY DEF Settled
  <2> QED BY <1>1, <1>6, <1>7, <2>1, <2>2, TurnStep
<1>9. Known' \subseteq Known /\ ends' = ends
  BY <1>2, <1>4, <1>8 DEF Settled
<1>10. Ends' /\ Found' /\ Single' /\ ends' \subseteq 0..Messages * Parts
  BY <1>1, <1>9 DEF Ends, Found, Single, Received, Chunks
<1>11. malformed' \subseteq 1..Messages
  BY <1>1 DEF Settled
<1> QED BY <1>8, <1>10, <1>11 DEF IInv, TypeOK, Loop, LoopTypes

LEMMA OtherSteps ==
  ASSUME IInv,
         \/ \E n \in 1..MaxChunks : Authorised(n) \/ AuthRejected(n)
         \/ SessionEnds \/ Drop \/ Closed \/ UNCHANGED vars
  PROVE  IInv'
<1>1. Loop /\ LoopTypes /\ Ends /\ Found /\ Single /\ ends \subseteq 0..Messages * Parts
      /\ malformed \subseteq 1..Messages
  BY LoopParts DEF Loop
<1>2. UNCHANGED <<malformed, ends, todo, begun>>
  BY DEF Authorised, AuthRejected, SessionEnds, Drop, Closed, vars
<1>3. Known' = Known
  BY <1>2 DEF Known
<1>4. (Ends /\ Found /\ Single /\ OwnChunk /\ InOrder /\ Begun)'
  BY <1>1, <1>2, <1>3
  DEF Ends, Found, Single, Received, Chunks, Loop, OwnChunk, InOrder, Begun, InHand
<1>5. ASSUME NEW n \in 1..MaxChunks, Authenticating(n)
      PROVE  /\ InHand(n) \in begun /\ IsLogon(InHand(n)) /\ InHand(n) \notin refused \cup served
             /\ \A p \in begun : IsLogon(p) => p = InHand(n)
  <2>1. InHand(n) \in begun /\ IsLogon(InHand(n)) /\ InHand(n) \notin refused \cup served
    BY <1>1, <1>5 DEF Loop, Begun, Authenticating
  <2> QED BY <1>1, <2>1 DEF Single, Known, IsLogon
<1>6. (LoopTypes /\ Deciding /\ Open /\ LogonCoversItsChunk)'
  <2>1. ASSUME NEW n \in 1..MaxChunks, Authorised(n)
        PROVE  (LoopTypes /\ Deciding /\ Open /\ LogonCoversItsChunk)'
    <3>1. Authenticating(n) /\ UNCHANGED <<todo, sock, begun, refused>>
          /\ session' \in {"registered", "turned away"}
          /\ served' = served \cup {InHand(n)}
      BY <2>1 DEF Authorised
    <3>2. LoopTypes'
      BY <1>1, <1>5, <3>1 DEF LoopTypes
    <3>3. Deciding'
      BY <1>1, <3>1 DEF Loop, Deciding, InHand
    <3>4. Open'
      BY <1>5, <3>1 DEF Open
    <3>5. LogonCoversItsChunk'
      \* while the Logon was undecided there was no session, so nobody was refused
      <4> SUFFICES ASSUME NEW p \in begun, NEW q \in refused, Whole(p), IsLogon(p),
                          q.chunk = p.chunk, p \notin refused
                   PROVE  FALSE
        BY <3>1 DEF LogonCoversItsChunk
      <4>1. session # "none"
        BY <1>1 DEF Loop, LogonCoversItsChunk
      <4>2. PICK r \in served : IsLogon(r)
        BY <1>1, <4>1 DEF Loop, Open
      <4> QED BY <1>1, <1>5, <3>1, <4>2 DEF LoopTypes
    <3> QED BY <3>2, <3>3, <3>4, <3>5
  <2>2. ASSUME NEW n \in 1..MaxChunks, AuthRejected(n)
        PROVE  (LoopTypes /\ Deciding /\ Open /\ LogonCoversItsChunk)'
    <3>1. Authenticating(n) /\ UNCHANGED <<todo, sock, session, begun, served>>
          /\ refused' = refused \cup {InHand(n)}
      BY <2>2 DEF AuthRejected
    <3>2. LoopTypes'
      BY <1>1, <1>5, <3>1 DEF LoopTypes
    <3>3. Deciding' /\ Open'
      BY <1>1, <3>1 DEF Loop, Deciding, Open, InHand
    <3>4. LogonCoversItsChunk'
      BY <1>5, <3>1 DEF LogonCoversItsChunk
    <3> QED BY <3>2, <3>3, <3>4
  <2>3. CASE Drop
    BY <1>1, <2>3 DEF Drop, Loop, LoopTypes, Deciding, Open, LogonCoversItsChunk, InHand
  <2>4. CASE Closed
    BY <1>1, <2>4 DEF Closed, Loop, LoopTypes, Deciding, Open, LogonCoversItsChunk, InHand
  <2>5. CASE SessionEnds
    BY <1>1, <2>5 DEF SessionEnds, Loop, LoopTypes, Deciding, Open, LogonCoversItsChunk, InHand, Down
  <2>6. CASE UNCHANGED vars
    BY <1>1, <2>6 DEF vars, Loop, LoopTypes, Deciding, Open, LogonCoversItsChunk, InHand
  <2> QED BY <2>1, <2>2, <2>3, <2>4, <2>5, <2>6
<1>7. ends' \subseteq 0..Messages * Parts /\ malformed' \subseteq 1..Messages
  BY <1>1, <1>2
<1> QED BY <1>4, <1>6, <1>7 DEF IInv, TypeOK, LoopTypes

LEMMA InitIInv == Init => IInv
<1> SUFFICES ASSUME Init PROVE IInv
  OBVIOUS
<1>1. Messages * Parts \in Nat
  BY MessagesAssumption DEF Parts
<1>2. TypeOK
  <2>1. ends \subseteq 0..Messages * Parts
    <3> DEFINE N == Messages * Parts
    <3>1. N \in Nat
      BY <1>1
    <3> HIDE DEF N
    <3>2. ends \subseteq 0..N
      BY <3>1 DEF Init
    <3> QED BY <3>2 DEF N
  <2>2. todo \in [1..MaxChunks -> SUBSET Piece]
    BY DEF Init
  <2> QED BY <2>1, <2>2 DEF Init, TypeOK
<1>3. Received = 0
  <2>1. 0 \in ends /\ ends \subseteq Nat /\ \A y \in ends : y <= 0
    BY DEF Init
  <2> QED BY <2>1, LargestIs DEF Received
<1>4. Known = {} /\ begun = {} /\ served = {} /\ \A n \in 1..MaxChunks : todo[n] = {}
  BY DEF Init, Known
<1>5. Ends
  BY <1>3 DEF Init, Ends
<1>6. session = "none"
  BY DEF Init
<1>7. Found /\ Single /\ LogonCoversItsChunk
  BY <1>4 DEF Found, Single, LogonCoversItsChunk
<1>8. OwnChunk /\ InOrder /\ Begun /\ Deciding
  BY <1>4 DEF OwnChunk, InOrder, Begun, Deciding
<1>9. Open
  BY <1>4, <1>6 DEF Open
<1> QED BY <1>2, <1>5, <1>7, <1>8, <1>9 DEF IInv

LEMMA NextIInv == IInv /\ [Next]_vars => IInv'
BY ArriveStep, SettledStep, OtherSteps DEF Next

LEMMA AlwaysIInv == Spec => []IInv
BY InitIInv, NextIInv, PTL DEF Spec

-----------------------------------------------------------------------------
(* The theorems *)

\* What the message handler was given is a piece of the stream that made a message, and
\* it is refused or served, not both (acceptor.ts:150-178, message.handler.ts:55-65).
THEOREM TypeCorrect == Spec => []TypeOK
<1>1. IInv => TypeOK
  BY DEF IInv
<1> QED BY <1>1, AlwaysIInv, PTL

\* However TCP cuts the stream, no message is handled twice (fix.message.parser.ts:37-74).
THEOREM HandledAtMostOnce == Spec => []AtMostOnce
<1>1. IInv => AtMostOnce
  BY DEF IInv, AtMostOnce, Single, Known
<1> QED BY <1>1, AlwaysIInv, PTL

\* Messages right behind a whole Logon in its chunk are not refused unless the Logon was,
\* or its session was turned away by the registry or is over (acceptor.ts:153-155,
\* message.handler.ts:94).
THEOREM LogonCovers == Spec => []LogonCoversItsChunk
<1>1. IInv => LogonCoversItsChunk
  BY DEF IInv
<1> QED BY <1>1, AlwaysIInv, PTL
-----------------------------------------------------------------------------
(* What UncutReachHandler waits for: its safety half. That handlers settle *)
(* in the end is left to TLC.                                              *)

\* Clear, with E for the places where chunks ended.
ClearIn(m, E) ==
  /\ m \notin malformed
  /\ \A x \in malformed : x < m => \E e \in E : x * Parts <= e /\ e <= (m - 1) * Parts

\* Nothing that comes before a whole and clear message in T fails to print.
Unbarred(T, E) ==
  \A p, q \in T : Whole(p) /\ ClearIn(p.msg, E) /\ q.msg <= p.msg => Printable(q)

\* Only the last piece of a chunk ends before part 5: the cut is behind it.
LEMMA CutIsLast ==
  ASSUME NEW n \in 1..MaxChunks, NEW lo \in Nat, NEW hi \in Nat,
         NEW p \in Pieces(n, lo, hi), NEW q \in Pieces(n, lo, hi), ~(p.to >= 5)
  PROVE  q.msg <= p.msg
<1>1. /\ p \in Piece /\ q \in Piece /\ p.from <= p.to /\ q.from <= q.to
      /\ \A k \in 1..Parts : k \in p.from..p.to <=> (p.msg - 1) * Parts + k \in lo + 1..hi
      /\ \A k \in 1..Parts : k \in q.from..q.to <=> (q.msg - 1) * Parts + k \in lo + 1..hi
  BY DEF Pieces
<1>2. /\ p.from \in 1..6 /\ p.to \in 1..4 /\ q.from \in 1..6 /\ q.to \in 1..6
      /\ p.msg \in Int /\ q.msg \in Int
  BY <1>1, MessagesAssumption DEF Piece, Parts
<1>3. p.to \in p.from..p.to /\ p.to + 1 \notin p.from..p.to /\ p.to + 1 \in 1..6 /\ p.to \in 1..6
      /\ q.from \in q.from..q.to
  BY <1>1, <1>2
<1> DEFINE a == (p.msg - 1) * 6
           b == (q.msg - 1) * 6
<1>4. /\ a + p.to \in lo + 1..hi /\ a + (p.to + 1) \notin lo + 1..hi
      /\ b + q.from \in lo + 1..hi
  BY <1>1, <1>2, <1>3 DEF Parts
<1>5. a \in Int /\ b \in Int
  BY <1>2
<1> HIDE DEF a, b
<1>6. a + p.to = hi
  BY <1>2, <1>4, <1>5
<1>7. b + 1 <= a + 4
  BY <1>2, <1>4, <1>5, <1>6
<1> QED BY <1>2, <1>7 DEF a, b

\* In a chunk, what comes before a whole and clear message prints: it is not cut, and if
\* it were malformed a chunk would have ended between the two.
LEMMA ChunkUnbarred ==
  ASSUME NEW n \in 1..MaxChunks, NEW lo \in Nat, NEW hi \in Nat,
         NEW E \in SUBSET Nat, \A e \in E : e <= lo \/ e = hi,
         malformed \subseteq 1..Messages
  PROVE  Unbarred(Pieces(n, lo, hi), E)
<1> SUFFICES ASSUME NEW p \in Pieces(n, lo, hi), NEW q \in Pieces(n, lo, hi),
                    Whole(p), ClearIn(p.msg, E), q.msg <= p.msg
             PROVE  Printable(q)
  BY DEF Unbarred
<1>1. /\ p \in Piece /\ q \in Piece /\ p.from = 1 /\ p.to = 6 /\ q.from <= q.to
      /\ p.from \in p.from..p.to /\ q.from \in q.from..q.to
      /\ p.from \in 1..Parts /\ q.from \in 1..Parts /\ q.to \in 1..Parts
  BY DEF Pieces, Piece, Whole, Parts
<1>2. /\ (p.msg - 1) * Parts + p.from \in lo + 1..hi
      /\ (q.msg - 1) * Parts + q.from \in lo + 1..hi
  BY <1>1 DEF Pieces
<1>3. p.msg \in Int /\ q.msg \in Int
  BY <1>1, MessagesAssumption DEF Piece
<1>4. CASE q.msg = p.msg
  <2>1. q = p
    BY <1>4, OnePieceEach
  <2> QED BY <1>1, <2>1 DEF Printable, ClearIn
<1>5. CASE q.msg # p.msg
  <2>1. q.msg < p.msg
    BY <1>3, <1>5
  <2>2. q.to >= 5
    BY <1>3, <2>1, CutIsLast
  <2>3. q.msg \notin malformed
    <3> SUFFICES ASSUME q.msg \in malformed PROVE FALSE
      OBVIOUS
    <3> DEFINE a == (p.msg - 1) * Parts
               b == q.msg * Parts
    <3>1. PICK e \in E : b <= e /\ e <= a
      BY <2>1 DEF ClearIn
    <3>2. a \in Int /\ b \in Int /\ (q.msg - 1) * Parts = b - 6 /\ q.from \in 1..6
      BY <1>1, <1>3 DEF Parts
    <3>3. a + 1 <= hi /\ b >= lo + 1
      <4>1. a + 1 \in lo + 1..hi /\ (b - 6) + q.from \in lo + 1..hi
        BY <1>1, <1>2, <3>2
      <4> HIDE DEF a, b
      <4> QED BY <3>2, <4>1
    <3> HIDE DEF a, b
    <3>4. e \in Nat /\ e > lo /\ e < hi
      BY <3>1, <3>2, <3>3
    <3> QED BY <3>4
  <2> QED BY <2>2, <2>3 DEF Printable
<1> QED BY <1>4, <1>5

\* A message whose parts all lie in a chunk is one of its pieces, and is parsed.
LEMMA UncutIsPiece ==
  ASSUME NEW n \in 1..MaxChunks, NEW lo \in Nat, NEW hi \in Nat, NEW m \in 1..Messages,
         lo <= (m - 1) * Parts, m * Parts <= hi
  PROVE  \E p \in Pieces(n, lo, hi) : p.msg = m /\ Whole(p) /\ Parsed(p)
<1> DEFINE p == [chunk |-> n, msg |-> m, from |-> 1, to |-> 6]
<1>1. p \in Piece /\ p.chunk = n /\ p.msg = m /\ p.from = 1 /\ p.to = 6
  BY DEF Piece, Parts
<1> HIDE DEF p
<1>2. m \in Int
  BY MessagesAssumption
<1>3. ASSUME NEW k \in 1..6 PROVE (m - 1) * 6 + k \in lo + 1..hi
  <2>1. lo <= (m - 1) * 6 /\ m * 6 <= hi
    BY DEF Parts
  <2> QED BY <1>2, <2>1
<1>4. p \in Pieces(n, lo, hi)
  BY <1>1, <1>3 DEF Pieces, Parts
<1> QED BY <1>1, <1>4 DEF Whole, Parsed, Parts

\* Where the loop of a chunk throws, nothing whole and clear is left behind.
LEMMA ContinueKeeps ==
  ASSUME LoopTypes, NEW n \in 1..MaxChunks, NEW T \in SUBSET Piece, NEW E, Unbarred(T, E),
         NEW sk, Continue(n, T, Registered, sk)
  PROVE  /\ \A p \in T : Whole(p) /\ ClearIn(p.msg, E) => p \in todo'[n]
         /\ todo'[n] \subseteq T
         /\ \A l \in 1..MaxChunks \ {n} : todo'[l] = todo[l]
         /\ begun \subseteq begun'
<1>1. todo \in [1..MaxChunks -> SUBSET Piece]
  BY DEF LoopTypes
<1>2. begun \subseteq begun' /\ \A l \in 1..MaxChunks \ {n} : todo'[l] = todo[l]
  BY <1>1 DEF Continue, Handed
<1>3. todo'[n] = T \/ (todo'[n] = {} /\ T = {})
      \/ (todo'[n] = {} /\ T # {} /\ ~Printable(First(T)))
  BY <1>1 DEF Continue
<1>4. ASSUME NEW p \in T, Whole(p), ClearIn(p.msg, E) PROVE Printable(First(T))
  <2>1. First(T) \in T /\ First(T).msg <= p.msg
    BY FirstIn
  <2> QED BY <1>4, <2>1 DEF Unbarred
<1> QED BY <1>2, <1>3, <1>4

\* Nothing that waits in a loop keeps a whole and clear message behind it from its turn.
NotBarred == \A n \in 1..MaxChunks : Unbarred(todo[n], ends)

Listed(m) == \E p \in Known : p.msg = m /\ Whole(p)

\* A well-formed message that arrived uncut, with no malformed one before it in its
\* chunk, is not lost between the socket and the handler: it was handed over, or it waits
\* in the loop of its chunk behind the one in hand. No cut, refusal or error of the others,
\* no malformed message behind it or in another chunk, and not the end of the socket takes
\* it off that loop (acceptor.ts:150-178, message.ts:270-285).
NothingUncutLost == \A m \in 1..Messages : Uncut(m) /\ Clear(m) => Listed(m)

\* What a turn of the loop of chunk n over the pieces T does to what is listed.
LEMMA TurnKeepsListed ==
  ASSUME LoopTypes, NEW n \in 1..MaxChunks, NEW T \in SUBSET Piece, NEW E,
         Unbarred(T, E), \A l \in 1..MaxChunks : Unbarred(todo[l], E),
         todo[n] \subseteq T \cup begun, NEW sk, Continue(n, T, Registered, sk)
  PROVE  /\ \A l \in 1..MaxChunks : Unbarred(todo'[l], E)
         /\ \A p \in Known \cup T : Whole(p) /\ ClearIn(p.msg, E) => p \in Known'
<1>1. /\ \A p \in T : Whole(p) /\ ClearIn(p.msg, E) => p \in todo'[n]
      /\ todo'[n] \subseteq T
      /\ \A l \in 1..MaxChunks \ {n} : todo'[l] = todo[l]
      /\ begun \subseteq begun'
  BY ContinueKeeps
<1>2. ASSUME NEW l \in 1..MaxChunks PROVE Unbarred(todo'[l], E)
  <2>1. CASE l = n
    BY <1>1, <2>1 DEF Unbarred
  <2>2. CASE l # n
    BY <1>1, <2>2
  <2> QED BY <2>1, <2>2
<1>3. ASSUME NEW p \in Known \cup T, Whole(p), ClearIn(p.msg, E) PROVE p \in Known'
  <2>1. CASE p \in T
    BY <1>1, <1>3, <2>1 DEF Known
  <2>2. CASE p \in begun
    BY <1>1, <2>2 DEF Known
  <2>3. ASSUME NEW l \in 1..MaxChunks, p \in todo[l] PROVE p \in Known'
    BY <1>1, <2>1, <2>2, <2>3 DEF Known
  <2> QED BY <1>3, <2>1, <2>2, <2>3 DEF Known
<1> QED BY <1>2, <1>3

\* A chunk that arrives ends behind all that was received: it clears no message of these.
LEMMA StaysBarred ==
  ASSUME NEW E, NEW k \in Nat, NEW r \in Nat, k > r, NEW m \in Nat, m * Parts <= r,
         ClearIn(m, E \cup {k})
  PROVE  ClearIn(m, E)
<1> DEFINE a == (m - 1) * Parts
<1>1. a \in Int /\ a < k
  <2> DEFINE b == m * Parts
  <2>1. a \in Int /\ b \in Int /\ b = a + 6
    BY DEF Parts
  <2> HIDE DEF a, b
  <2>2. b <= r
    BY DEF b
  <2> QED BY <2>1, <2>2
<1> HIDE DEF a
<1>2. ~(k <= a)
  BY <1>1
<1> QED BY <1>2 DEF ClearIn, a

LEMMA ArriveKeepsUncut ==
  ASSUME IInv, NotBarred, NothingUncutLost, NEW k \in 1..Messages * Parts, Arrive(k)
  PROVE  NotBarred' /\ NothingUncutLost'
<1> DEFINE n == Chunks + 1
           P == Pieces(n, Received, k)
           T == {p \in P : Parsed(p)}
           E == ends \cup {k}
<1>1. LoopTypes /\ Ends /\ ends \subseteq 0..Messages * Parts /\ malformed \subseteq 1..Messages
  BY LoopParts DEF Loop
<1>2. Received \in Nat /\ Chunks \in Nat /\ k \in Nat /\ MaxChunks \in Nat /\ ends \subseteq Nat
  BY <1>1, EndsType, MessagesAssumption, MaxChunksAssumption DEF Parts
<1>3. n \in 1..MaxChunks /\ todo[n] = {}
  <2>1. n \in 1..MaxChunks
    BY <1>2 DEF Arrive
  <2>2. \A p \in Known : p.chunk # n
    BY <1>2, LoopParts, KnownPieces DEF Found, Piece, Loop
  <2>3. \A p \in todo[n] : p.chunk = n /\ p \in Known
    BY <2>1 DEF IInv, OwnChunk, Known
  <2> QED BY <2>1, <2>2, <2>3
<1>4. /\ ends' = E /\ malformed' = malformed /\ k > Received
      /\ Continue(n, T, Registered, sock)
  BY DEF Arrive
<1> HIDE DEF n
<1>5. T \in SUBSET Piece
  BY DEF Pieces
<1>6. Unbarred(T, E)
  <2>1. E \in SUBSET Nat /\ \A e \in E : e <= Received \/ e = k
    BY <1>1, <1>2 DEF Ends
  <2> HIDE DEF E
  <2>2. Unbarred(P, E)
    BY <1>1, <1>2, <1>3, <2>1, ChunkUnbarred
  <2> QED BY <2>2 DEF Unbarred
<1>7. ASSUME NEW m \in 1..Messages, Received <= (m - 1) * Parts, m * Parts <= k
      PROVE  \E p \in T : p.msg = m /\ Whole(p)
  BY <1>2, <1>3, <1>7, UncutIsPiece
<1> HIDE DEF P, T
<1>8. ASSUME NEW l \in 1..MaxChunks PROVE Unbarred(todo[l], E)
  <2>1. ASSUME NEW p \in todo[l], Whole(p), ClearIn(p.msg, E) PROVE ClearIn(p.msg, ends)
    <3>1. p \in Piece /\ (p.msg - 1) * Parts + p.to <= Received /\ p.to = Parts
      BY <2>1 DEF IInv, Found, Known, TypeOK, Whole
    <3>2. p.msg \in Nat /\ p.msg * Parts <= Received
      <4>1. p.msg \in Nat
        BY <3>1, MessagesAssumption DEF Piece
      <4>2. (p.msg - 1) * 6 + 6 = p.msg * 6
        BY <4>1
      <4> QED BY <3>1, <4>1, <4>2 DEF Parts
    <3> QED BY <1>2, <1>4, <2>1, <3>2, StaysBarred
  <2> QED BY <2>1 DEF NotBarred, Unbarred
<1>9. /\ \A l \in 1..MaxChunks : Unbarred(todo'[l], E)
      /\ \A p \in Known \cup T : Whole(p) /\ ClearIn(p.msg, E) => p \in Known'
  <2>1. todo[n] \subseteq T \cup begun
    BY <1>3
  <2> HIDE DEF E
  <2> QED BY <1>1, <1>3, <1>4, <1>5, <1>6, <1>8, <2>1, TurnKeepsListed
<1>10. Received' = k
  <2>1. k \in ends' /\ (\A y \in ends' : y <= k) /\ ends' \in SUBSET Nat
    BY <1>1, <1>2, <1>4 DEF Ends
  <2> QED BY <2>1, LargestIs DEF Received
<1>11. ASSUME NEW m \in 1..Messages, Uncut(m)', Clear(m)' PROVE Listed(m)'
  <2> DEFINE lo == (m - 1) * Parts
             hi == m * Parts
  <2>1. lo \in Int /\ hi \in Int /\ hi = lo + 6
    BY MessagesAssumption DEF Parts
  <2>2. hi <= k /\ \A x \in ends' : x \notin lo + 1 .. hi - 1
    BY <1>10, <1>11 DEF Uncut
  <2>3. Received \notin lo + 1 .. hi - 1
    BY <1>1, <1>4, <2>2 DEF Ends
  <2>4. ClearIn(m, E)
    BY <1>4, <1>11 DEF Clear, ClearIn
  <2>5. CASE hi <= Received
    <3>1. Uncut(m)
      BY <1>4, <2>2, <2>5 DEF Uncut
    <3>2. m \in Nat /\ m * Parts <= Received
      BY <2>5, MessagesAssumption
    <3>3. Clear(m)
      <4>1. ClearIn(m, ends)
        BY <1>2, <1>4, <2>4, <3>2, StaysBarred
      <4> QED BY <4>1 DEF Clear, ClearIn
    <3>4. PICK p \in Known : p.msg = m /\ Whole(p)
      BY <3>1, <3>3 DEF NothingUncutLost, Listed
    <3> QED BY <1>9, <2>4, <3>4 DEF Listed
  <2>6. CASE Received < hi
    <3> HIDE DEF lo, hi
    <3>1. Received <= lo
      BY <1>2, <2>1, <2>3, <2>6
    <3>2. PICK p \in T : p.msg = m /\ Whole(p)
      BY <1>7, <2>2, <3>1 DEF lo, hi
    <3> QED BY <1>9, <2>4, <3>2 DEF Listed
  <2> HIDE DEF lo, hi
  <2> QED BY <1>2, <2>1, <2>5, <2>6
<1>12. NotBarred'
  BY <1>4, <1>9 DEF NotBarred, Unbarred, ClearIn, Printable
<1> QED BY <1>11, <1>12 DEF NothingUncutLost

LEMMA SettledKeepsUncut ==
  ASSUME IInv, NotBarred, NothingUncutLost, NEW n \in 1..MaxChunks, Settled(n)
  PROVE  NotBarred' /\ NothingUncutLost'
<1>1. LoopTypes /\ Begun
  BY DEF IInv, TypeOK, LoopTypes
<1>2. PICK sk : Continue(n, Behind(n), Registered, sk)
  BY DEF Settled
<1>3. todo[n] \subseteq Piece /\ Behind(n) \subseteq todo[n]
      /\ InHand(n) \in begun /\ todo[n] \subseteq Behind(n) \cup begun
  BY <1>1 DEF LoopTypes, Behind, Begun, Settled
<1>4. Unbarred(Behind(n), ends)
  BY <1>3 DEF NotBarred, Unbarred
<1>5. /\ \A l \in 1..MaxChunks : Unbarred(todo'[l], ends)
      /\ \A p \in Known : Whole(p) /\ ClearIn(p.msg, ends) => p \in Known'
  <2>1. Behind(n) \in SUBSET Piece
    BY <1>3
  <2> QED BY <1>1, <1>2, <1>3, <1>4, <2>1, TurnKeepsListed DEF NotBarred
<1>6. ends' = ends /\ malformed' = malformed
  BY DEF Settled
<1>7. NotBarred'
  BY <1>5, <1>6 DEF NotBarred, Unbarred, ClearIn, Printable
<1>8. ASSUME NEW m \in 1..Messages, Uncut(m)', Clear(m)' PROVE Listed(m)'
  <2>1. Uncut(m) /\ Clear(m) /\ ClearIn(m, ends)
    BY <1>6, <1>8 DEF Uncut, Clear, ClearIn, Received
  <2>2. PICK p \in Known : p.msg = m /\ Whole(p)
    BY <2>1 DEF NothingUncutLost, Listed
  <2> QED BY <1>5, <2>1, <2>2 DEF Listed
<1> QED BY <1>7, <1>8 DEF NothingUncutLost

LEMMA NextKeepsUncut ==
  IInv /\ NotBarred /\ NothingUncutLost /\ [Next]_vars => NotBarred' /\ NothingUncutLost'
<1> SUFFICES ASSUME IInv, NotBarred, NothingUncutLost, [Next]_vars
             PROVE  NotBarred' /\ NothingUncutLost'
  OBVIOUS
<1>1. CASE UNCHANGED <<malformed, ends, todo, begun>>
  BY <1>1 DEF NotBarred, NothingUncutLost, Listed, Known, Uncut, Clear, Received, Unbarred,
              ClearIn, Printable
<1>2. ASSUME NEW n \in 1..MaxChunks, Authorised(n) \/ AuthRejected(n)
      PROVE  UNCHANGED <<malformed, ends, todo, begun>>
  BY <1>2 DEF Authorised, AuthRejected
<1>3. SessionEnds \/ Drop \/ Closed \/ UNCHANGED vars => UNCHANGED <<malformed, ends, todo, begun>>
  BY DEF SessionEnds, Drop, Closed, vars
<1> QED BY <1>1, <1>2, <1>3, ArriveKeepsUncut, SettledKeepsUncut DEF Next

\* However the stream is cut, an uncut and well-formed message is with the handler or in
\* line for it, unless a malformed one came before it in its chunk (acceptor.ts:150-178).
THEOREM NoUncutMessageLost == Spec => []NothingUncutLost
<1>1. Init => NotBarred /\ NothingUncutLost
  <2> SUFFICES ASSUME Init PROVE NotBarred /\ NothingUncutLost
    OBVIOUS
  <2>1. NotBarred
    BY DEF Init, NotBarred, Unbarred
  <2>2. Received = 0
    <3>1. 0 \in ends /\ ends \in SUBSET Nat /\ \A y \in ends : y <= 0
      BY DEF Init
    <3> QED BY <3>1, LargestIs DEF Received
  <2>3. \A m \in 1..Messages : m * Parts > 0
    BY MessagesAssumption DEF Parts
  <2>4. ASSUME NEW m \in 1..Messages PROVE ~Uncut(m)
    <3> DEFINE x == m * Parts
    <3>1. x \in Int /\ x > 0
      BY <2>3, MessagesAssumption DEF Parts
    <3> HIDE DEF x
    <3> QED BY <2>2, <3>1 DEF Uncut, x
  <2> QED BY <2>1, <2>4 DEF NothingUncutLost
<1> QED BY <1>1, NextKeepsUncut, AlwaysIInv, PTL DEF Spec
=============================================================================
