------------------------- MODULE MessageQueueProofs -------------------------
(***************************************************************************)
(* No message of the queue is lost or held twice, and the queue keeps to   *)
(* the bounds of MessageDelivery: for every set of messages, batch size    *)
(* and number of retries.                                                  *)
(***************************************************************************)
EXTENDS MessageQueue, PriorityQueueProofs

Other(r) == IF r = "interval" THEN "shutdown" ELSE "interval"

-----------------------------------------------------------------------------
(* The inductive invariant. Between taking a batch out of the queue and     *)
(* settling what becomes of it the code has a state no turn ends in, so the *)
(* parts are stated of a queue q, the batch B in hand and the batch o of    *)
(* the other runner.                                                        *)

\* No message is in two of them, or twice in one.
Apart(q, B, o) ==
  /\ q \cap B = {} /\ q \cap o = {} /\ B \cap o = {}
  /\ \A e, f \in q \cup B \cup o : e.msg = f.msg => e = f

\* No item is older than the first push or younger than push p.
Aged(q, B, o, p) == \A e \in q \cup B \cup o : e.age <= p

\* All is among the messages A.
Among(q, B, o, A) == Messages(q \cup B \cup o) \subseteq A

Sound(q, B, o, p, A) ==
  /\ q \subseteq Item /\ B \subseteq Item /\ o \subseteq Item
  /\ Apart(q, B, o)
  /\ Aged(q, B, o, p)
  /\ Among(q, B, o, A)

\* e is the first of S.
FirstOf(e, S) == \A f \in S \ {e} : Before(e, f)

\* A batch in hand waits for the first of its messages that is not sent, and the
\* two flags tell which batches are in hand.
Shape ==
  /\ \A r \in Runner : sent[r] \subseteq batch[r]
  /\ \A r \in Runner : batch[r] # {} => \E e \in Todo(r) : FirstOf(e, Todo(r))
  /\ processing = (batch["interval"] # {})
  /\ (closing = "sending") = (batch["shutdown"] # {})

\* Every message of S was written no more often than it was queued again.
Fresh(S) == \A e \in S : writes[e.msg] <= retryCount[e.msg]

\* ... and once more if it was written since; the first of a batch was.
Counted ==
  /\ \A m \in Msg : writes[m] <= retryCount[m] + 1
  /\ Fresh(queue)
  /\ \A r \in Runner : Fresh({e \in Todo(r) : \E f \in Todo(r) : Before(f, e)})

SentDelivered == \A r \in Runner : Messages(sent[r]) \subseteq delivered

\* The array is sorted.
Lined == items \in Seq(Item) /\ InOrder(items)

Unwritten == \A m \in Msg \ accepted : writes[m] = 0

IInv ==
  /\ TypeOK
  /\ failed \subseteq accepted
  /\ Sound(queue, batch["interval"], batch["shutdown"], pushes, accepted \ failed)
  /\ Shape
  /\ NothingLost
  /\ SentDelivered
  /\ Counted
  /\ Unwritten
  /\ Lined

-----------------------------------------------------------------------------
(* Items *)

\* Items that differ in their messages are no more than there are messages.
LEMMA OnePerMessageFinite ==
  ASSUME NEW S \in SUBSET Item, \A e, f \in S : e.msg = f.msg => e = f
  PROVE  IsFiniteSet(S)
<1> DEFINE g == [e \in S |-> e.msg]
<1>1. g \in [S -> Msg]
  BY ItemFields
<1>2. \A e, f \in S : g[e] = g[f] => e = f
  OBVIOUS
<1>3. g \in Injection(S, Msg)
  BY <1>1, <1>2 DEF Injection, IsInjective
<1> QED BY <1>3, FS_Injection, MsgAssumption

LEMMA RankBounds ==
  ASSUME NEW B \in SUBSET Item, IsFiniteSet(B), NEW e \in B
  PROVE  /\ Rank(e, B) \in Nat /\ Rank(e, B) >= 1
         /\ Cardinality(B) \in Nat /\ Rank(e, B) <= Cardinality(B)
<1> DEFINE S == {f \in B : ~Before(e, f)}
<1>1. e \in S
  BY ItemFields DEF Before
<1>2. IsFiniteSet(S) /\ Cardinality(S) <= Cardinality(B)
  BY FS_Subset
<1>3. Cardinality(S) \in Nat /\ Cardinality(B) \in Nat
  BY <1>2, FS_CardinalityType
<1>4. Cardinality(S) # 0
  BY <1>1, <1>2, FS_EmptySet
<1> QED BY <1>2, <1>3, <1>4 DEF Rank

\* What handleSendError pushes: one item for each retryable message, younger than
\* everything there was.
LEMMA PushedItems ==
  ASSUME TypeOK, NEW B \in SUBSET Item, \A e, f \in B : e.msg = f.msg => e = f
  PROVE  /\ Pushed(B) \subseteq Item
         /\ \A f \in Pushed(B) : f.age > pushes /\ f.age <= pushes + Cardinality(B)
         /\ \A f, g \in Pushed(B) : f.msg = g.msg => f = g
         /\ Messages(Pushed(B)) = Messages(Retryable(B))
         /\ Cardinality(B) \in Nat
<1>1. IsFiniteSet(B)
  BY OnePerMessageFinite
<1>2. Cardinality(B) \in Nat
  BY <1>1, FS_CardinalityType
<1>3. Retryable(B) \subseteq B
  BY DEF Retryable
<1>4. pushes \in Nat /\ \A e \in B : retryCount[e.msg] \in Nat
  BY ItemFields, RetryAssumption DEF TypeOK
<1>5. ASSUME NEW f \in Pushed(B)
      PROVE  f \in Item /\ f.age > pushes /\ f.age <= pushes + Cardinality(B)
  <2>1. PICK e \in Retryable(B) :
          f = [msg |-> e.msg, priority |-> retryCount[e.msg] + 1, age |-> pushes + Rank(e, B)]
    BY DEF Pushed
  <2>2. e \in B /\ e.msg \in Msg
    BY <1>3, ItemFields
  <2>3. Rank(e, B) \in Nat /\ Rank(e, B) >= 1 /\ Rank(e, B) <= Cardinality(B)
    BY <1>1, <2>2, RankBounds
  <2>4. retryCount[e.msg] \in Nat
    BY <1>4, <2>2
  <2> HIDE DEF Item
  <2>5. f.age = pushes + Rank(e, B)
    BY <2>1
  <2>6. f \in Item
    BY <1>4, <2>1, <2>2, <2>3, <2>4 DEF Item
  <2> QED BY <1>2, <1>4, <2>3, <2>5, <2>6
<1>6. \A f, g \in Pushed(B) : f.msg = g.msg => f = g
  BY <1>3 DEF Pushed
<1>7. Messages(Pushed(B)) = Messages(Retryable(B))
  <2>1. ASSUME NEW e \in Retryable(B) PROVE \E f \in Pushed(B) : f.msg = e.msg
    <3>1. [msg |-> e.msg, priority |-> retryCount[e.msg] + 1, age |-> pushes + Rank(e, B)]
            \in Pushed(B)
      BY DEF Pushed
    <3> QED BY <3>1
  <2>2. ASSUME NEW f \in Pushed(B) PROVE \E e \in Retryable(B) : f.msg = e.msg
    BY DEF Pushed
  <2> QED BY <2>1, <2>2 DEF Messages
<1> QED BY <1>2, <1>5, <1>6, <1>7

-----------------------------------------------------------------------------
(* What turns do to the items *)

LEMMA SoundSwap ==
  ASSUME NEW q, NEW B, NEW o, NEW p, NEW A, Sound(q, B, o, p, A)
  PROVE  Sound(q, o, B, p, A)
BY DEF Sound, Apart, Aged, Among, Messages

LEMMA SoundTaken ==
  ASSUME NEW q, NEW o, NEW p, NEW A, Sound(q, {}, o, p, A), NEW B, B \subseteq q
  PROVE  Sound(q \ B, B, o, p, A)
<1>1. B \subseteq q /\ q \subseteq Item
  BY DEF Sound
<1>2. Apart(q \ B, B, o)
  BY <1>1 DEF Sound, Apart
<1>3. Aged(q \ B, B, o, p) /\ Among(q \ B, B, o, A)
  BY <1>1 DEF Sound, Aged, Among, Messages
<1> QED BY <1>1, <1>2, <1>3 DEF Sound

LEMMA SoundAdded ==
  ASSUME NEW q, NEW B, NEW o, NEW p \in Nat, NEW A, Sound(q, B, o, p, A),
         NEW x \in Item, x.age = p + 1, x.msg \notin A
  PROVE  Sound(q \cup {x}, B, o, p + 1, A \cup {x.msg})
<1>1. q \subseteq Item /\ B \subseteq Item /\ o \subseteq Item
  BY DEF Sound
<1>2. \A e \in q \cup B \cup o : e.msg \in A /\ e.age \in Nat /\ e.age <= p /\ e.age < p + 1
  BY <1>1, ItemFields DEF Sound, Among, Messages, Aged
<1>3. Apart(q \cup {x}, B, o)
  BY <1>2 DEF Sound, Apart
<1>4. Aged(q \cup {x}, B, o, p + 1)
  BY <1>2 DEF Aged
<1>5. Among(q \cup {x}, B, o, A \cup {x.msg})
  BY <1>2 DEF Among, Messages
<1> QED BY <1>1, <1>3, <1>4, <1>5 DEF Sound

\* handleSendError, to the items as a set.
Requeued(q, B) ==
  /\ queue' = q \cup Pushed(B)
  /\ pushes' = pushes + Cardinality(B)
  /\ retryCount' = [m \in Msg |->
                     retryCount[m] + (IF m \in Messages(Retryable(B)) THEN 1 ELSE 0)]
  /\ failed' = failed \cup Messages(B \ Retryable(B))

\* What is queued again is younger than all of the array, which stays in order.
LEMMA RequeuedInOrder ==
  ASSUME TypeOK, NEW q \in Seq(Item), InOrder(q), NEW B, NEW o, NEW A,
         Sound(Elements(q), B, o, pushes, A), HandleSendError(q, B)
  PROVE  Requeued(Elements(q), B) /\ Lined'
<1> DEFINE S == Pushed(B)
<1>1. B \in SUBSET Item /\ \A e, f \in B : e.msg = f.msg => e = f
  BY DEF Sound, Apart
<1>2. /\ S \subseteq Item
      /\ \A f \in S : f.age > pushes
      /\ \A f, g \in S : f.msg = g.msg => f = g
  BY <1>1, PushedItems
<1>3. PICK p \in InPushOrder(S) : Sorts(q \o p, items')
  BY DEF HandleSendError, PushAll
<1>4. pushes \in Nat /\ \A e \in Elements(q) : e.age <= pushes
  BY DEF TypeOK, Sound, Aged
<1> HIDE DEF S
<1>5. IsFiniteSet(S)
  BY <1>2, OnePerMessageFinite
<1>6. items' \in Seq(Item) /\ InOrder(items') /\ Elements(items') = Elements(q) \cup S
  BY <1>2, <1>3, <1>4, <1>5, PushAllOrders
<1>7. queue' = Elements(q) \cup Pushed(B)
  BY <1>6 DEF queue, S
<1> QED BY <1>6, <1>7 DEF Requeued, HandleSendError, Lined

LEMMA SoundRequeued ==
  ASSUME TypeOK, NEW q, NEW B, NEW o,
         Sound(q, B, o, pushes, accepted \ failed),
         Requeued(q, B), accepted' = accepted
  PROVE  Sound(queue', {}, o, pushes', accepted' \ failed')
<1>1. q \subseteq Item /\ B \in SUBSET Item /\ o \subseteq Item
  BY DEF Sound
<1>2. /\ Pushed(B) \subseteq Item
      /\ \A f \in Pushed(B) : f.age > pushes /\ f.age <= pushes + Cardinality(B)
      /\ \A f, g \in Pushed(B) : f.msg = g.msg => f = g
      /\ Messages(Pushed(B)) = Messages(Retryable(B))
      /\ Cardinality(B) \in Nat
  BY <1>1, PushedItems DEF Sound, Apart
<1>3. /\ queue' = q \cup Pushed(B)
      /\ pushes' = pushes + Cardinality(B)
      /\ failed' = failed \cup Messages(B \ Retryable(B))
  BY DEF Requeued
<1>4. Retryable(B) \subseteq B /\ pushes \in Nat
  BY DEF Retryable, TypeOK
<1>5. \A f \in Pushed(B) : \E e \in Retryable(B) : f.msg = e.msg
  BY <1>2 DEF Messages
<1>6. \A e \in q \cup o, f \in Pushed(B) : e.msg # f.msg /\ e.age < f.age /\ e.age <= pushes'
  <2> SUFFICES ASSUME NEW e \in q \cup o, NEW f \in Pushed(B)
               PROVE  e.msg # f.msg /\ e.age < f.age /\ e.age <= pushes'
    OBVIOUS
  <2>1. e.msg # f.msg
    BY <1>4, <1>5 DEF Sound, Apart
  <2>2. e.age \in Nat /\ f.age \in Nat
    BY <1>1, <1>2, ItemFields
  <2>3. e.age <= pushes /\ f.age > pushes
    BY <1>2 DEF Sound, Aged
  <2> QED BY <1>2, <1>3, <1>4, <2>1, <2>2, <2>3
<1>7. \A e \in q \cup o : e.age <= pushes'
  <2> SUFFICES ASSUME NEW e \in q \cup o PROVE e.age <= pushes'
    OBVIOUS
  <2>1. e.age \in Nat /\ e.age <= pushes
    BY <1>1, ItemFields DEF Sound, Aged
  <2> QED BY <1>2, <1>3, <1>4, <2>1
<1>8. Apart(queue', {}, o)
  <2>1. queue' \cap o = {}
    BY <1>3, <1>6 DEF Sound, Apart
  <2>2. \A e, f \in q \cup o : e.msg = f.msg => e = f
    BY DEF Sound, Apart
  <2> QED BY <1>2, <1>3, <1>6, <2>1, <2>2 DEF Apart
<1>9. Aged(queue', {}, o, pushes')
  BY <1>2, <1>3, <1>7 DEF Aged
<1>10. Among(queue', {}, o, accepted' \ failed')
  <2> SUFFICES ASSUME NEW e \in q \cup Pushed(B) \cup o PROVE e.msg \in accepted' \ failed'
    BY <1>3 DEF Among, Messages
  <2>1. PICK g \in q \cup o \cup Retryable(B) : g.msg = e.msg
    BY <1>5
  <2>2. g \in q \cup o \cup B /\ g \notin B \ Retryable(B)
    BY <1>4 DEF Sound, Apart
  <2>3. g.msg \in accepted \ failed
    BY <2>2 DEF Sound, Among, Messages
  <2>4. g.msg \notin Messages(B \ Retryable(B))
    BY <2>2 DEF Sound, Apart, Messages
  <2> QED BY <1>3, <2>1, <2>3, <2>4
<1> QED BY <1>1, <1>2, <1>3, <1>8, <1>9, <1>10 DEF Sound

-----------------------------------------------------------------------------
(* The turns of a runner. All of them start from the batch B of runner r, of *)
(* which D is sent, and the rest q of the queue.                             *)

Taken(r, q, B, D) ==
  /\ D \subseteq B /\ Cardinality(B) <= MaxBatchSize
  /\ Sound(q, B, batch[Other(r)], pushes, accepted \ failed)
  /\ Fresh(q)
  /\ Messages(D) \subseteq delivered'
  /\ accepted \subseteq Messages(q \cup B \cup batch[Other(r)]) \cup delivered' \cup failed

\* The batch is sent,
Finishes(r, q, B, D) ==
  /\ B = D
  /\ Hand(r, {}, {}, "sent")
  /\ queue' = q
  /\ UNCHANGED <<pushes, retryCount, writes, failed>>

\* or its next message is written,
Gives(r, q, B, D) ==
  /\ Fresh(B \ D)
  /\ Hand(r, B, D, "no")
  /\ queue' = q
  /\ \E e \in B \ D : FirstOf(e, B \ D) /\ writes' = [writes EXCEPT ![e.msg] = @ + 1]
  /\ UNCHANGED <<pushes, retryCount, failed>>

\* or it is queued again.
Requeues(r, q, B) ==
  /\ Hand(r, {}, {}, "failed")
  /\ Requeued(q, B)
  /\ UNCHANGED writes

Turn(r, q, B, D) ==
  /\ Taken(r, q, B, D)
  /\ Finishes(r, q, B, D) \/ Gives(r, q, B, D) \/ Requeues(r, q, B)

\* What runner r takes comes before what it leaves.
FirstTaken(r) ==
  batch[r] = {} /\ batch'[r] # {} => \A e \in batch'[r], f \in queue' : Before(e, f)

BatchStep(r) ==
  /\ accepted' = accepted
  /\ delivered \subseteq delivered' /\ delivered' \subseteq Msg
  /\ paused' \in BOOLEAN
  /\ Lined' /\ FirstTaken(r)
  /\ \E q, B, D \in SUBSET Item : Turn(r, q, B, D)

LEMMA SendBatchTurns ==
  ASSUME TypeOK, NEW r \in Runner, NEW q \in Seq(Item), InOrder(q),
         NEW B \in SUBSET Item, NEW D \in SUBSET Item,
         SendBatch(r, q, B, D), Fresh(B \ D), Taken(r, Elements(q), B, D)
  PROVE  Turn(r, Elements(q), B, D) /\ Lined'
<1>0. items' = q => queue' = Elements(q) /\ Lined'
  BY DEF queue, Lined
<1>1. CASE \E e \in B \ D :
             /\ \A f \in B \ D : f = e \/ Before(e, f)
             /\ e.msg \notin Invalid
             /\ Hand(r, B, D, "no")
             /\ items' = q
             /\ writes' = [writes EXCEPT ![e.msg] = @ + 1]
             /\ UNCHANGED <<pushes, retryCount, failed>>
  BY <1>0, <1>1 DEF Turn, Gives, FirstOf
<1>2. CASE /\ B = D
           /\ Hand(r, {}, {}, "sent")
           /\ items' = q
           /\ UNCHANGED <<pushes, retryCount, writes, failed>>
  BY <1>0, <1>2 DEF Turn, Finishes
<1>3. CASE /\ B # D
           /\ Hand(r, {}, {}, "failed")
           /\ HandleSendError(q, B)
           /\ UNCHANGED writes
  <2>1. Requeued(Elements(q), B) /\ Lined'
    BY <1>3, RequeuedInOrder DEF Taken
  <2> QED BY <1>3, <2>1 DEF Turn, Requeues
<1> QED BY <1>1, <1>2, <1>3 DEF SendBatch

\* The message in hand is the first of those not sent, so it exists.
LEMMA InHandIsFirst ==
  ASSUME Shape, NEW r \in Runner, batch[r] # {}
  PROVE  InHand(r) \in Todo(r) /\ FirstOf(InHand(r), Todo(r))
<1>1. \E e \in Todo(r) : \A f \in Todo(r) \ {e} : Before(e, f)
  BY DEF Shape, FirstOf
<1> QED BY <1>1 DEF InHand, FirstOf

LEMMA RunnersDiffer ==
  ASSUME NEW r \in Runner
  PROVE  /\ Other(r) \in Runner /\ Other(r) # r
         /\ \A t \in Runner : t = r \/ t = Other(r)
BY DEF Runner, Other

\* The invariant tells the two runners apart only by their flags.
LEMMA SoundOf ==
  ASSUME IInv, NEW r \in Runner
  PROVE  Sound(queue, batch[r], batch[Other(r)], pushes, accepted \ failed)
<1>1. Sound(queue, batch["interval"], batch["shutdown"], pushes, accepted \ failed)
  BY DEF IInv
<1>2. Sound(queue, batch["shutdown"], batch["interval"], pushes, accepted \ failed)
  BY <1>1, SoundSwap
<1> QED BY <1>1, <1>2 DEF Other, Runner

LEMMA HeldOf ==
  ASSUME NEW r \in Runner
  PROVE  Held = queue \cup batch[r] \cup batch[Other(r)]
BY DEF Held, Other, Runner

LEMMA ProcessBatchTurns ==
  ASSUME IInv, NEW r \in Runner, batch[r] = {}, ProcessBatch(r),
         accepted' = accepted, delivered' = delivered, paused' \in BOOLEAN
  PROVE  BatchStep(r)
<1> DEFINE B == Shifted(items, MaxBatchSize)
           q == Rest(items, MaxBatchSize)
<1>1. SendBatch(r, q, B, {})
  BY DEF ProcessBatch
<1>2. MaxBatchSize \in Nat /\ items \in Seq(Item) /\ InOrder(items)
  BY BatchAssumption DEF IInv, Lined
<1>3. /\ q \in Seq(Item) /\ InOrder(q)
      /\ Elements(q) = queue \ B /\ B \subseteq queue
      /\ \A e \in B, f \in Elements(q) : Before(e, f)
      /\ Cardinality(B) <= MaxBatchSize
  BY <1>2, ShiftsInOrder DEF queue
<1> HIDE DEF B, q
<1>4. Sound(queue, {}, batch[Other(r)], pushes, accepted \ failed)
  BY SoundOf
<1>5. Sound(Elements(q), B, batch[Other(r)], pushes, accepted \ failed)
  BY <1>3, <1>4, SoundTaken
<1>6. queue \subseteq Item /\ Fresh(queue) /\ delivered \subseteq Msg
  BY <1>4 DEF IInv, Sound, Counted, TypeOK
<1>7. Fresh(Elements(q)) /\ Fresh(B \ {})
  BY <1>3, <1>6 DEF Fresh
<1>8. accepted \subseteq Messages(Elements(q) \cup B \cup batch[Other(r)]) \cup delivered \cup failed
  <2>1. Elements(q) \cup B \cup batch[Other(r)] = Held
    BY <1>3, HeldOf
  <2> QED BY <2>1 DEF IInv, NothingLost
<1>9. Taken(r, Elements(q), B, {})
  BY <1>3, <1>5, <1>7, <1>8 DEF Taken, Messages
<1>10. B \in SUBSET Item /\ Elements(q) \in SUBSET Item
  BY <1>3, <1>6
<1>11. Turn(r, Elements(q), B, {}) /\ Lined'
  BY <1>1, <1>3, <1>7, <1>9, <1>10, SendBatchTurns DEF IInv
<1>12. FirstTaken(r)
  <2>1. ASSUME NEW S, NEW d, NEW over, Hand(r, S, d, over) PROVE batch'[r] = S
    BY <2>1 DEF Hand, IInv, TypeOK
  <2>2. CASE Gives(r, Elements(q), B, {})
    <3>1. batch'[r] = B /\ queue' = Elements(q)
      BY <2>1, <2>2 DEF Gives
    <3> QED BY <1>3, <3>1 DEF FirstTaken
  <2>3. CASE Finishes(r, Elements(q), B, {}) \/ Requeues(r, Elements(q), B)
    <3>1. batch'[r] = {}
      BY <2>1, <2>3 DEF Finishes, Requeues
    <3> QED BY <3>1 DEF FirstTaken
  <2> QED BY <1>11, <2>2, <2>3 DEF Turn
<1> QED BY <1>6, <1>10, <1>11, <1>12 DEF BatchStep

LEMMA WriteConfirmedTurns ==
  ASSUME IInv, NEW r \in Runner, WriteConfirmed(r)
  PROVE  BatchStep(r)
<1> DEFINE D == sent[r] \cup {InHand(r)}
<1>1. /\ batch[r] # {}
      /\ delivered' = delivered \cup {InHand(r).msg}
      /\ SendBatch(r, items, batch[r], D)
      /\ accepted' = accepted /\ paused' = paused
  BY DEF WriteConfirmed
<1>2. InHand(r) \in Todo(r) /\ FirstOf(InHand(r), Todo(r)) /\ sent[r] \subseteq batch[r]
  BY <1>1, InHandIsFirst DEF IInv, Shape
<1>3. Sound(queue, batch[r], batch[Other(r)], pushes, accepted \ failed)
  BY SoundOf
<1>4. /\ queue \in SUBSET Item /\ batch[r] \in SUBSET Item /\ paused \in BOOLEAN
      /\ delivered \subseteq Msg
  BY <1>3 DEF IInv, Sound, TypeOK
<1>5. D \subseteq batch[r] /\ D \in SUBSET Item
  BY <1>2, <1>4 DEF Todo
<1>6. Fresh(queue) /\ Fresh(batch[r] \ D)
  <2>1. \A e \in batch[r] \ D : e \in Todo(r) /\ Before(InHand(r), e)
    BY <1>2 DEF Todo, FirstOf
  <2> QED BY <1>2, <2>1 DEF IInv, Counted, Fresh
<1>7. Messages(D) \subseteq delivered'
  BY <1>1 DEF IInv, SentDelivered, Messages
<1>8. accepted \subseteq Messages(queue \cup batch[r] \cup batch[Other(r)]) \cup delivered' \cup failed
  BY <1>1, HeldOf DEF IInv, NothingLost
<1>9. Taken(r, queue, batch[r], D)
  BY <1>3, <1>5, <1>6, <1>7, <1>8 DEF Taken, IInv, TypeOK
<1>10. items \in Seq(Item) /\ InOrder(items) /\ Elements(items) = queue
  BY DEF IInv, Lined, queue
<1>11. InHand(r).msg \in Msg
  BY <1>4, <1>5, ItemFields
<1>12. Turn(r, queue, batch[r], D) /\ Lined'
  <2>1. Turn(r, Elements(items), batch[r], D) /\ Lined'
    BY <1>1, <1>4, <1>5, <1>6, <1>9, <1>10, SendBatchTurns DEF IInv
  <2> QED BY <1>10, <2>1
<1>13. /\ accepted' = accepted /\ paused' \in BOOLEAN
       /\ delivered \subseteq delivered' /\ delivered' \subseteq Msg
  BY <1>1, <1>4, <1>11
<1> QED BY <1>1, <1>4, <1>5, <1>12, <1>13 DEF BatchStep, FirstTaken

LEMMA WriteFailsTurns ==
  ASSUME IInv, NEW r \in Runner, WriteFails(r)
  PROVE  BatchStep(r)
<1>1. /\ Requeues(r, queue, batch[r]) /\ Lined'
      /\ accepted' = accepted /\ paused' = paused /\ delivered' = delivered
  <2>1. HandleSendError(items, batch[r]) /\ Hand(r, {}, {}, "failed") /\ writes' = writes
    BY DEF WriteFails
  <2>2. items \in Seq(Item) /\ InOrder(items) /\ Elements(items) = queue
    BY DEF IInv, Lined, queue
  <2>3. Sound(Elements(items), batch[r], batch[Other(r)], pushes, accepted \ failed)
    BY <2>2, SoundOf
  <2>4. Requeued(Elements(items), batch[r]) /\ Lined'
    BY <2>1, <2>2, <2>3, RequeuedInOrder DEF IInv
  <2> QED BY <2>1, <2>2, <2>4 DEF WriteFails, Requeues
<1>2. Sound(queue, batch[r], batch[Other(r)], pushes, accepted \ failed)
  BY SoundOf
<1>3. /\ queue \in SUBSET Item /\ batch[r] \in SUBSET Item /\ paused \in BOOLEAN
      /\ delivered \subseteq Msg
  BY <1>2 DEF IInv, Sound, TypeOK
<1>4. accepted \subseteq Messages(queue \cup batch[r] \cup batch[Other(r)]) \cup delivered \cup failed
  BY HeldOf DEF IInv, NothingLost
<1>5. Taken(r, queue, batch[r], {})
  BY <1>1, <1>2, <1>4 DEF Taken, Messages, IInv, Counted, TypeOK
<1>6. Turn(r, queue, batch[r], {})
  BY <1>1, <1>5 DEF Turn
<1> QED BY <1>1, <1>3, <1>6 DEF BatchStep, FirstTaken, WriteFails

-----------------------------------------------------------------------------
(* The turns of a runner keep the invariant. *)

\* Hand replaces the batch of r, and what is sent of it, and leaves the other runner's.
LEMMA HandParts ==
  ASSUME TypeOK, NEW r \in Runner, NEW B \in SUBSET Item, NEW D \in SUBSET Item,
         NEW over, Hand(r, B, D, over)
  PROVE  /\ batch' \in [Runner -> SUBSET Item] /\ sent' \in [Runner -> SUBSET Item]
         /\ batch'[r] = B /\ sent'[r] = D
         /\ batch'[Other(r)] = batch[Other(r)] /\ sent'[Other(r)] = sent[Other(r)]
<1>1. /\ batch \in [Runner -> SUBSET Item] /\ sent \in [Runner -> SUBSET Item]
  BY DEF TypeOK
<1>2. /\ batch' = [batch EXCEPT ![r] = B] /\ sent' = [sent EXCEPT ![r] = D]
  BY DEF Hand
<1> QED BY <1>1, <1>2, RunnersDiffer

\* What Hand leaves: the batch of r replaced, the flags of both runners in step.
LEMMA HandEffect ==
  ASSUME TypeOK, Shape, NEW r \in Runner, NEW B \in SUBSET Item, NEW D \in SUBSET Item,
         NEW over \in {"no", "sent", "failed"}, Hand(r, B, D, over),
         (over = "no") = (B # {})
  PROVE  /\ batch' \in [Runner -> SUBSET Item] /\ sent' \in [Runner -> SUBSET Item]
         /\ batch'[r] = B /\ sent'[r] = D
         /\ batch'[Other(r)] = batch[Other(r)] /\ sent'[Other(r)] = sent[Other(r)]
         /\ processing' \in BOOLEAN
         /\ closing' \in {"no", "waiting", "sending", "done"}
         /\ processing' = (batch'["interval"] # {})
         /\ (closing' = "sending") = (batch'["shutdown"] # {})
<1>1. /\ batch \in [Runner -> SUBSET Item] /\ sent \in [Runner -> SUBSET Item]
      /\ processing \in BOOLEAN /\ closing \in {"no", "waiting", "sending", "done"}
  BY DEF TypeOK
<1>2. /\ batch' = [batch EXCEPT ![r] = B] /\ sent' = [sent EXCEPT ![r] = D]
      /\ processing' = IF r = "interval" THEN over = "no" ELSE processing
      /\ closing' = IF r = "shutdown" THEN (IF over = "no" THEN "sending" ELSE "done") ELSE closing
  BY DEF Hand
<1>3. /\ batch' \in [Runner -> SUBSET Item] /\ sent' \in [Runner -> SUBSET Item]
      /\ batch'[r] = B /\ sent'[r] = D
      /\ batch'[Other(r)] = batch[Other(r)] /\ sent'[Other(r)] = sent[Other(r)]
  BY HandParts
<1>4. /\ processing = (batch["interval"] # {})
      /\ (closing = "sending") = (batch["shutdown"] # {})
  BY DEF Shape
<1>5. CASE r = "interval"
  <2>1. processing' = (over = "no") /\ closing' = closing
    BY <1>2, <1>5
  <2> QED BY <1>1, <1>3, <1>4, <1>5, <2>1 DEF Other
<1>6. CASE r = "shutdown"
  <2>1. processing' = processing /\ closing' = IF over = "no" THEN "sending" ELSE "done"
    BY <1>2, <1>6
  <2> QED BY <1>1, <1>3, <1>4, <1>6, <2>1 DEF Other
<1> QED BY <1>5, <1>6 DEF Runner

\* What is in place after a turn: batch B of r, of which D is sent, and the rest q.
After(r, q, B, D) ==
  /\ queue' = q /\ q \in SUBSET Item
  /\ batch' \in [Runner -> SUBSET Item] /\ sent' \in [Runner -> SUBSET Item]
  /\ batch'[r] = B /\ sent'[r] = D
  /\ batch'[Other(r)] = batch[Other(r)] /\ sent'[Other(r)] = sent[Other(r)]

LEMMA IInvAfter ==
  ASSUME IInv, NEW r \in Runner, NEW q, NEW B, NEW D,
         After(r, q, B, D),
         Sound(q, B, batch[Other(r)], pushes', accepted' \ failed'),
         D \subseteq B, B # {} => \E e \in B \ D : FirstOf(e, B \ D),
         processing' = (batch'["interval"] # {}),
         (closing' = "sending") = (batch'["shutdown"] # {}),
         delivered \subseteq delivered', Messages(D) \subseteq delivered',
         accepted' \subseteq Messages(q \cup B \cup batch[Other(r)]) \cup delivered' \cup failed'
  PROVE  /\ Sound(queue', batch'["interval"], batch'["shutdown"], pushes', accepted' \ failed')
         /\ Shape' /\ NothingLost' /\ SentDelivered'
<1>0. queue' = q /\ batch'[r] = B /\ batch'[Other(r)] = batch[Other(r)]
  BY DEF After
<1>1. Sound(queue', batch'[r], batch'[Other(r)], pushes', accepted' \ failed')
  BY <1>0
<1>2. Sound(queue', batch'[Other(r)], batch'[r], pushes', accepted' \ failed')
  BY <1>1, SoundSwap
<1>3. Sound(queue', batch'["interval"], batch'["shutdown"], pushes', accepted' \ failed')
  BY <1>1, <1>2 DEF Other, Runner
<1>4. Shape'
  <2>1. ASSUME NEW t \in Runner PROVE sent'[t] \subseteq batch'[t]
    BY <1>0, RunnersDiffer DEF After, IInv, Shape
  <2>2. ASSUME NEW t \in Runner, batch'[t] # {}
        PROVE  \E e \in batch'[t] \ sent'[t] : FirstOf(e, batch'[t] \ sent'[t])
    <3>1. CASE t = r
      BY <1>0, <2>2, <3>1 DEF After
    <3>2. CASE t = Other(r)
      BY <1>0, <2>2, <3>2, RunnersDiffer DEF After, IInv, Shape, Todo
    <3> QED BY <3>1, <3>2, RunnersDiffer
  <2> QED BY <2>1, <2>2 DEF Shape, Todo, FirstOf
<1>5. NothingLost'
  <2>1. (queue \cup batch["interval"] \cup batch["shutdown"])' = q \cup B \cup batch[Other(r)]
    BY <1>0 DEF Other, Runner
  <2> QED BY <2>1 DEF NothingLost, Held, Messages
<1>6. SentDelivered'
  <2> SUFFICES ASSUME NEW t \in Runner PROVE Messages(sent'[t]) \subseteq delivered'
    BY DEF SentDelivered, Messages
  <2> QED BY RunnersDiffer DEF After, IInv, SentDelivered
<1> QED BY <1>3, <1>4, <1>5, <1>6

\* A batch that is sent or waits for its next write.
LEMMA GoesOnSteps ==
  ASSUME IInv, NEW r \in Runner, NEW q \in SUBSET Item, NEW B \in SUBSET Item,
         NEW D \in SUBSET Item, Taken(r, q, B, D), accepted' = accepted,
         delivered \subseteq delivered',
         Finishes(r, q, B, D) \/ Gives(r, q, B, D)
  PROVE  /\ batch' \in [Runner -> SUBSET Item] /\ sent' \in [Runner -> SUBSET Item]
         /\ processing' \in BOOLEAN /\ closing' \in {"no", "waiting", "sending", "done"}
         /\ Sound(queue', batch'["interval"], batch'["shutdown"], pushes', accepted' \ failed')
         /\ Shape' /\ NothingLost' /\ SentDelivered'
<1>0. TypeOK /\ Shape
  BY DEF IInv
<1>1. /\ D \subseteq B
      /\ Sound(q, B, batch[Other(r)], pushes, accepted \ failed)
      /\ Messages(D) \subseteq delivered'
      /\ accepted \subseteq Messages(q \cup B \cup batch[Other(r)]) \cup delivered' \cup failed
  BY DEF Taken
<1>2. CASE Finishes(r, q, B, D)
  <2>1. B = D /\ Hand(r, {}, {}, "sent") /\ queue' = q /\ pushes' = pushes /\ failed' = failed
    BY <1>2 DEF Finishes
  <2>2. /\ batch' \in [Runner -> SUBSET Item] /\ sent' \in [Runner -> SUBSET Item]
        /\ batch'[r] = {} /\ sent'[r] = {}
        /\ batch'[Other(r)] = batch[Other(r)] /\ sent'[Other(r)] = sent[Other(r)]
        /\ processing' \in BOOLEAN
        /\ closing' \in {"no", "waiting", "sending", "done"}
        /\ processing' = (batch'["interval"] # {})
        /\ (closing' = "sending") = (batch'["shutdown"] # {})
    BY <1>0, <2>1, HandEffect
  <2>3. After(r, q, {}, {})
    BY <2>1, <2>2 DEF After
  <2>4. Sound(q, {}, batch[Other(r)], pushes', accepted' \ failed')
    BY <1>1, <2>1 DEF Sound, Apart, Aged, Among, Messages
  <2>5. accepted' \subseteq Messages(q \cup {} \cup batch[Other(r)]) \cup delivered' \cup failed'
    BY <1>1, <2>1 DEF Messages
  <2>6. Messages({}) \subseteq delivered'
    BY DEF Messages
  <2> QED BY <2>2, <2>3, <2>4, <2>5, <2>6, IInvAfter
<1>3. CASE Gives(r, q, B, D)
  <2>1. /\ Hand(r, B, D, "no") /\ queue' = q /\ pushes' = pushes /\ failed' = failed
        /\ \E e \in B \ D : FirstOf(e, B \ D)
    BY <1>3 DEF Gives
  <2>2. /\ batch' \in [Runner -> SUBSET Item] /\ sent' \in [Runner -> SUBSET Item]
        /\ batch'[r] = B /\ sent'[r] = D
        /\ batch'[Other(r)] = batch[Other(r)] /\ sent'[Other(r)] = sent[Other(r)]
        /\ processing' \in BOOLEAN
        /\ closing' \in {"no", "waiting", "sending", "done"}
        /\ processing' = (batch'["interval"] # {})
        /\ (closing' = "sending") = (batch'["shutdown"] # {})
    BY <1>0, <2>1, HandEffect
  <2>3. After(r, q, B, D)
    BY <2>1, <2>2 DEF After
  <2> QED BY <1>1, <2>1, <2>2, <2>3, IInvAfter
<1> QED BY <1>2, <1>3

\* A batch that is queued again.
LEMMA RequeueSteps ==
  ASSUME IInv, NEW r \in Runner, NEW q \in SUBSET Item, NEW B \in SUBSET Item,
         NEW D \in SUBSET Item, Taken(r, q, B, D), accepted' = accepted,
         delivered \subseteq delivered', Requeues(r, q, B)
  PROVE  /\ batch' \in [Runner -> SUBSET Item] /\ sent' \in [Runner -> SUBSET Item]
         /\ processing' \in BOOLEAN /\ closing' \in {"no", "waiting", "sending", "done"}
         /\ Sound(queue', batch'["interval"], batch'["shutdown"], pushes', accepted' \ failed')
         /\ Shape' /\ NothingLost' /\ SentDelivered'
<1>0. TypeOK /\ Shape
  BY DEF IInv
<1>1. /\ Sound(q, B, batch[Other(r)], pushes, accepted \ failed)
      /\ accepted \subseteq Messages(q \cup B \cup batch[Other(r)]) \cup delivered' \cup failed
  BY DEF Taken
<1>2. Hand(r, {}, {}, "failed") /\ Requeued(q, B)
  BY DEF Requeues
<1>3. /\ batch' \in [Runner -> SUBSET Item] /\ sent' \in [Runner -> SUBSET Item]
      /\ batch'[r] = {} /\ sent'[r] = {}
      /\ batch'[Other(r)] = batch[Other(r)] /\ sent'[Other(r)] = sent[Other(r)]
      /\ processing' \in BOOLEAN
      /\ closing' \in {"no", "waiting", "sending", "done"}
      /\ processing' = (batch'["interval"] # {})
      /\ (closing' = "sending") = (batch'["shutdown"] # {})
  BY <1>0, <1>2, HandEffect
<1>4. Sound(queue', {}, batch[Other(r)], pushes', accepted' \ failed')
  BY <1>0, <1>1, <1>2, SoundRequeued
<1>5. After(r, queue', {}, {})
  BY <1>3, <1>4 DEF After, Sound
<1>6. accepted' \subseteq Messages(queue' \cup {} \cup batch[Other(r)]) \cup delivered' \cup failed'
  <2>1. Messages(Pushed(B)) = Messages(Retryable(B))
    BY <1>0, <1>1, PushedItems DEF Sound, Apart
  <2>2. queue' = q \cup Pushed(B) /\ failed' = failed \cup Messages(B \ Retryable(B))
    BY <1>2 DEF Requeued
  <2> QED BY <1>1, <2>1, <2>2 DEF Messages
<1>7. Messages({}) \subseteq delivered'
  BY DEF Messages
<1> QED BY <1>3, <1>4, <1>5, <1>6, <1>7, IInvAfter

LEMMA NumbersOf ==
  ASSUME TypeOK
  PROVE  /\ pushes \in Nat
         /\ \A m \in Msg : /\ writes[m] \in Nat /\ retryCount[m] \in Nat
                           /\ retryCount[m] <= MaxRetries + 1
         /\ MaxRetries \in Nat
BY RetryAssumption DEF TypeOK

\* The types of what is counted, and the bound on retries.
LEMMA CountTypes ==
  ASSUME IInv, NEW r \in Runner, NEW q \in SUBSET Item, NEW B \in SUBSET Item,
         NEW D \in SUBSET Item, Turn(r, q, B, D), accepted' = accepted
  PROVE  /\ pushes' \in Nat /\ retryCount' \in [Msg -> 0..MaxRetries + 1]
         /\ writes' \in [Msg -> Nat]
         /\ failed' \subseteq accepted' /\ failed' \subseteq Msg
<1>1. /\ pushes \in Nat /\ retryCount \in [Msg -> 0..MaxRetries + 1] /\ writes \in [Msg -> Nat]
      /\ failed \subseteq accepted /\ accepted \subseteq Msg
  BY DEF IInv, TypeOK
<1>2. CASE Finishes(r, q, B, D)
  BY <1>1, <1>2 DEF Finishes
<1>3. CASE Gives(r, q, B, D)
  <2>1. PICK e \in B \ D : writes' = [writes EXCEPT ![e.msg] = @ + 1]
    BY <1>3 DEF Gives
  <2>2. e.msg \in Msg
    BY ItemFields
  <2>3. writes[e.msg] + 1 \in Nat
    BY <1>1, <2>2
  <2>4. writes' \in [Msg -> Nat]
    BY <1>1, <2>1, <2>2, <2>3
  <2> QED BY <1>1, <1>3, <2>4 DEF Gives
<1>4. CASE Requeues(r, q, B)
  <2>1. /\ pushes' = pushes + Cardinality(B)
        /\ retryCount' = [m \in Msg |->
                           retryCount[m] + (IF m \in Messages(Retryable(B)) THEN 1 ELSE 0)]
        /\ failed' = failed \cup Messages(B \ Retryable(B))
        /\ writes' = writes
    BY <1>4 DEF Requeues, Requeued
  <2>2. Sound(q, B, batch[Other(r)], pushes, accepted \ failed)
    BY DEF Turn, Taken
  <2>3. Cardinality(B) \in Nat
    BY <2>2, PushedItems DEF Sound, Apart, IInv
  <2>4. ASSUME NEW m \in Msg
        PROVE  retryCount[m] + (IF m \in Messages(Retryable(B)) THEN 1 ELSE 0) \in 0..MaxRetries + 1
    <3>1. retryCount[m] \in Nat /\ retryCount[m] <= MaxRetries + 1 /\ MaxRetries \in Nat
      BY NumbersOf DEF IInv
    <3>2. m \in Messages(Retryable(B)) => retryCount[m] <= MaxRetries
      BY DEF Messages, Retryable
    <3> QED BY <3>1, <3>2
  <2>5. Messages(B \ Retryable(B)) \subseteq accepted
    BY <2>2 DEF Sound, Among, Messages
  <2>6. retryCount' \in [Msg -> 0..MaxRetries + 1]
    BY <2>1, <2>4
  <2>7. pushes' \in Nat
    BY <1>1, <2>1, <2>3
  <2> QED BY <1>1, <2>1, <2>5, <2>6, <2>7
<1> QED BY <1>2, <1>3, <1>4 DEF Turn

LEMMA TodoOther ==
  ASSUME NEW t \in Runner, batch'[t] = batch[t], sent'[t] = sent[t]
  PROVE  Todo(t)' = Todo(t)
BY DEF Todo

\* A batch that is sent leaves the counts alone.
LEMMA CountedFinishes ==
  ASSUME IInv, NEW r \in Runner, NEW q \in SUBSET Item, NEW B \in SUBSET Item,
         NEW D \in SUBSET Item, Taken(r, q, B, D), Finishes(r, q, B, D)
  PROVE  Counted'
<1>1. writes' = writes /\ retryCount' = retryCount /\ queue' = q
  BY DEF Finishes
<1>2. batch'[r] = {} /\ batch'[Other(r)] = batch[Other(r)] /\ sent'[Other(r)] = sent[Other(r)]
  <2>1. TypeOK /\ Hand(r, {}, {}, "sent")
    BY DEF IInv, Finishes
  <2> QED BY <2>1, HandParts
<1>3. Todo(r)' = {} /\ Todo(Other(r))' = Todo(Other(r))
  BY <1>2, RunnersDiffer, TodoOther DEF Todo
<1>4. Fresh(queue)'
  BY <1>1 DEF Taken, Fresh
<1>5. ASSUME NEW t \in Runner PROVE Fresh({e \in Todo(t) : \E f \in Todo(t) : Before(f, e)})'
  BY <1>1, <1>3, RunnersDiffer DEF IInv, Counted, Fresh
<1>6. \A m \in Msg : writes'[m] <= retryCount'[m] + 1
  BY <1>1 DEF IInv, Counted
<1> QED BY <1>4, <1>5, <1>6 DEF Counted

\* A message that is written was queued again since it was written last.
LEMMA CountedGives ==
  ASSUME IInv, NEW r \in Runner, NEW q \in SUBSET Item, NEW B \in SUBSET Item,
         NEW D \in SUBSET Item, Taken(r, q, B, D), Gives(r, q, B, D)
  PROVE  Counted'
<1>1. PICK x \in B \ D : FirstOf(x, B \ D) /\ writes' = [writes EXCEPT ![x.msg] = @ + 1]
  BY DEF Gives
<1>2. retryCount' = retryCount /\ queue' = q /\ Hand(r, B, D, "no") /\ Fresh(B \ D)
  BY DEF Gives
<1>3. /\ batch'[r] = B /\ sent'[r] = D
      /\ batch'[Other(r)] = batch[Other(r)] /\ sent'[Other(r)] = sent[Other(r)]
  <2>1. TypeOK
    BY DEF IInv
  <2> QED BY <1>2, <2>1, HandParts
<1>4. Todo(r)' = B \ D /\ Todo(Other(r))' = Todo(Other(r))
  BY <1>3, RunnersDiffer, TodoOther DEF Todo
<1>5. Sound(q, B, batch[Other(r)], pushes, accepted \ failed)
  BY DEF Taken
<1>6. ASSUME NEW e \in q \cup B \cup batch[Other(r)], e # x
      PROVE  writes'[e.msg] = writes[e.msg]
  <2>1. e.msg # x.msg
    BY <1>1, <1>5, <1>6 DEF Sound, Apart
  <2>2. e.msg \in Msg /\ writes \in [Msg -> Nat]
    BY <1>5, ItemFields DEF Sound, IInv, TypeOK
  <2> QED BY <1>1, <2>1, <2>2
<1>7. x \notin q \cup batch[Other(r)]
  BY <1>1, <1>5 DEF Sound, Apart
<1>8. Fresh(queue)'
  BY <1>2, <1>6, <1>7 DEF Taken, Fresh
<1>9. Fresh({e \in Todo(r) : \E f \in Todo(r) : Before(f, e)})'
  <2> SUFFICES ASSUME NEW e \in B \ D, NEW f \in B \ D, Before(f, e)
               PROVE  writes'[e.msg] <= retryCount'[e.msg]
    BY <1>4 DEF Fresh
  <2>1. e # x
    BY <1>1, BeforeIsStrict DEF FirstOf
  <2> QED BY <1>2, <1>6, <2>1 DEF Fresh
<1>10. Fresh({e \in Todo(Other(r)) : \E f \in Todo(Other(r)) : Before(f, e)})'
  <2> SUFFICES ASSUME NEW e \in Todo(Other(r)), NEW f \in Todo(Other(r)), Before(f, e)
               PROVE  writes'[e.msg] <= retryCount'[e.msg]
    BY <1>4 DEF Fresh
  <2>1. e \in batch[Other(r)]
    BY DEF Todo
  <2>2. writes[e.msg] <= retryCount[e.msg]
    BY RunnersDiffer DEF IInv, Counted, Fresh
  <2> QED BY <1>2, <1>6, <1>7, <2>1, <2>2
<1>11. ASSUME NEW m \in Msg PROVE writes'[m] <= retryCount'[m] + 1
  <2>1. writes[m] \in Nat /\ retryCount[m] \in Nat /\ writes[m] <= retryCount[m] + 1
    BY NumbersOf DEF IInv, Counted
  <2>2. CASE m = x.msg
    <3>1. writes[x.msg] <= retryCount[x.msg]
      BY <1>1, <1>2 DEF Fresh
    <3>2. writes'[m] = writes[m] + 1
      BY <1>1, <2>2 DEF IInv, TypeOK
    <3> QED BY <1>2, <2>1, <2>2, <3>1, <3>2
  <2>3. CASE m # x.msg
    BY <1>1, <1>2, <2>1, <2>3 DEF IInv, TypeOK
  <2> QED BY <2>2, <2>3
<1> QED BY <1>8, <1>9, <1>10, <1>11, RunnersDiffer DEF Counted

\* A batch that is queued again pays for the writes it had.
LEMMA CountedRequeues ==
  ASSUME IInv, NEW r \in Runner, NEW q \in SUBSET Item, NEW B \in SUBSET Item,
         NEW D \in SUBSET Item, Taken(r, q, B, D), Requeues(r, q, B)
  PROVE  Counted'
<1>1. /\ writes' = writes
      /\ queue' = q \cup Pushed(B)
      /\ retryCount' = [m \in Msg |->
                         retryCount[m] + (IF m \in Messages(Retryable(B)) THEN 1 ELSE 0)]
  BY DEF Requeues, Requeued
<1>2. batch'[r] = {} /\ batch'[Other(r)] = batch[Other(r)] /\ sent'[Other(r)] = sent[Other(r)]
  <2>1. TypeOK /\ Hand(r, {}, {}, "failed")
    BY DEF IInv, Requeues
  <2> QED BY <2>1, HandParts
<1>3. Todo(r)' = {} /\ Todo(Other(r))' = Todo(Other(r))
  BY <1>2, RunnersDiffer, TodoOther DEF Todo
<1>4. Sound(q, B, batch[Other(r)], pushes, accepted \ failed)
  BY DEF Taken
<1>5. ASSUME NEW m \in Msg
      PROVE  /\ writes'[m] = writes[m] /\ writes[m] \in Nat
             /\ retryCount'[m] \in Nat /\ retryCount[m] \in Nat
             /\ retryCount'[m] >= retryCount[m]
             /\ m \in Messages(Retryable(B)) => retryCount'[m] = retryCount[m] + 1
  BY <1>1, NumbersOf DEF IInv
<1>6. \A m \in Msg : writes[m] <= retryCount[m] + 1
  BY DEF IInv, Counted
<1>7. Fresh(queue)'
  <2> SUFFICES ASSUME NEW e \in q \cup Pushed(B) PROVE writes'[e.msg] <= retryCount'[e.msg]
    BY <1>1 DEF Fresh
  <2>1. CASE e \in q
    <3>1. e.msg \in Msg /\ writes[e.msg] <= retryCount[e.msg]
      BY <2>1, ItemFields DEF Taken, Fresh
    <3> QED BY <1>5, <3>1
  <2>2. CASE e \in Pushed(B)
    <3>1. e \in Item /\ e.msg \in Messages(Retryable(B))
      BY <1>4, <2>2, PushedItems DEF IInv, Sound, Apart, Messages
    <3>2. e.msg \in Msg
      BY <3>1, ItemFields
    <3> QED BY <1>5, <1>6, <3>1, <3>2
  <2> QED BY <2>1, <2>2
<1>8. Fresh({e \in Todo(Other(r)) : \E f \in Todo(Other(r)) : Before(f, e)})'
  <2> SUFFICES ASSUME NEW e \in Todo(Other(r)), NEW f \in Todo(Other(r)), Before(f, e)
               PROVE  writes'[e.msg] <= retryCount'[e.msg]
    BY <1>3 DEF Fresh
  <2>1. writes[e.msg] <= retryCount[e.msg]
    BY RunnersDiffer DEF IInv, Counted, Fresh
  <2>2. e.msg \in Msg
    BY <1>4, ItemFields DEF Todo, Sound
  <2> QED BY <1>5, <2>1, <2>2
<1>9. ASSUME NEW m \in Msg PROVE writes'[m] <= retryCount'[m] + 1
  BY <1>5, <1>6
<1>10. Fresh({e \in Todo(r) : \E f \in Todo(r) : Before(f, e)})'
  BY <1>3 DEF Fresh
<1> QED BY <1>7, <1>8, <1>9, <1>10, RunnersDiffer DEF Counted

\* Only what was accepted is written.
LEMMA UnwrittenTurns ==
  ASSUME IInv, NEW r \in Runner, NEW q \in SUBSET Item, NEW B \in SUBSET Item,
         NEW D \in SUBSET Item, Turn(r, q, B, D), accepted' = accepted
  PROVE  Unwritten'
<1>1. CASE writes' = writes
  BY <1>1 DEF IInv, Unwritten
<1>2. CASE Gives(r, q, B, D)
  <2>1. PICK e \in B \ D : writes' = [writes EXCEPT ![e.msg] = @ + 1]
    BY <1>2 DEF Gives
  <2>2. e.msg \in accepted
    BY DEF Turn, Taken, Sound, Among, Messages
  <2> QED BY <2>1, <2>2 DEF IInv, Unwritten, TypeOK
<1> QED BY <1>1, <1>2 DEF Turn, Finishes, Requeues

\* The batch in hand stays what was taken, until it is given up.
LEMMA BatchKeepsSize ==
  ASSUME IInv, NEW r \in Runner, NEW q \in SUBSET Item, NEW B \in SUBSET Item,
         NEW D \in SUBSET Item, Turn(r, q, B, D)
  PROVE  (\A t \in Runner : Cardinality(batch[t]) <= MaxBatchSize)'
<1>1. batch' = [batch EXCEPT ![r] = B] \/ batch' = [batch EXCEPT ![r] = {}]
  BY DEF Turn, Finishes, Gives, Requeues, Hand
<1>2. Cardinality(B) <= MaxBatchSize /\ Cardinality({}) <= MaxBatchSize
  BY FS_EmptySet, BatchAssumption DEF Turn, Taken
<1>3. \A t \in Runner : batch'[t] \in {batch[t], B, {}}
  BY <1>1 DEF IInv, TypeOK
<1> QED BY <1>2, <1>3 DEF IInv, TypeOK

LEMMA BatchStepInv ==
  ASSUME IInv, NEW r \in Runner, BatchStep(r)
  PROVE  IInv'
<1>1. /\ accepted' = accepted /\ delivered \subseteq delivered' /\ delivered' \subseteq Msg
      /\ paused' \in BOOLEAN /\ Lined'
  BY DEF BatchStep
<1>2. PICK q \in SUBSET Item, B \in SUBSET Item, D \in SUBSET Item : Turn(r, q, B, D)
  BY DEF BatchStep
<1>3. /\ batch' \in [Runner -> SUBSET Item] /\ sent' \in [Runner -> SUBSET Item]
      /\ processing' \in BOOLEAN /\ closing' \in {"no", "waiting", "sending", "done"}
      /\ Sound(queue', batch'["interval"], batch'["shutdown"], pushes', accepted' \ failed')
      /\ Shape' /\ NothingLost' /\ SentDelivered'
  BY <1>1, <1>2, GoesOnSteps, RequeueSteps DEF Turn
<1>4. /\ pushes' \in Nat /\ retryCount' \in [Msg -> 0..MaxRetries + 1]
      /\ writes' \in [Msg -> Nat]
      /\ failed' \subseteq accepted' /\ failed' \subseteq Msg
  BY <1>1, <1>2, CountTypes
<1>5. Counted'
  BY <1>2, CountedFinishes, CountedGives, CountedRequeues DEF Turn
<1>6. items' \in Seq(Item) /\ accepted' \subseteq Msg
  BY <1>1 DEF Lined, IInv, TypeOK
<1>7. (\A t \in Runner : Cardinality(batch[t]) <= MaxBatchSize)'
  BY <1>2, BatchKeepsSize
<1>8. TypeOK'
  BY <1>1, <1>3, <1>4, <1>6, <1>7 DEF TypeOK
<1>9. Unwritten'
  BY <1>1, <1>2, UnwrittenTurns
<1> QED BY <1>1, <1>3, <1>4, <1>5, <1>8, <1>9 DEF IInv

-----------------------------------------------------------------------------
(* The other steps *)

LEMMA EnqueueInv ==
  ASSUME IInv, NEW m \in Msg, NEW p \in Priority, Enqueue(m, p)
  PROVE  IInv'
<1> DEFINE x == [msg |-> m, priority |-> p, age |-> pushes + 1]
<1>1. /\ m \notin accepted /\ accepted' = accepted \cup {m}
      /\ Sorts(Append(items, x), items') /\ pushes' = pushes + 1
      /\ batch' = batch /\ sent' = sent /\ processing' = processing /\ closing' = closing
      /\ retryCount' = retryCount /\ paused' = paused
      /\ writes' = writes /\ delivered' = delivered /\ failed' = failed
  BY DEF Enqueue, batchVars
<1>2. TypeOK /\ failed \subseteq accepted /\ pushes \in Nat
  BY DEF IInv, TypeOK
<1>3. x \in Item
  BY <1>2, PriorityAssumption DEF Item
<1>4. Sound(queue, batch["interval"], batch["shutdown"], pushes, accepted \ failed)
  BY DEF IInv
<1>5. m \notin accepted \ failed /\ (accepted \ failed) \cup {m} = accepted' \ failed'
  BY <1>1, <1>2
<1>6. x.age = pushes + 1 /\ x.msg = m
  OBVIOUS
<1> HIDE DEF x
<1>6a. queue' = queue \cup {x} /\ Lined'
  <2>1. items \in Seq(Item) /\ InOrder(items) /\ queue = Elements(items)
    BY DEF IInv, Lined, queue
  <2>2. \A e \in Elements(items) : e.age <= pushes
    BY <1>4, <2>1 DEF Sound, Aged
  <2>3. x.age > pushes
    BY <1>2, <1>6
  <2>4. items' \in Seq(Item) /\ InOrder(items') /\ Elements(items') = Elements(items) \cup {x}
    BY <1>1, <1>2, <1>3, <2>1, <2>2, <2>3, PushOrders
  <2> QED BY <2>4 DEF Lined, queue
<1>7. Sound(queue \cup {x}, batch["interval"], batch["shutdown"], pushes + 1,
            (accepted \ failed) \cup {x.msg})
  BY <1>2, <1>3, <1>4, <1>5, <1>6, SoundAdded
<1>8. Sound(queue', batch'["interval"], batch'["shutdown"], pushes', accepted' \ failed')
  BY <1>1, <1>5, <1>6, <1>6a, <1>7
<1>9. TypeOK'
  BY <1>1, <1>2, <1>6a DEF TypeOK, Lined
<1>10. Shape'
  BY <1>1 DEF IInv, Shape, Todo
<1>11. NothingLost'
  BY <1>1, <1>6, <1>6a DEF IInv, NothingLost, Held, Messages
<1>12. SentDelivered'
  BY <1>1 DEF IInv, SentDelivered
<1>13. Counted'
  <2>1. writes[m] <= retryCount[m]
    <3>1. retryCount[m] \in Nat
      BY <1>2, NumbersOf
    <3>2. writes[m] = 0
      BY <1>1 DEF IInv, Unwritten
    <3> QED BY <3>1, <3>2
  <2> QED BY <1>1, <1>6, <1>6a, <2>1 DEF IInv, Counted, Fresh, Todo
<1>14. Unwritten'
  BY <1>1 DEF IInv, Unwritten
<1> QED BY <1>1, <1>2, <1>6a, <1>8, <1>9, <1>10, <1>11, <1>12, <1>13, <1>14 DEF IInv

\* Steps that only move the flags: pause, resume, shutdown() that waits or finds
\* nothing to do, and stuttering.
FlagStep ==
  /\ UNCHANGED <<queueVars, batch, sent, historyVars>>
  /\ processing' = processing
  /\ paused' \in BOOLEAN
  /\ \/ closing' = closing
     \/ closing \in {"no", "waiting"} /\ closing' \in {"waiting", "done"}

LEMMA FlagStepInv == IInv /\ FlagStep => IInv'
<1> SUFFICES ASSUME IInv, FlagStep PROVE IInv'
  OBVIOUS
<1>1. /\ items' = items /\ queue' = queue /\ pushes' = pushes /\ retryCount' = retryCount
      /\ batch' = batch /\ sent' = sent /\ accepted' = accepted /\ writes' = writes
      /\ delivered' = delivered /\ failed' = failed /\ processing' = processing
      /\ paused' \in BOOLEAN
      /\ \/ closing' = closing
         \/ closing \in {"no", "waiting"} /\ closing' \in {"waiting", "done"}
  BY DEF FlagStep, queueVars, historyVars, queue
<1>2. TypeOK'
  BY <1>1 DEF IInv, TypeOK
<1>3. Shape'
  <2>1. closing' = "sending" <=> closing = "sending"
    BY <1>1
  <2> QED BY <1>1, <2>1 DEF IInv, Shape, Todo
<1>4. /\ failed' \subseteq accepted'
      /\ Sound(queue', batch'["interval"], batch'["shutdown"], pushes', accepted' \ failed')
  BY <1>1 DEF IInv
<1>5. NothingLost' /\ SentDelivered' /\ Counted' /\ Unwritten' /\ Lined'
  BY <1>1 DEF IInv, NothingLost, Held, SentDelivered, Counted, Fresh, Todo, Unwritten, Lined
<1> QED BY <1>2, <1>3, <1>4, <1>5 DEF IInv

\* Every step is one of a runner, an enqueue, or one of flags.
LEMMA StepKinds ==
  ASSUME IInv, [Next]_vars
  PROVE  \/ \E r \in Runner : BatchStep(r)
         \/ \E m \in Msg, p \in Priority : Enqueue(m, p)
         \/ FlagStep
<1>0. paused \in BOOLEAN /\ Shape
  BY DEF IInv, TypeOK
<1>1. CASE \E m \in Msg, p \in Priority : Enqueue(m, p)
  BY <1>1
<1>2. CASE Tick
  <2>1. batch["interval"] = {}
    BY <1>0, <1>2 DEF Tick, Shape
  <2>2. ProcessBatch("interval") /\ accepted' = accepted /\ delivered' = delivered /\ paused' = paused
    BY <1>2 DEF Tick
  <2> QED BY <1>0, <2>1, <2>2, ProcessBatchTurns DEF Runner
<1>3. ASSUME NEW r \in Runner, WriteConfirmed(r) \/ WriteFails(r)
      PROVE  BatchStep(r)
  BY <1>3, WriteConfirmedTurns, WriteFailsTurns
<1>4. CASE Pause \/ Resume
  BY <1>4 DEF Pause, Resume, FlagStep, batchVars, queueVars, historyVars
<1>5. ASSUME LastBatch, closing \in {"no", "waiting"}, paused' \in BOOLEAN,
             accepted' = accepted, delivered' = delivered
      PROVE  (\E r \in Runner : BatchStep(r)) \/ FlagStep
  <2>1. CASE items # << >> /\ ProcessBatch("shutdown")
    <3>1. batch["shutdown"] = {}
      BY <1>0, <1>5 DEF Shape
    <3> QED BY <1>5, <2>1, <3>1, ProcessBatchTurns DEF Runner
  <2>2. CASE closing' = "done" /\ UNCHANGED <<queueVars, batch, sent, processing, writes, failed>>
    BY <1>5, <2>2 DEF FlagStep, historyVars
  <2> QED BY <1>5, <2>1, <2>2 DEF LastBatch
<1>6. CASE Shutdown
  <2>1. /\ closing = "no" /\ paused' = TRUE /\ accepted' = accepted /\ delivered' = delivered
    BY <1>6 DEF Shutdown
  <2>2. CASE LastBatch
    BY <1>5, <2>1, <2>2
  <2>3. CASE closing' = "waiting" /\ UNCHANGED <<queueVars, batch, sent, processing, writes, failed>>
    BY <2>1, <2>3 DEF FlagStep, historyVars
  <2> QED BY <1>6, <2>2, <2>3 DEF Shutdown
<1>7. CASE ShutdownGoesOn
  <2>1. /\ closing = "waiting" /\ paused' = paused /\ accepted' = accepted
        /\ delivered' = delivered /\ LastBatch
    BY <1>7 DEF ShutdownGoesOn
  <2> QED BY <1>0, <1>5, <2>1
<1>8. CASE UNCHANGED vars
  BY <1>0, <1>8 DEF FlagStep, vars, batchVars, queueVars, historyVars
<1> QED BY <1>1, <1>2, <1>3, <1>4, <1>6, <1>7, <1>8 DEF Next

LEMMA IInvStep == IInv /\ [Next]_vars => IInv'
BY StepKinds, BatchStepInv, EnqueueInv, FlagStepInv

LEMMA IInvInit == Init => IInv
<1> SUFFICES ASSUME Init PROVE IInv
  OBVIOUS
<1>1. /\ items = << >> /\ pushes = 0 /\ batch = [r \in Runner |-> {}]
      /\ sent = [r \in Runner |-> {}] /\ processing = FALSE /\ paused = FALSE /\ closing = "no"
      /\ retryCount = [m \in Msg |-> 0] /\ accepted = {} /\ writes = [m \in Msg |-> 0]
      /\ delivered = {} /\ failed = {}
  BY DEF Init
<1>2. batch["interval"] = {} /\ batch["shutdown"] = {} /\ queue = {}
  BY <1>1 DEF Runner, queue, Elements
<1>3. 0 \in 0..MaxRetries + 1
  BY RetryAssumption
<1>4. TypeOK
  <2>1. \A r \in Runner : Cardinality(batch[r]) <= MaxBatchSize
    BY <1>1, FS_EmptySet, BatchAssumption
  <2>2. items \in Seq(Item)
    BY <1>1
  <2> QED BY <1>1, <1>3, <2>1, <2>2 DEF TypeOK
<1>5. Sound({}, {}, {}, pushes, accepted \ failed)
  BY DEF Sound, Apart, Aged, Among, Messages
<1>6. Shape
  BY <1>1, <1>2 DEF Shape, Todo
<1>7. NothingLost /\ SentDelivered /\ Unwritten
  BY <1>1 DEF NothingLost, SentDelivered, Unwritten, Messages
<1>8. Counted
  BY <1>1, <1>2 DEF Counted, Fresh, Todo
<1>9. Lined
  BY <1>1 DEF Lined, InOrder
<1> QED BY <1>1, <1>2, <1>4, <1>5, <1>6, <1>7, <1>8, <1>9 DEF IInv

LEMMA Invariant == Spec => []IInv
BY IInvInit, IInvStep, PTL DEF Spec

-----------------------------------------------------------------------------
\* Every variable of the queue keeps its type; a message is retried at most
\* maxRetries + 1 times.
THEOREM TypeCorrect == Spec => []TypeOK
<1>1. IInv => TypeOK
  BY DEF IInv
<1> QED BY Invariant, <1>1, PTL

\* A message is once in the queue or once in a batch, whatever fails and whoever
\* runs the batches (message.queue.ts:78-142).
THEOREM AlwaysOnePlace == Spec => []OnePlace
<1>1. IInv => OnePlace
  BY DEF IInv, Sound, Apart, OnePlace, Held
<1> QED BY Invariant, <1>1, PTL

\* Every accepted message waits, is in a batch, was delivered or was reported
\* (message.queue.ts:120-142).
THEOREM NoMessageLost == Spec => []NothingLost
<1>1. IInv => NothingLost
  BY DEF IInv
<1> QED BY Invariant, <1>1, PTL

\* A batch takes the messages that come first, by priority and then by age: the array is
\* in order before each batch, whatever was pushed and taken by whichever runner
\* (priority.queue.ts:4-11, message.queue.ts:78-86 and 120-133).
THEOREM AlwaysTakenInOrder == Spec => TakenInOrder
<1>1. IInv /\ [Next]_vars => [\A r \in Runner : FirstTaken(r)]_vars
  <2> SUFFICES ASSUME IInv, [Next]_vars, NEW t \in Runner PROVE FirstTaken(t)
    OBVIOUS
  <2>1. ASSUME NEW r \in Runner, BatchStep(r) PROVE FirstTaken(t)
    <3>1. CASE t = r
      BY <2>1, <3>1 DEF BatchStep
    <3>2. CASE t # r
      <4>1. \E B : batch' = [batch EXCEPT ![r] = B]
        BY <2>1 DEF BatchStep, Turn, Finishes, Gives, Requeues, Hand
      <4>2. batch'[t] = batch[t]
        BY <3>2, <4>1 DEF IInv, TypeOK
      <4> QED BY <4>2 DEF FirstTaken
    <3> QED BY <3>1, <3>2
  <2>2. CASE batch' = batch
    BY <2>2 DEF FirstTaken
  <2>3. (\E m \in Msg, p \in Priority : Enqueue(m, p)) => batch' = batch
    BY DEF Enqueue, batchVars
  <2>4. FlagStep => batch' = batch
    BY DEF FlagStep
  <2> QED BY <2>1, <2>2, <2>3, <2>4, StepKinds
<1> QED BY Invariant, <1>1, PTL DEF Spec, TakenInOrder, FirstTaken

-----------------------------------------------------------------------------
(* The queue implements MessageDelivery *)

LEMMA DeliveryTurns ==
  ASSUME IInv, NEW r \in Runner, NEW q \in SUBSET Item, NEW B \in SUBSET Item,
         NEW D \in SUBSET Item, Turn(r, q, B, D), accepted' = accepted
  PROVE  [Delivery!Next]_(<<accepted, writes, failed>>)
<1>1. Sound(q, B, batch[Other(r)], pushes, accepted \ failed)
  BY DEF Turn, Taken
<1>2. CASE Finishes(r, q, B, D)
  BY <1>2 DEF Finishes
<1>3. CASE Gives(r, q, B, D)
  <2>1. PICK e \in B \ D : writes' = [writes EXCEPT ![e.msg] = @ + 1]
    BY <1>3 DEF Gives
  <2>2. e.msg \in Msg /\ e.msg \in accepted \ failed
    BY <1>1, ItemFields DEF Sound, Among, Messages
  <2>3. writes[e.msg] <= retryCount[e.msg] /\ failed' = failed
    BY <1>3 DEF Gives, Fresh
  <2>4. writes[e.msg] < MaxRetries + 2
    BY <2>2, <2>3, NumbersOf DEF IInv
  <2>5. Delivery!Send(e.msg)
    BY <2>1, <2>2, <2>3, <2>4 DEF Delivery!Send
  <2> QED BY <2>2, <2>5 DEF Delivery!Next
<1>4. CASE Requeues(r, q, B)
  <2>1. writes' = writes /\ failed' = failed \cup Messages(B \ Retryable(B))
    BY <1>4 DEF Requeues, Requeued
  <2>2. Messages(B \ Retryable(B)) \subseteq accepted \ failed
    BY <1>1 DEF Sound, Among, Messages
  <2>3. accepted \subseteq Msg
    BY DEF IInv, TypeOK
  <2>4. Delivery!GiveUp(Messages(B \ Retryable(B)))
    BY <2>1, <2>2 DEF Delivery!GiveUp
  <2> QED BY <2>2, <2>3, <2>4 DEF Delivery!Next
<1> QED BY <1>2, <1>3, <1>4 DEF Turn

LEMMA StepDelivery == IInv /\ [Next]_vars => [Delivery!Next]_(<<accepted, writes, failed>>)
<1> SUFFICES ASSUME IInv, [Next]_vars PROVE [Delivery!Next]_(<<accepted, writes, failed>>)
  OBVIOUS
<1>1. CASE \E r \in Runner : BatchStep(r)
  BY <1>1, DeliveryTurns DEF BatchStep
<1>2. ASSUME NEW m \in Msg, NEW p \in Priority, Enqueue(m, p)
      PROVE  Delivery!Next
  BY <1>2 DEF Enqueue, Delivery!Next, Delivery!Accept
<1>3. CASE FlagStep
  BY <1>3 DEF FlagStep, historyVars
<1> QED BY <1>1, <1>2, <1>3, StepKinds

\* The queue writes a message at most maxRetries + 2 times, never one it did not
\* accept, and never one it reported as failed, which it does once.
THEOREM Implements == Spec => ImplementsDelivery
<1>1. Init => Delivery!Init
  BY DEF Init, Delivery!Init
<1> QED BY <1>1, Invariant, StepDelivery, PTL
        DEF Spec, ImplementsDelivery, Delivery!Spec, Delivery!vars
-----------------------------------------------------------------------------
(* What Settles and ShutdownReturns wait for: their safety half *)

\* Neither the interval nor shutdown() hangs on a batch of nothing: the flag processing
\* is up, and shutdown() is in its last batch, exactly as long as a message of that
\* batch is with its socket, whatever ended the batches before (message.queue.ts:67-117
\* and 171-183).
BatchesAreAwaited ==
  /\ processing = (Todo("interval") # {})
  /\ (closing = "sending") = (Todo("shutdown") # {})

\* The flag of the interval and the progress of shutdown() are what their batches say,
\* for any messages, batch size and retry limit (message.queue.ts:67-76 and 171-183).
THEOREM BatchesAlwaysAwaited == Spec => []BatchesAreAwaited
<1>1. ASSUME IInv PROVE BatchesAreAwaited
  <2>1. Shape
    BY <1>1 DEF IInv
  <2>2. ASSUME NEW r \in Runner PROVE (batch[r] # {}) = (Todo(r) # {})
    BY <2>1, <2>2 DEF Shape, Todo
  <2>3. "interval" \in Runner /\ "shutdown" \in Runner
    BY DEF Runner
  <2> QED BY <2>1, <2>2, <2>3 DEF Shape, BatchesAreAwaited
<1> QED BY <1>1, Invariant, PTL
=============================================================================
