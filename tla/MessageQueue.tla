---------------------------- MODULE MessageQueue ----------------------------
(***************************************************************************)
(* protocol/flow/message.queue.ts over common/priority.queue.ts: messages  *)
(* wait in a priority queue, an interval takes them out in batches, and a  *)
(* batch in which anything goes wrong is queued again as a whole.          *)
(*                                                                         *)
(* One action is one turn of the event loop. A batch spans several turns:  *)
(* it awaits the write callback of each of its messages in turn. Whether a *)
(* message finds its session and a writable socket is the environment's    *)
(* choice at each attempt (session.manager.ts and net.Socket).             *)
(***************************************************************************)
EXTENDS PriorityQueue

CONSTANTS
  Invalid,       \* messages without a MsgType field
  Priority,      \* priorities the callers of enqueue use
  MaxBatchSize,
  MaxRetries

ASSUME BatchAssumption == MaxBatchSize \in Nat \ {0}
ASSUME MsgAssumption == IsFiniteSet(Msg) /\ Invalid \subseteq Msg
ASSUME PriorityAssumption == Priority \subseteq Nat
ASSUME RetryAssumption == MaxRetries \in Nat \ {0}

VARIABLES
  items,       \* PriorityQueue.items
  pushes,      \* how often PriorityQueue.enqueue ran: the age of an item
  batch,       \* the batch in hand, of the interval and of shutdown(): a set, since
               \* the array was in the order of Before when it was taken
  sent,        \* ... its messages whose write was confirmed
  processing,
  paused,
  closing,     \* where shutdown() is
  retryCount,  \* QueueMessage.retryCount, 0 when absent
  accepted,    \* history: the messages enqueued from outside
  writes,      \* history: how often each message was given to the socket
  delivered,   \* history: the messages whose write was confirmed once
  failed       \* history: the messages 'messageFailed' was emitted for

queueVars == <<items, pushes, retryCount>>
batchVars == <<batch, sent, processing, closing>>
historyVars == <<accepted, writes, delivered, failed>>
vars == <<queueVars, batchVars, paused, historyVars>>

\* Who runs processBatch: the interval of startProcessing, which sets the flag
\* processing, and shutdown(), which does not. resume() starts one more interval
\* each time; the flag lets only one of them work, so they count as one.
Runner == {"interval", "shutdown"}

-----------------------------------------------------------------------------
(* The items of the priority queue *)

queue == Elements(items)

Messages(B) == {e.msg : e \in B}

\* The place of e in the batch B, from 1.
Rank(e, B) == Cardinality({f \in B : ~Before(e, f)})

\* The message of runner r whose write is awaited.
Todo(r) == batch[r] \ sent[r]
InHand(r) == CHOOSE e \in Todo(r) : \A f \in Todo(r) \ {e} : Before(e, f)

Held == queue \cup batch["interval"] \cup batch["shutdown"]

-----------------------------------------------------------------------------
(* Pieces of several turns *)

\* Wrong: one retry more than the code grants.
RetryableOnceMore(B) == {e \in B : retryCount[e.msg] <= MaxRetries + 1}

\* The items of B that handleSendError queues again; it reports the others.
Retryable(B) == {e \in B : retryCount[e.msg] <= MaxRetries}

\* The items pushed for those of B that are queued again, in the order of B.
Pushed(B) == {[msg |-> e.msg, priority |-> retryCount[e.msg] + 1, age |-> pushes + Rank(e, B)]
                : e \in Retryable(B)}

\* enqueue of each of S in turn, on the array q: pushing them one by one, with a stable
\* sort after each push, comes to one sort of the whole.
PushAll(q, S) == \E p \in InPushOrder(S) : Sorts(q \o p, items')

\* Wrong: what cannot be retried is dropped without a report.
HandleSendErrorSilently(q, B) ==
  /\ PushAll(q, Pushed(B))
  /\ pushes' = pushes + Cardinality(B)
  /\ retryCount' = [m \in Msg |->
                     retryCount[m] + (IF m \in Messages(Retryable(B)) THEN 1 ELSE 0)]
  /\ UNCHANGED failed

\* Wrong: a report for every message of the batch, the retried ones included.
HandleSendErrorReportingAll(q, B) ==
  /\ PushAll(q, Pushed(B))
  /\ pushes' = pushes + Cardinality(B)
  /\ retryCount' = [m \in Msg |->
                     retryCount[m] + (IF m \in Messages(Retryable(B)) THEN 1 ELSE 0)]
  /\ failed' = failed \cup Messages(B)

\* handleSendError, q being the rest of the array: every message of the batch B is
\* queued again, those already sent included, or reported.
HandleSendError(q, B) ==
  /\ PushAll(q, Pushed(B))
  /\ pushes' = pushes + Cardinality(B)
  /\ retryCount' = [m \in Msg |->
                     retryCount[m] + (IF m \in Messages(Retryable(B)) THEN 1 ELSE 0)]
  /\ failed' = failed \cup Messages(B \ Retryable(B))

\* Wrong: the flag is cleared only by a batch that succeeds (then, not finally).
HandFlaggedOnFailure(r, B, D, over) ==
  /\ batch' = [batch EXCEPT ![r] = B]
  /\ sent' = [sent EXCEPT ![r] = D]
  /\ processing' = IF r = "interval" THEN ~(over = "sent") ELSE processing
  /\ closing' = IF r = "shutdown" THEN (IF over = "no" THEN "sending" ELSE "done") ELSE closing

\* The batch in hand of runner r becomes B, with D sent; over tells whether and
\* how it ended. The interval's flag follows by finally(), in the same turn.
Hand(r, B, D, over) ==
  /\ batch' = [batch EXCEPT ![r] = B]
  /\ sent' = [sent EXCEPT ![r] = D]
  /\ processing' = IF r = "interval" THEN over = "no" ELSE processing
  /\ closing' = IF r = "shutdown" THEN (IF over = "no" THEN "sending" ELSE "done") ELSE closing

\* sendBatch of runner r from where D of its batch B is sent, up to the next
\* await: the end, the next message given to its socket, or an error thrown
\* before that (no MsgType, no session, a socket that is not writable).
SendBatch(r, q, B, D) ==
  \/ /\ B = D
     /\ Hand(r, {}, {}, "sent")
     /\ items' = q
     /\ UNCHANGED <<pushes, retryCount, writes, failed>>
  \/ \E e \in B \ D :
       /\ \A f \in B \ D : f = e \/ Before(e, f)
       /\ e.msg \notin Invalid
       /\ Hand(r, B, D, "no")
       /\ items' = q
       /\ writes' = [writes EXCEPT ![e.msg] = @ + 1]
       /\ UNCHANGED <<pushes, retryCount, failed>>
  \/ /\ B # D
     /\ Hand(r, {}, {}, "failed")
     /\ HandleSendError(q, B)
     /\ UNCHANGED writes

\* Wrong: the batch is read and not taken out of the queue.
ProcessBatchPeeking(r) == SendBatch(r, items, Shifted(items, MaxBatchSize), {})

\* processBatch on an array that is not empty: its loop shifts until the batch is full
\* or the array empty.
ProcessBatch(r) ==
  SendBatch(r, Rest(items, MaxBatchSize), Shifted(items, MaxBatchSize), {})

-----------------------------------------------------------------------------
Init ==
  /\ items = << >>
  /\ pushes = 0
  /\ batch = [r \in Runner |-> {}]
  /\ sent = [r \in Runner |-> {}]
  /\ processing = FALSE
  /\ paused = FALSE
  /\ closing = "no"
  /\ retryCount = [m \in Msg |-> 0]
  /\ accepted = {}
  /\ writes = [m \in Msg |-> 0]
  /\ delivered = {}
  /\ failed = {}

\* enqueue from outside, of a message object once; neither pause nor shutdown refuses it.
Enqueue(m, p) ==
  /\ m \notin accepted
  /\ accepted' = accepted \cup {m}
  /\ Sorts(Append(items, [msg |-> m, priority |-> p, age |-> pushes + 1]), items')
  /\ pushes' = pushes + 1
  /\ UNCHANGED <<retryCount, batchVars, paused, writes, delivered, failed>>

\* The interval fires with something to do.
Tick ==
  /\ ~paused /\ ~processing /\ items # << >>
  /\ ProcessBatch("interval")
  /\ UNCHANGED <<paused, accepted, delivered>>

\* The callback of the write runner r waits for, without an error: the batch goes
\* on with its next message.
WriteConfirmed(r) ==
  /\ batch[r] # {}
  /\ delivered' = delivered \cup {InHand(r).msg}
  /\ SendBatch(r, items, batch[r], sent[r] \cup {InHand(r)})
  /\ UNCHANGED <<paused, accepted>>

\* ... and with one.
WriteFails(r) ==
  /\ batch[r] # {}
  /\ Hand(r, {}, {}, "failed")
  /\ HandleSendError(items, batch[r])
  /\ UNCHANGED <<paused, accepted, writes, delivered>>

Pause ==
  /\ paused' = TRUE
  /\ UNCHANGED <<queueVars, batchVars, historyVars>>

\* resume, shutdown() or not; the interval it adds is not told apart, see Runner.
Resume ==
  /\ paused' = FALSE
  /\ UNCHANGED <<queueVars, batchVars, historyVars>>

\* shutdown() once no batch of the interval is in hand: one batch, beside an
\* interval that resume() may let run again.
LastBatch ==
  \/ items # << >> /\ ProcessBatch("shutdown")
  \/ /\ items = << >>
     /\ closing' = "done"
     /\ UNCHANGED <<queueVars, batch, sent, processing, writes, failed>>

\* shutdown(), called once, up to its first wait for the flag.
Shutdown ==
  /\ closing = "no"
  /\ paused' = TRUE
  /\ \/ ~processing /\ LastBatch
     \/ /\ processing
        /\ closing' = "waiting"
        /\ UNCHANGED <<queueVars, batch, sent, processing, writes, failed>>
  /\ UNCHANGED <<accepted, delivered>>

\* Its 100 ms timer fires and the flag is down.
ShutdownGoesOn ==
  /\ closing = "waiting" /\ ~processing
  /\ LastBatch
  /\ UNCHANGED <<paused, accepted, delivered>>

Next ==
  \/ \E m \in Msg, p \in Priority : Enqueue(m, p)
  \/ Tick
  \/ \E r \in Runner : WriteConfirmed(r) \/ WriteFails(r)
  \/ Pause
  \/ Resume
  \/ Shutdown
  \/ ShutdownGoesOn

Spec == Init /\ [][Next]_vars

\* The interval and the timer of shutdown() fire again and again, and every write
\* is answered in the end. Nobody has to resume a paused queue.
Fairness ==
  /\ WF_vars(Tick)
  /\ WF_vars(ShutdownGoesOn)
  /\ \A r \in Runner : WF_vars(WriteConfirmed(r) \/ WriteFails(r))

FairSpec == Spec /\ Fairness

-----------------------------------------------------------------------------
\* Every variable has the kind of value its field has in the code, a message is
\* retried at most maxRetries + 1 times, and a batch in hand keeps to its size.
TypeOK ==
  /\ items \in Seq(Item)
  /\ pushes \in Nat
  /\ batch \in [Runner -> SUBSET Item]
  /\ \A r \in Runner : Cardinality(batch[r]) <= MaxBatchSize
  /\ sent \in [Runner -> SUBSET Item]
  /\ processing \in BOOLEAN
  /\ paused \in BOOLEAN
  /\ closing \in {"no", "waiting", "sending", "done"}
  /\ retryCount \in [Msg -> 0..MaxRetries + 1]
  /\ accepted \subseteq Msg
  /\ writes \in [Msg -> Nat]
  /\ delivered \subseteq Msg
  /\ failed \subseteq Msg

\* A message is in one place only: once in the queue or once in a batch, whatever
\* mixture of failed batches, resumed intervals and shutdown() it went through
\* (message.queue.ts:78-142).
OnePlace ==
  /\ queue \cap (batch["interval"] \cup batch["shutdown"]) = {}
  /\ batch["interval"] \cap batch["shutdown"] = {}
  /\ \A e, f \in Held : e.msg = f.msg => e = f

\* No message is lost without a word: one that was enqueued waits, is in a batch,
\* was delivered, or was reported by 'messageFailed' (message.queue.ts:120-142).
NothingLost == accepted \subseteq Messages(Held) \cup delivered \cup failed

\* A batch takes the messages that come first: none is left in the queue that has a
\* higher priority than one that was taken, or the same and was queued earlier, although
\* retried messages come back with other priorities, batches of the interval and of
\* shutdown() draw from one array and each push sorts all of it again
\* (priority.queue.ts:4-11, message.queue.ts:78-86 and 120-133).
TakenInOrder ==
  [][\A r \in Runner : batch[r] = {} /\ batch'[r] # {} =>
       \A e \in batch'[r], f \in queue' : Before(e, f)]_vars

\* Retries stay bounded: a message is given to the socket at most MaxRetries + 2
\* times, by whatever batches it goes through, never after it was reported as failed,
\* and it is reported once. That it is given at all is not promised, see Settles
\* (message.queue.ts:93-142).
Delivery == INSTANCE MessageDelivery WITH MaxSends <- MaxRetries + 2, sends <- writes
ImplementsDelivery == Delivery!Spec

\* Unless it is paused, the queue settles every message it accepted, also one that
\* shares its batches with a message that can never be sent (message.queue.ts:67-142).
Settles == \A m \in Msg : m \in accepted ~> (m \in delivered \cup failed \/ paused)

\* shutdown() returns, whatever else is asked of the queue meanwhile
\* (message.queue.ts:171-183).
ShutdownReturns == closing # "no" ~> closing = "done"
=============================================================================
