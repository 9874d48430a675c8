---------------------------- MODULE PriorityQueue ----------------------------
(***************************************************************************)
(* The array of common/priority.queue.ts, PriorityQueue.items: enqueue     *)
(* pushes an item and sorts the array in place, dequeue shifts it.         *)
(***************************************************************************)
EXTENDS Naturals, FiniteSets, Sequences, Functions

CONSTANT Msg   \* message objects

\* An item of the array; age is the number of the push that put it there.
Item == [msg : Msg, priority : Nat, age : Nat]

Elements(s) == {s[k] : k \in DOMAIN s}

\* Higher priorities first, and among equals the one that was pushed first: the order
\* in which the queue should hand out its items.
Before(e, f) ==
  e.priority > f.priority \/ (e.priority = f.priority /\ e.age < f.age)

\* Wrong: a sort that is not stable, the later of two equals first.
PrecedesUnstably(q, i, j) ==
  \/ q[i].priority > q[j].priority
  \/ q[i].priority = q[j].priority /\ i > j

\* Where items.sort((a, b) => b.priority - a.priority) puts q[i] before q[j]: it is
\* stable, so equal priorities stay as they are in q.
Precedes(q, i, j) ==
  \/ q[i].priority > q[j].priority
  \/ q[i].priority = q[j].priority /\ i < j

\* q, sorted in place, is r.
Sorts(q, r) ==
  \E f \in Bijection(DOMAIN q, DOMAIN q) :
    /\ \A k, l \in DOMAIN q : k < l => Precedes(q, f[k], f[l])
    /\ r = [k \in DOMAIN q |-> q[f[k]]]

\* The items of S in the order they are pushed.
InPushOrder(S) ==
  {p \in Bijection(1..Cardinality(S), S) :
     \A k, l \in 1..Cardinality(S) : k < l => p[k].age < p[l].age}

\* What n calls of dequeue shift out of the array q, as long as it has items, and what
\* they leave.
Shifted(q, n) == {q[k] : k \in {j \in DOMAIN q : j <= n}}
Rest(q, n) == SubSeq(q, n + 1, Len(q))
=============================================================================
