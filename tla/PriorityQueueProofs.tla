------------------------- MODULE PriorityQueueProofs -------------------------
(***************************************************************************)
(* What pushes, sorts and shifts do to an array that is in order: the      *)
(* lemmas MessageQueueProofs needs of priority.queue.ts.                   *)
(***************************************************************************)
EXTENDS PriorityQueue, FiniteSetTheorems, FunctionTheorems, SequenceTheorems, TLAPS

\* No item of s belongs before one at a lower index.
InOrder(s) == \A k, l \in DOMAIN s : k < l => Before(s[k], s[l])

-----------------------------------------------------------------------------
(* The order of items *)

LEMMA ItemFields == \A e \in Item : e.msg \in Msg /\ e.priority \in Nat /\ e.age \in Nat
BY DEF Item

LEMMA BeforeIsStrict ==
  \A e, f \in Item : Before(e, f) => e # f /\ ~Before(f, e)
BY ItemFields DEF Before

\* The items at the first n indices are n items.
LEMMA Prefix ==
  ASSUME NEW s \in Seq(Item), InOrder(s), NEW n \in Nat, n <= Len(s)
  PROVE  Cardinality({s[k] : k \in 1..n}) = n
<1> DEFINE S == {s[k] : k \in 1..n}
           f == [k \in 1..n |-> s[k]]
<1>1. DOMAIN s = 1..Len(s) /\ 1..n \subseteq 1..Len(s) /\ \A k \in 1..Len(s) : s[k] \in Item
  OBVIOUS
<1>2. \A k, l \in 1..n : s[k] = s[l] => k = l
  <2> SUFFICES ASSUME NEW k \in 1..n, NEW l \in 1..n, k < l PROVE s[k] # s[l]
    OBVIOUS
  <2>1. k \in DOMAIN s /\ l \in DOMAIN s /\ s[k] \in Item /\ s[l] \in Item
    BY <1>1
  <2>2. Before(s[k], s[l])
    BY <2>1 DEF InOrder
  <2> QED BY <2>1, <2>2, BeforeIsStrict
<1>3. f \in [1..n -> S] /\ \A k, l \in 1..n : f[k] = f[l] => k = l
  BY <1>2
<1>4. f \in Injection(1..n, S)
  BY <1>3 DEF Injection, IsInjective
<1>5. f \in Surjection(1..n, S)
  BY <1>3 DEF Surjection
<1>6. ExistsBijection(1..n, S)
  BY <1>4, <1>5 DEF ExistsBijection, Bijection
<1> QED BY <1>6, FS_CountingElements

-----------------------------------------------------------------------------
(* The sort *)

\* A stable sort by priority of a sequence whose equals are in the order they were
\* pushed puts it in order, and neither loses nor adds an item.
LEMMA SortOrders ==
  ASSUME NEW q \in Seq(Item), NEW r, Sorts(q, r),
         \A i, j \in DOMAIN q : i < j /\ q[i].priority = q[j].priority => q[i].age < q[j].age
  PROVE  /\ r \in Seq(Item) /\ InOrder(r)
         /\ Elements(r) = Elements(q)
<1>1. PICK f \in Bijection(DOMAIN q, DOMAIN q) :
        /\ \A k, l \in DOMAIN q : k < l => Precedes(q, f[k], f[l])
        /\ r = [k \in DOMAIN q |-> q[f[k]]]
  BY DEF Sorts
<1>2. /\ f \in [DOMAIN q -> DOMAIN q]
      /\ \A i \in DOMAIN q : \E k \in DOMAIN q : f[k] = i
  BY DEF Bijection, Surjection
<1>3. DOMAIN q = 1..Len(q) /\ Len(q) \in Nat /\ \A i \in DOMAIN q : q[i] \in Item
  OBVIOUS
<1>4. r \in [1..Len(q) -> Item] /\ DOMAIN r = DOMAIN q /\ \A k \in DOMAIN q : r[k] = q[f[k]]
  BY <1>1, <1>2, <1>3
<1>5. r \in Seq(Item)
  BY <1>3, <1>4
<1>6. InOrder(r)
  <2> SUFFICES ASSUME NEW k \in DOMAIN q, NEW l \in DOMAIN q, k < l PROVE Before(r[k], r[l])
    BY <1>4 DEF InOrder
  <2>1. f[k] \in DOMAIN q /\ f[l] \in DOMAIN q /\ Precedes(q, f[k], f[l])
    BY <1>1, <1>2
  <2> QED BY <1>4, <2>1 DEF Precedes, Before
<1>7. Elements(r) = Elements(q)
  BY <1>2, <1>4 DEF Elements
<1> QED BY <1>5, <1>6, <1>7

-----------------------------------------------------------------------------
(* Pushes *)

\* Items younger than all of an array in order, pushed in the order of their ages: the
\* array is in order after the sort, and has them beside what it had.
LEMMA PushesOrder ==
  ASSUME NEW q \in Seq(Item), InOrder(q), NEW n \in Nat,
         \A e \in Elements(q) : e.age <= n,
         NEW p \in Seq(Item), \A k \in DOMAIN p : p[k].age > n,
         \A k, l \in DOMAIN p : k < l => p[k].age < p[l].age,
         NEW r, Sorts(q \o p, r)
  PROVE  r \in Seq(Item) /\ InOrder(r) /\ Elements(r) = Elements(q) \cup Elements(p)
<1> DEFINE s == q \o p
           L == Len(q)
<1>1. /\ s \in Seq(Item) /\ L \in Nat /\ DOMAIN q = 1..L
      /\ DOMAIN p = 1..Len(p) /\ Len(p) \in Nat
      /\ DOMAIN s = 1..(L + Len(p))
      /\ \A k \in DOMAIN q : s[k] = q[k]
      /\ \A k \in DOMAIN p : s[L + k] = p[k]
  OBVIOUS
<1>2. Sorts(s, r)
  OBVIOUS
<1>3. /\ \A k \in DOMAIN q : q[k] \in Item /\ q[k].age \in Nat /\ q[k].age <= n
      /\ \A k \in DOMAIN p : p[k] \in Item /\ p[k].age \in Nat
  <2>1. /\ \A k \in DOMAIN q : q[k] \in Item /\ q[k] \in Elements(q)
        /\ \A k \in DOMAIN p : p[k] \in Item
    BY DEF Elements
  <2> QED BY <2>1, ItemFields
<1> HIDE DEF s, L
<1>4. \A k \in DOMAIN s : k \in DOMAIN q \/ (k - L \in DOMAIN p /\ L + (k - L) = k /\ k > L)
  BY <1>1
<1>5. ASSUME NEW i \in DOMAIN s, NEW j \in DOMAIN s, i < j, s[i].priority = s[j].priority
      PROVE  s[i].age < s[j].age
  <2>0. i \in Nat /\ j \in Nat
    BY <1>1
  <2>1. CASE i \in DOMAIN q /\ j \in DOMAIN q
    <3>1. Before(q[i], q[j])
      BY <1>5, <2>1 DEF InOrder
    <3>2. s[i] = q[i] /\ s[j] = q[j] /\ q[i] \in Item /\ q[j] \in Item
      BY <1>1, <1>3, <2>1
    <3> QED BY <1>5, <3>1, <3>2, ItemFields DEF Before
  <2>2. CASE i \in DOMAIN q /\ j - L \in DOMAIN p /\ L + (j - L) = j
    <3>1. s[i] = q[i] /\ s[j] = p[j - L]
      BY <1>1, <2>2
    <3> QED BY <1>3, <2>2, <3>1
  <2>3. CASE i - L \in DOMAIN p /\ L + (i - L) = i /\ j - L \in DOMAIN p /\ L + (j - L) = j
    <3>1. s[i] = p[i - L] /\ s[j] = p[j - L]
      BY <1>1, <2>3
    <3>2. i - L < j - L
      BY <1>1, <1>5, <2>0
    <3> QED BY <2>3, <3>1, <3>2
  <2>4. CASE i - L \in DOMAIN p /\ i > L /\ j \in DOMAIN q
    BY <1>1, <1>5, <2>0, <2>4
  <2> QED BY <1>4, <2>1, <2>2, <2>3, <2>4
<1>6. r \in Seq(Item) /\ InOrder(r) /\ Elements(r) = Elements(s)
  BY <1>1, <1>2, <1>5, SortOrders
<1>7. Elements(s) = Elements(q) \cup Elements(p)
  <2>1. ASSUME NEW k \in DOMAIN s PROVE s[k] \in Elements(q) \cup Elements(p)
    BY <1>1, <1>4 DEF Elements
  <2>2. ASSUME NEW k \in DOMAIN q PROVE q[k] \in Elements(s)
    <3>1. k \in DOMAIN s
      BY <1>1
    <3> QED BY <1>1, <3>1 DEF Elements
  <2>3. ASSUME NEW k \in DOMAIN p PROVE p[k] \in Elements(s)
    <3>1. L + k \in DOMAIN s
      BY <1>1
    <3> QED BY <1>1, <3>1 DEF Elements
  <2> QED BY <2>1, <2>2, <2>3 DEF Elements
<1> QED BY <1>6, <1>7

\* One push.
LEMMA PushOrders ==
  ASSUME NEW q \in Seq(Item), InOrder(q), NEW n \in Nat,
         \A e \in Elements(q) : e.age <= n,
         NEW x \in Item, x.age > n, NEW r, Sorts(Append(q, x), r)
  PROVE  r \in Seq(Item) /\ InOrder(r) /\ Elements(r) = Elements(q) \cup {x}
<1> DEFINE p == <<x>>
<1>1. p \in Seq(Item) /\ DOMAIN p = {1} /\ p[1] = x
  OBVIOUS
<1>2. Append(q, x) = q \o p
  BY AppendIsConcat
<1> HIDE DEF p
<1>3. /\ \A k \in DOMAIN p : p[k].age > n
      /\ \A k, l \in DOMAIN p : k < l => p[k].age < p[l].age
  BY <1>1
<1>4. r \in Seq(Item) /\ InOrder(r) /\ Elements(r) = Elements(q) \cup Elements(p)
  BY <1>1, <1>2, <1>3, PushesOrder
<1>5. Elements(p) = {x}
  BY <1>1 DEF Elements
<1> QED BY <1>4, <1>5

\* Several, of a finite set of items.
LEMMA PushAllOrders ==
  ASSUME NEW q \in Seq(Item), InOrder(q), NEW n \in Nat,
         \A e \in Elements(q) : e.age <= n,
         NEW S \in SUBSET Item, IsFiniteSet(S), \A e \in S : e.age > n,
         NEW p \in InPushOrder(S), NEW r, Sorts(q \o p, r)
  PROVE  r \in Seq(Item) /\ InOrder(r) /\ Elements(r) = Elements(q) \cup S
<1> DEFINE c == Cardinality(S)
<1>1. c \in Nat
  BY FS_CardinalityType
<1>2. /\ p \in [1..c -> S] /\ \A e \in S : \E k \in 1..c : p[k] = e
      /\ \A k, l \in 1..c : k < l => p[k].age < p[l].age
  BY DEF InPushOrder, Bijection, Surjection
<1> HIDE DEF c
<1>3. DOMAIN p = 1..c /\ \A k \in 1..c : p[k] \in S
  BY <1>2
<1>4. p \in Seq(Item)
  BY <1>1, <1>2
<1>5. Elements(p) = S
  BY <1>2, <1>3 DEF Elements
<1>6. \A k \in DOMAIN p : p[k].age > n
  BY <1>3
<1>7. \A k, l \in DOMAIN p : k < l => p[k].age < p[l].age
  BY <1>2, <1>3
<1>8. r \in Seq(Item) /\ InOrder(r) /\ Elements(r) = Elements(q) \cup Elements(p)
  BY <1>4, <1>6, <1>7, PushesOrder
<1> QED BY <1>5, <1>8

-----------------------------------------------------------------------------
(* Shifts *)

\* What is shifted out of an array in order comes before what is left, which is in
\* order and nothing less than the rest.
LEMMA ShiftsInOrder ==
  ASSUME NEW q \in Seq(Item), InOrder(q), NEW n \in Nat
  PROVE  /\ Rest(q, n) \in Seq(Item) /\ InOrder(Rest(q, n))
         /\ Elements(Rest(q, n)) = Elements(q) \ Shifted(q, n)
         /\ Shifted(q, n) \subseteq Elements(q)
         /\ \A e \in Shifted(q, n), f \in Elements(Rest(q, n)) : Before(e, f)
         /\ Cardinality(Shifted(q, n)) <= n
<1> DEFINE L == Len(q)
           R == Rest(q, n)
           B == Shifted(q, n)
<1>1. L \in Nat /\ DOMAIN q = 1..L /\ \A k \in 1..L : q[k] \in Item
  OBVIOUS
<1>2. B = {q[k] : k \in {j \in 1..L : j <= n}}
  BY <1>1 DEF Shifted
<1>3. CASE L <= n
  <2>1. {j \in 1..L : j <= n} = 1..L
    BY <1>1, <1>3
  <2>2. B = {q[k] : k \in 1..L} /\ B = Elements(q)
    BY <1>1, <1>2, <2>1 DEF Elements
  <2>3. R = << >>
    BY <1>1, <1>3, SubSeqEmpty DEF Rest
  <2>4. Cardinality(B) = L
    BY <1>1, <2>2, Prefix
  <2>5. Elements(R) = {} /\ InOrder(R) /\ R \in Seq(Item)
    BY <2>3 DEF Elements, InOrder
  <2> HIDE DEF R, B
  <2> QED BY <1>1, <1>3, <2>2, <2>4, <2>5 DEF R, B
<1>4. CASE n < L
  <2>1. {j \in 1..L : j <= n} = 1..n
    BY <1>1, <1>4
  <2>2. B = {q[k] : k \in 1..n}
    BY <1>2, <2>1
  <2>3. Cardinality(B) = n
    BY <1>1, <1>4, <2>2, Prefix
  <2>4. /\ R \in Seq(Item) /\ DOMAIN R = 1..(L - n)
        /\ \A k \in 1..(L - n) : R[k] = q[n + k] /\ n + k \in DOMAIN q
    <3>1. \A k \in (n + 1)..L : q[k] \in Item
      BY <1>1, <1>4
    <3>2. /\ R \in Seq(Item)
          /\ Len(R) = IF n + 1 <= L THEN L - (n + 1) + 1 ELSE 0
          /\ \A k \in 1..(L - (n + 1) + 1) : R[k] = q[n + 1 + k - 1]
      BY <1>1, <1>4, <3>1, SubSeqProperties DEF Rest
    <3> HIDE DEF R, L
    <3>3. Len(R) = L - n /\ L - (n + 1) + 1 = L - n
      BY <1>1, <1>4, <3>2
    <3>4. \A k \in 1..(L - n) : n + 1 + k - 1 = n + k /\ n + k \in 1..L
      BY <1>1, <1>4
    <3>5. DOMAIN R = 1..Len(R)
      BY <3>2
    <3> QED BY <1>1, <3>2, <3>3, <3>4, <3>5
  <2> HIDE DEF R, L, B
  <2>5. InOrder(R)
    <3> SUFFICES ASSUME NEW k \in 1..(L - n), NEW l \in 1..(L - n), k < l
                 PROVE  Before(R[k], R[l])
      BY <2>4 DEF InOrder
    <3>1. n + k < n + l
      BY <1>4
    <3> QED BY <2>4, <3>1 DEF InOrder
  <2>6. \A k \in 1..n : k \in DOMAIN q
    BY <1>1, <1>4
  <2>7. B \subseteq Elements(q)
    BY <2>2, <2>6 DEF Elements
  <2>8. ASSUME NEW k \in 1..n, NEW l \in DOMAIN q, l > n
        PROVE  Before(q[k], q[l]) /\ q[k] # q[l]
    <3>1. k \in DOMAIN q /\ k < l /\ q[k] \in Item /\ q[l] \in Item
      BY <1>1, <2>6, <2>8
    <3>2. Before(q[k], q[l])
      BY <3>1 DEF InOrder
    <3> QED BY <3>1, <3>2, BeforeIsStrict
  <2>9. ASSUME NEW l \in DOMAIN q, l > n PROVE q[l] \in Elements(R)
    <3>1. l - n \in 1..(L - n) /\ n + (l - n) = l
      BY <1>1, <1>4, <2>9
    <3> QED BY <2>4, <3>1 DEF Elements
  <2>10. ASSUME NEW k \in DOMAIN R
         PROVE  \E l \in DOMAIN q : l > n /\ R[k] = q[l]
    <3>1. n + k \in DOMAIN q /\ R[k] = q[n + k] /\ n + k > n
      BY <1>1, <1>4, <2>4
    <3> QED BY <3>1
  <2>11. Elements(R) = Elements(q) \ B
    <3>1. ASSUME NEW e \in Elements(q) \ B PROVE e \in Elements(R)
      <4>1. PICK l \in DOMAIN q : e = q[l]
        BY DEF Elements
      <4>2. l > n
        <5>1. l \notin 1..n
          BY <2>2, <3>1, <4>1
        <5> QED BY <1>1, <1>4, <5>1
      <4> QED BY <2>9, <4>1, <4>2
    <3>2. ASSUME NEW e \in Elements(R) PROVE e \in Elements(q) \ B
      <4>1. PICK l \in DOMAIN q : l > n /\ e = q[l]
        BY <2>10 DEF Elements
      <4>2. e \notin B
        BY <2>2, <2>8, <4>1
      <4> QED BY <4>1, <4>2 DEF Elements
    <3> QED BY <3>1, <3>2
  <2>12. ASSUME NEW e \in B, NEW f \in Elements(R) PROVE Before(e, f)
    <3>1. PICK k \in 1..n : e = q[k]
      BY <2>2
    <3>2. PICK l \in DOMAIN q : l > n /\ f = q[l]
      BY <2>10 DEF Elements
    <3> QED BY <2>8, <3>1, <3>2
  <2> QED BY <2>3, <2>4, <2>5, <2>7, <2>11, <2>12 DEF R, B
<1> QED BY <1>1, <1>3, <1>4
=============================================================================
