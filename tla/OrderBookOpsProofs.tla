------------------------- MODULE OrderBookOpsProofs -------------------------
(***************************************************************************)
(* Lemmas about the calls of an order book: what putting orders, queueing  *)
(* a diff, and taking diffs from the queue return and preserve, for every  *)
(* exchange, every set of diffs and snapshots, and every queue size.       *)
(***************************************************************************)
EXTENDS OrderBookOps, FiniteSetTheorems, FunctionTheorems, SequenceTheorems,
        WellFoundedInduction, TLAPS

USE DEF Unset

-----------------------------------------------------------------------------
(* Least and greatest elements of sets of naturals, and induction up to a    *)
(* bound: about sets, so that they can be cited                              *)

\* A set of naturals that is not empty has a least element: the loops of the
\* code walk a list from its front.
LEMMA LeastElement ==
  ASSUME NEW S \in SUBSET Nat, S # {}
  PROVE  \E n \in S : \A m \in S : n <= m
<1> DEFINE R == OpToRel(<, Nat)
<1>1. IsWellFoundedOn(R, Nat)
  BY NatLessThanWellFounded
<1>2. \A x, y \in Nat : x < y => <<x, y>> \in R
  BY DEF OpToRel
<1> HIDE DEF R
<1>3. PICK n \in S : \A y \in S : ~(<<y, n>> \in R)
  BY <1>1, WFMin
<1>4. \A m \in S : ~ (m < n)
  BY <1>2, <1>3
<1> QED BY <1>4

\* A bounded one has a greatest element: the last writer of a level.
LEMMA GreatestElement ==
  ASSUME NEW n \in Nat, NEW S \in SUBSET (0..n), S # {}
  PROVE  \E a \in S : \A b \in S : a >= b
<1> DEFINE T == {i \in 0..n : n - i \in S}
<1>1. PICK s \in S : TRUE
  OBVIOUS
<1>2. T \in SUBSET Nat /\ n - s \in T
  OBVIOUS
<1>3. PICK t \in T : \A u \in T : t <= u
  BY <1>2, LeastElement
<1>4. \A b \in S : n - b \in T
  OBVIOUS
<1>5. t \in 0..n /\ n - t \in S
  OBVIOUS
<1> HIDE DEF T
<1>6. \A b \in S : n - t >= b
  BY <1>3, <1>4, <1>5
<1> QED BY <1>5, <1>6

\* Induction along the first k diffs of a queue.
LEMMA BoundedInduction ==
  ASSUME NEW k \in Nat, NEW S, 0 \in S,
         \A i \in 1..k : i - 1 \in S => i \in S
  PROVE  \A i \in 0..k : i \in S
<1> DEFINE T == {i \in 0..k : i \notin S}
<1> SUFFICES ASSUME T # {} PROVE FALSE
  OBVIOUS
<1>0. T \in SUBSET Nat
  OBVIOUS
<1>1. PICK t \in T : \A u \in T : t <= u
  BY <1>0, LeastElement
<1>2. t \in 1..k /\ t \notin S
  OBVIOUS
<1>3. t - 1 \in T
  BY <1>2
<1> QED BY <1>1, <1>2, <1>3

\* Min of a set of natural numbers is its least element (the library gives it by
\* CHOOSE).
LEMMA MinIsLeast ==
  ASSUME NEW S \in SUBSET Nat, S # {}
  PROVE  Min(S) \in S /\ \A m \in S : Min(S) <= m
BY LeastElement DEF Min

\* Max of a bounded set of natural numbers is its greatest element.
LEMMA MaxIsGreatest ==
  ASSUME NEW n \in Nat, NEW S \in SUBSET (0..n), S # {}
  PROVE  Max(S) \in S /\ \A m \in S : Max(S) >= m
BY GreatestElement DEF Max

-----------------------------------------------------------------------------
(* Orders put into the levels *)

\* Putting the orders of a diff into levels that show any moment of its range
\* gives levels that show its end.
LEMMA PutDiffShows ==
  ASSUME NEW levels \in [Levels -> Amounts], NEW d \in Diffs,
         NEW n \in (d.first - 1)..d.final, Shows(levels, n)
  PROVE  Shows(PutOrders(levels, d.orders), d.final)
<1> SUFFICES ASSUME NEW p \in Levels
             PROVE  ShowsLevel(PutOrders(levels, d.orders), p, d.final)
  BY DEF Shows
<1>1. CASE p \in DOMAIN d.orders
  BY <1>1, DiffsAssumption DEF PutOrders, ShowsLevel
<1>2. CASE p \notin DOMAIN d.orders
  <2>1. Exchange[n][p] = Exchange[d.final][p]
    BY <1>2, DiffsAssumption
  <2> QED
    BY <1>2, <2>1 DEF PutOrders, ShowsLevel, Shows
<1> QED BY <1>1, <1>2

\* put_order leaves amounts at levels (PutOrders, on the orders of a diff).
LEMMA PutDiffType ==
  ASSUME NEW levels \in [Levels -> Amounts], NEW d \in Diffs
  PROVE  PutOrders(levels, d.orders) \in [Levels -> Amounts]
<1>1. \A p \in DOMAIN d.orders : d.orders[p] = Exchange[d.final][p]
                                 /\ p \in Levels /\ d.final \in 0..LastId
  BY DiffsAssumption, ConstantsAssumption
<1>2. \A n \in 0..LastId, p \in Levels : Exchange[n][p] \in Amounts
  BY ConstantsAssumption
<1> QED BY <1>1, <1>2 DEF PutOrders

\* A book started from a snapshot shows the exchange at the id of the snapshot.
LEMMA SnapshotShows ==
  ASSUME NEW b \in EmptyBooks, NEW s \in Snapshots
  PROVE  /\ PutOrders(b.levels, s.orders) \in [Levels -> Amounts]
         /\ Shows(PutOrders(b.levels, s.orders), s.last)
<1>1. b.levels = [p \in Levels |-> NoOrder]
  BY DEF EmptyBooks
<1>2. \A n \in 0..LastId, p \in Levels : Exchange[n][p] \in Amounts
  BY ConstantsAssumption
<1>3. NoOrder \in Amounts /\ s.last \in 0..LastId
  BY ConstantsAssumption, SnapshotsAssumption
<1>4. \A p \in Levels : PutOrders(b.levels, s.orders)[p] \in Amounts
  BY <1>1, <1>2, <1>3, SnapshotsAssumption DEF PutOrders
<1>5. \A p \in Levels :
        ShowsLevel(PutOrders(b.levels, s.orders), p, s.last)
  BY <1>1, SnapshotsAssumption DEF PutOrders, ShowsLevel
<1> QED BY <1>4, <1>5 DEF PutOrders, Shows

-----------------------------------------------------------------------------
(* ObDiffQueue::put *)

\* Where put stops: all queued diffs before the position start earlier than d,
\* the one at it does not.
LEMMA PositionProperties ==
  ASSUME NEW q \in Seq(Diffs), NEW d \in Diffs
  PROVE  /\ Position(q, d) \in 1..(Len(q) + 1)
         /\ \A i \in 1..(Position(q, d) - 1) : q[i].first < d.first
         /\ Position(q, d) <= Len(q) => q[Position(q, d)].first >= d.first
<1> DEFINE S == {i \in 1..(Len(q) + 1) : i = Len(q) + 1 \/ q[i].first >= d.first}
<1>1. S \in SUBSET Nat /\ Len(q) + 1 \in S
  OBVIOUS
<1>2. Position(q, d) = Min(S)
  BY DEF Position
<1>3. Min(S) \in S /\ \A m \in S : Min(S) <= m
  BY <1>1, MinIsLeast
<1>4. \A i \in 1..Len(q) : q[i].first \in Int
  BY DiffsAssumption
<1>5. d.first \in Int
  BY DiffsAssumption
<1>6. \A i \in 1..Len(q) : ~ (q[i].first < d.first) => i \in S
  BY <1>4, <1>5
<1>7. \A i \in S : i \in 1..(Len(q) + 1) /\ (i <= Len(q) => q[i].first >= d.first)
  OBVIOUS
<1> HIDE DEF S
<1>8. \A i \in 1..(Min(S) - 1) : q[i].first < d.first
  <2> SUFFICES ASSUME NEW i \in 1..(Min(S) - 1), ~ (q[i].first < d.first)
               PROVE  FALSE
    OBVIOUS
  <2>1. i \in 1..Len(q)
    BY <1>3, <1>7
  <2> QED BY <2>1, <1>3, <1>6, <1>7
<1> QED BY <1>2, <1>3, <1>7, <1>8

\* InsertAt, element by element.
LEMMA InsertAtProperties ==
  ASSUME NEW S, NEW q \in Seq(S), NEW i \in 1..(Len(q) + 1), NEW e \in S
  PROVE  /\ InsertAt(q, i, e) \in Seq(S)
         /\ Len(InsertAt(q, i, e)) = Len(q) + 1
         /\ \A j \in 1..(Len(q) + 1) :
              InsertAt(q, i, e)[j] = IF j < i THEN q[j]
                                     ELSE IF j = i THEN e ELSE q[j - 1]
<1> DEFINE front == SubSeq(q, 1, i - 1)
           back == SubSeq(q, i, Len(q))
<1>1. /\ front \in Seq(S) /\ Len(front) = i - 1
      /\ \A j \in 1..(i - 1) : front[j] = q[j]
  BY SubSeqProperties
<1>2. /\ back \in Seq(S) /\ Len(back) = Len(q) + 1 - i
      /\ \A j \in 1..(Len(q) + 1 - i) : back[j] = q[i + j - 1]
  BY SubSeqProperties
<1> DEFINE unit == <<e>>
           lead == front \o unit
<1>3. unit \in Seq(S) /\ Len(unit) = 1 /\ unit[1] = e
  OBVIOUS
<1> HIDE DEF front, back, unit
<1>4. /\ lead \in Seq(S) /\ Len(lead) = i
      /\ \A j \in 1..i : lead[j] = IF j < i THEN q[j] ELSE e
  <2>1. /\ lead \in Seq(S) /\ Len(lead) = Len(front) + Len(unit)
        /\ \A j \in 1..(Len(front) + Len(unit)) : lead[j] =
             IF j <= Len(front) THEN front[j] ELSE unit[j - Len(front)]
    BY <1>1, <1>3, ConcatProperties
  <2> HIDE DEF lead
  <2>2. ASSUME NEW j \in 1..i, j < i PROVE lead[j] = q[j]
    BY <2>1, <2>2, <1>1, <1>3
  <2>3. i - Len(front) = 1 /\ ~ (i <= Len(front))
    BY <1>1
  <2>4. lead[i] = e
    BY <2>1, <2>3, <1>1, <1>3
  <2> QED BY <2>1, <2>2, <2>4, <1>1, <1>3
<1> HIDE DEF lead
<1>5. /\ lead \o back \in Seq(S)
      /\ Len(lead \o back) = Len(lead) + Len(back)
      /\ \A j \in 1..(Len(lead) + Len(back)) : (lead \o back)[j] =
           IF j <= Len(lead) THEN lead[j] ELSE back[j - Len(lead)]
  BY <1>2, <1>4, ConcatProperties
<1>6. InsertAt(q, i, e) = lead \o back
  BY DEF InsertAt, front, back, unit, lead
<1> DEFINE r == lead \o back
<1> HIDE DEF r
<1>7. /\ r \in Seq(S) /\ Len(r) = Len(q) + 1
      /\ \A j \in 1..(Len(q) + 1) :
           r[j] = IF j <= i THEN lead[j] ELSE back[j - i]
  BY <1>2, <1>4, <1>5 DEF r
<1>8. \A j \in (i + 1)..(Len(q) + 1) :
        j - i \in 1..(Len(q) + 1 - i) /\ i + (j - i) - 1 = j - 1
  OBVIOUS
<1>9. \A j \in (i + 1)..(Len(q) + 1) : r[j] = q[j - 1]
  BY <1>2, <1>7, <1>8
<1> QED BY <1>4, <1>6, <1>7, <1>9 DEF r

\* A queue stays in order, and gains no diff but the one put.
LEMMA QueuedProperties ==
  ASSUME NEW q \in Seq(Diffs), NEW d \in Diffs, Ordered(q)
  PROVE  /\ Queued(q, d) \in Seq(Diffs)
         /\ Ordered(Queued(q, d))
         /\ \A i \in 1..Len(Queued(q, d)) :
              Queued(q, d)[i] = d \/ \E j \in 1..Len(q) : Queued(q, d)[i] = q[j]
         /\ Len(Queued(q, d)) <= Len(q) + 1
<1> DEFINE pos == Position(q, d)
<1>1. /\ pos \in 1..(Len(q) + 1)
      /\ \A i \in 1..(pos - 1) : q[i].first < d.first
      /\ pos <= Len(q) => q[pos].first >= d.first
  BY PositionProperties
<1> HIDE DEF pos
<1>2. CASE Queued(q, d) = q
  BY <1>2
<1>3. CASE /\ ~ (pos <= Len(q) /\ q[pos].first = d.first)
           /\ Queued(q, d) = InsertAt(q, pos, d)
  <2> DEFINE r == InsertAt(q, pos, d)
  <2>1. /\ r \in Seq(Diffs) /\ Len(r) = Len(q) + 1
        /\ \A j \in 1..(Len(q) + 1) :
             r[j] = IF j < pos THEN q[j] ELSE IF j = pos THEN d ELSE q[j - 1]
    BY <1>1, InsertAtProperties
  <2> HIDE DEF r
  <2>2. \A i \in 1..Len(q) :
          /\ q[i] \in Diffs /\ q[i].first \in Int /\ q[i].final \in Int
          /\ q[i].first <= q[i].final
    BY DiffsAssumption
  <2>3. d.first \in Int /\ d.final \in Int /\ d.first <= d.final
    BY DiffsAssumption
  <2>4. \A i \in 1..(pos - 1) : q[i].final < d.first
    <3> SUFFICES ASSUME NEW i \in 1..(pos - 1) PROVE q[i].final < d.first
      OBVIOUS
    <3>1. q[i] \in Diffs /\ q[i].first < d.first
      BY <1>1, <2>2
    <3> QED BY <3>1, <2>3, DiffsAssumption
  <2>5. \A i \in pos..Len(q) : d.final < q[i].first
    <3> SUFFICES ASSUME NEW i \in pos..Len(q) PROVE d.final < q[i].first
      OBVIOUS
    <3>1. i \in 1..Len(q) /\ pos \in 1..Len(q)
      BY <1>1
    <3>2. q[pos].first > d.first /\ q[pos] \in Diffs
      BY <1>1, <1>3, <2>2, <2>3, <3>1
    <3>3. d.final < q[pos].first
      BY <3>2, <2>3, DiffsAssumption
    <3>4. i = pos \/ q[pos].final < q[i].first
      BY <3>1, <1>1 DEF Ordered
    <3> QED BY <3>1, <3>3, <3>4, <2>2, <2>3
  <2>6. Ordered(r)
    <3> SUFFICES ASSUME NEW i \in 1..(Len(q) + 1), NEW j \in 1..(Len(q) + 1), i < j
                 PROVE  r[i].final < r[j].first
      BY <2>1 DEF Ordered
    <3>1. CASE j < pos
      <4>1. i \in 1..Len(q) /\ j \in 1..Len(q) /\ r[i] = q[i] /\ r[j] = q[j]
        BY <3>1, <2>1, <1>1
      <4> QED BY <4>1 DEF Ordered
    <3>2. CASE j = pos
      <4>1. i \in 1..(pos - 1) /\ r[i] = q[i] /\ r[j] = d
        BY <3>2, <2>1, <1>1
      <4> QED BY <4>1, <2>4
    <3>3. CASE i = pos
      <4>1. j - 1 \in pos..Len(q) /\ r[i] = d /\ r[j] = q[j - 1]
        BY <3>3, <2>1, <1>1
      <4> QED BY <4>1, <2>5
    <3>4. CASE i < pos /\ pos < j
      <4>1. j - 1 \in pos..Len(q) /\ r[i] = q[i] /\ r[j] = q[j - 1]
        BY <3>4, <2>1, <1>1
      <4>2. i \in 1..Len(q) /\ j - 1 \in 1..Len(q) /\ i < j - 1 + 1 /\ i # j - 1
        BY <3>4, <4>1, <1>1
      <4> QED BY <4>1, <4>2 DEF Ordered
    <3>5. CASE pos < i
      <4>1. i - 1 \in 1..Len(q) /\ j - 1 \in 1..Len(q) /\ i - 1 < j - 1
        BY <3>5, <1>1
      <4>2. r[i] = q[i - 1] /\ r[j] = q[j - 1]
        BY <3>5, <2>1, <1>1
      <4> QED BY <4>1, <4>2 DEF Ordered
    <3> QED BY <3>1, <3>2, <3>3, <3>4, <3>5, <1>1
  <2>7. \A i \in 1..Len(r) : r[i] = d \/ \E j \in 1..Len(q) : r[i] = q[j]
    <3> SUFFICES ASSUME NEW i \in 1..(Len(q) + 1)
                 PROVE  r[i] = d \/ \E j \in 1..Len(q) : r[i] = q[j]
      BY <2>1
    <3>1. CASE i < pos
      <4>1. i \in 1..Len(q)
        BY <3>1, <1>1
      <4> QED BY <4>1, <3>1, <2>1
    <3>2. CASE i = pos
      BY <3>2, <2>1
    <3>3. CASE i > pos
      <4>1. i - 1 \in 1..Len(q)
        BY <3>3, <1>1
      <4>2. r[i] = q[i - 1]
        BY <3>3, <2>1, <1>1
      <4> QED BY <4>1, <4>2
    <3> QED BY <3>1, <3>2, <3>3, <1>1
  <2>8. Queued(q, d) = r
    BY <1>3 DEF r
  <2> QED BY <2>1, <2>6, <2>7, <2>8
<1> QED BY <1>2, <1>3 DEF Queued, pos

\* A queue in order holds no diff twice.
LEMMA QueueLength ==
  ASSUME NEW q \in Seq(Diffs), Ordered(q), NEW S, IsFiniteSet(S),
         \A i \in 1..Len(q) : q[i] \in S
  PROVE  Len(q) <= Cardinality(S)
<1> DEFINE f == [i \in 1..Len(q) |-> q[i]]
<1>1. Len(q) \in Nat
  OBVIOUS
<1>2. \A i, j \in 1..Len(q) : i < j => q[i] # q[j]
  <2>1. \A i \in 1..Len(q) : q[i].first \in Int /\ q[i].final \in Int
                             /\ q[i].first <= q[i].final
    BY DiffsAssumption
  <2> QED BY <2>1 DEF Ordered
<1>3. \A i, j \in 1..Len(q) : q[i] = q[j] => i = j
  BY <1>1, <1>2
<1>4. f \in Injection(1..Len(q), S)
  <2>1. f \in [1..Len(q) -> S]
    OBVIOUS
  <2>2. \A i, j \in 1..Len(q) : f[i] = f[j] => i = j
    BY <1>3
  <2> HIDE DEF f
  <2> QED BY <2>1, <2>2, Fun_IsInj
<1>5. Cardinality(1..Len(q)) = Len(q)
  <2>1. 1 \in Int /\ Len(q) \in Int
    BY <1>1
  <2>2. Cardinality(1..Len(q)) = IF 1 > Len(q) THEN 0 ELSE Len(q) - 1 + 1
    BY <2>1, FS_Interval
  <2> QED BY <1>1, <2>2
<1> HIDE DEF f
<1> QED BY <1>4, <1>5, FS_Injection

\* A diff waits in a queue.
Waits(q, d) == \E i \in 1..Len(q) : q[i] = d

\* put with room in the queue: the diff waits, and so do those that did.
LEMMA QueuedKeeps ==
  ASSUME NEW q \in Seq(Diffs), NEW d \in Diffs, Len(q) < MaxSize
  PROVE  \A e : Waits(Queued(q, d), e) <=> Waits(q, e) \/ e = d
<1> DEFINE pos == Position(q, d)
<1>1. pos \in 1..(Len(q) + 1)
  BY PositionProperties
<1>2. Len(q) \in Nat /\ MaxSize \in Nat
  BY ConstantsAssumption
<1> HIDE DEF pos
<1>3. CASE pos <= Len(q) /\ q[pos].first = d.first
  <2>1. q[pos] \in Diffs
    BY <1>1, <1>2, <1>3
  <2>2. q[pos] = d
    BY <1>3, <2>1, DiffsAssumption
  <2>3. Queued(q, d) = q
    BY <1>3 DEF Queued, pos
  <2> QED BY <1>1, <1>2, <1>3, <2>2, <2>3 DEF Waits
<1>4. CASE ~ (pos <= Len(q) /\ q[pos].first = d.first)
  <2> DEFINE r == InsertAt(q, pos, d)
  <2>1. /\ r \in Seq(Diffs) /\ Len(r) = Len(q) + 1
        /\ \A j \in 1..(Len(q) + 1) :
             r[j] = IF j < pos THEN q[j] ELSE IF j = pos THEN d ELSE q[j - 1]
    BY <1>1, InsertAtProperties
  <2>2. Queued(q, d) = r
    BY <1>2, <1>4 DEF Queued, pos
  <2> HIDE DEF r
  <2>3. Waits(r, d)
    BY <1>1, <2>1 DEF Waits
  <2>4. ASSUME NEW i \in 1..Len(q) PROVE Waits(r, q[i])
    <3>1. CASE i < pos
      <4>1. i \in 1..(Len(q) + 1) /\ r[i] = q[i]
        BY <1>2, <2>1, <3>1
      <4> QED BY <2>1, <4>1 DEF Waits
    <3>2. CASE ~ (i < pos)
      <4>1. i + 1 \in 1..(Len(q) + 1) /\ ~ (i + 1 < pos) /\ i + 1 # pos
            /\ (i + 1) - 1 = i
        BY <1>1, <1>2, <3>2
      <4>2. r[i + 1] = q[i]
        BY <2>1, <4>1
      <4> QED BY <2>1, <4>1, <4>2 DEF Waits
    <3> QED BY <3>1, <3>2
  <2>5. ASSUME NEW j \in 1..Len(r) PROVE Waits(q, r[j]) \/ r[j] = d
    <3>1. CASE j < pos
      <4>1. j \in 1..Len(q) /\ r[j] = q[j]
        BY <1>1, <1>2, <2>1, <3>1
      <4> QED BY <4>1 DEF Waits
    <3>2. CASE j = pos
      BY <2>1, <3>2
    <3>3. CASE j > pos
      <4>1. j - 1 \in 1..Len(q)
        BY <1>1, <1>2, <2>1, <3>3
      <4>2. r[j] = q[j - 1]
        BY <1>1, <1>2, <2>1, <3>3
      <4> QED BY <4>1, <4>2 DEF Waits
    <3> QED BY <1>1, <1>2, <2>1, <3>1, <3>2, <3>3
  <2> QED BY <2>2, <2>3, <2>4, <2>5 DEF Waits
<1> QED BY <1>3, <1>4

-----------------------------------------------------------------------------
(* The loop of apply_diff *)

\* One more diff taken from the queue is one more diff put into the levels.
LEMMA LevelsAfterStep ==
  ASSUME NEW b \in Books, NEW k \in 1..Len(b.q)
  PROVE  LevelsAfter(b, k) = PutOrders(LevelsAfter(b, k - 1), b.q[k].orders)
<1> SUFFICES ASSUME NEW p \in Levels
             PROVE  LevelsAfter(b, k)[p] =
                      PutOrders(LevelsAfter(b, k - 1), b.q[k].orders)[p]
  BY DEF LevelsAfter, PutOrders
<1> DEFINE W(n) == {i \in 1..n : p \in DOMAIN b.q[i].orders}
<1>0. k \in Nat /\ k \in 1..k
  BY DEF Books
<1>1. \A n \in {k, k - 1} :
        LevelsAfter(b, n)[p] =
          IF W(n) = {} THEN b.levels[p] ELSE b.q[Max(W(n))].orders[p]
  BY DEF LevelsAfter
<1>2. CASE p \in DOMAIN b.q[k].orders
  <2>1. k \in W(k) /\ W(k) \in SUBSET (0..k) /\ W(k) \in SUBSET (1..k)
    BY <1>0, <1>2
  <2>2. Max(W(k)) \in W(k) /\ \A m \in W(k) : Max(W(k)) >= m
    BY <1>0, <2>1, MaxIsGreatest
  <2> HIDE DEF W
  <2>3. Max(W(k)) = k
    BY <2>1, <2>2, <1>0
  <2> QED BY <1>1, <1>2, <2>1, <2>3 DEF PutOrders
<1>3. CASE p \notin DOMAIN b.q[k].orders
  <2>1. W(k) = W(k - 1)
    <3>1. \A i \in 1..k : i \in W(k) => i \in 1..(k - 1)
      BY <1>0, <1>3
    <3> QED BY <3>1, <1>0
  <2> HIDE DEF W
  <2> QED BY <1>1, <1>3, <2>1 DEF PutOrders
<1> QED BY <1>2, <1>3

\* Applying none of the queue leaves the levels as they are.
LEMMA LevelsAfterNone ==
  ASSUME NEW b \in Books
  PROVE  LevelsAfter(b, 0) = b.levels
BY DEF LevelsAfter, Books

\* While apply_diff runs, a queued diff may be the one that has just been
\* applied directly; it is then at the front and handed out next.
AheadOrJustApplied(b) ==
  \A i \in 1..Len(b.q) :
    b.q[i].first > b.last \/ (b.q[i].final = b.last /\ b.qlast = b.last)

\* Taking k diffs leads to a later update, and if no gap is met, to the
\* exchange's book of that update.
LEMMA TakenDiffs ==
  ASSUME NEW b \in Books, b.last # Unset, Ordered(b.q), AheadOrJustApplied(b),
         NEW k \in 0..Len(b.q)
  PROVE  /\ LevelsAfter(b, k) \in [Levels -> Amounts]
         /\ LastAfter(b, k) \in 0..LastId
         /\ LastAfter(b, k) >= b.last
         /\ Shows(b.levels, b.last) /\ ~ GapWithin(b, k)
              => Shows(LevelsAfter(b, k), LastAfter(b, k))
<1> DEFINE Holds(i) ==
             /\ LevelsAfter(b, i) \in [Levels -> Amounts]
             /\ LastAfter(b, i) \in 0..LastId
             /\ LastAfter(b, i) >= b.last
             /\ Shows(b.levels, b.last) /\ ~ GapWithin(b, k)
                  => Shows(LevelsAfter(b, i), LastAfter(b, i))
           S == {i \in 0..k : Holds(i)}
<1>0. /\ b.q \in Seq(Diffs) /\ b.last \in 0..LastId
      /\ b.levels \in [Levels -> Amounts] /\ k \in Nat
      /\ \A i \in 1..Len(b.q) :
           /\ b.q[i] \in Diffs
           /\ b.q[i].first \in 1..LastId /\ b.q[i].final \in 1..LastId
           /\ b.q[i].first <= b.q[i].final
  BY DiffsAssumption, ConstantsAssumption DEF Books
<1>1. 0 \in S
  <2>1. LastAfter(b, 0) = b.last
    BY DEF LastAfter
  <2> QED BY <1>0, <2>1, LevelsAfterNone
<1>2. ASSUME NEW i \in 1..k, i - 1 \in S PROVE i \in S
  <2> DEFINE d == b.q[i]
             m == LastAfter(b, i - 1)
  <2>1. i \in 1..Len(b.q) /\ i \in 0..k /\ Holds(i - 1) /\ d \in Diffs
    BY <1>0, <1>2
  <2>2. LastAfter(b, i) = d.final
    BY <2>1 DEF LastAfter
  <2>3. LevelsAfter(b, i) = PutOrders(LevelsAfter(b, i - 1), d.orders)
    BY <2>1, LevelsAfterStep
  <2>4. m < d.first \/ m = d.final
    <3>1. CASE i = 1
      BY <3>1, <2>1, <1>0 DEF LastAfter, AheadOrJustApplied
    <3>2. CASE i > 1
      <4>1. i - 1 \in 1..Len(b.q) /\ i - 1 < i /\ i - 1 # 0
        BY <3>2, <2>1
      <4>2. m = b.q[i - 1].final
        BY <4>1 DEF LastAfter
      <4>3. b.q[i - 1].final < b.q[i].first
        BY <4>1, <2>1 DEF Ordered
      <4> QED BY <4>2, <4>3
    <3> QED BY <3>1, <3>2
  <2>5. d.first <= d.final /\ d.first \in 1..LastId /\ d.final \in 1..LastId
    BY <2>1, <1>0
  <2>6. m \in 0..LastId /\ m >= b.last
    BY <2>1
  <2>7. LevelsAfter(b, i) \in [Levels -> Amounts]
    BY <2>1, <2>3, PutDiffType
  <2>8. ASSUME Shows(b.levels, b.last), ~ GapWithin(b, k)
        PROVE  Shows(LevelsAfter(b, i), LastAfter(b, i))
    <3>1. ~ (d.first > m + 1)
      BY <2>8 DEF GapWithin
    <3>2. m \in (d.first - 1)..d.final
      BY <3>1, <2>4, <2>5, <2>6
    <3>3. Shows(LevelsAfter(b, i - 1), m)
      BY <2>1, <2>8
    <3> QED BY <3>2, <3>3, <2>1, <2>2, <2>3, PutDiffShows
  <2>9. LastAfter(b, i) \in 0..LastId /\ LastAfter(b, i) >= b.last
    <3> HIDE DEF d, m
    <3>1. d.final >= b.last
      BY <2>4, <2>5, <2>6, <1>0
    <3> QED BY <3>1, <2>2, <2>5
  <2> QED BY <2>1, <2>7, <2>8, <2>9
<1>3. \A i \in 1..k : i - 1 \in S => i \in S
  BY <1>2
<1> HIDE DEF S
<1>4. \A i \in 0..k : i \in S
  BY <1>0, <1>1, <1>3, BoundedInduction
<1>5. k \in S
  BY <1>0, <1>4
<1> QED BY <1>5 DEF S

\* What the loop leaves: a book of the right type whose queue is in order and
\* ahead of it.
LEMMA DrainedProperties ==
  ASSUME NEW b \in Books, b.last # Unset, Ordered(b.q), AheadOrJustApplied(b),
         NEW c \in Drained(b)
  PROVE  /\ c \in Books
         /\ Ordered(c.q) /\ \A i \in 1..Len(c.q) : c.q[i].first > c.last
         /\ c.last >= b.last
         /\ b.reported => c.reported
         /\ Shows(b.levels, b.last) /\ ~ c.reported => Shows(c.levels, c.last)
<1>1. PICK run \in DrainRuns(b) :
        c = [levels   |-> LevelsAfter(b, run[1]),
             last     |-> LastAfter(b, run[1]),
             q        |-> SubSeq(b.q, run[1] + 1, Len(b.q)),
             qlast    |-> run[2][run[1]],
             reported |-> b.reported \/ GapWithin(b, run[1])]
  BY DEF Drained
<1> DEFINE k == run[1]
           seen == run[2]
<1>2. /\ k \in 0..Len(b.q) /\ seen \in Reads(b)
      /\ k = Len(b.q) \/ ~ NextDiff(b.q[k+1], Len(b.q) - k, seen[k])
  BY DEF DrainRuns
<1> HIDE DEF k, seen
<1>3. /\ b.q \in Seq(Diffs) /\ b.last \in 0..LastId /\ b.qlast \in Nat
      /\ Len(b.q) \in Nat /\ LastId \in Nat /\ Garbage \subseteq Nat
      /\ \A i \in 1..Len(b.q) :
           /\ b.q[i] \in Diffs
           /\ b.q[i].first \in 1..LastId /\ b.q[i].final \in 1..LastId
           /\ b.q[i].first <= b.q[i].final
  BY DiffsAssumption, ConstantsAssumption DEF Books
<1>4. /\ LevelsAfter(b, k) \in [Levels -> Amounts]
      /\ LastAfter(b, k) \in 0..LastId
      /\ LastAfter(b, k) >= b.last
      /\ Shows(b.levels, b.last) /\ ~ GapWithin(b, k)
           => Shows(LevelsAfter(b, k), LastAfter(b, k))
  BY <1>2, TakenDiffs
<1>5. seen[k] \in Nat /\ seen[0] = b.qlast
  <2>1. seen[0] = b.qlast
    BY <1>2 DEF Reads
  <2>2. k = 0 \/ k \in 1..Len(b.q)
    BY <1>2, <1>3
  <2>3. \A i \in 1..Len(b.q) : seen[i] = b.q[i].final \/ seen[i] \in Garbage
    BY <1>2 DEF Reads
  <2>4. CASE k = 0
    BY <2>1, <2>4, <1>3
  <2>5. CASE k \in 1..Len(b.q)
    <3>1. b.q[k].final \in Nat
      BY <2>5, <1>3
    <3> QED BY <2>1, <2>3, <2>5, <3>1, <1>3
  <2> QED BY <2>1, <2>2, <2>4, <2>5
<1>6. /\ c.levels = LevelsAfter(b, k) /\ c.last = LastAfter(b, k)
      /\ c.q = SubSeq(b.q, k + 1, Len(b.q)) /\ c.qlast = seen[k]
      /\ c.reported = (b.reported \/ GapWithin(b, k))
  BY <1>1 DEF k, seen
<1>7. /\ c.q \in Seq(Diffs) /\ Len(c.q) = Len(b.q) - k
      /\ \A i \in 1..Len(c.q) : c.q[i] = b.q[k + i] /\ k + i \in 1..Len(b.q)
  <2>1. \A i \in (k + 1)..Len(b.q) : b.q[i] \in Diffs
    BY <1>2, <1>3
  <2>2. k + 1 \in Int /\ Len(b.q) \in Int
    BY <1>2, <1>3
  <2>3. /\ SubSeq(b.q, k + 1, Len(b.q)) \in Seq(Diffs)
        /\ Len(SubSeq(b.q, k + 1, Len(b.q))) =
             IF k + 1 <= Len(b.q) THEN Len(b.q) - (k + 1) + 1 ELSE 0
        /\ \A i \in 1..(Len(b.q) - (k + 1) + 1) :
             SubSeq(b.q, k + 1, Len(b.q))[i] = b.q[(k + 1) + i - 1]
    BY <2>1, <2>2, SubSeqProperties
  <2>4. Len(c.q) = Len(b.q) - k /\ Len(b.q) - k = Len(b.q) - (k + 1) + 1
    BY <2>3, <1>2, <1>3, <1>6
  <2>5. ASSUME NEW i \in 1..Len(c.q)
        PROVE  c.q[i] = b.q[k + i] /\ k + i \in 1..Len(b.q)
    <3> DEFINE n == Len(b.q)
               m == Len(c.q)
    <3>0. k \in Nat /\ n \in Nat /\ i \in 1..m /\ m = n - k
      BY <2>4, <1>2, <1>3
    <3> HIDE DEF n, m
    <3>3. (k + 1) + i - 1 = k + i /\ k + i \in 1..n
      BY <3>0
    <3>1. (k + 1) + i - 1 = k + i /\ k + i \in 1..Len(b.q)
      BY <3>3 DEF n
    <3>2. c.q[i] = b.q[(k + 1) + i - 1]
      BY <2>3, <2>4, <1>6
    <3> QED BY <3>1, <3>2
  <2> QED BY <2>3, <2>4, <2>5, <1>6
<1>8. Ordered(c.q)
  <2> SUFFICES ASSUME NEW i \in 1..Len(c.q), NEW j \in 1..Len(c.q), i < j
               PROVE  c.q[i].final < c.q[j].first
    BY DEF Ordered
  <2>1. k + i < k + j
    BY <1>2, <1>3, <1>7
  <2> QED BY <2>1, <1>7 DEF Ordered
<1>9. \A i \in 1..Len(c.q) : c.q[i].first > c.last
  <2> SUFFICES ASSUME NEW i \in 1..Len(c.q) PROVE c.q[i].first > c.last
    OBVIOUS
  <2>1. CASE k = 0
    <3>1. c.q[i] = b.q[i] /\ c.last = b.last /\ i \in 1..Len(b.q)
      BY <2>1, <1>6, <1>7 DEF LastAfter
    <3>2. ASSUME b.q[i].final = b.last, b.qlast = b.last PROVE FALSE
      <4>1. 1 \in 1..Len(b.q) /\ b.q[1].first <= b.q[i].first
        <5>1. 1 \in 1..Len(b.q) /\ (i = 1 \/ 1 < i)
          BY <3>1, <1>3
        <5>2. i = 1 \/ b.q[1].final < b.q[i].first
          BY <5>1, <3>1 DEF Ordered
        <5> QED BY <5>1, <5>2, <3>1, <1>3
      <4>2. ~ NextDiff(b.q[1], Len(b.q), b.qlast)
        BY <4>1, <2>1, <1>2, <1>3, <1>5
      <4> QED BY <4>1, <4>2, <3>1, <3>2, <1>3 DEF NextDiff
    <3> QED BY <3>1, <3>2 DEF AheadOrJustApplied
  <2>2. CASE k > 0
    <3>1. k \in 1..Len(b.q) /\ k + i \in 1..Len(b.q) /\ k < k + i
      BY <2>2, <1>2, <1>3, <1>7
    <3>2. c.last = b.q[k].final
      BY <2>2, <1>6, <1>2 DEF LastAfter
    <3>3. b.q[k].final < b.q[k + i].first
      BY <3>1 DEF Ordered
    <3>4. c.q[i] = b.q[k + i]
      BY <1>7
    <3> QED BY <3>1, <3>2, <3>3, <3>4, <1>3
  <2> QED BY <2>1, <2>2, <1>2
<1>10. c \in Books
  <2>1. c.reported \in BOOLEAN
    BY <1>6 DEF Books
  <2> QED BY <2>1, <1>1, <1>4, <1>5, <1>6, <1>7 DEF Books
<1> QED BY <1>4, <1>6, <1>8, <1>9, <1>10

\* The loop takes from the front: what it took the book has passed, the rest
\* waits; and if it took nothing the levels are untouched.
LEMMA DrainedKeeps ==
  ASSUME NEW b \in Books, Ordered(b.q), NEW c \in Drained(b)
  PROVE  /\ \A e : Waits(b.q, e) => e.final <= c.last \/ Waits(c.q, e)
         /\ \A e : Waits(c.q, e) => Waits(b.q, e)
         /\ \/ c.last = b.last /\ c.levels = b.levels
            \/ \E i \in 1..Len(b.q) : c.last = b.q[i].final
<1>1. PICK run \in DrainRuns(b) :
        c = [levels   |-> LevelsAfter(b, run[1]),
             last     |-> LastAfter(b, run[1]),
             q        |-> SubSeq(b.q, run[1] + 1, Len(b.q)),
             qlast    |-> run[2][run[1]],
             reported |-> b.reported \/ GapWithin(b, run[1])]
  BY DEF Drained
<1> DEFINE k == run[1]
<1>2. k \in 0..Len(b.q)
  BY DEF DrainRuns
<1>3. /\ c.levels = LevelsAfter(b, k) /\ c.last = LastAfter(b, k)
      /\ c.q = SubSeq(b.q, k + 1, Len(b.q))
  BY <1>1
<1> HIDE DEF k
<1>4. /\ b.q \in Seq(Diffs) /\ Len(b.q) \in Nat
      /\ \A i \in 1..Len(b.q) : b.q[i].first \in Int /\ b.q[i].final \in Int
                               /\ b.q[i].first <= b.q[i].final
  BY DiffsAssumption DEF Books
<1>5. /\ Len(c.q) = Len(b.q) - k
      /\ \A i \in 1..Len(c.q) : c.q[i] = b.q[k + i] /\ k + i \in 1..Len(b.q)
  <2>1. \A i \in (k + 1)..Len(b.q) : b.q[i] \in Diffs
    BY <1>2, <1>4
  <2>2. k + 1 \in Int /\ Len(b.q) \in Int
    BY <1>2, <1>4
  <2>3. /\ Len(c.q) = IF k + 1 <= Len(b.q) THEN Len(b.q) - (k + 1) + 1 ELSE 0
        /\ \A i \in 1..(Len(b.q) - (k + 1) + 1) :
             c.q[i] = b.q[(k + 1) + i - 1]
    BY <2>1, <2>2, <1>3, SubSeqProperties
  <2>4. Len(c.q) = Len(b.q) - k /\ Len(b.q) - k = Len(b.q) - (k + 1) + 1
    BY <2>3, <1>2, <1>4
  <2> DEFINE n == Len(b.q)
             m == Len(c.q)
  <2>5. k \in Nat /\ n \in Nat /\ m = n - k
    BY <2>4, <1>2, <1>4
  <2> HIDE DEF n, m
  <2>6. \A i \in 1..m : (k + 1) + i - 1 = k + i /\ k + i \in 1..n
    BY <2>5
  <2> QED BY <2>3, <2>4, <2>6 DEF n, m
<1>6. ASSUME NEW e, Waits(b.q, e) PROVE e.final <= c.last \/ Waits(c.q, e)
  <2>1. PICK j \in 1..Len(b.q) : b.q[j] = e
    BY <1>6 DEF Waits
  <2>2. CASE j <= k
    <3>1. k \in 1..Len(b.q) /\ c.last = b.q[k].final
      BY <1>2, <1>3, <1>4, <2>2 DEF LastAfter
    <3>2. j = k \/ b.q[j].final < b.q[k].first
      BY <1>4, <2>2, <3>1 DEF Ordered
    <3> QED BY <1>4, <2>1, <3>1, <3>2
  <2>3. CASE j > k
    <3>1. j - k \in 1..Len(c.q) /\ k + (j - k) = j
      BY <1>2, <1>4, <1>5, <2>3
    <3>2. c.q[j - k] = e
      BY <1>5, <2>1, <3>1
    <3> QED BY <3>1, <3>2 DEF Waits
  <2> QED BY <1>2, <1>4, <2>2, <2>3
<1>7. \A e : Waits(c.q, e) => Waits(b.q, e)
  BY <1>5 DEF Waits
<1>8. CASE k = 0
  <2>1. c.last = b.last
    BY <1>3, <1>8 DEF LastAfter
  <2>2. c.levels = b.levels
    BY <1>3, <1>8, LevelsAfterNone
  <2> QED BY <1>6, <1>7, <2>1, <2>2
<1>9. CASE k # 0
  <2>1. k \in 1..Len(b.q) /\ c.last = b.q[k].final
    BY <1>2, <1>3, <1>4, <1>9 DEF LastAfter
  <2> QED BY <1>6, <1>7, <2>1
<1> QED BY <1>8, <1>9

-----------------------------------------------------------------------------
(* OrderBook::apply_diff *)

\* What apply_diff guarantees of a book that shows the exchange, whatever is read
\* from dead storage: type, order of the queue, truth of the levels, progress.
LEMMA AfterDiffProperties ==
  ASSUME NEW b \in Books, b.last # Unset, Ordered(b.q),
         \A i \in 1..Len(b.q) : b.q[i].first > b.last,
         NEW d \in Diffs, NEW c \in AfterDiff(b, d)
  PROVE  /\ c \in Books
         /\ Ordered(c.q) /\ \A i \in 1..Len(c.q) : c.q[i].first > c.last
         /\ c.last >= b.last
         /\ b.reported => c.reported
         /\ (~ b.reported => Shows(b.levels, b.last)) /\ ~ c.reported
              => Shows(c.levels, c.last)
<1>1. /\ b.q \in Seq(Diffs) /\ b.last \in 0..LastId /\ b.reported \in BOOLEAN
      /\ b.levels \in [Levels -> Amounts] /\ LastId \in Nat
      /\ d.first \in 1..LastId /\ d.final \in 1..LastId /\ d.first <= d.final
      /\ \A i \in 1..Len(b.q) :
           /\ b.q[i] \in Diffs
           /\ b.q[i].first \in 1..LastId /\ b.q[i].final \in 1..LastId
           /\ b.q[i].first <= b.q[i].final
  BY DiffsAssumption, ConstantsAssumption DEF Books
<1>2. CASE d.final <= b.last
  BY <1>1, <1>2 DEF AfterDiff
<1>3. CASE ~ (d.final <= b.last) /\ d.first <= b.last + 1
  <2> DEFINE a == AppliedDirectly(b, d)
  <2>1. c \in Drained(a)
    BY <1>3 DEF AfterDiff
  <2>2. /\ a.levels = PutOrders(b.levels, d.orders) /\ a.last = d.final
        /\ a.q = b.q /\ a.reported = b.reported
        /\ a.qlast = IF b.q = <<>> THEN b.qlast ELSE d.final
    BY DEF AppliedDirectly, Track, Books
  <2>3. a \in Books
    <3>1. PutOrders(b.levels, d.orders) \in [Levels -> Amounts]
      BY <1>1, PutDiffType
    <3>2. d.final \in Nat /\ d.final \in {Unset} \cup (0..LastId)
      BY <1>1
    <3>3. [b EXCEPT !.levels = PutOrders(b.levels, d.orders),
                    !.last = d.final] \in Books
      BY <3>1, <3>2 DEF Books
    <3> HIDE DEF Unset
    <3>4. \A e \in Books : Track(e, d) \in Books
      BY <3>2 DEF Track, Books
    <3> QED BY <3>3, <3>4 DEF AppliedDirectly
  <2> HIDE DEF a
  <2>4. Ordered(a.q) /\ a.last # Unset
    BY <2>2, <1>1
  <2>5. AheadOrJustApplied(a)
    <3> SUFFICES ASSUME NEW i \in 1..Len(b.q), ~ (b.q[i].first > d.final)
                 PROVE  b.q[i].final = d.final /\ a.qlast = d.final
      BY <2>2 DEF AheadOrJustApplied
    <3>1. b.q # <<>>
      BY <1>1
    <3>2. b.q[i].first > b.last /\ b.q[i] \in Diffs
      BY <1>1
    <3>3. ~ (d.final < b.q[i].first) /\ ~ (b.q[i].final < d.first)
      BY <3>2, <1>1, <1>3
    <3>4. b.q[i] = d
      BY <3>2, <3>3, DiffsAssumption
    <3> QED BY <2>2, <3>1, <3>4
  <2>6. Shows(b.levels, b.last) => Shows(a.levels, a.last)
    <3>1. b.last \in (d.first - 1)..d.final
      BY <1>1, <1>3
    <3> QED BY <3>1, <2>2, <1>1, PutDiffShows
  <2>7. /\ c \in Books
        /\ Ordered(c.q) /\ \A i \in 1..Len(c.q) : c.q[i].first > c.last
        /\ c.last >= a.last
        /\ a.reported => c.reported
        /\ Shows(a.levels, a.last) /\ ~ c.reported => Shows(c.levels, c.last)
    BY <2>1, <2>3, <2>4, <2>5, DrainedProperties
  <2>8. c.last >= b.last
    <3>1. c.last \in Int
      BY <2>7, <1>1 DEF Books
    <3> QED BY <3>1, <2>2, <2>7, <1>1, <1>3
  <2> QED BY <2>2, <2>6, <2>7, <2>8
<1>4. CASE ~ (d.final <= b.last) /\ ~ (d.first <= b.last + 1)
  <2> DEFINE a == Enqueued(b, d)
  <2>1. c \in Drained(a)
    BY <1>4 DEF AfterDiff
  <2>2. /\ a.levels = b.levels /\ a.last = b.last /\ a.qlast = b.qlast
        /\ a.q = Queued(b.q, d) /\ a.reported = b.reported
    BY DEF Enqueued, Books
  <2>3. /\ Queued(b.q, d) \in Seq(Diffs) /\ Ordered(Queued(b.q, d))
        /\ \A i \in 1..Len(Queued(b.q, d)) :
             \/ Queued(b.q, d)[i] = d
             \/ \E j \in 1..Len(b.q) : Queued(b.q, d)[i] = b.q[j]
    BY <1>1, QueuedProperties
  <2>4. a \in Books
    BY <2>3, <1>1 DEF Enqueued, Books
  <2> HIDE DEF a
  <2>5. AheadOrJustApplied(a)
    <3> SUFFICES ASSUME NEW i \in 1..Len(Queued(b.q, d))
                 PROVE  Queued(b.q, d)[i].first > b.last
      BY <2>2 DEF AheadOrJustApplied
    <3>1. d.first > b.last
      BY <1>1, <1>4
    <3> QED BY <3>1, <2>3
  <2>6. /\ c \in Books
        /\ Ordered(c.q) /\ \A i \in 1..Len(c.q) : c.q[i].first > c.last
        /\ c.last >= a.last
        /\ a.reported => c.reported
        /\ Shows(a.levels, a.last) /\ ~ c.reported => Shows(c.levels, c.last)
    BY <2>1, <2>2, <2>3, <2>4, <2>5, DrainedProperties
  <2> QED BY <2>2, <2>6
<1> QED BY <1>2, <1>3, <1>4

\* apply_diff with room in the queue forgets no diff: the one it is given and those
\* that waited have been passed by the book or wait.  And it changes levels only
\* by going forward.
LEMMA AfterDiffKeeps ==
  ASSUME NEW b \in Books, b.last # Unset, Ordered(b.q), Len(b.q) < MaxSize,
         \A i \in 1..Len(b.q) : b.q[i].first > b.last,
         NEW d \in Diffs, NEW c \in AfterDiff(b, d)
  PROVE  /\ \A e : Waits(b.q, e) \/ e = d => e.final <= c.last \/ Waits(c.q, e)
         /\ \A e : Waits(c.q, e) => Waits(b.q, e) \/ e = d
         /\ \/ c.last = b.last /\ c.levels = b.levels
            \/ c.last > b.last
<1>1. /\ b.q \in Seq(Diffs) /\ b.last \in 0..LastId /\ LastId \in Nat
      /\ b.levels \in [Levels -> Amounts]
      /\ d.first \in 1..LastId /\ d.final \in 1..LastId /\ d.first <= d.final
      /\ \A i \in 1..Len(b.q) :
           /\ b.q[i] \in Diffs
           /\ b.q[i].first \in 1..LastId /\ b.q[i].final \in 1..LastId
           /\ b.q[i].first <= b.q[i].final
  BY DiffsAssumption, ConstantsAssumption DEF Books
<1>2. c \in Books /\ c.last >= b.last /\ c.last \in Int
  <2>1. c \in Books /\ c.last >= b.last
    BY AfterDiffProperties
  <2> QED BY <1>1, <2>1 DEF Books
<1>3. CASE d.final <= b.last
  BY <1>1, <1>3 DEF AfterDiff
<1>4. CASE ~ (d.final <= b.last) /\ d.first <= b.last + 1
  <2> DEFINE a == AppliedDirectly(b, d)
  <2>1. c \in Drained(a)
    BY <1>4 DEF AfterDiff
  <2>2. a.last = d.final /\ a.q = b.q
    BY DEF AppliedDirectly, Track, Books
  <2>3. a \in Books
    <3>1. PutOrders(b.levels, d.orders) \in [Levels -> Amounts]
      BY <1>1, PutDiffType
    <3>2. d.final \in Nat /\ d.final \in {Unset} \cup (0..LastId)
      BY <1>1
    <3>3. [b EXCEPT !.levels = PutOrders(b.levels, d.orders),
                    !.last = d.final] \in Books
      BY <3>1, <3>2 DEF Books
    <3> HIDE DEF Unset
    <3>4. \A e \in Books : Track(e, d) \in Books
      BY <3>2 DEF Track, Books
    <3> QED BY <3>3, <3>4 DEF AppliedDirectly
  <2> HIDE DEF a
  <2>4. /\ \A e : Waits(b.q, e) => e.final <= c.last \/ Waits(c.q, e)
        /\ \A e : Waits(c.q, e) => Waits(b.q, e)
        /\ c.last = a.last \/ \E i \in 1..Len(b.q) : c.last = b.q[i].final
    BY <2>1, <2>2, <2>3, DrainedKeeps
  <2>5. d.final <= c.last
    <3>1. CASE c.last = a.last
      BY <2>2, <3>1, <1>1
    <3>2. ASSUME NEW i \in 1..Len(b.q), c.last = b.q[i].final PROVE d.final <= c.last
      <4>1. b.q[i] \in Diffs /\ b.q[i].first > b.last
        BY <1>1
      <4>2. d = b.q[i] \/ d.final < b.q[i].first \/ b.q[i].final < d.first
        BY <4>1, DiffsAssumption
      <4> QED BY <1>1, <1>4, <3>2, <4>1, <4>2
    <3> QED BY <2>4, <3>1, <3>2
  <2>6. c.last > b.last
    BY <1>1, <1>2, <1>4, <2>5
  <2> QED BY <2>4, <2>5, <2>6
<1>5. CASE ~ (d.final <= b.last) /\ ~ (d.first <= b.last + 1)
  <2> DEFINE a == Enqueued(b, d)
  <2>1. c \in Drained(a)
    BY <1>5 DEF AfterDiff
  <2>2. a.levels = b.levels /\ a.last = b.last /\ a.q = Queued(b.q, d)
    BY DEF Enqueued, Books
  <2>3. Queued(b.q, d) \in Seq(Diffs) /\ Ordered(Queued(b.q, d))
    BY <1>1, QueuedProperties
  <2>4. a \in Books
    BY <2>3, <1>1 DEF Enqueued, Books
  <2> HIDE DEF a
  <2>5. \A e : Waits(a.q, e) <=> Waits(b.q, e) \/ e = d
    BY <1>1, <2>2, QueuedKeeps
  <2>6. /\ \A e : Waits(a.q, e) => e.final <= c.last \/ Waits(c.q, e)
        /\ \A e : Waits(c.q, e) => Waits(a.q, e)
        /\ \/ c.last = a.last /\ c.levels = a.levels
           \/ \E i \in 1..Len(a.q) : c.last = a.q[i].final
    BY <2>1, <2>2, <2>3, <2>4, DrainedKeeps
  <2>7. ASSUME NEW i \in 1..Len(a.q), c.last = a.q[i].final PROVE c.last > b.last
    <3>1. Waits(b.q, a.q[i]) \/ a.q[i] = d
      BY <2>5 DEF Waits
    <3>2. CASE a.q[i] = d
      BY <1>1, <1>5, <2>7, <3>2
    <3>3. CASE Waits(b.q, a.q[i])
      <4>1. PICK j \in 1..Len(b.q) : b.q[j] = a.q[i]
        BY <3>3 DEF Waits
      <4>2. c.last = b.q[j].final
        BY <2>7, <4>1
      <4>3. /\ b.q[j].first > b.last /\ b.q[j].first <= b.q[j].final
            /\ b.q[j].first \in Int /\ b.q[j].final \in Int /\ b.last \in Int
        BY <1>1
      <4> QED BY <4>2, <4>3
    <3> QED BY <3>1, <3>2, <3>3
  <2> QED BY <2>2, <2>5, <2>6, <2>7
<1> QED BY <1>3, <1>4, <1>5

-----------------------------------------------------------------------------
(* With dead storage that never misleads: Garbage = {} *)

\* Before the loop, either the queue has been told of the diff just applied,
\* or all it holds is ahead of the book.
QueueKnows(b) ==
  /\ b.qlast <= b.last
  /\ \/ b.q # <<>> => b.qlast = b.last
     \/ \A i \in 1..Len(b.q) : b.q[i].first > b.last + 1

\* After it nothing applicable waits, the queue has room, and a gap was met only
\* if the queue was full.
LEMMA DrainedIntact ==
  ASSUME Garbage = {}, NEW b \in Books, b.last # Unset, Ordered(b.q),
         QueueKnows(b), Len(b.q) <= MaxSize, NEW c \in Drained(b)
  PROVE  /\ Len(c.q) < MaxSize
         /\ \A i \in 1..Len(c.q) : c.q[i].first > c.last + 1
         /\ c.qlast <= c.last
         /\ c.reported /\ ~ b.reported => Len(b.q) = MaxSize
<1>1. PICK run \in DrainRuns(b) :
        c = [levels   |-> LevelsAfter(b, run[1]),
             last     |-> LastAfter(b, run[1]),
             q        |-> SubSeq(b.q, run[1] + 1, Len(b.q)),
             qlast    |-> run[2][run[1]],
             reported |-> b.reported \/ GapWithin(b, run[1])]
  BY DEF Drained
<1> DEFINE k == run[1]
           seen == run[2]
<1>2. /\ k \in 0..Len(b.q) /\ seen \in Reads(b)
      /\ \A i \in 1..k : NextDiff(b.q[i], Len(b.q) - i + 1, seen[i-1])
      /\ k = Len(b.q) \/ ~ NextDiff(b.q[k+1], Len(b.q) - k, seen[k])
  BY DEF DrainRuns
<1> HIDE DEF k, seen
<1>3. /\ b.q \in Seq(Diffs) /\ b.last \in 0..LastId /\ b.qlast \in Nat
      /\ Len(b.q) \in Nat /\ LastId \in Nat /\ MaxSize \in Nat \ {0}
      /\ b.reported \in BOOLEAN
      /\ \A i \in 1..Len(b.q) :
           /\ b.q[i] \in Diffs
           /\ b.q[i].first \in 1..LastId /\ b.q[i].final \in 1..LastId
           /\ b.q[i].first <= b.q[i].final
  BY DiffsAssumption, ConstantsAssumption DEF Books
<1> DEFINE first(i) == b.q[i].first
           final(i) == b.q[i].final
<1>0. \A i \in 1..Len(b.q) :
        first(i) \in Int /\ final(i) \in Int /\ first(i) <= final(i)
  BY <1>3
<1>4. /\ c.last = LastAfter(b, k) /\ c.qlast = seen[k]
      /\ c.q = SubSeq(b.q, k + 1, Len(b.q))
      /\ c.reported = (b.reported \/ GapWithin(b, k))
  BY <1>1 DEF k, seen
<1>5. /\ seen[0] = b.qlast
      /\ \A i \in 1..Len(b.q) : seen[i] = b.q[i].final
  BY <1>2 DEF Reads
<1>6. /\ Len(c.q) = Len(b.q) - k
      /\ \A i \in 1..Len(c.q) : c.q[i] = b.q[k + i] /\ k + i \in 1..Len(b.q)
  <2>1. \A i \in (k + 1)..Len(b.q) : b.q[i] \in Diffs
    BY <1>2, <1>3
  <2>2. k + 1 \in Int /\ Len(b.q) \in Int
    BY <1>2, <1>3
  <2>3. /\ Len(c.q) = IF k + 1 <= Len(b.q) THEN Len(b.q) - (k + 1) + 1 ELSE 0
        /\ \A i \in 1..(Len(b.q) - (k + 1) + 1) :
             c.q[i] = b.q[(k + 1) + i - 1]
    BY <2>1, <2>2, <1>4, SubSeqProperties
  <2>4. Len(c.q) = Len(b.q) - k /\ Len(b.q) - k = Len(b.q) - (k + 1) + 1
    BY <2>3, <1>2, <1>3
  <2>5. ASSUME NEW i \in 1..Len(c.q)
        PROVE  c.q[i] = b.q[k + i] /\ k + i \in 1..Len(b.q)
    <3> DEFINE n == Len(b.q)
               m == Len(c.q)
    <3>0. k \in Nat /\ n \in Nat /\ i \in 1..m /\ m = n - k
      BY <2>4, <1>2, <1>3
    <3> HIDE DEF n, m
    <3>3. (k + 1) + i - 1 = k + i /\ k + i \in 1..n
      BY <3>0
    <3>1. (k + 1) + i - 1 = k + i /\ k + i \in 1..Len(b.q)
      BY <3>3 DEF n
    <3>2. c.q[i] = b.q[(k + 1) + i - 1]
      BY <2>3, <2>4
    <3> QED BY <3>1, <3>2
  <2> QED BY <2>4, <2>5
<1>7. \A i \in 1..Len(b.q) : seen[i] = LastAfter(b, i)
  BY <1>5 DEF LastAfter
<1>8. LastAfter(b, 0) = b.last
  BY DEF LastAfter
<1>9. Len(c.q) < MaxSize
  <2>1. k = Len(b.q) \/ Len(b.q) - k < MaxSize
    BY <1>2, <1>3 DEF NextDiff
  <2> QED BY <2>1, <1>2, <1>3, <1>6
<1>10. c.qlast <= c.last
  <2>1. CASE k = 0
    BY <2>1, <1>4, <1>5, <1>8 DEF QueueKnows
  <2>2. CASE k \in 1..Len(b.q)
    <3>1. c.qlast = b.q[k].final /\ c.last = b.q[k].final
      BY <2>2, <1>4, <1>5, <1>7
    <3> QED BY <3>1, <2>2, <1>3
  <2> QED BY <2>1, <2>2, <1>2, <1>3
<1>11. ASSUME NEW i \in 1..Len(c.q) PROVE c.q[i].first > c.last + 1
  <2>1. c.q[i] = b.q[k + i] /\ k + i \in 1..Len(b.q) /\ k + 1 \in 1..Len(b.q)
    BY <1>2, <1>3, <1>6
  <2> DEFINE f == b.q[k + 1].first
             g == b.q[k + i].first
  <2>7. f \in Int /\ g \in Int /\ f <= b.q[k + 1].final /\ b.q[k + 1].final \in Int
    BY <2>1, <1>0
  <2>8. c.last \in Int
    <3>1. CASE k = 0
      BY <3>1, <1>3, <1>4, <1>8
    <3>2. CASE k \in 1..Len(b.q)
      BY <3>2, <1>0, <1>4, <1>5, <1>7
    <3> QED BY <3>1, <3>2, <1>2, <1>3
  <2>2. b.q[k + 1].first > seen[k] + 1
    <3>1. ~ NextDiff(b.q[k + 1], Len(b.q) - k, seen[k])
      BY <2>1, <1>2, <1>3
    <3>2. seen[k] \in Int
      <4>1. CASE k = 0
        BY <4>1, <1>3, <1>5
      <4>2. CASE k \in 1..Len(b.q)
        BY <4>2, <1>3, <1>5
      <4> QED BY <4>1, <4>2, <1>2, <1>3
    <3> QED BY <3>1, <3>2, <2>1, <1>3 DEF NextDiff
  <2>3. b.q[k + 1].first <= b.q[k + i].first
    <3>1. CASE i = 1
      BY <3>1, <2>7
    <3>2. CASE i > 1
      <4>1. k + 1 < k + i
        BY <3>2, <2>1, <1>2, <1>3
      <4>2. b.q[k + 1].final < b.q[k + i].first
        BY <4>1, <2>1 DEF Ordered
      <4> HIDE DEF f, g
      <4> QED BY <4>2, <2>7 DEF f, g
    <3> QED BY <3>1, <3>2, <2>1, <1>3
  <2>4. CASE k = 0
    <3>1. c.last = b.last /\ seen[k] = b.qlast /\ b.q # <<>>
      BY <2>4, <2>1, <1>3, <1>4, <1>5, <1>8
    <3>2. CASE b.qlast = b.last
      <4>1. f > c.last + 1
        BY <3>1, <3>2, <2>2
      <4> QED BY <4>1, <2>1, <2>3, <2>7, <2>8
    <3>3. CASE \A j \in 1..Len(b.q) : b.q[j].first > b.last + 1
      BY <3>1, <3>3, <2>1
    <3> QED BY <3>1, <3>2, <3>3 DEF QueueKnows
  <2>5. CASE k \in 1..Len(b.q)
    <3>1. c.last = seen[k] /\ seen[k] = b.q[k].final
      BY <2>5, <1>4, <1>5, <1>7
    <3>2. f > c.last + 1
      BY <3>1, <2>2
    <3> QED BY <3>2, <2>1, <2>3, <2>7, <2>8
  <2> QED BY <2>4, <2>5, <1>2, <1>3
<1>12. ASSUME c.reported, ~ b.reported PROVE Len(b.q) = MaxSize
  <2>1. PICK i \in 1..k : b.q[i].first > LastAfter(b, i - 1) + 1
    BY <1>12, <1>4 DEF GapWithin
  <2>2. i \in 1..Len(b.q) /\ i - 1 \in 0..Len(b.q) 
    BY <1>2, <1>3
  <2>6. b.q[i].first \in Int
    BY <2>2, <1>0
  <2>3. LastAfter(b, i - 1) \in Int /\ seen[i - 1] \in Int
        /\ seen[i - 1] <= LastAfter(b, i - 1)
    <3>1. CASE i = 1
      BY <3>1, <1>3, <1>5, <1>8 DEF QueueKnows
    <3>2. CASE i - 1 \in 1..Len(b.q)
      <4>1. LastAfter(b, i - 1) = seen[i - 1] /\ seen[i - 1] = b.q[i - 1].final
        BY <3>2, <1>5, <1>7
      <4> QED BY <4>1, <3>2, <1>3
    <3> QED BY <3>1, <3>2, <2>2
  <2>4. ~ (b.q[i].first <= seen[i - 1] + 1)
    BY <2>1, <2>3, <2>6
  <2>5. Len(b.q) - i + 1 >= MaxSize
    BY <2>4, <1>2 DEF NextDiff
  <2> QED BY <2>2, <2>5, <1>3
<1> QED BY <1>9, <1>10, <1>11, <1>12

\* And without dead storage: no diff that fits is left waiting, the queue is not
\* full, and a gap is applied only by the diff that fills it.
LEMMA AfterDiffIntact ==
  ASSUME Garbage = {}, NEW b \in Books, b.last # Unset, Ordered(b.q),
         \A i \in 1..Len(b.q) : b.q[i].first > b.last + 1,
         Len(b.q) < MaxSize, b.qlast <= b.last,
         NEW d \in Diffs, NEW c \in AfterDiff(b, d)
  PROVE  /\ Len(c.q) < MaxSize
         /\ \A i \in 1..Len(c.q) : c.q[i].first > c.last + 1
         /\ c.qlast <= c.last
         /\ c.reported /\ ~ b.reported =>
              /\ Len(b.q) + 1 = MaxSize
              /\ d.first > b.last + 1 /\ Len(Queued(b.q, d)) = MaxSize
<1>1. /\ b.q \in Seq(Diffs) /\ b.last \in 0..LastId /\ b.qlast \in Nat
      /\ b.reported \in BOOLEAN /\ b.levels \in [Levels -> Amounts]
      /\ LastId \in Nat /\ MaxSize \in Nat /\ Len(b.q) \in Nat
      /\ d.first \in 1..LastId /\ d.final \in 1..LastId
  BY DiffsAssumption, ConstantsAssumption DEF Books
<1>2. CASE d.final <= b.last
  BY <1>1, <1>2 DEF AfterDiff
<1>3. CASE ~ (d.final <= b.last) /\ d.first <= b.last + 1
  <2> DEFINE a == AppliedDirectly(b, d)
  <2>1. c \in Drained(a)
    BY <1>3 DEF AfterDiff
  <2>2. /\ a.last = d.final /\ a.q = b.q /\ a.reported = b.reported
        /\ a.qlast = IF b.q = <<>> THEN b.qlast ELSE d.final
    BY DEF AppliedDirectly, Track, Books
  <2>3. a \in Books
    <3>1. PutOrders(b.levels, d.orders) \in [Levels -> Amounts]
      BY <1>1, PutDiffType
    <3>2. d.final \in Nat /\ d.final \in {Unset} \cup (0..LastId)
      BY <1>1
    <3>3. [b EXCEPT !.levels = PutOrders(b.levels, d.orders),
                    !.last = d.final] \in Books
      BY <3>1, <3>2 DEF Books
    <3> HIDE DEF Unset
    <3>4. \A e \in Books : Track(e, d) \in Books
      BY <3>2 DEF Track, Books
    <3> QED BY <3>3, <3>4 DEF AppliedDirectly
  <2> HIDE DEF a
  <2>4. QueueKnows(a) /\ a.last # Unset /\ Ordered(a.q) /\ Len(a.q) <= MaxSize
    BY <2>2, <1>1, <1>3 DEF QueueKnows
  <2>5. /\ Len(c.q) < MaxSize
        /\ \A i \in 1..Len(c.q) : c.q[i].first > c.last + 1
        /\ c.qlast <= c.last
        /\ c.reported /\ ~ a.reported => Len(a.q) = MaxSize
    BY <2>1, <2>3, <2>4, DrainedIntact
  <2> QED BY <2>2, <2>5, <1>1
<1>4. CASE ~ (d.final <= b.last) /\ ~ (d.first <= b.last + 1)
  <2> DEFINE a == Enqueued(b, d)
  <2>1. c \in Drained(a)
    BY <1>4 DEF AfterDiff
  <2>2. /\ a.levels = b.levels /\ a.last = b.last /\ a.qlast = b.qlast
        /\ a.q = Queued(b.q, d) /\ a.reported = b.reported
    BY DEF Enqueued, Books
  <2>3. /\ Queued(b.q, d) \in Seq(Diffs) /\ Ordered(Queued(b.q, d))
        /\ \A i \in 1..Len(Queued(b.q, d)) :
             \/ Queued(b.q, d)[i] = d
             \/ \E j \in 1..Len(b.q) : Queued(b.q, d)[i] = b.q[j]
        /\ Len(Queued(b.q, d)) <= Len(b.q) + 1
    BY <1>1, QueuedProperties
  <2>4. a \in Books
    BY <2>3, <1>1 DEF Enqueued, Books
  <2> HIDE DEF a
  <2>5. \A i \in 1..Len(a.q) : a.q[i].first > a.last + 1
    <3>1. d.first > b.last + 1
      BY <1>1, <1>4
    <3> QED BY <3>1, <2>2, <2>3
  <2>6. Len(a.q) \in Nat /\ Len(a.q) <= Len(b.q) + 1
    BY <2>2, <2>3
  <2>7. QueueKnows(a) /\ a.last # Unset /\ Ordered(a.q) /\ Len(a.q) <= MaxSize
    BY <2>2, <2>3, <2>5, <2>6, <1>1 DEF QueueKnows
  <2>8. /\ Len(c.q) < MaxSize
        /\ \A i \in 1..Len(c.q) : c.q[i].first > c.last + 1
        /\ c.qlast <= c.last
        /\ c.reported /\ ~ a.reported => Len(a.q) = MaxSize
    BY <2>1, <2>4, <2>7, DrainedIntact
  <2>9. Len(a.q) = MaxSize => Len(b.q) + 1 = MaxSize
    BY <2>6, <1>1
  <2> QED BY <2>2, <2>8, <2>9, <1>1, <1>4
<1> QED BY <1>2, <1>3, <1>4
=============================================================================
