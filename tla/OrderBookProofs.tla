--------------------------- MODULE OrderBookProofs ---------------------------
(***************************************************************************)
(* What is proved of OrderBook for every exchange, every set of diffs and  *)
(* snapshots, every queue size and, in the first part, every content of    *)
(* dead storage; and of OrderBookFeed for every window the queue holds.    *)
(***************************************************************************)
EXTENDS OrderBookFeed, OrderBookOpsProofs

USE DEF Unset

\* The constructed book satisfies the inductive invariant.
LEMMA InitIInv == Init => IInv
<1> SUFFICES ASSUME Init PROVE IInv
  OBVIOUS
<1>1. /\ book.levels = [p \in Levels |-> NoOrder] /\ book.last = Unset
      /\ book.q = <<>> /\ book.qlast \in {0} \cup Garbage
      /\ book.reported = FALSE
  BY DEF Init, EmptyBooks
<1>2. TypeOK
  <2>1. book.levels \in [Levels -> Amounts] /\ book.qlast \in Nat
        /\ book.q \in Seq(Diffs) /\ book.reported \in BOOLEAN
    <3>1. book.levels \in [Levels -> Amounts]
      BY <1>1, ConstantsAssumption
    <3>2. book.qlast \in Nat
      <4>1. {0} \cup Garbage \subseteq Nat
        BY ConstantsAssumption
      <4>2. book.qlast \in {0} \cup Garbage
        BY <1>1
      <4> QED BY <4>1, <4>2, Zenon
    <3>3. book.q \in Seq(Diffs)
      BY <1>1, EmptySeq
    <3> QED BY <1>1, <3>1, <3>2, <3>3
  <2> QED BY <1>1, <2>1 DEF Init, EmptyBooks, TypeOK, Books
<1>3. QueueOrdered
  BY <1>1 DEF QueueOrdered, Ordered
<1> QED BY <1>1, <1>2, <1>3 DEF Init, IInv, BookIsExchange


\* A step the specification allows keeps the invariant, goes forward and
\* forgets no gap.
Forward == book'.last >= book.last /\ (book.reported => book'.reported)

\* Every step keeps the inductive invariant and goes forward.
LEMMA StepIInv ==
  ASSUME IInv, Next
  PROVE  IInv' /\ Forward
<1>1. ASSUME NEW s \in Snapshots, ApplySnapshot(s)
      PROVE  IInv' /\ Forward
  <2>1. book \in EmptyBooks /\ book.last = Unset
    BY <1>1 DEF ApplySnapshot, IInv
  <2>2. /\ PutOrders(book.levels, s.orders) \in [Levels -> Amounts]
        /\ Shows(PutOrders(book.levels, s.orders), s.last)
    BY <2>1, SnapshotShows
  <2>3. s.last \in 0..LastId
    BY SnapshotsAssumption
  <2>4. /\ book'.levels = PutOrders(book.levels, s.orders)
        /\ book'.last = s.last /\ book'.q = book.q
        /\ book'.reported = book.reported
    BY <1>1, <2>1 DEF ApplySnapshot, AfterSnapshot, EmptyBooks
  <2>5. book.q = <<>> /\ book.reported = FALSE
    BY <2>1 DEF EmptyBooks
  <2>6. TypeOK'
    BY <1>1, <2>2, <2>3 DEF ApplySnapshot, AfterSnapshot, IInv, TypeOK, Books
  <2>7. QueueOrdered'
    BY <2>4, <2>5 DEF QueueOrdered, Ordered
  <2>8. BookIsExchange'
    BY <2>2, <2>4 DEF BookIsExchange
  <2>9. book'.last # Unset /\ book'.last >= book.last
    BY <2>1, <2>3, <2>4
  <2> QED BY <2>5, <2>6, <2>7, <2>8, <2>9 DEF IInv, Forward
<1>2. ASSUME NEW d \in Diffs, ApplyDiff(d)
      PROVE  IInv' /\ Forward
  <2>1. /\ book \in Books /\ book.last # Unset /\ Ordered(book.q)
        /\ \A i \in 1..Len(book.q) : book.q[i].first > book.last
        /\ book' \in AfterDiff(book, d)
    BY <1>2 DEF ApplyDiff, IInv, TypeOK, QueueOrdered
  <2>2. ~ book.reported => Shows(book.levels, book.last)
    BY <2>1 DEF IInv, BookIsExchange
  <2>3. /\ book' \in Books
        /\ Ordered(book'.q)
        /\ \A i \in 1..Len(book'.q) : book'.q[i].first > book'.last
        /\ book'.last >= book.last
        /\ book.reported => book'.reported
        /\ (~ book.reported => Shows(book.levels, book.last)) /\ ~ book'.reported
             => Shows(book'.levels, book'.last)
    <3> DEFINE b == book
               c == book'
    <3> HIDE DEF b, c
    <3>1. /\ b \in Books /\ b.last # Unset /\ Ordered(b.q)
          /\ \A i \in 1..Len(b.q) : b.q[i].first > b.last
          /\ c \in AfterDiff(b, d)
      BY <2>1 DEF b, c
    <3>2. /\ c \in Books
          /\ Ordered(c.q) /\ \A i \in 1..Len(c.q) : c.q[i].first > c.last
          /\ c.last >= b.last
          /\ b.reported => c.reported
          /\ (~ b.reported => Shows(b.levels, b.last)) /\ ~ c.reported
               => Shows(c.levels, c.last)
      BY <3>1, AfterDiffProperties
    <3> QED BY <3>2 DEF b, c
  <2>4. book'.last # Unset
    <3>1. book.last \in 0..LastId /\ book'.last \in {Unset} \cup (0..LastId)
      BY <2>1, <2>3 DEF Books
    <3> QED BY <3>1, <2>3, ConstantsAssumption
  <2> QED BY <2>2, <2>3, <2>4
          DEF IInv, TypeOK, QueueOrdered, BookIsExchange, Forward
<1> QED BY <1>1, <1>2 DEF Next

\* Whatever dead storage holds, IInv holds in every reachable state.
THEOREM Invariance == Spec => []IInv
<1>1. Init => IInv
  BY InitIInv
<1>2. IInv /\ [Next]_book => IInv'
  <2>1. ASSUME IInv, UNCHANGED book PROVE IInv'
    BY <2>1 DEF IInv, TypeOK, QueueOrdered, BookIsExchange
  <2> QED BY <2>1, StepIInv
<1> QED BY <1>1, <1>2, PTL DEF Spec

\* A book always has the type its declaration gives it.
THEOREM TypeCorrect == Spec => []TypeOK
<1>1. IInv => TypeOK
  BY DEF IInv
<1> QED BY <1>1, Invariance, PTL

\* Unless a gap has been reported, the book is the exchange's, whatever is lost,
\* repeated or reordered and whatever dead storage holds.
THEOREM ConsistentUnlessReported == Spec => []BookIsExchange
<1>1. IInv => BookIsExchange
  BY DEF IInv
<1> QED BY <1>1, Invariance, PTL

\* The queue stays in order, without overlap, and ahead of the book, whatever put
\* and next_diff meet.
THEOREM QueueStaysOrdered == Spec => []QueueOrdered
<1>1. IInv => QueueOrdered
  BY DEF IInv
<1> QED BY <1>1, Invariance, PTL

\* A book never goes back and never forgets a gap.
THEOREM ForwardOnly == Spec => OnlyForward
<1>1. IInv /\ [Next]_book => [Forward]_book
  BY StepIInv
<1>2. [][Forward]_book => OnlyForward
  BY PTL DEF OnlyForward, Forward
<1> QED BY <1>1, <1>2, Invariance, PTL DEF Spec

-----------------------------------------------------------------------------
(* With dead storage that never misleads: Garbage = {} *)

IntactInv ==
  /\ IInv
  /\ QueueWaits
  /\ book.last # Unset => book.qlast <= book.last

\* Without dead storage every step keeps the stronger invariant, and applies a gap
\* only when the queue is full.
LEMMA StepIntact ==
  ASSUME Garbage = {}, IntactInv, Next
  PROVE  /\ IntactInv'
         /\ book'.reported /\ ~ book.reported => Len(book.q) + 1 = MaxSize
<1>1. IInv'
  BY StepIInv DEF IntactInv
<1>2. ASSUME NEW s \in Snapshots, ApplySnapshot(s)
      PROVE  /\ IntactInv'
             /\ book'.reported /\ ~ book.reported => Len(book.q) + 1 = MaxSize
  <2>1. book \in EmptyBooks
    BY <1>2 DEF ApplySnapshot, IntactInv, IInv
  <2>2. book.q = <<>> /\ book.reported = FALSE /\ book.qlast = 0
    BY <2>1 DEF EmptyBooks
  <2>3. /\ book'.q = book.q /\ book'.reported = book.reported
        /\ book'.last = s.last /\ book'.qlast = book.qlast
    BY <1>2, <2>1 DEF ApplySnapshot, AfterSnapshot, EmptyBooks
  <2>4. s.last \in Nat /\ MaxSize \in Nat \ {0}
    BY SnapshotsAssumption, ConstantsAssumption
  <2>5. QueueWaits'
    BY <2>2, <2>3, <2>4 DEF QueueWaits
  <2> QED BY <1>1, <2>2, <2>3, <2>4, <2>5 DEF IntactInv
<1>3. ASSUME NEW d \in Diffs, ApplyDiff(d)
      PROVE  /\ IntactInv'
             /\ book'.reported /\ ~ book.reported => Len(book.q) + 1 = MaxSize
  <2> DEFINE b == book
             c == book'
  <2>1. /\ b \in Books /\ b.last # Unset /\ Ordered(b.q)
        /\ \A i \in 1..Len(b.q) : b.q[i].first > b.last + 1
        /\ Len(b.q) < MaxSize /\ b.qlast <= b.last
        /\ c \in AfterDiff(b, d)
    BY <1>3 DEF ApplyDiff, IntactInv, IInv, TypeOK, QueueOrdered, QueueWaits
  <2> HIDE DEF b, c
  <2>2. /\ Len(c.q) < MaxSize
        /\ \A i \in 1..Len(c.q) : c.q[i].first > c.last + 1
        /\ c.qlast <= c.last
        /\ c.reported /\ ~ b.reported => Len(b.q) + 1 = MaxSize
    BY <2>1, AfterDiffIntact
  <2> QED BY <1>1, <2>2 DEF b, c, IntactInv, QueueWaits
<1> QED BY <1>2, <1>3 DEF Next

\* The stronger invariant holds in every behaviour without dead storage.
THEOREM IntactInvariance ==
  ASSUME Garbage = {}
  PROVE  Spec => []IntactInv
<1>1. Init => IntactInv
  <2> SUFFICES ASSUME Init PROVE IntactInv
    OBVIOUS
  <2>1. book.q = <<>> /\ book.last = Unset
    BY DEF Init, EmptyBooks
  <2>2. QueueWaits
    BY <2>1, ConstantsAssumption DEF QueueWaits
  <2> QED BY <2>1, <2>2, InitIInv DEF IntactInv
<1>2. IntactInv /\ [Next]_book => IntactInv'
  <2>1. ASSUME IntactInv, UNCHANGED book PROVE IntactInv'
    BY <2>1 DEF IntactInv, IInv, TypeOK, QueueOrdered, BookIsExchange, QueueWaits
  <2> QED BY <2>1, StepIntact
<1> QED BY <1>1, <1>2, PTL DEF Spec

\* Where dead storage never misleads, no diff the book could take is left
\* waiting, and put never drops a diff for want of room.
THEOREM NothingWaits ==
  ASSUME Garbage = {}
  PROVE  Spec => []QueueWaits
<1>1. IntactInv => QueueWaits
  BY DEF IntactInv
<1> QED BY <1>1, IntactInvariance, PTL

\* And a gap is applied only by the call that fills the queue.
THEOREM GapsOnlyWhenFull ==
  ASSUME Garbage = {}
  PROVE  Spec => GapOnlyWhenFull
<1>1. IntactInv /\ [Next]_book =>
        [book'.reported /\ ~ book.reported => Len(book.q) + 1 = MaxSize]_book
  BY StepIntact
<1> QED BY <1>1, IntactInvariance, PTL DEF Spec, GapOnlyWhenFull

-----------------------------------------------------------------------------
(* Behind connections that reorder no more than the queue holds *)

\* Every diff delivered has been passed by the book or waits in its queue, and no
\* other waits there.
Accounted ==
  /\ IsFiniteSet(seen) /\ seen \subseteq Diffs
  /\ book.last = Unset => seen = {}
  /\ \A d \in seen : d.final <= book.last \/ Waits(book.q, d)
  /\ \A d : Waits(book.q, d) => d \in seen

FeedInv ==
  /\ IntactInv
  /\ Accounted
  /\ NoGap

\* The first diff missing has been overtaken by all that fill the queue; within
\* the window there are not so many.
LEMMA DeliverLeavesNoGap ==
  ASSUME Garbage = {}, Window <= MaxSize, FeedInv, NEW d \in Diffs, Deliver(d)
  PROVE  ~ book'.reported
<1> SUFFICES ASSUME book'.reported PROVE FALSE
  OBVIOUS
<1> DEFINE b == book
           c == book'
           q == Queued(b.q, d)
           delivered == seen \cup {d}
<1>1. /\ b \in Books /\ b.last # Unset /\ Ordered(b.q)
      /\ \A i \in 1..Len(b.q) : b.q[i].first > b.last + 1
      /\ Len(b.q) < MaxSize /\ b.qlast <= b.last
      /\ c \in AfterDiff(b, d) /\ c.reported /\ ~ b.reported
  BY DEF FeedInv, IntactInv, IInv, TypeOK, QueueOrdered, QueueWaits, NoGap,
     Deliver, ApplyDiff
<1>2. /\ \A e \in delivered : e.final <= b.last \/ Waits(b.q, e) \/ e = d
      /\ \A e : Waits(b.q, e) => e \in seen
      /\ IsFiniteSet(seen) /\ seen \subseteq Diffs
      /\ WithinWindow(delivered)
  BY DEF FeedInv, Accounted, Deliver
<1> HIDE DEF b, c, delivered, q
<1>3. d.first > b.last + 1 /\ Len(q) = MaxSize
  BY <1>1, AfterDiffIntact DEF q
<1>4. b.q \in Seq(Diffs) /\ b.last \in 0..LastId /\ LastId \in Nat
  BY <1>1, ConstantsAssumption DEF Books
<1>5. /\ q \in Seq(Diffs) /\ Ordered(q)
      /\ \A e : Waits(q, e) => Waits(b.q, e) \/ e = d
  BY <1>1, <1>4, QueuedProperties, QueuedKeeps DEF q
<1>6. b.last + 1 \in 1..LastId
  BY <1>3, <1>4, DiffsAssumption
<1>7. PICK m \in Diffs : b.last + 1 \in m.first..m.final
  BY <1>6, UpdatesAssumption
<1>8. m.first \in Int /\ m.final \in Int
  BY DiffsAssumption
<1>9. m \notin delivered
  <2>1. ~ (m.final <= b.last) /\ m # d
    BY <1>3, <1>4, <1>7, <1>8
  <2>2. ~ Waits(b.q, m)
    BY <1>1, <1>4, <1>7, <1>8 DEF Waits
  <2> QED BY <1>2, <2>1, <2>2
<1> DEFINE S == {e \in delivered : e.first > m.first}
<1>10. Cardinality(S) < Window
  <2>1. m.final > book.last
    BY <1>4, <1>7, <1>8 DEF b
  <2> QED BY <1>2, <1>9, <2>1 DEF WithinWindow
<1>11. IsFiniteSet(S)
  <2>1. IsFiniteSet(delivered)
    BY <1>2, FS_AddElement DEF delivered
  <2> QED BY <2>1, FS_Subset
<1>12. \A i \in 1..Len(q) : q[i] \in S
  <2> SUFFICES ASSUME NEW i \in 1..Len(q) PROVE q[i] \in S
    OBVIOUS
  <2>1. Waits(b.q, q[i]) \/ q[i] = d
    BY <1>5 DEF Waits
  <2>2. q[i] \in delivered
    BY <1>2, <2>1 DEF delivered
  <2>3. q[i].first > b.last + 1 /\ q[i].first \in Int
    <3>1. q[i] \in Diffs
      BY <1>5
    <3>2. q[i].first \in Int
      BY <3>1, DiffsAssumption
    <3> QED BY <1>1, <1>3, <2>1, <3>2 DEF Waits
  <2> QED BY <1>4, <1>7, <1>8, <2>2, <2>3
<1> HIDE DEF S
<1>13. Len(q) <= Cardinality(S)
  BY <1>5, <1>11, <1>12, QueueLength
<1>14. Cardinality(S) \in Nat /\ Window \in Nat /\ MaxSize \in Nat
  BY <1>11, FS_CardinalityType, WindowAssumption, ConstantsAssumption
<1> QED BY <1>3, <1>10, <1>13, <1>14

\* A delivery keeps the account.
LEMMA DeliverAccounts ==
  ASSUME Garbage = {}, FeedInv, NEW d \in Diffs, Deliver(d)
  PROVE  Accounted'
<1>1. /\ book \in Books /\ book.last # Unset /\ Ordered(book.q)
      /\ \A i \in 1..Len(book.q) : book.q[i].first > book.last
      /\ Len(book.q) < MaxSize
      /\ book' \in AfterDiff(book, d) /\ seen' = seen \cup {d}
  BY DEF FeedInv, IntactInv, IInv, TypeOK, QueueOrdered, QueueWaits, Deliver,
     ApplyDiff
<1>2. /\ \A e : Waits(book.q, e) \/ e = d => e.final <= book'.last \/ Waits(book'.q, e)
      /\ \A e : Waits(book'.q, e) => Waits(book.q, e) \/ e = d
  <2> DEFINE b == book
             c == book'
  <2> HIDE DEF b, c
  <2>1. /\ b \in Books /\ b.last # Unset /\ Ordered(b.q)
        /\ \A i \in 1..Len(b.q) : b.q[i].first > b.last
        /\ Len(b.q) < MaxSize /\ c \in AfterDiff(b, d)
    BY <1>1 DEF b, c
  <2>2. /\ \A e : Waits(b.q, e) \/ e = d => e.final <= c.last \/ Waits(c.q, e)
        /\ \A e : Waits(c.q, e) => Waits(b.q, e) \/ e = d
    BY <2>1, AfterDiffKeeps
  <2> QED BY <2>2 DEF b, c
<1>3. book'.last >= book.last /\ book'.last \in Int /\ book.last \in Nat
  <2>1. IInv' /\ Forward
    BY StepIInv DEF FeedInv, IntactInv, Deliver, Next
  <2>2. book' \in Books /\ LastId \in Nat
    BY <2>1, ConstantsAssumption DEF IInv, TypeOK
  <2> QED BY <1>1, <2>1, <2>2 DEF Forward, Books
<1>4. IsFiniteSet(seen') /\ seen' \subseteq Diffs
  BY <1>1, FS_AddElement DEF FeedInv, Accounted
<1>5. book'.last # Unset
  BY <1>3
<1>6. ASSUME NEW e \in seen' PROVE e.final <= book'.last \/ Waits(book'.q, e)
  <2>1. CASE e = d \/ Waits(book.q, e)
    BY <1>2, <2>1
  <2>2. CASE e \in seen /\ e.final <= book.last
    <3>1. e.final \in Int
      BY <1>4, DiffsAssumption
    <3> QED BY <1>3, <2>2, <3>1
  <2> QED BY <1>1, <2>1, <2>2 DEF FeedInv, Accounted
<1>7. \A e : Waits(book'.q, e) => e \in seen'
  BY <1>1, <1>2 DEF FeedInv, Accounted
<1> QED BY <1>4, <1>5, <1>6, <1>7 DEF Accounted

\* Every step of the feed keeps the invariant.
LEMMA StepFeedInv ==
  ASSUME Garbage = {}, Window <= MaxSize, FeedInv, FeedNext
  PROVE  FeedInv'
<1>1. IntactInv'
  <2>1. Next
    BY DEF FeedNext, Start, Deliver, Next
  <2> QED BY <2>1, StepIntact DEF FeedInv
<1>2. ASSUME NEW s \in Snapshots, Start(s)
      PROVE  FeedInv'
  <2>1. book \in EmptyBooks /\ seen' = seen /\ seen = {}
    BY <1>2 DEF Start, ApplySnapshot, FeedInv, IntactInv, IInv, Accounted
  <2>2. book.q = <<>> /\ book'.q = <<>> /\ book'.reported = FALSE
    BY <1>2, <2>1 DEF Start, ApplySnapshot, AfterSnapshot, EmptyBooks
  <2>3. Accounted'
    BY <2>1, <2>2, FS_EmptySet DEF Accounted, Waits
  <2> QED BY <1>1, <2>2, <2>3 DEF FeedInv, NoGap
<1>3. ASSUME NEW d \in Diffs, Deliver(d)
      PROVE  FeedInv'
  <2>1. ~ book'.reported
    BY <1>3, DeliverLeavesNoGap
  <2>2. Accounted'
    BY <1>3, DeliverAccounts
  <2> QED BY <1>1, <2>1, <2>2 DEF FeedInv, NoGap
<1> QED BY <1>2, <1>3 DEF FeedNext

\* The invariant holds behind connections that lose nothing for good and reorder
\* fewer diffs than the queue holds.
THEOREM FeedInvariance ==
  ASSUME Garbage = {}, Window <= MaxSize
  PROVE  FeedSpec => []FeedInv
<1>1. FeedInit => FeedInv
  <2> SUFFICES ASSUME FeedInit PROVE FeedInv
    OBVIOUS
  <2>1. book.q = <<>> /\ book.last = Unset /\ book.reported = FALSE /\ seen = {}
    BY DEF FeedInit, Init, EmptyBooks
  <2>2. QueueWaits
    BY <2>1, ConstantsAssumption DEF QueueWaits
  <2>3. IntactInv
    BY <2>1, <2>2, InitIInv DEF FeedInit, IntactInv
  <2>4. Accounted
    BY <2>1, FS_EmptySet DEF Accounted, Waits
  <2> QED BY <2>1, <2>3, <2>4 DEF FeedInv, NoGap
<1>2. FeedInv /\ [FeedNext]_feedVars => FeedInv'
  <2>1. ASSUME FeedInv, UNCHANGED feedVars PROVE FeedInv'
    BY <2>1 DEF FeedInv, feedVars, IntactInv, IInv, TypeOK, QueueOrdered,
       BookIsExchange, QueueWaits, Accounted, NoGap
  <2> QED BY <2>1, StepFeedInv
<1> QED BY <1>1, <1>2, PTL DEF FeedSpec

\* A diff overtaken by no more others than the queue holds is waited for: a book
\* never reports, and so never has, a gap.
THEOREM NoGapWithinWindow ==
  ASSUME Garbage = {}, Window <= MaxSize
  PROVE  FeedSpec => []NoGap
<1>1. FeedInv => NoGap
  BY DEF FeedInv
<1> QED BY <1>1, FeedInvariance, PTL

-----------------------------------------------------------------------------
(* Behind such connections a book is a BookReplica *)

\* A constructed book is a replica that shows nothing yet.
LEMMA ReplicaStarts == Init => Replica!Init
BY DEF Init, EmptyBooks, Replica!Init

\* Each step of the feed shows a later moment of the exchange, or the same.
LEMMA ReplicaAdvances ==
  ASSUME Garbage = {}, Window <= MaxSize, FeedInv, FeedNext
  PROVE  Replica!Advance \/ UNCHANGED <<book.last, book.levels>>
<1>1. FeedInv'
  BY StepFeedInv
<1>2. /\ book' \in Books /\ LastId \in Nat
      /\ book'.last # Unset => Shows(book'.levels, book'.last)
  BY <1>1, ConstantsAssumption
  DEF FeedInv, IntactInv, IInv, TypeOK, BookIsExchange, NoGap
<1>3. ASSUME book'.last > book.last, book.last \in {Unset} \cup (0..LastId)
      PROVE  Replica!Advance
  <2>1. book'.last \in (book.last + 1)..LastId /\ book'.last # Unset
    BY <1>2, <1>3 DEF Books
  <2>2. book'.levels \in [Levels -> Amounts]
    BY <1>2 DEF Books
  <2>3. book'.levels \in Replica!Pictures(book'.last)
    BY <1>2, <2>1, <2>2 DEF Replica!Pictures, Shows, ShowsLevel
  <2> QED BY <2>1, <2>3 DEF Replica!Advance
<1>4. ASSUME NEW s \in Snapshots, Start(s)
      PROVE  Replica!Advance
  <2>1. book.last = Unset /\ book'.last = s.last /\ s.last \in Nat
    BY <1>4, SnapshotsAssumption, ConstantsAssumption
    DEF Start, ApplySnapshot, AfterSnapshot, FeedInv, IntactInv, IInv, EmptyBooks
  <2> QED BY <1>3, <2>1
<1>5. ASSUME NEW d \in Diffs, Deliver(d)
      PROVE  Replica!Advance \/ UNCHANGED <<book.last, book.levels>>
  <2>1. /\ book \in Books /\ book.last # Unset /\ Ordered(book.q)
        /\ \A i \in 1..Len(book.q) : book.q[i].first > book.last
        /\ Len(book.q) < MaxSize
        /\ book' \in AfterDiff(book, d)
    BY <1>5 DEF FeedInv, IntactInv, IInv, TypeOK, QueueOrdered, QueueWaits,
       Deliver, ApplyDiff
  <2>2. \/ book'.last = book.last /\ book'.levels = book.levels
        \/ book'.last > book.last
    <3> DEFINE b == book
               c == book'
    <3> HIDE DEF b, c
    <3>1. /\ b \in Books /\ b.last # Unset /\ Ordered(b.q)
          /\ \A i \in 1..Len(b.q) : b.q[i].first > b.last
          /\ Len(b.q) < MaxSize /\ c \in AfterDiff(b, d)
      BY <2>1 DEF b, c
    <3>2. (c.last = b.last /\ c.levels = b.levels) \/ c.last > b.last
      BY <3>1, AfterDiffKeeps
    <3> QED BY <3>2 DEF b, c
  <2>3. book.last \in {Unset} \cup (0..LastId)
    BY <2>1 DEF Books
  <2> QED BY <1>3, <2>2, <2>3
<1> QED BY <1>4, <1>5 DEF FeedNext

\* Whatever the connections reorder within the window and repeat, what the book
\* shows is a replica of the exchange (IsReplica without its fairness).
THEOREM FeedIsReplica ==
  ASSUME Garbage = {}, Window <= MaxSize
  PROVE  FeedSpec => /\ Replica!Init
                     /\ [][Replica!Advance]_<<book.last, book.levels>>
<1>1. FeedInit => Replica!Init
  BY ReplicaStarts DEF FeedInit
<1>2. FeedInv /\ [FeedNext]_feedVars =>
        [Replica!Advance]_<<book.last, book.levels>>
  BY ReplicaAdvances DEF feedVars
<1> QED BY <1>1, <1>2, FeedInvariance, PTL DEF FeedSpec
=============================================================================
