---------------------------- MODULE OrderBookOps ----------------------------
(***************************************************************************)
(* One order book of the library and the queue it reorders diffs with      *)
(* (src/src/market/orderbook/orderbook.cpp, classes OrderBook and          *)
(* ObDiffQueue): the state of a book, and what each call makes of it.  The *)
(* operators take a book, so that OrderBook can specify one and            *)
(* LargeConsumer a container of them.                                      *)
(*                                                                         *)
(* A book is a record                                                      *)
(*   levels    the amount held at each price level (bids and asks          *)
(*             together), NoOrder where there is no order;                 *)
(*   last      OrderBook::last_update_id, Unset while it has no value;     *)
(*   q         ObDiffQueue::q, a std::list of diffs;                       *)
(*   qlast     the number a read of *ObDiffQueue::last_update_id gives;    *)
(*   reported  the message of orderbook.cpp:165 has been printed.          *)
(***************************************************************************)
EXTENDS Integers, Sequences, SequencesExt

CONSTANTS
  Levels,      \* price levels, of both sides
  Amounts,     \* amounts an order can have
  NoOrder,     \* the zero amount: no order at the level
  LastId,      \* id of the exchange's last update
  Exchange,    \* Exchange[n][p]: amount at p on the exchange after update n
  Diffs,       \* the diffs the exchange publishes
  Snapshots,   \* the snapshots a book may be started from
  Deep,        \* levels that may lie beyond the depth of a snapshot
  MaxSize,     \* ObDiffQueue::max_size, 20 in the code
  Garbage      \* values that reads of dead storage can give (see NextDiff)

\* What the exchange and the snapshot service promise: the diffs split the
\* updates into ranges and carry every level that changed in their range, with
\* the amount at its end; a snapshot is the exchange's book at its id, down to
\* its depth.
ASSUME ConstantsAssumption ==
  /\ NoOrder \in Amounts
  /\ LastId \in Nat
  /\ Exchange \in [0..LastId -> [Levels -> Amounts]]
  /\ MaxSize \in Nat \ {0}
  /\ Garbage \subseteq Nat
  /\ Deep \subseteq Levels

ASSUME DiffsAssumption ==
  /\ \A d \in Diffs :
       /\ d.first \in 1..LastId /\ d.final \in d.first..LastId
       /\ DOMAIN d.orders \subseteq Levels
       /\ \A p \in DOMAIN d.orders : d.orders[p] = Exchange[d.final][p]
       /\ \A p \in Levels \ DOMAIN d.orders, n \in (d.first - 1)..d.final :
            Exchange[n][p] = Exchange[d.final][p]
  /\ \A d, e \in Diffs : d = e \/ d.final < e.first \/ e.final < d.first

ASSUME SnapshotsAssumption ==
  \A s \in Snapshots :
    /\ s.last \in 0..LastId
    /\ DOMAIN s.orders \subseteq Levels
    /\ \A p \in DOMAIN s.orders : s.orders[p] = Exchange[s.last][p]
    /\ \A p \in Levels \ DOMAIN s.orders :
         p \in Deep \/ Exchange[s.last][p] = NoOrder

-----------------------------------------------------------------------------
Unset == -1

Books == [levels : [Levels -> Amounts], last : {Unset} \cup (0..LastId),
          q : Seq(Diffs), qlast : Nat, reported : BOOLEAN]

\* A constructed book.  ObDiffQueue::last_update_id is disengaged, and what a
\* read of it gives is whatever its storage holds.
EmptyBooks ==
  [levels : {[p \in Levels |-> NoOrder]}, last : {Unset}, q : {<<>>},
   qlast : {0} \cup Garbage, reported : {FALSE}]

\* Mutant: put_order ignores the orders that remove a level.
PutOrdersKeepingZero(levels, orders) ==
  [p \in Levels |-> IF p \in DOMAIN orders /\ orders[p] # NoOrder
                   THEN orders[p] ELSE levels[p]]

\* put_order for each order of a message: a zero amount removes the level.
PutOrders(levels, orders) ==
  [p \in Levels |-> IF p \in DOMAIN orders THEN orders[p] ELSE levels[p]]

\* apply_snapshot: merges the orders, without clearing the sides or the queue.
AfterSnapshot(b, s) ==
  [b EXCEPT !.levels = PutOrders(b.levels, s.orders), !.last = s.last]

-----------------------------------------------------------------------------
(* ObDiffQueue *)

\* track: a diff applied directly is followed only while the queue has diffs.
Track(b, d) == IF b.q = <<>> THEN b ELSE [b EXCEPT !.qlast = d.final]

\* Mutant: put appends.
PositionAtEnd(q, d) == Len(q) + 1

\* put: position of the first queued diff that does not start before d.
Position(q, d) ==
  Min({i \in 1..(Len(q) + 1) : i = Len(q) + 1 \/ q[i].first >= d.first})

Queued(q, d) ==
  LET i == Position(q, d) IN
  IF i <= Len(q) /\ q[i].first = d.first THEN q
  ELSE IF Len(q) >= MaxSize THEN q
  ELSE InsertAt(q, i, d)

\* Mutant: next_diff misses the update that follows immediately.
NextDiffStrict(front, n, seen) == front.first < seen + 1 \/ n >= MaxSize

\* Mutant: next_diff gives up one diff too early.
NextDiffEarly(front, n, seen) == front.first <= seen + 1 \/ n + 1 >= MaxSize

\* next_diff: the front of a queue of n diffs is handed out when it continues
\* what the queue last saw, or when the queue is full.  The value read as "last
\* seen" is *last_update_id, which may never have been set (line 127), or which
\* release has just copied out of the node that pop_front freed (line 136).
NextDiff(front, n, seen) == front.first <= seen + 1 \/ n >= MaxSize

\* The values *last_update_id may take as the front diffs are released one by
\* one: seen[i] after i releases.
Reads(b) ==
  {seen \in [0..Len(b.q) ->
               {b.qlast} \cup {b.q[i].final : i \in 1..Len(b.q)} \cup Garbage] :
     /\ seen[0] = b.qlast
     /\ \A i \in 1..Len(b.q) : seen[i] \in {b.q[i].final} \cup Garbage}

\* What the loop of apply_diff does to the queue: k diffs are released, and
\* seen tells what the queue believed after each.
DrainRuns(b) ==
  {run \in (0..Len(b.q)) \X Reads(b) :
     LET k == run[1]
         seen == run[2]
     IN /\ \A i \in 1..k : NextDiff(b.q[i], Len(b.q) - i + 1, seen[i-1])
        /\ k = Len(b.q) \/ ~ NextDiff(b.q[k+1], Len(b.q) - k, seen[k])}

-----------------------------------------------------------------------------
(* OrderBook::apply_diff, one critical section of common_mutex *)

\* The levels after the first k queued diffs are applied in turn: each level is
\* as the last of them that carries it left it.
LevelsAfter(b, k) ==
  [p \in Levels |->
     LET writers == {i \in 1..k : p \in DOMAIN b.q[i].orders}
     IN IF writers = {} THEN b.levels[p] ELSE b.q[Max(writers)].orders[p]]

\* Mutant: the book is said to be one update further than the diff.
LastAfterPlusOne(b, k) == IF k = 0 THEN b.last ELSE b.q[k].final + 1

LastAfter(b, k) == IF k = 0 THEN b.last ELSE b.q[k].final

\* The message of line 165: a queued diff is applied though updates before it
\* are missing.
GapWithin(b, k) == \E i \in 1..k : b.q[i].first > LastAfter(b, i - 1) + 1

Drained(b) ==
  {[levels   |-> LevelsAfter(b, run[1]),
    last     |-> LastAfter(b, run[1]),
    q        |-> SubSeq(b.q, run[1] + 1, Len(b.q)),
    qlast    |-> run[2][run[1]],
    reported |-> b.reported \/ GapWithin(b, run[1])] : run \in DrainRuns(b)}

\* The diff continues the book.
AppliedDirectly(b, d) ==
  Track([b EXCEPT !.levels = PutOrders(b.levels, d.orders), !.last = d.final], d)

\* The diff is ahead of the book.
Enqueued(b, d) == [b EXCEPT !.q = Queued(b.q, d)]

\* Mutant: apply_diff does not skip a diff the book has passed.
AfterDiffUnfiltered(b, d) ==
  IF d.first <= b.last + 1 THEN Drained(AppliedDirectly(b, d))
  ELSE Drained(Enqueued(b, d))

\* All books apply_diff may leave: more than one only where dead storage is
\* read.  (On a book without last_update_id apply_diff throws: see Next.)
AfterDiff(b, d) ==
  IF d.final <= b.last THEN {b}
  ELSE IF d.first <= b.last + 1 THEN Drained(AppliedDirectly(b, d))
  ELSE Drained(Enqueued(b, d))

-----------------------------------------------------------------------------
(* What a book says *)

\* What is held at level p is what the exchange had after update n, or nothing
\* at a level no snapshot is sure to cover.
ShowsLevel(levels, p, n) ==
  \/ levels[p] = Exchange[n][p]
  \/ p \in Deep /\ levels[p] = NoOrder

Shows(levels, n) == \A p \in Levels : ShowsLevel(levels, p, n)

\* A queue is in the order of the diffs, without overlap.
Ordered(q) == \A i, j \in 1..Len(q) : i < j => q[i].final < q[j].first
=============================================================================
