------------------------------ MODULE OrderBook ------------------------------
(***************************************************************************)
(* One order book, started from a snapshot and fed with diffs in any       *)
(* order, with any loss and any duplication: nothing is assumed of the     *)
(* connections.                                                            *)
(***************************************************************************)
EXTENDS OrderBookOps

VARIABLE book

Init == book \in EmptyBooks

\* The library applies one snapshot to a book (large/consumer.cpp:47).
ApplySnapshot(s) ==
  /\ book.last = Unset
  /\ book' = AfterSnapshot(book, s)

\* apply_diff throws, and changes nothing, before the snapshot.
ApplyDiff(d) ==
  /\ book.last # Unset
  /\ book' \in AfterDiff(book, d)

Next ==
  \/ \E s \in Snapshots : ApplySnapshot(s)
  \/ \E d \in Diffs : ApplyDiff(d)

Spec == Init /\ [][Next]_book

-----------------------------------------------------------------------------
TypeOK == book \in Books

\* Unless the library has reported a gap, the book is the exchange's book of
\* the moment its last_update_id names: reordered, repeated and dropped diffs
\* never leave a level wrong in silence (apply_diff, orderbook.cpp:139-177).
BookIsExchange ==
  book.last # Unset /\ ~ book.reported => Shows(book.levels, book.last)

\* The queue is in the order of the diffs, without overlap, and never behind
\* the book (ObDiffQueue::put, orderbook.cpp:108-121).
QueueOrdered ==
  /\ Ordered(book.q)
  /\ \A i \in 1..Len(book.q) : book.q[i].first > book.last

\* Between two calls the queue holds only diffs the book cannot take yet, and
\* is not full.  So nothing that could be applied waits in it, and put never
\* meets a full queue and drops a diff (orderbook.cpp:116-119, 123-137).
QueueWaits ==
  /\ Len(book.q) < MaxSize
  /\ \A i \in 1..Len(book.q) : book.q[i].first > book.last + 1

\* Whatever is read from dead storage, a book never goes back to an earlier
\* update, and forgets no gap.
OnlyForward ==
  [][book'.last >= book.last /\ (book.reported => book'.reported)]_book

\* orderbook.cpp:163: "inconsistance may be in the case of diff queue limit
\* exceeded", and in no other: a gap is applied only by the call that fills the
\* queue, so with MaxSize diffs waiting behind the missing one.
GapOnlyWhenFull ==
  [][book'.reported /\ ~ book.reported => Len(book.q) + 1 = MaxSize]_book

\* The inductive invariant of the proofs.
IInv ==
  /\ TypeOK
  /\ QueueOrdered
  /\ BookIsExchange
  /\ book.last = Unset => book \in EmptyBooks
=============================================================================
