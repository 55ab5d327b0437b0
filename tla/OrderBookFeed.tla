---------------------------- MODULE OrderBookFeed ----------------------------
(***************************************************************************)
(* An order book behind connections that lose no diff for good and reorder *)
(* only so far: the environment for which the queue of ObDiffQueue is      *)
(* dimensioned (orderbook.hpp:126, max_size 20).  Diffs come more than     *)
(* once, because every connection of a consumer carries the whole feed.    *)
(***************************************************************************)
EXTENDS OrderBook, FiniteSets

CONSTANT
  Window   \* a diff not delivered yet has been overtaken by fewer than this

ASSUME WindowAssumption == Window \in Nat \ {0}

\* The diffs of the exchange leave out no update: only so does a diff the book waits
\* for come at all.
ASSUME UpdatesAssumption ==
  \A n \in 1..LastId : \E d \in Diffs : n \in d.first..d.final

VARIABLE
  seen     \* diffs delivered since the snapshot

feedVars == <<book, seen>>

FeedInit == Init /\ seen = {}

Start(s) == ApplySnapshot(s) /\ UNCHANGED seen

\* No diff the book still needs is overtaken by Window of the delivered ones.
WithinWindow(delivered) ==
  \A m \in Diffs \ delivered :
    m.final > book.last =>
      Cardinality({d \in delivered : d.first > m.first}) < Window

Deliver(d) ==
  /\ WithinWindow(seen \cup {d})
  /\ ApplyDiff(d)
  /\ seen' = seen \cup {d}

FeedNext ==
  \/ \E s \in Snapshots : Start(s)
  \/ \E d \in Diffs : Deliver(d)

FeedSpec ==
  /\ FeedInit
  /\ [][FeedNext]_feedVars
  /\ WF_feedVars(\E s \in Snapshots : Start(s))
  /\ \A d \in Diffs : WF_feedVars(d \notin seen /\ Deliver(d))

-----------------------------------------------------------------------------
\* A diff overtaken by fewer than max_size others is waited for: no gap is
\* applied (ObDiffQueue::next_diff, orderbook.cpp:123-132).
NoGap == ~ book.reported

\* The book behaves as a replica: the abstract specification.
Replica == INSTANCE BookReplica WITH at <- book.last, levels <- book.levels

IsReplica == Replica!Spec
=============================================================================
