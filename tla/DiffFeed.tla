------------------------------- MODULE DiffFeed -------------------------------
(***************************************************************************)
(* From the exchange to the books: the connections of BinanceConsumers,    *)
(* their deduplication (BinanceConsumer::on_event), the buffer and start   *)
(* of LargeConsumer and the queues of OrderBookOps, put together as        *)
(* BinanceSpotContext does (reptoid/binance-spot-context.cpp:112-153).     *)
(*                                                                         *)
(* A connection carries the diffs of all symbols of a batch, in one order. *)
(* They come over several connections, one after the other as reconnects   *)
(* replace them: the first part of the diffs over the one, the rest over   *)
(* the other, and some over both.  That no diff falls between the two is   *)
(* what ConnectionPool shows; that a key is forgotten after ten seconds is *)
(* in EventDedup, and here nothing takes so long.                          *)
(***************************************************************************)
EXTENDS LargeConsumer, FiniteSets

CONSTANTS
  Feeds,    \* what the connections may carry: feed[t], a sequence of messages
  Late      \* connections made after the start

ASSUME FeedAssumption ==
  /\ Late \subseteq Threads
  /\ Feeds \subseteq [Threads -> Seq(Messages)]

\* The diffs of symbol s in the tail, and those a connection carries.
OfTail(a, s) ==
  {a.tail[n].diff : n \in {k \in 1..Len(a.tail) : a.tail[k].symbol = s}}

OfFeed(f, t, s) ==
  {f[t][n].diff : n \in {k \in 1..Len(f[t]) : f[t][k].symbol = s}}

Covers(diffs, n) == \E d \in diffs : n \in d.first..d.final

\* The updates a book of s needs from its snapshot to the end of d.
Needed(a, s, d) == (a.snapshots[s].last + 1)..d.final

\* What the exchange and the services promise, and the code relies on: tail and
\* connections bring the diffs of a symbol in their order; the tail leaves no gap
\* after the snapshot, and tail and connections together leave none.
ASSUME SeamlessAssumption ==
  /\ \A f \in Feeds : \A t \in Threads : \A j, k \in 1..Len(f[t]) :
       j < k /\ f[t][j].symbol = f[t][k].symbol =>
         f[t][j].diff.final < f[t][k].diff.first
  /\ \A a \in Answers : \A j, k \in 1..Len(a.tail) :
       j < k /\ a.tail[j].symbol = a.tail[k].symbol =>
         a.tail[j].diff.final < a.tail[k].diff.first
  /\ \A a \in Answers : \A s \in Used(a.snapshots) :
       /\ \A d \in OfTail(a, s) : \A n \in Needed(a, s, d) : Covers(OfTail(a, s), n)
       /\ \A f \in Feeds : \A t \in Threads : \A d \in OfFeed(f, t, s) :
            \A n \in Needed(a, s, d) :
              Covers(OfTail(a, s) \cup UNION {OfFeed(f, u, s) : u \in Threads}, n)

VARIABLES
  feed,     \* what the connections carry in this run
  fed,      \* how much of it each has read
  keys      \* processed_events_keys of the BinanceConsumer of each symbol

vars == <<consumerVars, feed, fed, keys>>

Init ==
  /\ ConsumerInit
  /\ feed \in Feeds
  /\ fed = [t \in Threads |-> 0]
  /\ keys = [s \in Symbols |-> {}]

\* Thread t reads its next message, and on_event looks it up, under on_event_mutex.
Brings(t, m) ==
  /\ pc[t] = "receive" /\ fed[t] < Len(feed[t])
  /\ t \in Late => main = "ready"
  /\ m = feed[t][fed[t] + 1]
  /\ fed' = [fed EXCEPT ![t] = @ + 1]
  /\ UNCHANGED feed

\* Another connection has brought it.
OnKnownEvent(t, m) ==
  /\ Brings(t, m)
  /\ m \in keys[m.symbol]
  /\ UNCHANGED <<consumerVars, keys>>

\* It is new.  The callbacks, and with them push_ob_diff, come after the mutex is
\* released: another thread's message may overtake this one.
OnNewEvent(t, m) ==
  /\ Brings(t, m)
  /\ m \notin keys[m.symbol]
  /\ keys' = [keys EXCEPT ![m.symbol] = @ \cup {m}]
  /\ Receive(t, m)

Connection(t) ==
  \/ \E m \in Messages : OnKnownEvent(t, m) \/ OnNewEvent(t, m)
  \/ Push(t) /\ UNCHANGED <<feed, fed, keys>>

Next ==
  \/ Main /\ UNCHANGED <<feed, fed, keys>>
  \/ \E t \in Threads : Connection(t)

Spec ==
  /\ Init /\ [][Next]_vars
  /\ WF_vars(Main /\ UNCHANGED <<feed, fed, keys>>)
  /\ \A t \in Threads : WF_vars(Connection(t))

-----------------------------------------------------------------------------
TypeOK ==
  /\ ConsumerTypeOK
  /\ feed \in Feeds
  /\ fed \in [Threads -> Nat]
  /\ \A t \in Threads : fed[t] <= Len(feed[t])
  /\ keys \in [Symbols -> SUBSET Messages]

\* No push is under way.
Quiet == \A t \in Threads : pc[t] \in {"receive", "dead"}

\* What has been read of the diffs of a symbol, over any connection.
Received(s) ==
  UNION {{feed[t][n].diff : n \in {k \in 1..fed[t] : feed[t][k].symbol = s}} :
           t \in Threads}

\* Nothing that was to come before d is still to be read.
Complete(s, d) ==
  \A t \in Threads : \A n \in (fed[t] + 1)..Len(feed[t]) :
    feed[t][n].symbol = s => feed[t][n].diff.final > d.final

\* Once the consumer is ready and no push is under way, every diff received is in
\* its book, as far as the ones before it have been received: none is lost between
\* two connections, the buffer, the two reads of is_ready and the loop over the
\* buffer, or left behind in a queue (consumer.cpp:34-77).
\* README.md:2: "consume fully consistent orderbooks".
NothingLost ==
  main = "ready" /\ Quiet =>
    \A s \in Used(answer.snapshots) : \A d \in Received(s) :
      Complete(s, d) => books[s].last >= d.final

\* Snapshot, tail, buffer and connections join without a gap: each book, once it
\* has a snapshot, is the exchange's at its last_update_id, at every moment of the
\* start and after it.
BooksAreExchange ==
  \A s \in Symbols : books[s].last # Unset => Shows(books[s].levels, books[s].last)

\* Each symbol has one connection at the start, which it may share with others,
\* and needs no other for what comes before the end of it: what DiffFeedReordered
\* lacks.
OneAtStart ==
  \A f \in Feeds : \A t \in Threads \ Late :
    /\ \A u \in Threads \ Late : \A j \in 1..Len(f[t]), k \in 1..Len(f[u]) :
         f[t][j].symbol = f[u][k].symbol => t = u
    /\ \A a \in Answers : \A s \in Used(a.snapshots) : \A d \in OfFeed(f, t, s) :
         \A n \in Needed(a, s, d) : Covers(OfTail(a, s) \cup OfFeed(f, t, s), n)

\* A message is in push_ob_diff.
Holding(t) == pc[t] \in {"check", "lock", "put"}

\* Diffs of a symbol that are to be read, or are in push_ob_diff.
Pending(s) ==
  {d \in UNION {OfFeed(feed, t, s) : t \in Threads} :
     \/ d \notin Received(s)
     \/ \E t \in Threads : Holding(t) /\ arg[t].symbol = s /\ arg[t].diff = d}

\* None of them has been overtaken by as many as a queue holds: the environment it
\* is dimensioned for (orderbook.hpp:126, max_size 20).
NotOvertaken ==
  \A s \in Used(answer.snapshots) : \A e \in Pending(s) :
    Cardinality({d \in Received(s) : d.first > e.first}) < MaxSize

\* The book of s has come to the last diff of its feed.
CaughtUp(s) ==
  \A t \in Threads : \A n \in 1..Len(feed[t]) :
    feed[t][n].symbol = s => books[s].last >= feed[t][n].diff.final

\* A connection has ended with diffs of s unread, for a diff of another symbol of
\* its batch, one that has no snapshot (consumer.cpp:76, ws_boost.cpp:121-126).
CutOff(s) ==
  \E t \in Threads :
    /\ pc[t] = "dead" /\ arg[t].symbol \notin Used(answer.snapshots)
    /\ \E n \in (fed[t] + 1)..Len(feed[t]) : feed[t][n].symbol = s

\* Unless the constructor throws, every book with a snapshot gets to the last diff
\* of its feed and stays there, with one exception: a symbol without a snapshot on
\* the same connection, whose first diff ends it.  Neither the start, nor copies, nor
\* a reconnect, nor a diff put late keeps a book back, and no connection ends for
\* any other reason (consumer.cpp:34-77).
\* README.md:2: "consume fully consistent orderbooks".
AllCatchUpUnlessCutOff ==
  <>[](main = "thrown" \/ \A s \in Used(answer.snapshots) : CaughtUp(s) \/ CutOff(s))
=============================================================================
