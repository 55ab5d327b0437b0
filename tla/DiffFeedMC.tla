----------------------------- MODULE DiffFeedMC -----------------------------
(***************************************************************************)
(* The feed of two symbols of the small exchange, in a batch or each in    *)
(* its own, with a connection that is replaced by another.  The            *)
(* connections are subscribed after three diffs; the tail starts before    *)
(* any snapshot and ends anywhere from there on, as the constructor waits  *)
(* 15 s between subscribing and fetching it                                *)
(* (binance-spot-context.cpp:14-31).                                       *)
(***************************************************************************)
EXTENDS DiffFeed, SmallExchange

History == <<DiffOver(1, 1), DiffOver(2, 3), DiffOver(4, 4), DiffOver(5, 5),
             DiffOver(6, 6), DiffOver(7, 8)>>

Of(symbol, n) == [symbol |-> symbol, diff |-> History[n]]

Part(symbol, from, to) == [n \in 1..(to - from + 1) |-> Of(symbol, from + n - 1)]

MCMessages == {Of("A", n) : n \in 4..6} \cup {Of("B", 4)}

\* The diffs of A, and that of B after the first of them: a batch.
Batch(from, to) ==
  IF from = 4 THEN <<Of("A", 4), Of("B", 4)>> \o Part("A", 5, to) ELSE Part("A", from, to)

\* The first connection of the batch ends after diff k of A, the second starts with
\* diff j.
Together(k, j) == [t \in {"one", "two", "B"} |->
  CASE t = "one" -> Batch(4, k)
    [] t = "two" -> Batch(j, 6)
    [] t = "B"   -> <<>>]

\* The same with batches of one symbol.
Apart(k, j) == [t \in {"one", "two", "B"} |->
  CASE t = "one" -> Part("A", 4, k)
    [] t = "two" -> Part("A", j, 6)
    [] t = "B"   -> Part("B", 4, 4)]

Reconnects == {Apart(4, 5), Apart(6, 4), Together(5, 6), Together(5, 5), Together(6, 4)}

LateSnapshots == {SnapshotAt(n, MCLevels) : n \in {0, 2, 5}}

TailA(k) == <<Of("other", 1)>> \o Part("A", 1, k)

TailAB(k) == [n \in 1..(2 * k) |-> IF n % 2 = 1 THEN Of("A", (n + 1) \div 2)
                                   ELSE Of("B", n \div 2)]

Known(a, b) == [symbol \in {"A", "B", "other"} |->
  SnapshotAt(CASE symbol = "A" -> a [] symbol = "B" -> b [] symbol = "other" -> 0,
             MCLevels)]

\* The service knows symbols the consumer does not have, and may not know B, which
\* may be in the tail or not.
TwoSymbols ==
  {[snapshots |-> s, tail |-> TailAB(k)] :
     s \in {Known(0, 5), Known(2, 2), Known(5, 0)}, k \in {3, 5}}
  \cup {[snapshots |-> s, tail |-> tail] :
          s \in [{"A"} -> LateSnapshots], tail \in {TailAB(3), TailA(3)}}
=============================================================================
