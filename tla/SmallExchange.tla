---------------------------- MODULE SmallExchange ----------------------------
(* A small exchange for the model checker: 8 updates of 3 price levels.    *)
EXTENDS OrderBookOps

\* The level each update changes, and the amount it leaves (0: no order).
Update == <<[level |-> "p1", amount |-> 1],
            [level |-> "p2", amount |-> 2],
            [level |-> "p1", amount |-> 0],
            [level |-> "p3", amount |-> 1],
            [level |-> "p2", amount |-> 0],
            [level |-> "p3", amount |-> 2],
            [level |-> "p1", amount |-> 2],
            [level |-> "p1", amount |-> 1]>>

MCLevels == {"p1", "p2", "p3"}

MCExchange ==
  LET ex[n \in 0..LastId] ==
        IF n = 0 THEN [p \in MCLevels |-> IF p = "p3" THEN 2 ELSE 0]
        ELSE [ex[n-1] EXCEPT ![Update[n].level] = Update[n].amount]
  IN ex

DiffOver(a, z) ==
  [first |-> a, final |-> z,
   orders |-> [p \in {Update[n].level : n \in a..z} |-> MCExchange[z][p]]]

MCDiffs == {DiffOver(1, 1), DiffOver(2, 3), DiffOver(4, 4), DiffOver(5, 5),
            DiffOver(6, 6), DiffOver(7, 8)}

SnapshotAt(n, levels) ==
  [last |-> n, orders |-> [p \in levels |-> MCExchange[n][p]]]

\* One before any update; one that cuts a diff in two; one that stops short of
\* level p3.
MCSnapshots == {SnapshotAt(0, {"p3"}), SnapshotAt(2, MCLevels),
                SnapshotAt(1, {"p1", "p2"})}
=============================================================================
