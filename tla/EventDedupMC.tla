----------------------------- MODULE EventDedupMC -----------------------------
(* Depth diffs of two symbols with long names, in the same instant and with  *)
(* the same update ids, and of one with a short name.                        *)
EXTENDS EventDedup

Diff(symbol, long, u, E) ==
  [long |-> long, data |-> <<symbol, u>>,
   fields |-> [e |-> "depthUpdate", s |-> symbol, u |-> u, T |-> 0, E |-> E]]

MCMessages == {Diff("1000000MOG", TRUE, 1, 1), Diff("1000000CAT", TRUE, 1, 1),
               Diff("BTC", FALSE, 1, 1)}
=============================================================================
