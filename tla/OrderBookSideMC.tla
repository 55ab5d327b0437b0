--------------------------- MODULE OrderBookSideMC ---------------------------
EXTENDS OrderBookSide

\* 0.5, 1.5 and 2.0 with up to two zeros behind, 2.5 in one way, and 3 without a
\* point; in tenths.
MCTexts ==
  [number : {5, 15, 20}, zeros : 0..2, point : {TRUE}]
  \cup {[number |-> 25, zeros |-> 0, point |-> TRUE],
        [number |-> 30, zeros |-> 0, point |-> FALSE]}
=============================================================================
