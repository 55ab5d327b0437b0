----------------------------- MODULE PriceLevels -----------------------------
(***************************************************************************)
(* What one side of an order book promises: an amount for each price, the  *)
(* last one put.  The modules of order books use it as levels.             *)
(***************************************************************************)
EXTENDS Naturals

CONSTANTS Prices, Amounts

VARIABLE levels

Init == levels = [p \in Prices |-> 0]

Put(p, a) == levels' = [levels EXCEPT ![p] = a]

Spec == Init /\ [][\E p \in Prices, a \in Amounts : Put(p, a)]_levels
=============================================================================
