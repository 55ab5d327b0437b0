----------------------------- MODULE OrderBookMC -----------------------------
(* One book on the small exchange.                                         *)
EXTENDS OrderBook, SmallExchange
=============================================================================
