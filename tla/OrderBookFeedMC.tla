--------------------------- MODULE OrderBookFeedMC ---------------------------
(* A book behind reordering connections on the small exchange.             *)
EXTENDS OrderBookFeed, SmallExchange
=============================================================================
