---------------------------- MODULE SpotContextMC ----------------------------
(* Four symbols for spot trading, and one that lacks each of the conditions. *)
(* Up to five are asked for: all of them, some, one twice, none that exists. *)
EXTENDS SpotContext

Spot(symbol) == [symbol |-> symbol, trading |-> TRUE, permissions |-> {"SPOT"},
                 allowed |-> TRUE, steps |-> TRUE]

MCInfo ==
  {Spot(symbol) : symbol \in {"BTC", "ETH", "BNB", "XRP"}}
  \cup {[Spot("BREAK") EXCEPT !.trading = FALSE],
        [Spot("STOPPED") EXCEPT !.allowed = FALSE],
        [Spot("ODD") EXCEPT !.steps = FALSE],
        [Spot("LEVERAGED") EXCEPT !.permissions = {"MARGIN"}]}

MCAsked == {<<>>, <<"BTC", "???", "ETH">>, <<"BTC", "BTC", "ETH", "BNB", "XRP">>,
            <<"???", "BREAK", "ODD">>, <<"BTC">>, <<"XRP", "ETH", "STOPPED", "BNB">>}
=============================================================================
