------------------------------ MODULE Connection ------------------------------
(***************************************************************************)
(* The life of one BinanceConsumerConnection, as much of it as its         *)
(* consumer relies on.  The state is a record with at least                *)
(*                                                                         *)
(*   phase        connecting, loop (before while (!need_to_finish)),       *)
(*                reading, closing (the loop is left), ended (run is over) *)
(*   initialized  a message was read                                       *)
(*   stop         finish was called                                        *)
(*                                                                         *)
(* ConnectionPool is built from these operators; WsClient, the read loop   *)
(* in detail, is shown to take no other steps.                             *)
(***************************************************************************)

Fresh == [phase |-> "connecting", initialized |-> FALSE, stop |-> FALSE]

\* TCP, TLS and WebSocket handshakes are done.
Connected(r) == [r EXCEPT !.phase = "loop"]

\* while (!need_to_finish)
Checked(r) == [r EXCEPT !.phase = IF r.stop THEN "closing" ELSE "reading"]

\* A message was read and handed to the callback; the loop is where it was.
Read(r) == [Connected(r) EXCEPT !.initialized = TRUE]

\* No connection, no handshake, an error of read, an exception of the callback.
Left(r) == [r EXCEPT !.phase = "closing"]

\* run returns.
Ended(r) == [r EXCEPT !.phase = "ended"]

\* finish, up to the join.
Told(r) == [r EXCEPT !.stop = TRUE]

\* The steps of the connection's own thread.
Successors(r) ==
  CASE r.phase = "connecting" -> {Connected(r), Left(r)}
    [] r.phase = "loop"       -> {Checked(r), Left(r)}
    [] r.phase = "reading"    -> {Read(r), Left(r)}
    [] r.phase = "closing"    -> {Ended(r)}
    [] r.phase = "ended"      -> {}

=============================================================================
