------------------------------- MODULE WsClient -------------------------------
(***************************************************************************)
(* BoostWsClient (src/src/network/ws/ws_boost.cpp:40-138) in the hands of  *)
(* the BinanceConsumerConnection that owns it                              *)
(* (exchanges/binance/consumer/connection.cpp:45-98).  run is executed by  *)
(* a thread of its own; finish comes from the owner, sets a flag and shuts *)
(* down the socket under the other thread through ws, a pointer to a local *)
(* variable of run.                                                        *)
(*                                                                         *)
(* A stream is the number of the attempt that made it.  Following a        *)
(* pointer that is null ends the program; following one to a stream that   *)
(* is destroyed may do so or have no effect.                               *)
(***************************************************************************)
EXTENDS Naturals, Connection

CONSTANTS
  MaxRetries,   \* handshakes that are tried: 5
  Impatient     \* finish may come before the first message

ASSUME WsAssumption == MaxRetries \in Nat \ {0} /\ Impatient \in BOOLEAN

NULL == 0

VARIABLES
  pc,              \* where run is
  i_retry,
  ws,              \* what the client points to: NULL or a stream
  stream,          \* the stream that exists, or NULL
  socket,          \* its socket: "closed", "open" or "shut"
  need_to_finish,
  finish_mutex,    \* run holds it
  initialized,     \* BinanceConsumerConnection::initialized
  owner,           \* where BinanceConsumerConnection::finish is
  tested,          \* the pointer it found not to be NULL
  crashed,
  late             \* messages handed on since the owner called finish, up to 2

runVars == <<pc, i_retry, ws, stream, finish_mutex, initialized, late>>
ownerVars == <<need_to_finish, owner, tested, crashed>>
vars == <<runVars, socket, ownerVars>>

Init ==
  /\ pc = "begin" /\ i_retry = 0 /\ ws = NULL /\ stream = NULL
  /\ socket = "closed" /\ need_to_finish = FALSE /\ finish_mutex = FALSE
  /\ initialized = FALSE /\ owner = "running" /\ tested = NULL
  /\ crashed = FALSE /\ late = 0

-----------------------------------------------------------------------------
(* BinanceConsumerConnection::run and BoostWsClient::run                    *)

Goto(from, to) == pc = from /\ pc' = to

\* ws_client = new network::WsClient(...)
NewClient ==
  /\ Goto("begin", "retry")
  /\ UNCHANGED <<i_retry, ws, stream, finish_mutex, initialized, late, socket,
                 ownerVars>>

\* One round of the loop: a new stream, under the mutex.
NewStream ==
  /\ i_retry < MaxRetries
  /\ Goto("retry", "connect")
  /\ finish_mutex' = TRUE
  /\ stream' = i_retry + 1 /\ ws' = i_retry + 1
  /\ socket' = "closed"
  /\ UNCHANGED <<i_retry, initialized, late, ownerVars>>

\* The rounds are used up.  ws still points to the last stream.
GiveUp ==
  /\ i_retry = MaxRetries
  /\ Goto("retry", "return")
  /\ UNCHANGED <<i_retry, ws, stream, finish_mutex, initialized, late, socket,
                 ownerVars>>

\* net::connect, which ends with a connection ...
Connect ==
  /\ Goto("connect", "handshake")
  /\ socket' = "open"
  /\ UNCHANGED <<i_retry, ws, stream, finish_mutex, initialized, late, ownerVars>>

\* ... or an exception; and it is not tried again.
ConnectThrows ==
  /\ Goto("connect", "unwind")
  /\ UNCHANGED <<i_retry, ws, stream, finish_mutex, initialized, late, socket,
                 ownerVars>>

Handshake ==
  /\ socket = "open"
  /\ Goto("handshake", "check")
  /\ UNCHANGED <<i_retry, ws, stream, finish_mutex, initialized, late, socket,
                 ownerVars>>

\* A failed handshake is tried again in two seconds, unless the client is to
\* finish: then it goes on to the loop, which it will not enter.
HandshakeFails ==
  /\ Goto("handshake", IF need_to_finish THEN "check" ELSE "sleep")
  /\ UNCHANGED <<i_retry, ws, stream, finish_mutex, initialized, late, socket,
                 ownerVars>>

\* continue: the stream goes, and the mutex.  ws stays.
Continue ==
  /\ Goto("sleep", "retry")
  /\ i_retry' = i_retry + 1
  /\ stream' = NULL /\ finish_mutex' = FALSE
  /\ UNCHANGED <<ws, initialized, late, socket, ownerVars>>

\* Mutant: the loop does not look at the flag.
CheckNothing ==
  /\ Goto("check", "read")
  /\ UNCHANGED <<i_retry, ws, stream, finish_mutex, initialized, late, socket,
                 ownerVars>>

\* while (!need_to_finish)
Check ==
  /\ Goto("check", IF need_to_finish THEN "left" ELSE "read")
  /\ UNCHANGED <<i_retry, ws, stream, finish_mutex, initialized, late, socket,
                 ownerVars>>

\* A message, which may have been received before the socket was shut down.  The
\* callback sets initialized, and may throw when it parses or hands on.
ReadTo(to) ==
  /\ Goto("read", to)
  /\ initialized' = TRUE
  /\ late' = IF need_to_finish /\ late < 2 THEN late + 1 ELSE late
  /\ UNCHANGED <<i_retry, ws, stream, finish_mutex, socket, ownerVars>>

ReadMessage == ReadTo("check")
CallbackThrows == ReadTo("thrown")

\* The callback's exception destroys the stream like the end of the block does.
Catch ==
  /\ Goto("thrown", "unwind")
  /\ UNCHANGED <<i_retry, ws, stream, finish_mutex, initialized, late, socket,
                 ownerVars>>

\* The peer or the network ends the connection, or finish has.
ReadError ==
  /\ Goto("read", "left")
  /\ UNCHANGED <<i_retry, ws, stream, finish_mutex, initialized, late, socket,
                 ownerVars>>

\* "NEED TO RECONNECT": the client shuts its socket down itself.
LeaveLoop ==
  /\ Goto("left", "close")
  /\ socket' = IF need_to_finish THEN socket ELSE "shut"
  /\ UNCHANGED <<i_retry, ws, stream, finish_mutex, initialized, late, ownerVars>>

\* ws->close waits for the peer's close frame, or an error.
Close ==
  /\ Goto("close", "unwind")
  /\ UNCHANGED <<i_retry, ws, stream, finish_mutex, initialized, late, socket,
                 ownerVars>>

\* The end of the block, or of the exception: the stream is destroyed ...
Unwind ==
  /\ Goto("unwind", "null")
  /\ stream' = NULL
  /\ UNCHANGED <<i_retry, ws, finish_mutex, initialized, late, socket, ownerVars>>

\* ... and then forgotten.
SetNull ==
  /\ Goto("null", "return")
  /\ ws' = NULL
  /\ UNCHANGED <<i_retry, stream, finish_mutex, initialized, late, socket,
                 ownerVars>>

Return ==
  /\ Goto("return", "returned")
  /\ finish_mutex' = FALSE
  /\ UNCHANGED <<i_retry, ws, stream, initialized, late, socket, ownerVars>>

\* Steps that wait for nobody, and those that the socket ends when it is shut.
Proceeds ==
  \/ NewClient \/ NewStream \/ GiveUp \/ Connect \/ ConnectThrows \/ Continue
  \/ Check \/ Catch \/ LeaveLoop \/ Unwind \/ SetNull \/ Return
Waits == HandshakeFails \/ ReadError \/ Close
PeerSpeaks == Handshake \/ ReadMessage \/ CallbackThrows

-----------------------------------------------------------------------------
(* The owner: BinanceConsumerConnection::finish, ~BoostWsClient             *)

OwnerGoto(from, to) == owner = from /\ owner' = to

\* ws_client->finish.  By then the thread has set ws_client, whose value is not
\* initialized: the consumer waits for a message before it finishes.
Finish ==
  /\ OwnerGoto("running", "test")
  /\ pc # "begin" /\ (Impatient \/ initialized)
  /\ need_to_finish' = TRUE
  /\ UNCHANGED <<runVars, socket, tested, crashed>>

\* if (ws != NULL)
TestWs ==
  /\ OwnerGoto("test", IF ws = NULL THEN "join" ELSE "shutdown")
  /\ tested' = ws
  /\ UNCHANGED <<runVars, socket, need_to_finish, crashed>>

\* Mutant: only the flag is set.
FollowNothing(p) == UNCHANGED <<socket, crashed>>

\* ws->next_layer().next_layer().shutdown(...): nothing happens to a socket that
\* is not connected.
Follow(p) ==
  \/ /\ p # NULL /\ p = stream
     /\ socket' = IF socket = "open" THEN "shut" ELSE socket
     /\ UNCHANGED crashed
  \/ /\ p = NULL \/ p # stream
     /\ crashed' \in {TRUE, p = NULL}
     /\ UNCHANGED socket

\* ws is no atomic variable: the compiler may read it again or not.
Shutdown ==
  /\ OwnerGoto("shutdown", "join")
  /\ \E p \in {tested, ws} : Follow(p)
  /\ UNCHANGED <<runVars, need_to_finish, tested>>

\* thread->join()
Join ==
  /\ OwnerGoto("join", "delete")
  /\ pc = "returned"
  /\ UNCHANGED <<runVars, socket, need_to_finish, tested, crashed>>

\* delete ws_client: finish once more, and the mutex.
Delete ==
  /\ OwnerGoto("delete", "deleted")
  /\ ~ finish_mutex
  /\ IF ws = NULL THEN UNCHANGED <<socket, crashed>> ELSE Follow(ws)
  /\ UNCHANGED <<runVars, need_to_finish, tested>>

Owner == Finish \/ TestWs \/ Shutdown \/ Join \/ Delete

Next == ~ crashed /\ (Proceeds \/ Waits \/ PeerSpeaks \/ Owner)

\* Both threads go on while they can.  The peer owes nothing; a read, a handshake
\* or a close ends by itself only when the socket is shut down.
Spec ==
  /\ Init /\ [][Next]_vars
  /\ WF_vars(~ crashed /\ Proceeds)
  /\ WF_vars(~ crashed /\ socket = "shut" /\ Waits)
  /\ WF_vars(~ crashed /\ (TestWs \/ Shutdown \/ Join \/ Delete))

-----------------------------------------------------------------------------
Flags ==
  /\ need_to_finish \in BOOLEAN /\ finish_mutex \in BOOLEAN
  /\ initialized \in BOOLEAN /\ crashed \in BOOLEAN

TypeOK ==
  /\ Flags
  /\ pc \in {"begin", "retry", "connect", "handshake", "sleep", "check", "read",
             "thrown", "left", "close", "unwind", "null", "return", "returned"}
  /\ i_retry \in 0..MaxRetries
  /\ ws \in 0..MaxRetries /\ stream \in {NULL, ws}
  /\ socket \in {"closed", "open", "shut"}
  /\ owner \in {"running", "test", "shutdown", "join", "delete", "deleted"}
  /\ tested \in 0..MaxRetries /\ late \in 0..2

\* A finish of a connection that has had a message returns, though the peer never
\* speaks again: the flag, the shutdown and the read loop leave no way to sleep
\* on.  The exception is the pointer that was followed too late.
FinishReturnsUnlessCrash ==
  owner = "join" /\ initialized ~> owner = "deleted" \/ crashed

\* After finish was called the callback, which belongs to objects that will soon
\* be gone, is called once more at most.
OneAfterFinish == late <= 1

\* The life that the consumer of the connection relies on.
phase ==
  CASE pc \in {"begin", "retry", "connect", "handshake", "sleep"} -> "connecting"
    [] pc = "check"    -> "loop"
    [] pc = "read"     -> "reading"
    [] pc = "thrown"   -> "loop"
    [] pc = "returned" -> "ended"
    [] OTHER           -> "closing"

life == [phase |-> phase, initialized |-> initialized, stop |-> need_to_finish]

IsConnection ==
  /\ life = Fresh
  /\ [][life' \in Successors(life) \/ life' = Told(life)]_life
=============================================================================
