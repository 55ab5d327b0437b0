--------------------------- MODULE ConnectionPool ---------------------------
(***************************************************************************)
(* The connections of a BinanceConsumer                                    *)
(* (src/src/exchanges/binance/consumer/consumer.cpp, connection.cpp): its  *)
(* thread opens one connection per host, waits for the first message of    *)
(* each, and every five minutes replaces them one by one.  A connection    *)
(* has a thread of its own and the life described in Connection.           *)
(* The application starts the consumer, waits for it and finishes it.      *)
(*                                                                         *)
(* The stream of the exchange never ends, and one message of it is         *)
(* followed: a connection sees it only if it was there when the message    *)
(* was published.  Connection objects are taken from a finite set and      *)
(* taken again after they are deleted.                                     *)
(***************************************************************************)
EXTENDS Integers, FiniteSets, SequencesExt, Connection

CONSTANTS
  Objects,   \* connection objects
  NoCon,
  MaxHosts,  \* addresses of the host name
  Faults     \* of "dns", "connect", "drop": what may go wrong

ASSUME PoolAssumption ==
  /\ NoCon \notin Objects /\ IsFiniteSet(Objects)
  /\ MaxHosts \in Nat \ {0} /\ Cardinality(Objects) > MaxHosts
  /\ Faults \subseteq {"dns", "connect", "drop"}

VARIABLES
  connections,    \* BinanceConsumer::connections
  con,            \* the connection objects
  new,            \* the one create_connection has made, until it is stored
  i, n,           \* loops of run and reconnect: next host, number of hosts
  pc,             \* where the consumer's thread is
  resolved,       \* the host name is in _hostname2ips_list_cache
  limit,          \* dns_hosts_max_count
  need_to_finish,
  initialized,
  main,           \* where the application is
  message,        \* the message followed: not published, published, or handed on
  due             \* it was published while the consumer was in use and none of
                  \* its connections was broken, neither has changed, and it came
                  \* within the second a reconnect waits

threadVars == <<connections, new, i, n, pc, resolved, initialized>>
appVars == <<limit, main>>
vars == <<threadVars, con, appVars, need_to_finish, message, due>>

\* A connection object that was just made, and one that does not exist.
Made == [phase |-> Fresh.phase, initialized |-> Fresh.initialized,
         stop |-> Fresh.stop, sees |-> "no"]
Free == [Made EXCEPT !.phase = "free"]

Init ==
  /\ connections = <<>> /\ con = [c \in Objects |-> Free] /\ new = NoCon
  /\ i = 0 /\ n = 0 /\ pc = "idle"
  /\ resolved = FALSE /\ limit = MaxHosts
  /\ need_to_finish = FALSE /\ initialized = FALSE
  /\ main = "constructed"
  /\ message = "future" /\ due = FALSE

-----------------------------------------------------------------------------
(* A connection: the steps of Connection, and the message that is followed *)

ConnectionGoes(c, record) ==
  /\ con' = [con EXCEPT ![c] = record]
  /\ UNCHANGED <<threadVars, appVars, need_to_finish>>

Connect(c) ==
  /\ con[c].phase = "connecting"
  /\ ConnectionGoes(c, [Connected(con[c]) EXCEPT
                          !.sees = IF message = "future" THEN "later" ELSE "no"])
  /\ UNCHANGED <<message, due>>

\* Five handshakes failed, or one exception was thrown.
ConnectFails(c) ==
  /\ "connect" \in Faults
  /\ con[c].phase = "connecting"
  /\ ConnectionGoes(c, Left(con[c]))
  /\ UNCHANGED <<message, due>>

CheckStop(c) ==
  /\ con[c].phase = "loop"
  /\ ConnectionGoes(c, Checked(con[c]))
  /\ UNCHANGED <<message, due>>

ReadOther(c) ==
  /\ con[c].phase = "reading"
  /\ ConnectionGoes(c, Read(con[c]))
  /\ UNCHANGED <<message, due>>

\* on_event_callback: the first connection to read the message hands it on.  The
\* callbacks by type that follow are none: settings hold only on_event's.
ReadMessage(c) ==
  /\ con[c].phase = "reading" /\ con[c].sees = "unread"
  /\ ConnectionGoes(c, [Read(con[c]) EXCEPT !.sees = "no"])
  /\ message' = "handed"
  /\ UNCHANGED due

\* finish shut the socket down, and the read fails.
ReadClosed(c) ==
  /\ con[c].phase = "reading" /\ con[c].stop
  /\ ConnectionGoes(c, Left(con[c]))
  /\ UNCHANGED <<message, due>>

\* The exchange or the network ends the connection, perhaps before its first
\* message, or the callback throws.
Drop(c) ==
  /\ "drop" \in Faults
  /\ con[c].phase \in {"loop", "reading"}
  /\ ConnectionGoes(c, Left(con[c]))
  /\ due' = FALSE
  /\ UNCHANGED message

Close(c) ==
  /\ con[c].phase = "closing"
  /\ ConnectionGoes(c, Ended(con[c]))
  /\ UNCHANGED <<message, due>>

ConnectionRuns(c) ==
  \/ Connect(c) \/ ConnectFails(c) \/ CheckStop(c)
  \/ ReadOther(c) \/ ReadMessage(c) \/ ReadClosed(c) \/ Drop(c) \/ Close(c)

Over(c) == con[c].phase \in {"closing", "ended"}

\* No connection has ended that was not told to.
NoneBroken == \A c \in Objects : Over(c) => con[c].stop

\* The exchange publishes the message, to the connections that are there.
Publish ==
  /\ message = "future"
  /\ message' = "out"
  /\ due' = (main = "using" /\ connections # <<>> /\ NoneBroken)
  /\ con' = [c \in Objects |-> IF con[c].sees = "later"
                            THEN [con[c] EXCEPT !.sees = "unread"] ELSE con[c]]
  /\ UNCHANGED <<threadVars, appVars, need_to_finish>>

-----------------------------------------------------------------------------
(* The consumer's thread: run, create_connection, reconnect                 *)

\* Addresses beyond dns_hosts_max_count are erased.
Cut(count) == IF count > limit THEN limit ELSE count

\* hostname2ips_list: all the addresses, or none when the name cannot be
\* resolved, which is tried again as long as it has never been.
Resolve(count) ==
  \/ count = MaxHosts /\ resolved' = TRUE
  \/ "dns" \in Faults /\ ~ resolved /\ count = 0 /\ UNCHANGED resolved

\* Mutant: the loops over the hosts start from the second.
GetNewHostsFromOne ==
  /\ pc = "hosts"
  /\ \E count \in {0, MaxHosts} : Resolve(count) /\ n' = Cut(count)
  /\ i' = 1
  /\ pc' = "create"
  /\ UNCHANGED <<connections, con, new, initialized, appVars, need_to_finish,
                 message, due>>

GetNewHosts ==
  /\ pc = "hosts"
  /\ \E count \in {0, MaxHosts} : Resolve(count) /\ n' = Cut(count)
  /\ i' = 0
  /\ pc' = "create"
  /\ UNCHANGED <<connections, con, new, initialized, appVars, need_to_finish,
                 message, due>>

\* create_connection: a new connection, and its thread.
CreateConnection ==
  /\ pc = "create" /\ i < n
  /\ LET c == CHOOSE c \in Objects : con[c].phase = "free" IN
       /\ con' = [con EXCEPT ![c] = Made]
       /\ new' = c
  /\ pc' = "wait"
  /\ UNCHANGED <<connections, i, n, resolved, initialized, appVars,
                 need_to_finish, message, due>>

\* Mutant: create_connection does not wait for the connection.
CreatedAtOnce == pc = "wait"

\* ... and wait_for_initializing.
Created == pc = "wait" /\ con[new].initialized

\* connections.push_back(con)
StoreNew ==
  /\ Created
  /\ i >= Len(connections)
  /\ connections' = Append(connections, new)
  /\ new' = NoCon /\ i' = i + 1
  /\ pc' = "create"
  /\ UNCHANGED <<con, n, resolved, initialized, appVars, need_to_finish,
                 message, due>>

\* Where the thread is when the connection deleted next has been told to stop.
Deleting(where, c) ==
  /\ con' = [con EXCEPT ![c] = Told(@)]
  /\ pc' = where
  /\ UNCHANGED <<connections, new, i, n, resolved, initialized, appVars,
                 need_to_finish, message>>

\* What a reconnect relies on: after a second both connections have read what was
\* published before it.
Overlapped(c) ==
  \/ Over(c)
  \/ con[c].sees # "unread"
  \/ con[new].sees = "unread"

\* Mutant: the old connection is replaced and forgotten.
DeleteOldNever ==
  /\ Created
  /\ i < Len(connections)
  /\ connections' = [connections EXCEPT ![i + 1] = new]
  /\ new' = NoCon /\ i' = i + 1
  /\ pc' = "create"
  /\ UNCHANGED <<con, n, resolved, initialized, appVars, need_to_finish,
                 message, due>>

\* delete connections[i], a second later: finish, which waits for its thread.
\* Nothing checks that the second was enough.
DeleteOld ==
  /\ Created
  /\ i < Len(connections)
  /\ Deleting("replace", connections[i + 1])
  /\ due' = (due /\ Overlapped(connections[i + 1]))

\* connections[i] = con
Replace ==
  /\ pc = "replace"
  /\ con[connections[i + 1]].phase = "ended"
  /\ con' = [con EXCEPT ![connections[i + 1]] = Free]
  /\ connections' = [connections EXCEPT ![i + 1] = new]
  /\ new' = NoCon /\ i' = i + 1
  /\ pc' = "create"
  /\ UNCHANGED <<n, resolved, initialized, appVars, need_to_finish, message, due>>

\* Mutant: initialized is not set.
StartedQuietly ==
  /\ pc = "create" /\ i = n /\ ~ initialized
  /\ pc' = "loop"
  /\ UNCHANGED <<connections, con, new, i, n, resolved, initialized, appVars,
                 need_to_finish, message, due>>

\* The loop of run is over.
Started ==
  /\ pc = "create" /\ i = n /\ ~ initialized
  /\ initialized' = TRUE
  /\ pc' = "loop"
  /\ UNCHANGED <<connections, con, new, i, n, resolved, appVars,
                 need_to_finish, message, due>>

\* The loop of reconnect is over; connections without a host are deleted.
Surplus == Len(connections) > n

DeleteLast ==
  /\ pc = "create" /\ i = n /\ initialized /\ Surplus
  /\ Deleting("pop", Last(connections))
  /\ UNCHANGED due

PopBack ==
  /\ pc = "pop"
  /\ con[Last(connections)].phase = "ended"
  /\ con' = [con EXCEPT ![Last(connections)] = Free]
  /\ connections' = Front(connections)
  /\ pc' = "create"
  /\ UNCHANGED <<new, i, n, resolved, initialized, appVars, need_to_finish,
                 message, due>>

Reconnected ==
  /\ pc = "create" /\ i = n /\ initialized /\ ~ Surplus
  /\ pc' = "loop"
  /\ UNCHANGED <<connections, con, new, i, n, resolved, initialized, appVars,
                 need_to_finish, message, due>>

\* The five minutes are over: reconnect.
Reconnect ==
  /\ pc = "loop" /\ ~ need_to_finish
  /\ pc' = "hosts"
  /\ UNCHANGED <<connections, con, new, i, n, resolved, initialized, appVars,
                 need_to_finish, message, due>>

\* Or need_to_finish is seen, and all connections are deleted in turn.
LeaveLoop ==
  /\ pc = "loop" /\ need_to_finish
  /\ pc' = "leave"
  /\ UNCHANGED <<connections, con, new, i, n, resolved, initialized, appVars,
                 need_to_finish, message, due>>

DeleteFirst ==
  /\ pc = "leave" /\ connections # <<>>
  /\ Deleting("join", Head(connections))
  /\ UNCHANGED due

JoinFirst ==
  /\ pc = "join"
  /\ con[Head(connections)].phase = "ended"
  /\ con' = [con EXCEPT ![Head(connections)] = Free]
  /\ connections' = Tail(connections)
  /\ pc' = "leave"
  /\ UNCHANGED <<new, i, n, resolved, initialized, appVars, need_to_finish,
                 message, due>>

RunReturns ==
  /\ pc = "leave" /\ connections = <<>>
  /\ initialized' = FALSE /\ need_to_finish' = FALSE
  /\ pc' = "idle"
  /\ UNCHANGED <<connections, con, new, i, n, resolved, appVars, message, due>>

Run ==
  \/ GetNewHosts \/ CreateConnection \/ StoreNew \/ DeleteOld \/ Replace
  \/ Started \/ DeleteLast \/ PopBack \/ Reconnected
  \/ Reconnect \/ LeaveLoop \/ DeleteFirst \/ JoinFirst \/ RunReturns

-----------------------------------------------------------------------------
(* The application                                                          *)

RunAsync ==
  /\ main = "constructed"
  /\ main' = "starting"
  /\ pc' = "hosts"
  /\ UNCHANGED <<connections, con, new, i, n, resolved, initialized, limit,
                 need_to_finish, message, due>>

WaitForInitializing ==
  /\ main = "starting" /\ initialized
  /\ main' = "using"
  /\ UNCHANGED <<threadVars, con, limit, need_to_finish, message, due>>

SetDnsHostsMaxCount ==
  /\ main = "using"
  /\ limit' \in 1..MaxHosts
  /\ UNCHANGED <<threadVars, con, main, need_to_finish, message, due>>

\* Mutant: the thread is not told.
FinishUntold ==
  /\ main = "using"
  /\ main' = "finishing"
  /\ due' = FALSE
  /\ UNCHANGED <<threadVars, con, limit, need_to_finish, message>>

\* finish: the thread is told ...
Finish ==
  /\ main = "using"
  /\ need_to_finish' = TRUE
  /\ main' = "finishing"
  /\ due' = FALSE
  /\ UNCHANGED <<threadVars, con, limit, message>>

\* ... and joined.  The consumer may be run again.
Join ==
  /\ main = "finishing" /\ pc = "idle"
  /\ main' = "constructed"
  /\ UNCHANGED <<threadVars, con, limit, need_to_finish, message, due>>

Application ==
  \/ RunAsync \/ WaitForInitializing \/ SetDnsHostsMaxCount \/ Finish \/ Join

Next ==
  \/ Run
  \/ Application
  \/ Publish
  \/ \E c \in Objects : ConnectionRuns(c)

\* Every thread goes on while it can, and the application comes out of the two
\* calls that wait.  The peer owes nothing: handshakes and reads have no timeout
\* (ws_boost.cpp:67, 86-87, 102), so a handshake may never end, and an open
\* connection never bring a message, until its socket is shut down.
Spec ==
  /\ Init /\ [][Next]_vars
  /\ WF_vars(Run)
  /\ WF_vars(WaitForInitializing) /\ WF_vars(Join)
  /\ \A c \in Objects :
       WF_vars(CheckStop(c)) /\ WF_vars(ReadClosed(c)) /\ WF_vars(Close(c))

\* The same with peers that answer: every handshake ends, as it should or not, and
\* every open connection gets messages.
AnsweredSpec ==
  /\ Spec
  /\ \A c \in Objects : WF_vars(Connect(c)) /\ WF_vars(ReadOther(c))

-----------------------------------------------------------------------------
Records ==
  [phase : {"free", "connecting", "loop", "reading", "closing", "ended"},
   initialized : BOOLEAN, stop : BOOLEAN, sees : {"no", "later", "unread"}]

TypeOK ==
  /\ connections \in Seq(Objects) /\ Len(connections) <= MaxHosts
  /\ con \in [Objects -> Records]
  /\ new \in Objects \cup {NoCon}
  /\ i \in 0..MaxHosts /\ n \in 0..MaxHosts
  /\ pc \in {"idle", "hosts", "create", "wait", "replace", "pop", "loop",
             "leave", "join"}
  /\ resolved \in BOOLEAN /\ limit \in 1..MaxHosts
  /\ need_to_finish \in BOOLEAN /\ initialized \in BOOLEAN
  /\ main \in {"constructed", "starting", "using", "finishing"}
  /\ message \in {"future", "out", "handed"} /\ due \in BOOLEAN

Listening(c) == con[c].phase \in {"loop", "reading"} /\ ~ con[c].stop

\* While no connection breaks, and no message comes more than a second after it
\* was published, none is lost, in a reconnect or between two: one published while
\* the consumer is in use is handed on, or a connection that goes on reading has
\* received it or will (reconnect, consumer.cpp:242-266).
Covered ==
  due /\ message = "out" =>
    \E c \in Objects : Listening(c) /\ con[c].sees = "unread"

\* A connection is finished only after its thread has set ws_client, a pointer
\* that has no value before (consumer.hpp:153, connection.cpp:65, 82).
StoppedAfterItRan == \A c \in Objects : con[c].stop => con[c].initialized

\* Every connection that has not been deleted is held once, in connections or
\* by create_connection: none is deleted twice, or runs on unknown.
HeldOnce ==
  /\ IsInjective(connections)
  /\ \A c \in Objects :
       con[c].phase # "free" <=> c = new \/ c \in ToSet(connections)
  /\ new \notin ToSet(connections)

\* create_connection waits for the first message of a connection
\* (connection.cpp:75-79).  It waits for ever when the connection has ended before
\* that message, when a handshake does not end, and when the peer sends nothing.
Silent == pc = "wait" /\ ~ con[new].initialized

\* wait_for_initializing returns, where handshakes end and open connections get
\* messages (connection.cpp:75-79, consumer.cpp:170-174).
\* README.md:8: "initialization could take a few minutes".
StartReturns == main = "starting" ~> main = "using"

\* Apart from one connection that stays silent for ever nothing keeps
\* wait_for_initializing or finish from returning: not a name that is not
\* resolved, nor connections that break or fall silent later, before, during and
\* after a reconnect (consumer.cpp:130-183).
StartReturnsUnlessSilent == main = "starting" ~> main = "using" \/ []Silent
FinishReturnsUnlessSilent == main = "finishing" ~> main = "constructed" \/ []Silent

\* Whatever connections break, the consumer does not stay without one, once the
\* name of the exchange has been resolved: a reconnect replaces them, unless it
\* meets a silent one itself and waits for it (consumer.cpp:140-152, 242-266).
FeedReturns ==
  initialized /\ resolved ~>
    need_to_finish \/ []Silent \/ \E c \in Objects : Listening(c)
=============================================================================
