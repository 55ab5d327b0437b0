---------------------------- MODULE LargeConsumer ----------------------------
(***************************************************************************)
(* The consumer of order books and how it gets ready                       *)
(* (src/src/market/orderbook/large/consumer.cpp).  The thread of the       *)
(* BinanceSpotContext constructor sets the snapshots, then the tail of     *)
(* recent diffs; meanwhile the threads of the connections push the diffs   *)
(* they receive, which are kept in a buffer until both are there.  All     *)
(* three come together in try_init_data, under init_data_mutex.            *)
(* Which diffs the threads push, and when, is left to DiffFeed.            *)
(*                                                                         *)
(* The books of all symbols follow the same history Exchange: a book knows *)
(* nothing of the others.                                                  *)
(***************************************************************************)
EXTENDS OrderBookOps

CONSTANTS
  Symbols,   \* symbols of the consumer
  Threads,   \* threads of connections
  Messages,  \* what they may receive: [symbol, diff]
  Answers    \* what the services may answer: [snapshots, tail], the snapshots
             \* by symbol, for the symbols the service knows: not all of the
             \* consumer's, perhaps, and others too

ASSUME ConsumerAssumption ==
  /\ \A m \in Messages : m.symbol \in Symbols /\ m.diff \in Diffs
  /\ \A a \in Answers :
       /\ \A s \in DOMAIN a.snapshots : a.snapshots[s] \in Snapshots
       /\ a.tail \in Seq({m \in Range(a.tail) : m.diff \in Diffs})

VARIABLES
  answer,         \* the answer of this run
  books,          \* obs_container: the book of each symbol
  is_ready,
  mutexFree,      \* nobody holds init_data_mutex
  ob_snapshots,   \* the optional: {} or one map of snapshots
  ob_diffs_tail,  \* the optional: {} or one sequence
  buffer,         \* ob_diffs_init_buffer
  main,           \* where the constructor's thread is
  at,             \* diffs its loop over tail and buffer has passed
  symbol2last,    \* symbol2last_update_id of try_init_data
  pc,             \* where each connection thread is in push_ob_diff
  arg             \* the message it is pushing

initVars == <<answer, ob_snapshots, ob_diffs_tail, main, at, symbol2last>>
pushVars == <<pc, arg>>
consumerVars == <<books, is_ready, mutexFree, buffer, initVars, pushVars>>

NoMessage == [symbol |-> "none"]

ConsumerInit ==
  /\ answer \in Answers
  /\ books \in [Symbols -> EmptyBooks]
  /\ is_ready = FALSE /\ mutexFree = TRUE
  /\ ob_snapshots = {} /\ ob_diffs_tail = {} /\ buffer = <<>>
  /\ main = "set_snapshots" /\ at = 0
  /\ symbol2last = [s \in Symbols |-> 0]
  /\ pc = [t \in Threads |-> "receive"]
  /\ arg = [t \in Threads |-> NoMessage]

-----------------------------------------------------------------------------
(* ObsContainer *)

\* put: apply_diff of the symbol's book.
PutDiff(m) ==
  \E b \in AfterDiff(books[m.symbol], m.diff) :
    books' = [books EXCEPT ![m.symbol] = b]

\* The snapshots of symbols the consumer does not have are skipped.
Used(snapshots) == DOMAIN snapshots \cap Symbols

\* get and apply_diff throw without the book or its snapshot.
PutThrows(m) == books[m.symbol].last = Unset

-----------------------------------------------------------------------------
(* The constructor's thread *)

SetSnapshots ==
  /\ main = "set_snapshots"
  /\ ob_snapshots' = {answer.snapshots}
  /\ main' = "try_init"
  /\ UNCHANGED <<answer, books, is_ready, mutexFree, ob_diffs_tail, buffer, at,
                 symbol2last, pushVars>>

SetDiffsTail ==
  /\ main = "set_tail"
  /\ ob_diffs_tail' = {answer.tail}
  /\ main' = "try_init"
  /\ UNCHANGED <<answer, books, is_ready, mutexFree, ob_snapshots, buffer, at,
                 symbol2last, pushVars>>

\* try_init_data returns when one of the two is missing.
TryInitTooEarly ==
  /\ main = "try_init" /\ mutexFree
  /\ ob_snapshots = {} \/ ob_diffs_tail = {}
  /\ main' = "set_tail"
  /\ UNCHANGED <<answer, books, is_ready, mutexFree, ob_snapshots, ob_diffs_tail,
                 buffer, at, symbol2last, pushVars>>

\* It takes the mutex and applies the snapshots.
TryInitSnapshots ==
  /\ main = "try_init" /\ mutexFree
  /\ ob_diffs_tail # {}
  /\ \E found \in ob_snapshots :
       /\ books' = [s \in Symbols |-> IF s \in Used(found)
                                      THEN AfterSnapshot(books[s], found[s])
                                      ELSE books[s]]
       /\ symbol2last' = [s \in Symbols |-> IF s \in Used(found)
                                            THEN found[s].last ELSE 0]
  /\ mutexFree' = FALSE
  /\ main' = "loop"
  /\ UNCHANGED <<answer, is_ready, ob_snapshots, ob_diffs_tail, buffer, at, pushVars>>

\* The tail, then the buffer.
Incoming == UNION {{tail \o buffer} : tail \in ob_diffs_tail}

NextIncoming(m) ==
  /\ main = "loop"
  /\ \E incoming \in Incoming : at < Len(incoming) /\ m = incoming[at + 1]

\* Diffs of other symbols, and those the book is thought to have, are skipped.
Skipped(m) ==
  m.symbol \in Symbols => m.diff.final <= symbol2last[m.symbol]

InitSkip(m) ==
  /\ NextIncoming(m) /\ Skipped(m)
  /\ at' = at + 1
  /\ UNCHANGED <<answer, books, is_ready, mutexFree, ob_snapshots, ob_diffs_tail,
                 buffer, main, symbol2last, pushVars>>

\* Mutant: one last_update_id for all symbols.
InitPutSharedLast(m) ==
  /\ NextIncoming(m) /\ ~ Skipped(m) /\ ~ PutThrows(m)
  /\ PutDiff(m)
  /\ symbol2last' = [s \in Symbols |-> m.diff.final]
  /\ at' = at + 1
  /\ UNCHANGED <<answer, is_ready, mutexFree, ob_snapshots, ob_diffs_tail, buffer,
                 main, pushVars>>

InitPut(m) ==
  /\ NextIncoming(m) /\ ~ Skipped(m) /\ ~ PutThrows(m)
  /\ PutDiff(m)
  /\ symbol2last' = [symbol2last EXCEPT ![m.symbol] = m.diff.final]
  /\ at' = at + 1
  /\ UNCHANGED <<answer, is_ready, mutexFree, ob_snapshots, ob_diffs_tail, buffer,
                 main, pushVars>>

\* The exception leaves try_init_data, its lock_guard and the constructor.
InitThrow(m) ==
  /\ NextIncoming(m) /\ ~ Skipped(m) /\ PutThrows(m)
  /\ mutexFree' = TRUE
  /\ main' = "thrown"
  /\ UNCHANGED <<answer, books, is_ready, ob_snapshots, ob_diffs_tail, buffer, at,
                 symbol2last, pushVars>>

\* Mutant: the mutex is not released.
InitDoneHoldingMutex ==
  /\ main = "loop"
  /\ \A incoming \in Incoming : at = Len(incoming)
  /\ is_ready' = TRUE
  /\ main' = "ready"
  /\ UNCHANGED <<answer, books, mutexFree, ob_snapshots, ob_diffs_tail, buffer, at,
                 symbol2last, pushVars>>

InitDone ==
  /\ main = "loop"
  /\ \A incoming \in Incoming : at = Len(incoming)
  /\ is_ready' = TRUE
  /\ mutexFree' = TRUE
  /\ main' = "ready"
  /\ UNCHANGED <<answer, books, ob_snapshots, ob_diffs_tail, buffer, at, symbol2last,
                 pushVars>>

Main ==
  \/ SetSnapshots \/ SetDiffsTail
  \/ TryInitTooEarly \/ TryInitSnapshots \/ InitDone
  \/ \E incoming \in Incoming : \E n \in 1..Len(incoming) :
       InitSkip(incoming[n]) \/ InitPut(incoming[n]) \/ InitThrow(incoming[n])

-----------------------------------------------------------------------------
(* push_ob_diff, in the thread of a connection *)

\* on_event of the BinanceSpotContext calls it with m.
Receive(t, m) ==
  /\ pc[t] = "receive"
  /\ arg' = [arg EXCEPT ![t] = m]
  /\ pc' = [pc EXCEPT ![t] = "check"]
  /\ UNCHANGED <<books, is_ready, mutexFree, buffer, initVars>>

\* is_ready is read without the mutex.
CheckReady(t) ==
  /\ pc[t] = "check"
  /\ pc' = [pc EXCEPT ![t] = IF is_ready THEN "put" ELSE "lock"]
  /\ UNCHANGED <<books, is_ready, mutexFree, buffer, initVars, arg>>

\* Mutant: is_ready is not read again.
LockAndBufferAnyway(t) ==
  /\ pc[t] = "lock" /\ mutexFree
  /\ buffer' = Append(buffer, arg[t])
  /\ pc' = [pc EXCEPT ![t] = "receive"]
  /\ UNCHANGED <<books, is_ready, mutexFree, initVars, arg>>

\* And again with it.
LockAndBuffer(t) ==
  /\ pc[t] = "lock" /\ mutexFree
  /\ ~ is_ready
  /\ buffer' = Append(buffer, arg[t])
  /\ pc' = [pc EXCEPT ![t] = "receive"]
  /\ UNCHANGED <<books, is_ready, mutexFree, initVars, arg>>

\* Mutant: the mutex is taken to wait, and the diff put whatever is_ready says.
LockAndGoOnAnyway(t) ==
  /\ pc[t] = "lock" /\ mutexFree
  /\ pc' = [pc EXCEPT ![t] = "put"]
  /\ UNCHANGED <<books, is_ready, mutexFree, buffer, initVars, arg>>

LockAndGoOn(t) ==
  /\ pc[t] = "lock" /\ mutexFree
  /\ is_ready
  /\ pc' = [pc EXCEPT ![t] = "put"]
  /\ UNCHANGED <<books, is_ready, mutexFree, buffer, initVars, arg>>

Put(t) ==
  /\ pc[t] = "put" /\ ~ PutThrows(arg[t])
  /\ PutDiff(arg[t])
  /\ pc' = [pc EXCEPT ![t] = "receive"]
  /\ UNCHANGED <<is_ready, mutexFree, buffer, initVars, arg>>

\* The exception ends the read loop of the connection (ws_boost.cpp:121-126), which
\* carries all the symbols of a batch: what it would have brought of the others is
\* not read any more.
PutThrow(t) ==
  /\ pc[t] = "put" /\ PutThrows(arg[t])
  /\ pc' = [pc EXCEPT ![t] = "dead"]
  /\ UNCHANGED <<books, is_ready, mutexFree, buffer, initVars, arg>>

Push(t) ==
  CheckReady(t) \/ LockAndBuffer(t) \/ LockAndGoOn(t) \/ Put(t) \/ PutThrow(t)

-----------------------------------------------------------------------------
ConsumerTypeOK ==
  /\ answer \in Answers
  /\ books \in [Symbols -> Books]
  /\ is_ready \in BOOLEAN /\ mutexFree \in BOOLEAN
  /\ ob_snapshots \subseteq {answer.snapshots}
  /\ ob_diffs_tail \subseteq {answer.tail}
  /\ buffer \in Seq(Messages)
  /\ main \in {"set_snapshots", "set_tail", "try_init", "loop", "ready", "thrown"}
  /\ at \in 0..(Len(answer.tail) + Len(buffer))
  /\ symbol2last \in [Symbols -> 0..LastId]
  /\ pc \in [Threads -> {"receive", "check", "lock", "put", "dead"}]
  /\ arg \in [Threads -> Messages \cup {NoMessage}]

\* try_init_data works on the books alone: a push that saw is_ready only comes
\* after it (the second read of is_ready, consumer.cpp:70).
StartIsExclusive == \A t \in Threads : pc[t] = "put" => main = "ready"

\* No push waits for init_data_mutex for ever, whether the constructor returns
\* or throws (consumer.cpp:35, 69): each comes back to the read loop, or ends it.
PushReturns ==
  \A t \in Threads : pc[t] \notin {"receive", "dead"} ~> pc[t] \in {"receive", "dead"}
=============================================================================
