----------------------------- MODULE SpotContext -----------------------------
(***************************************************************************)
(* BinanceSpotContext (reptoid/binance-spot-context.cpp) and the service   *)
(* it starts from (reptoid/api.cpp): the constructor chooses the symbols,  *)
(* starts a BinanceConsumer for each batch of them, and fetches the        *)
(* snapshots, in a thread of std::async, and the tail of recent diffs; the *)
(* destructor takes all of it down.  Meanwhile the threads of the          *)
(* consumers call on_event.  What becomes of a message, and how a consumer *)
(* starts and stops, is the matter of LargeConsumer and ConnectionPool.    *)
(***************************************************************************)
EXTENDS Integers, SequencesExt

CONSTANTS
  Info,        \* the exchange info: [symbol, trading, permissions, allowed, steps]
  Asked,       \* what the constructor may be called with: sequences of symbols
  MaxBatch,    \* 300
  MaxRetries,  \* 5
  MaxSymbols,  \* bound of the number of symbols
  Faults       \* of those below: what may go wrong

\* BinanceExchangeInfo: the symbols for spot trading.  Those whose steps of price
\* and amount are no numbers are passed over.  That every symbol has steps and a
\* least amount, which the code asserts, is taken from the exchange.
Listed ==
  {x.symbol : x \in {y \in Info :
     y.trading /\ y.allowed /\ y.steps /\ "SPOT" \in y.permissions}}

\* "bad": an answer of a service that is not what it should be.  "empty": one
\* without a body.  "unanswered": no answer ever, for which curl waits without a
\* timeout (curl.cpp:24-37).  "missing": a symbol in the tail that has no snapshot.
\* "silent": a connection that never gets its first message.
ASSUME ContextAssumption ==
  /\ MaxBatch \in Nat \ {0} /\ MaxRetries \in Nat \ {0}
  /\ Faults \subseteq {"bad", "empty", "unanswered", "missing", "silent"}
  /\ MaxSymbols \in Nat
  /\ IsFiniteSet(Listed) /\ Cardinality(Listed) <= MaxSymbols
  /\ \A a \in Asked : a \in Seq(Range(a)) /\ Len(a) <= MaxSymbols

VARIABLES
  main,       \* where the application's thread is
  symbols,    \* BinanceSpotContext::symbols
  consumers,  \* binance_ob_diff_consumers: [symbols, state, hung, callback]
  large,      \* BinanceSpotContext::consumer
  fetch,      \* the thread of get_snapshots
  retries     \* its failed attempts

contextVars == <<main, symbols, consumers, large, fetch, retries>>

ContextInit ==
  /\ main = "init_symbols"
  /\ symbols = <<>> /\ consumers = <<>>
  /\ large = "none"
  /\ fetch = "none" /\ retries = 0

\* http::request_get: what has been received when curl is done, and nothing in
\* case of an error, of which the caller is not told.
Body == {"good"} \cup (Faults \cap {"bad", "empty"})

Unanswered == "unanswered" \in Faults

-----------------------------------------------------------------------------
(* get_symbols_batches *)

DivUp(a, b) == (a + b - 1) \div b

\* Mutant: the size is not rounded up.
BatchSizeDown(n) == n \div DivUp(n, MaxBatch)

BatchSize(n) == DivUp(n, DivUp(n, MaxBatch))

Batches(s) ==
  LET n == Len(s) IN
  IF n = 0 THEN <<>>
  ELSE [b \in 1..DivUp(n, BatchSize(n)) |->
          SubSeq(s, (b - 1) * BatchSize(n) + 1, Min({b * BatchSize(n), n}))]

-----------------------------------------------------------------------------
(* The constructor *)

\* What the loop of init_symbols keeps: the symbols at the places, in their order,
\* where there is one that is listed.  There is one such sequence.
Filtered(asked) ==
  LET places == {i \in 1..Len(asked) : asked[i] \in Listed}
      k == Cardinality(places)
  IN {[j \in 1..k |-> asked[at[j]]] :
        at \in {f \in [1..k -> places] : \A i, j \in 1..k : i < j => f[i] < f[j]}}

\* init_symbols: the symbols asked for that are listed, or all of them in the
\* order of a hash table.
InitSymbols(asked) ==
  /\ main = "init_symbols"
  /\ symbols' \in IF asked = <<>> THEN SetToSeqs(Listed) ELSE Filtered(asked)
  /\ main' = "new_consumer"
  /\ UNCHANGED <<consumers, large, fetch, retries>>

InitSymbolsThrows ==
  /\ main = "init_symbols" /\ Body # {"good"}
  /\ main' = "thrown"
  /\ UNCHANGED <<symbols, consumers, large, fetch, retries>>

NewConsumer ==
  /\ main = "new_consumer"
  /\ large' = "alive"
  /\ main' = "run"
  /\ UNCHANGED <<symbols, consumers, fetch, retries>>

\* create_ob_diff_consumer: run_async, and wait_for_initializing.
RunConsumer ==
  /\ main = "run" /\ Len(consumers) < Len(Batches(symbols))
  /\ consumers' = Append(consumers,
       [symbols |-> Batches(symbols)[Len(consumers) + 1],
        state |-> "starting", hung |-> FALSE, callback |-> FALSE])
  /\ main' = "wait"
  /\ UNCHANGED <<symbols, large, fetch, retries>>

ConsumerRuns ==
  /\ main = "wait" /\ Last(consumers).state = "running"
  /\ main' = "run"
  /\ UNCHANGED <<symbols, consumers, large, fetch, retries>>

\* new Api, and get_snapshots is started.
NewApi ==
  /\ main = "run" /\ Len(consumers) = Len(Batches(symbols))
  /\ fetch' = "url"
  /\ main' = "tail"
  /\ UNCHANGED <<symbols, consumers, large, retries>>

\* update_endpoints throws.
NewApiThrows ==
  /\ main = "run" /\ Len(consumers) = Len(Batches(symbols))
  /\ Body # {"good"}
  /\ main' = "thrown"
  /\ UNCHANGED <<symbols, consumers, large, fetch, retries>>

\* get_ob_diffs_tail, after 15 seconds.
TailGot ==
  /\ main = "tail"
  /\ main' = "get"
  /\ UNCHANGED <<symbols, consumers, large, fetch, retries>>

TailThrows ==
  /\ main = "tail" /\ Body # {"good"}
  /\ main' = "unwind"
  /\ UNCHANGED <<symbols, consumers, large, fetch, retries>>

\* gzip::decompress does not return from an empty body (decompress.hpp:71-91).
TailSpins ==
  /\ main = "tail" /\ "empty" \in Body
  /\ main' = "stuck"
  /\ UNCHANGED <<symbols, consumers, large, fetch, retries>>

\* The exchange info, the endpoints or the tail never come.
RequestUnanswered ==
  /\ Unanswered
  /\ \/ main \in {"init_symbols", "tail"}
     \/ main = "run" /\ Len(consumers) = Len(Batches(symbols))
  /\ main' = "stuck"
  /\ UNCHANGED <<symbols, consumers, large, fetch, retries>>

FetchRuns == fetch \in {"url", "download", "stuck"}

\* Mutant: the thread is detached.
UnwindAtOnce ==
  /\ main = "unwind"
  /\ main' = "thrown"
  /\ UNCHANGED <<symbols, consumers, large, fetch, retries>>

\* The destructor of the future waits for its thread.
Unwind ==
  /\ main = "unwind" /\ ~ FetchRuns
  /\ main' = "thrown"
  /\ UNCHANGED <<symbols, consumers, large, fetch, retries>>

\* ob_snapshots_future.get, and the two set_ calls.
SetData ==
  /\ main = "get" /\ fetch = "done"
  /\ main' = "using"
  /\ UNCHANGED <<symbols, consumers, large, fetch, retries>>

\* Mutant: an exception of the thread is waited for in vain.
SetDataThrowsOnlyMissing ==
  /\ main = "get"
  /\ fetch = "done" /\ "missing" \in Faults
  /\ main' = "thrown"
  /\ UNCHANGED <<symbols, consumers, large, fetch, retries>>

SetDataThrows ==
  /\ main = "get"
  /\ \/ fetch = "failed"
     \/ fetch = "done" /\ "missing" \in Faults
  /\ main' = "thrown"
  /\ UNCHANGED <<symbols, consumers, large, fetch, retries>>

Constructor ==
  \/ \E asked \in Asked : InitSymbols(asked)
  \/ InitSymbolsThrows \/ NewConsumer \/ RunConsumer \/ ConsumerRuns
  \/ NewApi \/ NewApiThrows
  \/ TailGot \/ TailThrows \/ TailSpins \/ RequestUnanswered \/ Unwind
  \/ SetData \/ SetDataThrows

-----------------------------------------------------------------------------
(* get_snapshots, in its thread *)

\* The url is there.  (One that is empty five times is asked for all the same,
\* and has an empty body.)
FetchUrl ==
  /\ fetch = "url"
  /\ fetch' = "download"
  /\ UNCHANGED <<main, symbols, consumers, large, retries>>

LastTry == retries + 1 = MaxRetries

\* No url in the answer: another attempt, a second later ...
FetchUrlRetries ==
  /\ fetch = "url" /\ ~ LastTry /\ Body # {"good"}
  /\ retries' = retries + 1
  /\ UNCHANGED <<main, symbols, consumers, large, fetch>>

\* ... or an exception.
FetchUrlThrows ==
  /\ fetch = "url" /\ LastTry /\ Body # {"good"}
  /\ fetch' = "failed"
  /\ UNCHANGED <<main, symbols, consumers, large, retries>>

\* An archive that is not one makes decompress, or the parser, throw; from an
\* empty one decompress does not return.
DownloadEnds == [good |-> "done", bad |-> "failed", empty |-> "stuck"]

Download ==
  /\ fetch = "download"
  /\ \E body \in Body : fetch' = DownloadEnds[body]
  /\ UNCHANGED <<main, symbols, consumers, large, retries>>

FetchUnanswered ==
  /\ Unanswered /\ fetch \in {"url", "download"}
  /\ fetch' = "stuck"
  /\ UNCHANGED <<main, symbols, consumers, large, retries>>

Fetch ==
  FetchUrl \/ FetchUrlRetries \/ FetchUrlThrows \/ Download \/ FetchUnanswered

-----------------------------------------------------------------------------
(* The threads of the consumers *)

\* Its thread waits, at the start or in a reconnect, for a connection that has ended,
\* is kept in its handshake, or gets no message (Silent in ConnectionPool).
Hangs(k) ==
  /\ "silent" \in Faults
  /\ consumers[k].state \in {"starting", "running", "finishing"}
  /\ ~ consumers[k].hung
  /\ consumers' = [consumers EXCEPT ![k].hung = TRUE]
  /\ UNCHANGED <<main, symbols, large, fetch, retries>>

\* Otherwise it gets its connections in the end (StartReturnsUnlessSilent).
Started(k) ==
  /\ consumers[k].state = "starting" /\ ~ consumers[k].hung
  /\ consumers' = [consumers EXCEPT ![k].state = "running"]
  /\ UNCHANGED <<main, symbols, large, fetch, retries>>

\* on_event and push_ob_diff, until the last connection has been deleted.
OnEvent(k) ==
  /\ consumers[k].state \in {"starting", "running", "finishing"}
  /\ ~ consumers[k].callback
  /\ consumers' = [consumers EXCEPT ![k].callback = TRUE]
  /\ UNCHANGED <<main, symbols, large, fetch, retries>>

OnEventReturns(k) ==
  /\ consumers[k].callback
  /\ consumers' = [consumers EXCEPT ![k].callback = FALSE]
  /\ UNCHANGED <<main, symbols, large, fetch, retries>>

\* Told to finish, it has joined its connections (FinishReturnsUnlessSilent).
Ended(k) ==
  /\ consumers[k].state = "finishing" /\ ~ consumers[k].hung
  /\ ~ consumers[k].callback
  /\ consumers' = [consumers EXCEPT ![k].state = "ended"]
  /\ UNCHANGED <<main, symbols, large, fetch, retries>>

Consumer(k) ==
  Hangs(k) \/ Started(k) \/ OnEvent(k) \/ OnEventReturns(k) \/ Ended(k)

-----------------------------------------------------------------------------
(* The destructor *)

Destroy ==
  /\ main = "using"
  /\ main' = "delete"
  /\ UNCHANGED <<symbols, consumers, large, fetch, retries>>

\* Mutant: the consumer is not told.
FinishConsumerUntold(k) ==
  /\ main = "delete" /\ consumers[k].state = "running"
  /\ \A j \in 1..(k - 1) : consumers[j].state = "deleted"
  /\ main' = "join"
  /\ UNCHANGED <<symbols, consumers, large, fetch, retries>>

\* The consumers are deleted in turn: each is told to finish ...
FinishConsumer(k) ==
  /\ main = "delete" /\ consumers[k].state = "running"
  /\ \A j \in 1..(k - 1) : consumers[j].state = "deleted"
  /\ consumers' = [consumers EXCEPT ![k].state = "finishing"]
  /\ main' = "join"
  /\ UNCHANGED <<symbols, large, fetch, retries>>

\* ... and joined.
JoinConsumer(k) ==
  /\ main = "join" /\ consumers[k].state = "ended"
  /\ consumers' = [consumers EXCEPT ![k].state = "deleted"]
  /\ main' = "delete"
  /\ UNCHANGED <<symbols, large, fetch, retries>>

\* Mutant: the large consumer is deleted before the others.
DeleteConsumerFirst ==
  /\ main = "delete"
  /\ large' = "deleted"
  /\ main' = IF \A k \in 1..Len(consumers) : consumers[k].state = "deleted"
             THEN "destroyed" ELSE "delete"
  /\ UNCHANGED <<symbols, consumers, fetch, retries>>

\* delete consumer, delete api: nobody else is left.
DeleteConsumer ==
  /\ main = "delete"
  /\ \A k \in 1..Len(consumers) : consumers[k].state = "deleted"
  /\ large' = "deleted"
  /\ main' = "destroyed"
  /\ UNCHANGED <<symbols, consumers, fetch, retries>>

Destructor ==
  \/ DeleteConsumer
  \/ \E k \in 1..Len(consumers) : FinishConsumer(k) \/ JoinConsumer(k)

ContextNext ==
  \/ Constructor \/ Fetch
  \/ Destroy \/ Destructor
  \/ \E k \in 1..Len(consumers) : Consumer(k)

\* Every thread goes on while it can.  A consumer told to finish stops though
\* messages keep coming.
ContextSpec ==
  /\ ContextInit /\ [][ContextNext]_contextVars
  /\ WF_contextVars(Constructor) /\ WF_contextVars(Fetch) /\ WF_contextVars(Destructor)
  /\ \A k \in 1..MaxSymbols :
       /\ WF_contextVars(k <= Len(consumers) /\ Started(k))
       /\ WF_contextVars(k <= Len(consumers) /\ OnEventReturns(k))
       /\ SF_contextVars(k <= Len(consumers) /\ Ended(k))

-----------------------------------------------------------------------------
ContextTypeOK ==
  /\ main \in {"init_symbols", "new_consumer", "run", "wait", "tail", "get",
               "unwind", "stuck", "thrown", "using", "delete", "join", "destroyed"}
  /\ symbols \in Seq(Listed)
  /\ consumers \in Seq([symbols : Seq(Listed), callback : BOOLEAN,
                        hung : BOOLEAN,
                        state : {"starting", "running", "finishing", "ended",
                                 "deleted"}])
  /\ large \in {"none", "alive", "deleted"}
  /\ fetch \in {"none", "url", "download", "stuck", "done", "failed"}
  /\ retries \in 0..(MaxRetries - 1)

\* A callback runs only while the large consumer it pushes to exists, and the
\* context it finds it through: it is made before the first thread starts and
\* deleted after the last has ended (binance-spot-context.cpp:20-21, 34-37).
\* The code does not keep to this when the constructor throws.
CallbackFindsConsumer ==
  \A k \in 1..Len(consumers) :
    consumers[k].callback => large = "alive" \/ main = "thrown"

\* The thread of get_snapshots is never left running on an Api or a context
\* that is gone, even when the constructor throws.
FetchIsAwaited == FetchRuns => main \in {"tail", "get", "unwind", "stuck"}

\* A context that is ready subscribes to every symbol it was asked for and that
\* is listed, as often as asked, through no more consumers than needed and none
\* with more symbols than a connection takes (binance-spot-context.cpp:63-79).
AllSubscribed ==
  main = "using" =>
    /\ \E cut \in [0..Len(consumers) -> 0..Len(symbols)] :
         /\ cut[0] = 0 /\ cut[Len(consumers)] = Len(symbols)
         /\ \A k \in 1..Len(consumers) :
              /\ cut[k] - cut[k - 1] \in 1..MaxBatch
              /\ consumers[k].symbols = SubSeq(symbols, cut[k - 1] + 1, cut[k])
    /\ Len(consumers) = DivUp(Len(symbols), MaxBatch)

\* A thread that does not come back: from gzip::decompress of an empty archive, from
\* a request without an answer, or from waiting for a connection's first message.
Hung ==
  \/ main = "stuck" \/ fetch = "stuck"
  \/ \E k \in 1..Len(consumers) : consumers[k].hung

\* Whatever else the services answer, the constructor returns or throws: no wait
\* of it, for a consumer, a retry or the other thread, is for ever
\* (binance-spot-context.cpp:14-31).
ConstructorReturnsUnlessHung ==
  main = "init_symbols" ~> main \in {"using", "thrown"} \/ Hung

\* The destructor returns, though messages keep coming.
DestructorReturnsUnlessHung == main = "delete" ~> main = "destroyed" \/ Hung
=============================================================================
