---------------------------- MODULE DiffFeedProofs ----------------------------
(***************************************************************************)
(* What is proved of DiffFeed, and with it of LargeConsumer: for every     *)
(* exchange, every number of symbols, connections and messages, every      *)
(* answer of the services and every content of dead storage.               *)
(***************************************************************************)
EXTENDS DiffFeed, OrderBookOpsProofs

\* What a book keeps from its construction on (IInv of OrderBook).
Sound(b) ==
  /\ b \in Books
  /\ Ordered(b.q)
  /\ \A i \in 1..Len(b.q) : b.q[i].first > b.last
  /\ b.last # Unset /\ ~ b.reported => Shows(b.levels, b.last)

\* A constructed book is sound.
LEMMA EmptyIsSound ==
  ASSUME NEW b \in EmptyBooks
  PROVE  Sound(b) /\ b.last = Unset
<1>1. /\ b.levels = [p \in Levels |-> NoOrder] /\ b.last = Unset
      /\ b.q = <<>> /\ b.qlast \in {0} \cup Garbage /\ b.reported = FALSE
  BY DEF EmptyBooks
<1>2. b \in Books
  <2>1. b.levels \in [Levels -> Amounts] /\ b.reported \in BOOLEAN
    BY <1>1, ConstantsAssumption
  <2>2. b.qlast \in Nat
    <3>1. {0} \cup Garbage \subseteq Nat
      BY ConstantsAssumption
    <3> QED BY <1>1, <3>1, Zenon
  <2>3. b.q \in Seq(Diffs)
    BY <1>1, EmptySeq
  <2> QED BY <1>1, <2>1, <2>2, <2>3 DEF EmptyBooks, Books
<1> QED BY <1>1, <1>2 DEF Sound, Ordered

\* A snapshot makes a sound book of a constructed one.
LEMMA SnapshotIsSound ==
  ASSUME NEW b \in EmptyBooks, NEW s \in Snapshots
  PROVE  Sound(AfterSnapshot(b, s))
<1> DEFINE c == AfterSnapshot(b, s)
<1>1. /\ PutOrders(b.levels, s.orders) \in [Levels -> Amounts]
      /\ Shows(PutOrders(b.levels, s.orders), s.last)
  BY SnapshotShows
<1>2. s.last \in 0..LastId
  BY SnapshotsAssumption
<1>3. b \in Books /\ b.q = <<>>
  BY EmptyIsSound DEF Sound, EmptyBooks
<1>4. c \in Books /\ c.levels = PutOrders(b.levels, s.orders) /\ c.last = s.last
      /\ c.q = <<>>
  BY <1>1, <1>2, <1>3 DEF AfterSnapshot, Books
<1> HIDE DEF c
<1>5. Sound(c)
  BY <1>1, <1>4 DEF Sound, Ordered
<1> QED BY <1>5 DEF c

\* A diff keeps a started book sound.
LEMMA DiffIsSound ==
  ASSUME NEW b, Sound(b), b.last # Unset, NEW d \in Diffs, NEW c \in AfterDiff(b, d)
  PROVE  Sound(c)
<1>1. /\ c \in Books
      /\ Ordered(c.q) /\ \A i \in 1..Len(c.q) : c.q[i].first > c.last
      /\ (~ b.reported => Shows(b.levels, b.last)) /\ ~ c.reported
           => Shows(c.levels, c.last)
  BY AfterDiffProperties DEF Sound
<1> QED BY <1>1 DEF Sound

-----------------------------------------------------------------------------
(* The inductive invariant *)

\* The mutex is held by the loop of try_init_data alone; diffs reach the books only
\* from there and, once it is over, from the pushes; and no book is touched before
\* the snapshots are applied.
IInv ==
  /\ TypeOK
  /\ mutexFree <=> main # "loop"
  /\ is_ready <=> main = "ready"
  /\ main \in {"set_snapshots", "set_tail", "try_init"} =>
       at = 0 /\ books \in [Symbols -> EmptyBooks]
  /\ \A t \in Threads : pc[t] = "put" => main = "ready"
  /\ \A t \in Threads : pc[t] \notin {"receive", "dead"} => arg[t] \in Messages
  /\ \A s \in Symbols : Sound(books[s])

\* The loop of try_init_data passes diffs of the exchange.
LEMMA IncomingMessage ==
  ASSUME IInv, NEW m, NextIncoming(m)
  PROVE  /\ m.diff \in Diffs
         /\ at + 1 \in 0..(Len(answer.tail) + Len(buffer))
<1>1. answer.tail \in Seq({x \in Range(answer.tail) : x.diff \in Diffs})
  BY ConsumerAssumption DEF IInv, TypeOK, ConsumerTypeOK
<1>2. buffer \in Seq({x \in Messages : x.diff \in Diffs})
  BY ConsumerAssumption DEF IInv, TypeOK, ConsumerTypeOK
<1> DEFINE S == {x \in Range(answer.tail) \cup Messages : x.diff \in Diffs}
<1>3. answer.tail \in Seq(S) /\ buffer \in Seq(S)
  BY <1>1, <1>2
<1>4. ob_diffs_tail \subseteq {answer.tail}
  BY DEF IInv, TypeOK, ConsumerTypeOK
<1>5. PICK incoming \in Incoming : at < Len(incoming) /\ m = incoming[at + 1]
  BY DEF NextIncoming
<1>6. incoming = answer.tail \o buffer
  BY <1>4, <1>5 DEF Incoming
<1>7. at \in Nat
  BY <1>3 DEF IInv, TypeOK, ConsumerTypeOK
<1>8. incoming \in Seq(S) /\ Len(incoming) = Len(answer.tail) + Len(buffer)
  BY <1>3, <1>6
<1>9. m \in S
  BY <1>5, <1>7, <1>8
<1> QED BY <1>5, <1>7, <1>8, <1>9

LEMMA FinalInRange ==
  ASSUME NEW d \in Diffs
  PROVE  d.final \in 0..LastId
BY DiffsAssumption, ConstantsAssumption

\* The tail that the service may answer is a sequence.
LEMMA TailIsSequence ==
  ASSUME NEW a \in Answers
  PROVE  a.tail \in Seq(Range(a.tail)) /\ Len(a.tail) \in Nat
<1>1. a.tail \in Seq({m \in Range(a.tail) : m.diff \in Diffs})
  BY ConsumerAssumption
<1> DEFINE S == {m \in Range(a.tail) : m.diff \in Diffs}
<1>2. S \subseteq Range(a.tail)
  OBVIOUS
<1> HIDE DEF S
<1> QED BY <1>1, <1>2 DEF S

\* apply_diff of one symbol leaves all the books sound.
LEMMA PutIsSound ==
  ASSUME books \in [Symbols -> Books], \A s \in Symbols : Sound(books[s]),
         NEW m, m.symbol \in Symbols, m.diff \in Diffs, ~ PutThrows(m), PutDiff(m)
  PROVE  books' \in [Symbols -> Books] /\ \A s \in Symbols : Sound(books'[s])
<1>1. PICK b \in AfterDiff(books[m.symbol], m.diff) :
        books' = [books EXCEPT ![m.symbol] = b]
  BY DEF PutDiff
<1>2. Sound(b)
  BY DiffIsSound DEF PutThrows
<1>3. b \in Books
  BY <1>2 DEF Sound
<1> HIDE DEF Sound
<1> QED BY <1>1, <1>2, <1>3

\* The constructor's thread keeps the invariant.
LEMMA MainIInv ==
  ASSUME IInv, Main, UNCHANGED <<feed, fed, keys>>
  PROVE  IInv'
<1> USE DEF IInv, TypeOK, ConsumerTypeOK, pushVars
<1>1. CASE SetSnapshots
  BY <1>1 DEF SetSnapshots
<1>2. CASE SetDiffsTail
  BY <1>2 DEF SetDiffsTail
<1>3. CASE TryInitTooEarly
  BY <1>3 DEF TryInitTooEarly
<1>4. CASE TryInitSnapshots
  <2>1. PICK found \in ob_snapshots :
          /\ books' = [s \in Symbols |-> IF s \in Used(found)
                                         THEN AfterSnapshot(books[s], found[s])
                                         ELSE books[s]]
          /\ symbol2last' = [s \in Symbols |-> IF s \in Used(found)
                                               THEN found[s].last ELSE 0]
    BY <1>4 DEF TryInitSnapshots
  <2>2. found = answer.snapshots /\ \A s \in Used(found) : found[s] \in Snapshots
    BY <2>1, ConsumerAssumption DEF Used
  <2>3. /\ main = "try_init" /\ main' = "loop" /\ mutexFree' = FALSE
        /\ UNCHANGED <<answer, is_ready, ob_snapshots, ob_diffs_tail, buffer, at,
                       pc, arg>>
    BY <1>4 DEF TryInitSnapshots
  <2>4. ASSUME NEW s \in Symbols PROVE Sound(books'[s])
    <3>1. books[s] \in EmptyBooks
      BY <2>3
    <3>2. Sound(books[s])
      BY <3>1, EmptyIsSound
    <3>3. CASE s \in Used(found)
      <4>1. Sound(AfterSnapshot(books[s], found[s]))
        BY <2>2, <3>1, <3>3, SnapshotIsSound
      <4> QED BY <2>1, <3>3, <4>1
    <3>4. CASE s \notin Used(found)
      BY <2>1, <3>2, <3>4
    <3> QED BY <3>3, <3>4
  <2>5. books' \in [Symbols -> Books]
    BY <2>1, <2>4 DEF Sound
  <2>6. symbol2last' \in [Symbols -> 0..LastId]
    BY <2>1, <2>2, SnapshotsAssumption, ConstantsAssumption
  <2> QED BY <2>3, <2>4, <2>5, <2>6
<1>5. CASE InitDone
  BY <1>5 DEF InitDone
<1>6. ASSUME NEW m, InitSkip(m) PROVE IInv'
  BY <1>6, IncomingMessage DEF InitSkip, NextIncoming
<1>7. ASSUME NEW m, InitPut(m) PROVE IInv'
  <2>1. m.diff \in Diffs /\ at + 1 \in 0..(Len(answer.tail) + Len(buffer))
    BY <1>7, IncomingMessage DEF InitPut
  <2>2. m.symbol \in Symbols
    BY <1>7 DEF InitPut, Skipped
  <2>3. books' \in [Symbols -> Books] /\ \A s \in Symbols : Sound(books'[s])
    BY <1>7, <2>1, <2>2, PutIsSound DEF InitPut
  <2>4. m.diff.final \in 0..LastId
    BY <2>1, FinalInRange
  <2> QED BY <1>7, <2>1, <2>3, <2>4 DEF InitPut, NextIncoming
<1>8. ASSUME NEW m, InitThrow(m) PROVE IInv'
  BY <1>8 DEF InitThrow, NextIncoming
<1> QED BY <1>1, <1>2, <1>3, <1>4, <1>5, <1>6, <1>7, <1>8 DEF Main

\* So does each step of a push.
LEMMA PushIInv ==
  ASSUME IInv, NEW t \in Threads, Push(t), UNCHANGED <<feed, fed, keys>>
  PROVE  IInv'
<1> USE DEF IInv, TypeOK, ConsumerTypeOK, initVars
<1>1. CASE CheckReady(t)
  BY <1>1 DEF CheckReady
<1>2. CASE LockAndBuffer(t)
  <2>1. arg[t] \in Messages /\ buffer \in Seq(Messages)
    BY <1>2 DEF LockAndBuffer
  <2>2. buffer' \in Seq(Messages) /\ Len(buffer') = Len(buffer) + 1
    BY <1>2, <2>1 DEF LockAndBuffer
  <2>3. Len(answer.tail) \in Nat /\ Len(buffer) \in Nat
    BY <2>1, TailIsSequence
  <2>4. at \in 0..(Len(answer.tail) + Len(buffer'))
    <3>1. at \in 0..(Len(answer.tail) + Len(buffer))
      OBVIOUS
    <3> DEFINE k == Len(answer.tail)
               n == Len(buffer)
    <3>2. k \in Nat /\ n \in Nat /\ at \in 0..(k + n)
      BY <2>3, <3>1
    <3> HIDE DEF k, n
    <3>3. at \in 0..(k + (n + 1))
      BY <3>2
    <3> QED BY <2>2, <3>3 DEF k, n
  <2> QED BY <1>2, <2>2, <2>4 DEF LockAndBuffer
<1>3. CASE LockAndGoOn(t)
  BY <1>3 DEF LockAndGoOn
<1>4. CASE Put(t)
  <2>1. arg[t] \in Messages /\ main = "ready"
    BY <1>4 DEF Put
  <2>2. arg[t].symbol \in Symbols /\ arg[t].diff \in Diffs
    BY <2>1, ConsumerAssumption
  <2>3. books' \in [Symbols -> Books] /\ \A s \in Symbols : Sound(books'[s])
    BY <1>4, <2>2, PutIsSound DEF Put
  <2> QED BY <1>4, <2>1, <2>3 DEF Put
<1>5. CASE PutThrow(t)
  BY <1>5 DEF PutThrow
<1> QED BY <1>1, <1>2, <1>3, <1>4, <1>5 DEF Push

\* And what a connection brings.
LEMMA EventIInv ==
  ASSUME IInv, NEW t \in Threads, NEW m \in Messages,
         OnKnownEvent(t, m) \/ OnNewEvent(t, m)
  PROVE  IInv'
<1> USE DEF IInv, TypeOK, ConsumerTypeOK, Brings
<1>1. feed \in [Threads -> Seq(Messages)]
  BY FeedAssumption
<1>2. fed' \in [Threads -> Nat] /\ (\A u \in Threads : fed'[u] <= Len(feed[u]))
      /\ feed' = feed
  <2>1. /\ fed[t] < Len(feed[t]) /\ fed' = [fed EXCEPT ![t] = @ + 1]
        /\ feed' = feed
    BY DEF OnKnownEvent, OnNewEvent
  <2>2. Len(feed[t]) \in Nat /\ fed[t] \in Nat
    BY <1>1
  <2> QED BY <2>1, <2>2
<1>3. CASE OnKnownEvent(t, m)
  BY <1>2, <1>3 DEF OnKnownEvent, consumerVars, initVars, pushVars
<1>4. CASE OnNewEvent(t, m)
  <2>1. keys' \in [Symbols -> SUBSET Messages]
    BY <1>4, ConsumerAssumption DEF OnNewEvent
  <2> QED BY <1>2, <1>4, <2>1 DEF OnNewEvent, Receive, initVars
<1> QED BY <1>3, <1>4

\* IInv holds in every reachable state.
THEOREM Invariance == Spec => []IInv
<1>1. Init => IInv
  <2> SUFFICES ASSUME Init PROVE IInv
    OBVIOUS
  <2>1. \A s \in Symbols : books[s] \in EmptyBooks
    BY DEF Init, ConsumerInit
  <2>2. \A s \in Symbols : Sound(books[s])
    BY <2>1, EmptyIsSound
  <2>3. books \in [Symbols -> Books]
    BY <2>2 DEF Sound, Init, ConsumerInit
  <2>4. answer.tail \in Seq(Range(answer.tail)) /\ Len(answer.tail) \in Nat
    BY TailIsSequence DEF Init, ConsumerInit
  <2>5. ConsumerTypeOK
    BY <2>3, <2>4, ConstantsAssumption DEF Init, ConsumerInit, ConsumerTypeOK
  <2>6. TypeOK
    BY <2>5, FeedAssumption DEF Init, TypeOK
  <2> QED BY <2>2, <2>6 DEF Init, ConsumerInit, IInv
<1>2. IInv /\ [Next]_vars => IInv'
  <2>1. ASSUME IInv, UNCHANGED vars PROVE IInv'
    BY <2>1 DEF IInv, TypeOK, ConsumerTypeOK, vars, consumerVars, initVars, pushVars
  <2> QED BY <2>1, MainIInv, PushIInv, EventIInv DEF Next, Connection
<1> QED BY <1>1, <1>2, PTL DEF Spec

\* The variables keep their types.
THEOREM TypeCorrect == Spec => []TypeOK
<1>1. IInv => TypeOK
  BY DEF IInv
<1> QED BY <1>1, Invariance, PTL

\* No push touches a book while try_init_data is at work on them, however many
\* connections there are and wherever each is between its two reads of is_ready.
THEOREM StartExcludes == Spec => []StartIsExclusive
<1>1. IInv => StartIsExclusive
  BY DEF IInv, StartIsExclusive
<1> QED BY <1>1, Invariance, PTL

\* All books of the consumer are the exchange's, each at its last_update_id, unless
\* one has reported a gap: through the start, the interleaving of the connections
\* and their reconnects, whatever is lost or comes twice.
THEOREM ConsistentUnlessReported ==
  Spec => [](\A s \in Symbols :
               books[s].last # Unset /\ ~ books[s].reported =>
                 Shows(books[s].levels, books[s].last))
<1>1. IInv => \A s \in Symbols :
                books[s].last # Unset /\ ~ books[s].reported =>
                  Shows(books[s].levels, books[s].last)
  BY DEF IInv, Sound
<1> QED BY <1>1, Invariance, PTL

-----------------------------------------------------------------------------
(* Nothing is lost: the inductive invariant *)

\* The loop over tail and buffer has begun, and has not failed.
Started == main \in {"loop", "ready"}

\* The book of m has passed it, or keeps it in its queue.
Done(m) == m.diff.final <= books[m.symbol].last \/ Waits(books[m.symbol].q, m.diff)

\* What has been read is known, and nothing else; a message in push_ob_diff is the
\* last its connection has read.
KeysAreRead ==
  /\ \A s \in Symbols : \A m \in keys[s] : m.symbol = s
  /\ \A t \in Threads : \A n \in 1..fed[t] : feed[t][n] \in keys[feed[t][n].symbol]
  /\ \A t \in Threads : Holding(t) => fed[t] > 0 /\ arg[t] = feed[t][fed[t]]
  /\ \A t \in Late : fed[t] > 0 => main = "ready"

\* Until the start is over, the buffer holds what the first connections have read,
\* for each symbol in the order of the exchange.
BufferInOrder ==
  main # "ready" =>
    /\ \A k \in 1..Len(buffer) :
         \E t \in Threads \ Late : \E n \in 1..fed[t] :
           buffer[k] = feed[t][n] /\ (Holding(t) => n < fed[t])
    /\ \A j, k \in 1..Len(buffer) :
         j < k /\ buffer[j].symbol = buffer[k].symbol =>
           buffer[j].diff.final < buffer[k].diff.first

\* A message that was read is in push_ob_diff, in the part of the buffer that is
\* still to be passed, or with its book.
Placed(m) ==
  \/ \E t \in Threads : Holding(t) /\ arg[t] = m
  \/ main # "ready" /\ \E k \in 1..Len(buffer) : k > at - Len(answer.tail) /\ buffer[k] = m
  \/ Started /\ Done(m)

AllPlaced ==
  main # "thrown" =>
    \A s \in Used(answer.snapshots) : \A m \in keys[s] : Placed(m)

\* So is what the loop has passed of the tail.
TailDone ==
  Started =>
    \A k \in 1..Len(answer.tail) :
      (main = "loop" => k <= at) /\ answer.tail[k].symbol \in Used(answer.snapshots) =>
        Done(answer.tail[k])

\* A book with a snapshot waits for the update that comes next, with what it has
\* read of later ones; the loop leaves nothing in the queues, and its
\* symbol2last_update_id does not run ahead of the books.
BookInStep(s) ==
  LET b == books[s] IN
  /\ b.last >= answer.snapshots[s].last
  /\ Len(b.q) < MaxSize /\ b.qlast <= b.last
  /\ \A k \in 1..Len(b.q) : b.q[k].first > b.last + 1 /\ b.q[k] \in Received(s)
  /\ main = "loop" => b.last >= symbol2last[s] /\ b.q = <<>>

BooksInStep ==
  /\ main = "loop" => ob_diffs_tail = {answer.tail}
  /\ Started => \A s \in Used(answer.snapshots) : BookInStep(s)
  /\ \A s \in Symbols : s \notin Used(answer.snapshots) =>
       books[s].last = Unset /\ ~ books[s].reported

Delivery == KeysAreRead /\ BufferInOrder /\ AllPlaced /\ TailDone /\ BooksInStep

-----------------------------------------------------------------------------
(* The feed and the books *)

LEMMA DiffRange ==
  /\ LastId \in Nat
  /\ \A d \in Diffs : /\ d.first \in Nat /\ d.final \in Nat
                      /\ d.first <= d.final /\ d.first >= 1
  /\ \A d, e \in Diffs : d = e \/ d.final < e.first \/ e.final < d.first
BY DiffsAssumption, ConstantsAssumption

LEMMA FeedFacts ==
  ASSUME IInv, NEW t \in Threads
  PROVE  /\ feed[t] \in Seq(Messages) /\ Len(feed[t]) \in Nat
         /\ fed[t] \in Nat /\ fed[t] <= Len(feed[t])
         /\ \A n \in 1..Len(feed[t]) :
              /\ feed[t][n] \in Messages
              /\ feed[t][n].symbol \in Symbols /\ feed[t][n].diff \in Diffs
         /\ \A j, k \in 1..Len(feed[t]) :
              j < k /\ feed[t][j].symbol = feed[t][k].symbol =>
                feed[t][j].diff.final < feed[t][k].diff.first
<1>1. feed \in Feeds /\ fed[t] \in Nat /\ fed[t] <= Len(feed[t])
  BY DEF IInv, TypeOK
<1>2. feed[t] \in Seq(Messages)
  BY <1>1, FeedAssumption
<1>3. \A n \in 1..Len(feed[t]) : feed[t][n] \in Messages
  BY <1>2
<1>4. \A j, k \in 1..Len(feed[t]) :
        j < k /\ feed[t][j].symbol = feed[t][k].symbol =>
          feed[t][j].diff.final < feed[t][k].diff.first
  BY <1>1, SeamlessAssumption
<1> QED BY <1>1, <1>2, <1>3, <1>4, ConsumerAssumption

LEMMA TailFacts ==
  ASSUME IInv
  PROVE  /\ answer \in Answers /\ Len(answer.tail) \in Nat
         /\ \A n \in 1..Len(answer.tail) : answer.tail[n].diff \in Diffs
         /\ \A j, k \in 1..Len(answer.tail) :
              j < k /\ answer.tail[j].symbol = answer.tail[k].symbol =>
                answer.tail[j].diff.final < answer.tail[k].diff.first
         /\ Used(answer.snapshots) \subseteq Symbols
         /\ \A s \in Used(answer.snapshots) : answer.snapshots[s].last \in 0..LastId
<1>1. answer \in Answers
  BY DEF IInv, TypeOK, ConsumerTypeOK
<1>2. answer.tail \in Seq({m \in Range(answer.tail) : m.diff \in Diffs})
  BY <1>1, ConsumerAssumption
<1>3. /\ Len(answer.tail) \in Nat
      /\ \A n \in 1..Len(answer.tail) :
           answer.tail[n] \in {m \in Range(answer.tail) : m.diff \in Diffs}
  BY <1>2
<1>4. \A n \in 1..Len(answer.tail) : answer.tail[n].diff \in Diffs
  BY <1>3
<1>5. \A s \in Used(answer.snapshots) : answer.snapshots[s].last \in 0..LastId
  BY <1>1, ConsumerAssumption, SnapshotsAssumption DEF Used
<1>6. Used(answer.snapshots) \subseteq Symbols
  BY DEF Used
<1> QED BY <1>1, <1>3, <1>4, <1>5, <1>6, SeamlessAssumption

LEMMA BookFacts ==
  ASSUME IInv, NEW s \in Symbols
  PROVE  /\ books[s] \in Books /\ books[s].last \in Int /\ books[s].q \in Seq(Diffs)
         /\ Len(books[s].q) \in Nat /\ books[s].last <= LastId
         /\ \A k \in 1..Len(books[s].q) : books[s].q[k] \in Diffs
         /\ Ordered(books[s].q) /\ \A k \in 1..Len(books[s].q) :
              books[s].q[k].first > books[s].last
<1>1. books[s] \in Books
  BY DEF IInv, TypeOK, ConsumerTypeOK
<1>2. /\ Ordered(books[s].q)
      /\ \A k \in 1..Len(books[s].q) : books[s].q[k].first > books[s].last
  BY DEF IInv, Sound
<1> QED BY <1>1, <1>2, ConstantsAssumption DEF Books, Unset

\* What apply_diff does to a book in step: it passes or keeps the diff, and passes
\* or keeps what it kept.
LEMMA PutDone ==
  ASSUME Garbage = {}, IInv, BooksInStep, Started,
         NEW m, m.symbol \in Used(answer.snapshots), m.diff \in Diffs, PutDiff(m)
  PROVE  /\ \A x : x.symbol \in Symbols /\ x.diff \in Diffs /\ Done(x) => Done(x)'
         /\ Done(m)'
         /\ \A s \in Symbols : s # m.symbol => books'[s] = books[s]
         /\ LET b == books[m.symbol]
                c == books'[m.symbol]
            IN /\ c.last >= b.last /\ c.last \in Int
               /\ Len(c.q) < MaxSize /\ c.qlast <= c.last /\ c.q \in Seq(Diffs)
               /\ \A k \in 1..Len(c.q) : c.q[k].first > c.last + 1
               /\ \A e : Waits(c.q, e) => Waits(b.q, e) \/ e = m.diff
               /\ c.reported /\ ~ b.reported =>
                    /\ m.diff.first > b.last + 1
                    /\ Len(Queued(b.q, m.diff)) = MaxSize
<1> DEFINE s == m.symbol
           b == books[s]
           c == books'[s]
<1>1. /\ s \in Symbols /\ answer.snapshots[s].last \in 0..LastId
  BY TailFacts
<1>2. PICK x \in AfterDiff(books[s], m.diff) : books' = [books EXCEPT ![s] = x]
  BY DEF PutDiff
<1>3. /\ c = x /\ \A r \in Symbols : r # s => books'[r] = books[r]
  BY <1>1, <1>2 DEF IInv, TypeOK, ConsumerTypeOK
<1>4. /\ b \in Books /\ Ordered(b.q) /\ Len(b.q) < MaxSize /\ b.qlast <= b.last
      /\ \A k \in 1..Len(b.q) : b.q[k].first > b.last + 1
      /\ \A k \in 1..Len(b.q) : b.q[k].first > b.last
      /\ b.last \in Int /\ b.last # Unset
  <2>1. /\ b.last >= answer.snapshots[s].last /\ Len(b.q) < MaxSize
        /\ b.qlast <= b.last /\ \A k \in 1..Len(b.q) : b.q[k].first > b.last + 1
    BY DEF BooksInStep, BookInStep
  <2>2. b.last # Unset
    BY <1>1, <2>1, BookFacts DEF Unset
  <2> QED BY <1>1, <2>1, <2>2, BookFacts
<1>5. c \in AfterDiff(b, m.diff)
  BY <1>2, <1>3
<1> HIDE DEF b, c, s
<1> DEFINE d == m.diff
<1>d. d \in Diffs /\ c \in AfterDiff(b, d)
  BY <1>5
<1> HIDE DEF d
<1>5a. c \in Books /\ c.last >= b.last
  BY <1>4, <1>d, AfterDiffProperties
<1>5b. /\ Len(c.q) < MaxSize /\ \A k \in 1..Len(c.q) : c.q[k].first > c.last + 1
       /\ c.qlast <= c.last
       /\ c.reported /\ ~ b.reported =>
            d.first > b.last + 1 /\ Len(Queued(b.q, d)) = MaxSize
  BY <1>4, <1>d, AfterDiffIntact
<1>5c. /\ \A e : Waits(b.q, e) \/ e = d => e.final <= c.last \/ Waits(c.q, e)
       /\ \A e : Waits(c.q, e) => Waits(b.q, e) \/ e = d
  BY <1>4, <1>d, AfterDiffKeeps
<1>6. /\ c \in Books /\ c.last >= b.last
      /\ Len(c.q) < MaxSize /\ \A k \in 1..Len(c.q) : c.q[k].first > c.last + 1
      /\ c.qlast <= c.last
      /\ c.reported /\ ~ b.reported =>
           m.diff.first > b.last + 1 /\ Len(Queued(b.q, m.diff)) = MaxSize
      /\ \A e : Waits(b.q, e) \/ e = m.diff => e.final <= c.last \/ Waits(c.q, e)
      /\ \A e : Waits(c.q, e) => Waits(b.q, e) \/ e = m.diff
  BY <1>5a, <1>5b, <1>5c DEF d
<1>7. c.last \in Int /\ c.q \in Seq(Diffs)
  BY <1>6, ConstantsAssumption DEF Books, Unset
<1>8. ASSUME NEW y, y.symbol \in Symbols, y.diff \in Diffs, Done(y) PROVE Done(y)'
  <2>1. CASE y.symbol # s
    BY <1>3, <1>8, <2>1 DEF Done
  <2>2. CASE y.symbol = s
    <3>1. y.diff.final <= b.last \/ Waits(b.q, y.diff)
      BY <1>8, <2>2 DEF Done, b
    <3>2. y.diff.final <= c.last \/ Waits(c.q, y.diff)
      <4>1. CASE Waits(b.q, y.diff)
        BY <1>6, <4>1
      <4>2. CASE y.diff.final <= b.last
        BY <1>4, <1>6, <1>7, <1>8, <4>2, DiffRange
      <4> QED BY <3>1, <4>1, <4>2
    <3> QED BY <2>2, <3>2 DEF Done, c
  <2> QED BY <2>1, <2>2
<1>9. Done(m)'
  BY <1>6 DEF Done, c, s
<1> QED BY <1>3, <1>6, <1>7, <1>8, <1>9 DEF b, c, s

\* A diff that continues a book has neither been passed by it, nor does it wait.
LEMMA NextIsNotDone ==
  ASSUME IInv, NEW s \in Used(answer.snapshots), BookInStep(s),
         NEW m, m.symbol = s, m.diff \in Diffs,
         books[s].last + 1 \in m.diff.first..m.diff.final
  PROVE  ~ Done(m)
<1>1. books[s].last \in Int /\ m.diff.first \in Int /\ m.diff.final \in Int
  BY TailFacts, BookFacts, DiffRange
<1>2. ~ Waits(books[s].q, m.diff)
  BY <1>1 DEF BookInStep, Waits
<1> QED BY <1>1, <1>2 DEF Done

\* What a book needs next is a number after its snapshot.
LEMMA NextIsNeeded ==
  ASSUME IInv, NEW s \in Used(answer.snapshots), BookInStep(s),
         NEW d \in Diffs, books[s].last + 1 < d.first
  PROVE  books[s].last + 1 \in Needed(answer, s, d)
<1>1. /\ answer.snapshots[s].last \in Int /\ books[s].last \in Int
      /\ d.first \in Int /\ d.final \in Int /\ d.first <= d.final
      /\ books[s].last >= answer.snapshots[s].last
  BY TailFacts, BookFacts, DiffRange DEF BookInStep
<1> QED BY <1>1 DEF Needed

\* A diff that covers a number before another's first does not come after it.
LEMMA CoversBefore ==
  ASSUME NEW d \in Diffs, NEW e \in Diffs, NEW n \in Int,
         n \in e.first..e.final, n < d.first
  PROVE  e # d /\ ~ (d.final < e.first) /\ e.final < d.first
BY DiffRange

-----------------------------------------------------------------------------
(* The invariant through an event *)

LEMMA EventDelivers ==
  ASSUME IInv, Delivery, NEW t \in Threads, NEW m \in Messages,
         OnKnownEvent(t, m) \/ OnNewEvent(t, m)
  PROVE  Delivery'
<1>1. /\ pc[t] = "receive" /\ fed[t] < Len(feed[t]) /\ m = feed[t][fed[t] + 1]
      /\ t \in Late => main = "ready"
      /\ fed' = [fed EXCEPT ![t] = @ + 1] /\ feed' = feed
      /\ UNCHANGED <<books, is_ready, mutexFree, buffer, initVars>>
      /\ m.symbol \in Symbols
  BY ConsumerAssumption
  DEF OnKnownEvent, OnNewEvent, Brings, Receive, consumerVars
<1>2. /\ fed \in [Threads -> Nat] /\ keys \in [Symbols -> SUBSET Messages]
      /\ pc \in [Threads -> {"receive", "check", "lock", "put", "dead"}]
      /\ arg \in [Threads -> Messages \cup {NoMessage}]
  BY DEF IInv, TypeOK, ConsumerTypeOK
<1>3. /\ fed'[t] = fed[t] + 1 /\ \A u \in Threads \ {t} : fed'[u] = fed[u]
      /\ \A u \in Threads : fed'[u] \in Nat /\ fed[u] \in Nat /\ fed'[u] >= fed[u]
  BY <1>1, <1>2
\* Either way the message is known afterwards, and who held one holds it.
<1>4. /\ \A s \in Symbols : keys[s] \subseteq keys'[s]
      /\ \A s \in Symbols : \A x \in keys'[s] :
           x \in keys[s] \/ (x = m /\ s = m.symbol /\ Holding(t)' /\ arg'[t] = m)
      /\ m \in keys'[m.symbol]
      /\ \A u \in Threads \ {t} : (Holding(u)' <=> Holding(u)) /\ arg'[u] = arg[u]
      /\ Holding(t)' => arg'[t] = m
      /\ ~ Holding(t)
  <2>1. CASE OnKnownEvent(t, m)
    BY <1>1, <2>1 DEF OnKnownEvent, consumerVars, pushVars, Holding
  <2>2. CASE OnNewEvent(t, m)
    BY <1>1, <1>2, <2>2 DEF OnNewEvent, Receive, Holding
  <2> QED BY <2>1, <2>2
<1>5. KeysAreRead'
  <2>1. \A s \in Symbols : \A x \in keys'[s] : x.symbol = s
    BY <1>4 DEF Delivery, KeysAreRead
  <2>2. ASSUME NEW u \in Threads, NEW n \in 1..fed'[u]
        PROVE  feed'[u][n] \in keys'[feed'[u][n].symbol]
    <3>1. CASE n \in 1..fed[u]
      <4>1. feed[u][n] \in keys[feed[u][n].symbol] /\ feed[u][n].symbol \in Symbols
        BY <3>1, <1>3, FeedFacts DEF Delivery, KeysAreRead
      <4> QED BY <1>1, <1>4, <4>1
    <3>2. CASE n \notin 1..fed[u]
      <4>1. u = t /\ n = fed[t] + 1
        BY <1>3, <3>2
      <4> QED BY <1>1, <1>4, <4>1
    <3> QED BY <3>1, <3>2
  <2>3. ASSUME NEW u \in Threads, Holding(u)'
        PROVE  fed'[u] > 0 /\ arg'[u] = feed'[u][fed'[u]]
    BY <1>1, <1>3, <1>4, <2>3 DEF Delivery, KeysAreRead
  <2>4. ASSUME NEW u \in Late, fed'[u] > 0 PROVE main' = "ready"
    BY <1>1, <1>3, <2>4, FeedAssumption DEF Delivery, KeysAreRead, initVars
  <2> QED BY <2>1, <2>2, <2>3, <2>4 DEF KeysAreRead
<1>6. BufferInOrder'
  <2>1. buffer' = buffer /\ main' = main /\ feed' = feed
    BY <1>1 DEF initVars
  <2>2. ASSUME main # "ready", NEW k \in 1..Len(buffer)
        PROVE  \E u \in Threads \ Late : \E n \in 1..fed'[u] :
                 buffer[k] = feed[u][n] /\ (Holding(u)' => n < fed'[u])
    <3>1. PICK u \in Threads \ Late :
            \E n \in 1..fed[u] : buffer[k] = feed[u][n] /\ (Holding(u) => n < fed[u])
      BY <2>2 DEF Delivery, BufferInOrder
    <3>2. PICK n \in 1..fed[u] : buffer[k] = feed[u][n] /\ (Holding(u) => n < fed[u])
      BY <3>1
    <3>3. n \in 1..fed'[u] /\ (Holding(u)' => n < fed'[u])
      BY <1>3, <1>4, <3>2
    <3> QED BY <3>2, <3>3
  <2> QED BY <2>1, <2>2 DEF Delivery, BufferInOrder
<1>7. AllPlaced'
  <2> SUFFICES ASSUME main # "thrown", NEW s \in Used(answer.snapshots),
                      NEW x \in keys'[s]
               PROVE  Placed(x)'
    BY <1>1 DEF AllPlaced, initVars
  <2>1. s \in Symbols
    BY TailFacts
  <2>2. CASE x \in keys[s]
    <3>1. Placed(x)
      BY <2>2 DEF Delivery, AllPlaced
    <3> QED BY <1>1, <1>4, <3>1 DEF Placed, Started, Done, initVars
  <2>3. CASE x \notin keys[s]
    BY <1>4, <2>1, <2>3 DEF Placed
  <2> QED BY <2>2, <2>3
<1>8. TailDone'
  BY <1>1 DEF Delivery, TailDone, Started, Done, initVars
<1>9. BooksInStep'
  <2>1. \A s : Received(s) \subseteq Received(s)'
    BY <1>1, <1>3 DEF Received
  <2>2. ASSUME NEW s \in Used(answer.snapshots), BookInStep(s) PROVE BookInStep(s)'
    BY <1>1, <2>1, <2>2 DEF BookInStep, initVars
  <2> QED BY <1>1, <2>2 DEF Delivery, BooksInStep, Started, initVars
<1> QED BY <1>5, <1>6, <1>7, <1>8, <1>9 DEF Delivery

-----------------------------------------------------------------------------
(* The invariant through push_ob_diff *)

\* What is in push_ob_diff has been read, and is known.
LEMMA HeldIsRead ==
  ASSUME IInv, KeysAreRead, NEW t \in Threads, Holding(t)
  PROVE  /\ fed[t] \in 1..Len(feed[t]) /\ arg[t] = feed[t][fed[t]]
         /\ arg[t].symbol \in Symbols /\ arg[t].diff \in Diffs
         /\ arg[t] \in keys[arg[t].symbol]
         /\ arg[t].diff \in Received(arg[t].symbol)
<1>1. fed[t] \in 1..Len(feed[t]) /\ arg[t] = feed[t][fed[t]]
  BY FeedFacts DEF KeysAreRead
<1>2. fed[t] \in 1..fed[t]
  BY <1>1
<1> QED BY <1>1, <1>2, FeedFacts DEF KeysAreRead, Received

\* The reads of is_ready hold what they held.
LEMMA StillHeldDelivers ==
  ASSUME IInv, Delivery, NEW t \in Threads, CheckReady(t) \/ LockAndGoOn(t),
         UNCHANGED <<feed, fed, keys>>
  PROVE  Delivery'
<1>1. /\ UNCHANGED <<books, is_ready, mutexFree, buffer, initVars, arg>>
      /\ \A u \in Threads : Holding(u)' <=> Holding(u)
  BY DEF CheckReady, LockAndGoOn, Holding, IInv, TypeOK, ConsumerTypeOK
<1>2. KeysAreRead'
  BY <1>1 DEF Delivery, KeysAreRead, initVars
<1>3. BufferInOrder'
  BY <1>1 DEF Delivery, BufferInOrder, initVars
<1>4. AllPlaced'
  BY <1>1 DEF Delivery, AllPlaced, Placed, Started, Done, initVars
<1>5. TailDone'
  BY <1>1 DEF Delivery, TailDone, Started, Done, initVars
<1>6. BooksInStep'
  BY <1>1 DEF Delivery, BooksInStep, BookInStep, Started, Received, initVars
<1> QED BY <1>2, <1>3, <1>4, <1>5, <1>6 DEF Delivery

\* Into the buffer, behind what the same connection has brought.
LEMMA BufferDelivers ==
  ASSUME OneAtStart, IInv, Delivery, NEW t \in Threads, LockAndBuffer(t),
         UNCHANGED <<feed, fed, keys>>
  PROVE  Delivery'
<1>1. /\ Holding(t) /\ ~ is_ready /\ mutexFree
      /\ buffer' = Append(buffer, arg[t])
      /\ pc' = [pc EXCEPT ![t] = "receive"]
      /\ UNCHANGED <<books, is_ready, mutexFree, initVars, arg>>
  BY DEF LockAndBuffer, Holding
<1>2. main # "ready" /\ main # "loop" /\ main' = main
  BY <1>1 DEF IInv, initVars
<1>3. /\ fed[t] \in 1..Len(feed[t]) /\ arg[t] = feed[t][fed[t]] /\ t \notin Late
      /\ arg[t] \in Messages
  BY <1>1, <1>2, HeldIsRead, FeedFacts DEF Delivery, KeysAreRead
<1>4. ~ Holding(t)' /\ \A u \in Threads \ {t} : Holding(u)' <=> Holding(u)
  BY <1>1 DEF Holding, IInv, TypeOK, ConsumerTypeOK
<1>5. /\ Len(buffer) \in Nat /\ Len(buffer') = Len(buffer) + 1
      /\ \A k \in 1..Len(buffer) : buffer'[k] = buffer[k]
      /\ buffer'[Len(buffer) + 1] = arg[t]
  BY <1>1, <1>3 DEF IInv, TypeOK, ConsumerTypeOK
<1>6. KeysAreRead'
  BY <1>1, <1>4 DEF Delivery, KeysAreRead, initVars
<1>7. BufferInOrder'
  <2>1. ASSUME NEW k \in 1..Len(buffer')
        PROVE  \E u \in Threads \ Late : \E n \in 1..fed[u] :
                 buffer'[k] = feed[u][n] /\ (Holding(u)' => n < fed[u])
    <3>1. CASE k \in 1..Len(buffer)
      BY <1>2, <1>4, <1>5, <3>1 DEF Delivery, BufferInOrder
    <3>2. CASE k = Len(buffer) + 1
      <4>1. fed[t] \in 1..fed[t]
        BY <1>3, FeedFacts
      <4> QED BY <1>3, <1>4, <1>5, <3>2, <4>1
    <3> QED BY <1>5, <3>1, <3>2
  <2>2. ASSUME NEW j \in 1..Len(buffer'), NEW k \in 1..Len(buffer'),
               j < k, buffer'[j].symbol = buffer'[k].symbol
        PROVE  buffer'[j].diff.final < buffer'[k].diff.first
    <3>1. CASE k \in 1..Len(buffer)
      <4>1. j \in 1..Len(buffer)
        BY <1>5, <2>2, <3>1
      <4> QED BY <1>2, <1>5, <2>2, <3>1, <4>1 DEF Delivery, BufferInOrder
    <3>2. CASE k = Len(buffer) + 1
      <4>1. j \in 1..Len(buffer) /\ buffer'[k] = arg[t] /\ buffer'[j] = buffer[j]
        BY <1>5, <2>2, <3>2
      <4>2. PICK u \in Threads \ Late :
              \E n \in 1..fed[u] : buffer[j] = feed[u][n] /\ (Holding(u) => n < fed[u])
        BY <1>2, <4>1 DEF Delivery, BufferInOrder
      <4>3. PICK n \in 1..fed[u] : buffer[j] = feed[u][n] /\ (Holding(u) => n < fed[u])
        BY <4>2
      <4>4. n \in 1..Len(feed[u])
        BY <4>3, FeedFacts
      <4>5. feed[u][n].symbol = feed[t][fed[t]].symbol
        BY <1>3, <2>2, <4>1, <4>3
      <4>6. u = t
        BY <1>3, <4>2, <4>4, <4>5 DEF OneAtStart, IInv, TypeOK
      <4>7. n < fed[t]
        BY <1>1, <4>3, <4>6
      <4> QED BY <1>3, <4>1, <4>3, <4>4, <4>5, <4>6, <4>7, FeedFacts
    <3> QED BY <1>5, <3>1, <3>2
  <2> QED BY <2>1, <2>2 DEF BufferInOrder
<1>8. AllPlaced'
  <2> SUFFICES ASSUME main # "thrown", NEW s \in Used(answer.snapshots),
                      NEW x \in keys[s]
               PROVE  Placed(x)'
    BY <1>1 DEF AllPlaced, initVars
  <2>1. at' = at /\ answer' = answer /\ at \in Int /\ Len(answer.tail) \in Int
        /\ at - Len(answer.tail) < Len(buffer) + 1
    <3>1. at \in 0..(Len(answer.tail) + Len(buffer))
      BY DEF IInv, TypeOK, ConsumerTypeOK
    <3> QED BY <1>1, <1>5, <3>1, TailFacts DEF initVars
  <2>2. Placed(x)
    BY DEF Delivery, AllPlaced
  <2>3. CASE \E u \in Threads : Holding(u) /\ arg[u] = x
    <3>1. PICK u \in Threads : Holding(u) /\ arg[u] = x
      BY <2>3
    <3>2. CASE u = t
      <4>1. Len(buffer) + 1 \in 1..Len(buffer') /\ buffer'[Len(buffer) + 1] = x
        BY <1>5, <3>1, <3>2
      <4> QED BY <1>2, <2>1, <4>1 DEF Placed
    <3>3. CASE u # t
      BY <1>1, <1>4, <3>1, <3>3 DEF Placed
    <3> QED BY <3>2, <3>3
  <2>4. CASE \E k \in 1..Len(buffer) : k > at - Len(answer.tail) /\ buffer[k] = x
    <3>1. PICK k \in 1..Len(buffer) : k > at - Len(answer.tail) /\ buffer[k] = x
      BY <2>4
    <3>2. k \in 1..Len(buffer') /\ buffer'[k] = x
      BY <1>5, <3>1
    <3> QED BY <1>2, <2>1, <3>1, <3>2 DEF Placed
  <2> QED BY <1>2, <2>2, <2>3, <2>4 DEF Placed, Started
<1>9. TailDone'
  BY <1>1 DEF Delivery, TailDone, Started, Done, initVars
<1>10. BooksInStep'
  BY <1>1 DEF Delivery, BooksInStep, BookInStep, Started, Received, initVars
<1> QED BY <1>6, <1>7, <1>8, <1>9, <1>10 DEF Delivery

\* A put leaves the other books alone and its own in step.
LEMMA PutInStep ==
  ASSUME Garbage = {}, IInv, BooksInStep, Started,
         NEW m, m.symbol \in Used(answer.snapshots), m.diff \in Diffs, PutDiff(m),
         UNCHANGED <<answer, feed, fed>>,
         m.diff \in Received(m.symbol), main' # "loop",
         NEW s \in Used(answer.snapshots)
  PROVE  BookInStep(s)'
<1>1. s \in Symbols /\ BookInStep(s) /\ answer.snapshots[s].last \in Int
  BY TailFacts DEF BooksInStep
<1>2. Received(s)' = Received(s)
  BY DEF Received
<1>3. CASE s # m.symbol
  <2>1. books'[s] = books[s]
    BY <1>1, <1>3, PutDone
  <2> QED BY <1>1, <1>2, <2>1 DEF BookInStep
<1>4. CASE s = m.symbol
  <2> DEFINE b == books[s]
             c == books'[s]
  <2>1. /\ c.last >= b.last /\ c.last \in Int /\ b.last \in Int
        /\ Len(c.q) < MaxSize /\ c.qlast <= c.last
        /\ \A k \in 1..Len(c.q) : c.q[k].first > c.last + 1
        /\ \A e : Waits(c.q, e) => Waits(b.q, e) \/ e = m.diff
    BY <1>1, <1>4, PutDone, BookFacts
  <2>2. b.last >= answer.snapshots[s].last
    BY <1>1 DEF BookInStep
  <2>3. \A k \in 1..Len(b.q) : b.q[k] \in Received(s)
    BY <1>1 DEF BookInStep
  <2> HIDE DEF b, c
  <2>4. \A k \in 1..Len(c.q) : c.q[k] \in Received(s)
    BY <1>4, <2>1, <2>3 DEF Waits
  <2>5. c.last >= answer.snapshots[s].last
    BY <1>1, <2>1, <2>2
  <2> QED BY <1>2, <2>1, <2>4, <2>5 DEF BookInStep, c
<1> QED BY <1>3, <1>4

\* A book that takes diffs has a snapshot.
LEMMA StartedIsKnown ==
  ASSUME BooksInStep, NEW s \in Symbols, books[s].last # Unset
  PROVE  s \in Used(answer.snapshots)
BY DEF BooksInStep

\* Into the book.
LEMMA PutDelivers ==
  ASSUME Garbage = {}, IInv, Delivery, NEW t \in Threads, Put(t),
         UNCHANGED <<feed, fed, keys>>
  PROVE  Delivery'
<1>0. PICK m : m = arg[t]
  OBVIOUS
<1>1. /\ Holding(t) /\ main = "ready" /\ main' = "ready"
      /\ pc' = [pc EXCEPT ![t] = "receive"] /\ PutDiff(m)
      /\ books[m.symbol].last # Unset
      /\ UNCHANGED <<is_ready, mutexFree, buffer, answer, ob_snapshots,
                     ob_diffs_tail, at, symbol2last, arg>>
  BY <1>0 DEF Put, Holding, PutThrows, IInv, initVars
<1>2. /\ m.symbol \in Used(answer.snapshots) /\ m.diff \in Diffs
      /\ m.symbol \in Symbols /\ m.diff \in Received(m.symbol)
  BY <1>0, <1>1, HeldIsRead, StartedIsKnown DEF Delivery
<1>3. ~ Holding(t)' /\ \A u \in Threads \ {t} : Holding(u)' <=> Holding(u)
  BY <1>1 DEF Holding, IInv, TypeOK, ConsumerTypeOK
<1>4. /\ \A x : x.symbol \in Symbols /\ x.diff \in Diffs /\ Done(x) => Done(x)'
      /\ Done(m)'
      /\ \A s \in Symbols : s # m.symbol => books'[s] = books[s]
  <2>1. BooksInStep /\ Started
    BY <1>1 DEF Delivery, Started
  <2> QED BY <1>1, <1>2, <2>1, PutDone
<1>5. KeysAreRead'
  BY <1>1, <1>3 DEF Delivery, KeysAreRead
<1>6. BufferInOrder'
  BY <1>1 DEF BufferInOrder
<1>7. AllPlaced'
  <2> SUFFICES ASSUME NEW s \in Used(answer.snapshots), NEW x \in keys[s]
               PROVE  Placed(x)'
    BY <1>1 DEF AllPlaced
  <2>1. /\ s \in Symbols /\ x.symbol = s /\ x.diff \in Diffs
    BY TailFacts, ConsumerAssumption DEF Delivery, KeysAreRead, IInv, TypeOK
  <2>2. Placed(x)
    BY <1>1 DEF Delivery, AllPlaced
  <2>3. CASE \E u \in Threads : Holding(u) /\ arg[u] = x
    <3>1. PICK u \in Threads : Holding(u) /\ arg[u] = x
      BY <2>3
    <3>2. CASE u = t
      BY <1>0, <1>1, <1>4, <3>1, <3>2 DEF Placed, Started
    <3>3. CASE u # t
      BY <1>1, <1>3, <3>1, <3>3 DEF Placed
    <3> QED BY <3>2, <3>3
  <2>4. CASE Done(x)
    BY <1>1, <1>4, <2>1, <2>4 DEF Placed, Started
  <2> QED BY <1>1, <2>2, <2>3, <2>4 DEF Placed
<1>8. TailDone'
  <2> SUFFICES ASSUME NEW k \in 1..Len(answer.tail),
                      answer.tail[k].symbol \in Used(answer.snapshots)
               PROVE  Done(answer.tail[k])'
    BY <1>1 DEF TailDone
  <2>1. PICK x : x = answer.tail[k]
    OBVIOUS
  <2>2. Done(x)
    BY <1>1, <2>1 DEF Delivery, TailDone, Started
  <2>3. x.symbol \in Symbols /\ x.diff \in Diffs
    BY <2>1, TailFacts
  <2>4. Done(x)'
    BY <1>4, <2>2, <2>3
  <2> QED BY <1>1, <2>1, <2>4 DEF Done
<1>9. BooksInStep'
  <2>1. \A s \in Used(answer.snapshots) : BookInStep(s)'
    BY <1>1, <1>2, PutInStep DEF Delivery, Started
  <2>2. \A s \in Symbols : s \notin Used(answer.snapshots) =>
          books'[s].last = Unset /\ ~ books'[s].reported
    BY <1>2, <1>4 DEF Delivery, BooksInStep
  <2> QED BY <1>1, <2>1, <2>2 DEF BooksInStep
<1> QED BY <1>5, <1>6, <1>7, <1>8, <1>9 DEF Delivery

\* Or to nowhere: the book has no snapshot.
LEMMA PutThrowDelivers ==
  ASSUME IInv, Delivery, NEW t \in Threads, PutThrow(t), UNCHANGED <<feed, fed, keys>>
  PROVE  Delivery'
<1>1. /\ Holding(t) /\ main = "ready" /\ main' = "ready"
      /\ pc' = [pc EXCEPT ![t] = "dead"] /\ books[arg[t].symbol].last = Unset
      /\ UNCHANGED <<books, is_ready, mutexFree, buffer, answer, ob_snapshots,
                     ob_diffs_tail, at, symbol2last, arg>>
  BY DEF PutThrow, Holding, PutThrows, IInv, initVars
<1>2. ~ Holding(t)' /\ \A u \in Threads \ {t} : Holding(u)' <=> Holding(u)
  BY <1>1 DEF Holding, IInv, TypeOK, ConsumerTypeOK
<1>3. arg[t].symbol \notin Used(answer.snapshots)
  <2> SUFFICES ASSUME arg[t].symbol \in Used(answer.snapshots) PROVE FALSE
    OBVIOUS
  <2>1. /\ books[arg[t].symbol].last >= answer.snapshots[arg[t].symbol].last
        /\ answer.snapshots[arg[t].symbol].last \in 0..LastId
    BY <1>1, TailFacts DEF Delivery, BooksInStep, BookInStep, Started
  <2> QED BY <1>1, <2>1 DEF Unset
<1>4. KeysAreRead'
  BY <1>1, <1>2 DEF Delivery, KeysAreRead
<1>5. BufferInOrder'
  BY <1>1 DEF BufferInOrder
<1>6. AllPlaced'
  <2> SUFFICES ASSUME NEW s \in Used(answer.snapshots), NEW x \in keys[s]
               PROVE  Placed(x)'
    BY <1>1 DEF AllPlaced
  <2>1. x.symbol = s /\ Placed(x)
    BY <1>1, TailFacts DEF Delivery, KeysAreRead, AllPlaced
  <2> QED BY <1>1, <1>2, <1>3, <2>1 DEF Placed, Started, Done
<1>7. TailDone'
  BY <1>1 DEF Delivery, TailDone, Started, Done
<1>8. BooksInStep'
  BY <1>1 DEF Delivery, BooksInStep, BookInStep, Started, Received
<1> QED BY <1>4, <1>5, <1>6, <1>7, <1>8 DEF Delivery

-----------------------------------------------------------------------------
(* The invariant through try_init_data *)

\* Before it has both, nothing is touched.
LEMMA EarlyDelivers ==
  ASSUME IInv, Delivery, SetSnapshots \/ SetDiffsTail \/ TryInitTooEarly,
         UNCHANGED <<feed, fed, keys>>
  PROVE  Delivery'
<1>1. /\ UNCHANGED <<books, buffer, at, answer, pc, arg>>
      /\ main \in {"set_snapshots", "set_tail", "try_init"}
      /\ main' \in {"set_snapshots", "set_tail", "try_init"}
  BY DEF SetSnapshots, SetDiffsTail, TryInitTooEarly, pushVars
<1>2. KeysAreRead'
  BY <1>1 DEF Delivery, KeysAreRead, Holding
<1>3. BufferInOrder'
  BY <1>1 DEF Delivery, BufferInOrder, Holding
<1>4. AllPlaced'
  BY <1>1 DEF Delivery, AllPlaced, Placed, Started, Holding
<1>5. TailDone' /\ BooksInStep'
  BY <1>1 DEF Delivery, TailDone, BooksInStep, Started
<1> QED BY <1>2, <1>3, <1>4, <1>5 DEF Delivery

\* The snapshots put the books in step.
LEMMA SnapshotsDeliver ==
  ASSUME Garbage = {}, IInv, Delivery, TryInitSnapshots, UNCHANGED <<feed, fed, keys>>
  PROVE  Delivery'
<1>1. /\ UNCHANGED <<ob_diffs_tail, buffer, at, answer, pc, arg>>
      /\ main = "try_init" /\ main' = "loop" /\ at = 0
      /\ books \in [Symbols -> EmptyBooks]
  BY DEF TryInitSnapshots, pushVars, IInv
<1>2. ob_diffs_tail' = {answer.tail}
  BY DEF TryInitSnapshots, IInv, TypeOK, ConsumerTypeOK
<1>3. /\ books' = [s \in Symbols |-> IF s \in Used(answer.snapshots)
                                     THEN AfterSnapshot(books[s], answer.snapshots[s])
                                     ELSE books[s]]
      /\ symbol2last' = [s \in Symbols |-> IF s \in Used(answer.snapshots)
                                           THEN answer.snapshots[s].last ELSE 0]
  BY DEF TryInitSnapshots, IInv, TypeOK, ConsumerTypeOK
<1>4. Len(answer.tail) \in Nat
  BY TailFacts
<1>5. KeysAreRead'
  BY <1>1 DEF Delivery, KeysAreRead, Holding
<1>6. BufferInOrder'
  BY <1>1 DEF Delivery, BufferInOrder, Holding
<1>7. AllPlaced'
  <2> SUFFICES ASSUME NEW s \in Used(answer.snapshots), NEW x \in keys[s]
               PROVE  Placed(x)'
    BY <1>1 DEF AllPlaced
  <2>1. Placed(x)
    BY <1>1 DEF Delivery, AllPlaced
  <2> QED BY <1>1, <2>1 DEF Placed, Started, Holding
<1>8. TailDone'
  BY <1>1 DEF TailDone
<1>9. BooksInStep'
  <2>1. ASSUME NEW s \in Used(answer.snapshots) PROVE BookInStep(s)'
    <3>1. s \in Symbols /\ answer.snapshots[s].last \in 0..LastId /\ LastId \in Nat
      BY TailFacts, ConstantsAssumption
    <3>2. /\ books[s].q = <<>> /\ books[s].qlast = 0
          /\ books[s] = [levels |-> books[s].levels, last |-> books[s].last,
                         q |-> <<>>, qlast |-> 0, reported |-> books[s].reported]
      BY <1>1, <3>1 DEF EmptyBooks
    <3>3. books'[s] = AfterSnapshot(books[s], answer.snapshots[s])
      BY <1>3, <3>1
    <3>4. /\ books'[s].last = answer.snapshots[s].last /\ books'[s].q = <<>>
          /\ books'[s].qlast = 0
      BY <3>2, <3>3 DEF AfterSnapshot
    <3>5. symbol2last'[s] = answer.snapshots[s].last
      BY <1>3, <3>1
    <3> QED BY <1>1, <3>1, <3>4, <3>5, ConstantsAssumption DEF BookInStep
  <2>2. ASSUME NEW s \in Symbols, s \notin Used(answer.snapshots)
        PROVE  books'[s].last = Unset /\ ~ books'[s].reported
    BY <1>3, <2>2 DEF Delivery, BooksInStep
  <2> QED BY <1>1, <1>2, <2>1, <2>2 DEF BooksInStep
<1> QED BY <1>5, <1>6, <1>7, <1>8, <1>9 DEF Delivery

\* An exception ends the start, and with it the consumer.
LEMMA ThrowDelivers ==
  ASSUME IInv, Delivery, NEW m, InitThrow(m), UNCHANGED <<feed, fed, keys>>
  PROVE  Delivery'
<1>1. /\ UNCHANGED <<books, buffer, at, answer, pc, arg>>
      /\ main = "loop" /\ main' = "thrown"
  BY DEF InitThrow, NextIncoming, pushVars
<1>2. KeysAreRead'
  BY <1>1 DEF Delivery, KeysAreRead, Holding
<1>3. BufferInOrder'
  BY <1>1 DEF Delivery, BufferInOrder, Holding
<1>4. AllPlaced' /\ TailDone' /\ BooksInStep'
  BY <1>1 DEF Delivery, AllPlaced, TailDone, BooksInStep, Started
<1> QED BY <1>2, <1>3, <1>4 DEF Delivery

\* What the loop iterates over.
LEMMA IncomingFacts ==
  ASSUME IInv, BooksInStep, main = "loop"
  PROVE  LET incoming == answer.tail \o buffer IN
         /\ Incoming = {incoming}
         /\ Len(incoming) = Len(answer.tail) + Len(buffer)
         /\ Len(buffer) \in Nat /\ at \in Nat /\ Len(answer.tail) \in Nat
         /\ \A k \in 1..Len(answer.tail) : incoming[k] = answer.tail[k]
         /\ \A k \in 1..Len(buffer) : incoming[Len(answer.tail) + k] = buffer[k]
<1> DEFINE S == Range(answer.tail) \cup Messages
<1>1. answer.tail \in Seq(Range(answer.tail)) /\ Len(answer.tail) \in Nat
  BY TailIsSequence DEF IInv, TypeOK, ConsumerTypeOK
<1>2. buffer \in Seq(Messages) /\ at \in 0..(Len(answer.tail) + Len(buffer))
  BY DEF IInv, TypeOK, ConsumerTypeOK
<1>3. answer.tail \in Seq(S) /\ buffer \in Seq(S)
  BY <1>1, <1>2
<1>4. Incoming = {answer.tail \o buffer}
  BY DEF BooksInStep, Incoming
<1> HIDE DEF S
<1>5. at \in Nat /\ Len(buffer) \in Nat
  BY <1>1, <1>2
<1> QED BY <1>1, <1>3, <1>4, <1>5

\* When the loop is over, nothing is left in the buffer.
LEMMA DoneDelivers ==
  ASSUME IInv, Delivery, InitDone, UNCHANGED <<feed, fed, keys>>
  PROVE  Delivery'
<1>1. /\ UNCHANGED <<books, buffer, at, answer, pc, arg>>
      /\ main = "loop" /\ main' = "ready"
      /\ \A incoming \in Incoming : at = Len(incoming)
  BY DEF InitDone, pushVars
<1>2. /\ at = Len(answer.tail) + Len(buffer)
      /\ Len(buffer) \in Nat /\ Len(answer.tail) \in Nat
  BY <1>1, IncomingFacts DEF Delivery
<1>3. KeysAreRead'
  BY <1>1 DEF Delivery, KeysAreRead, Holding
<1>4. BufferInOrder'
  BY <1>1 DEF BufferInOrder
<1>5. AllPlaced'
  <2> SUFFICES ASSUME NEW s \in Used(answer.snapshots), NEW x \in keys[s]
               PROVE  Placed(x)'
    BY <1>1 DEF AllPlaced
  <2>1. Placed(x)
    BY <1>1 DEF Delivery, AllPlaced
  <2>2. ~ \E k \in 1..Len(buffer) : k > at - Len(answer.tail)
    BY <1>2
  <2> QED BY <1>1, <2>1, <2>2 DEF Placed, Started, Holding, Done
<1>6. TailDone'
  BY <1>1, <1>2 DEF Delivery, TailDone, Started, Done
<1>7. BooksInStep'
  BY <1>1 DEF Delivery, BooksInStep, BookInStep, Started, Received
<1> QED BY <1>3, <1>4, <1>5, <1>6, <1>7 DEF Delivery

\* Where the loop takes its next message from.
LEMMA NextPlace ==
  ASSUME IInv, BooksInStep, NEW m, NextIncoming(m)
  PROVE  \/ at + 1 \in 1..Len(answer.tail) /\ m = answer.tail[at + 1]
         \/ at + 1 - Len(answer.tail) \in 1..Len(buffer)
            /\ m = buffer[at + 1 - Len(answer.tail)]
<1>1. main = "loop"
  BY DEF NextIncoming
<1> DEFINE incoming == answer.tail \o buffer
           j == at + 1 - Len(answer.tail)
<1>2. /\ Len(incoming) = Len(answer.tail) + Len(buffer)
      /\ Len(buffer) \in Nat /\ at \in Nat /\ Len(answer.tail) \in Nat
      /\ \A k \in 1..Len(answer.tail) : incoming[k] = answer.tail[k]
      /\ \A k \in 1..Len(buffer) : incoming[Len(answer.tail) + k] = buffer[k]
  BY <1>1, IncomingFacts
<1>3. at < Len(incoming) /\ m = incoming[at + 1]
  BY <1>1, IncomingFacts DEF NextIncoming
<1> HIDE DEF incoming
<1>4. CASE at + 1 <= Len(answer.tail)
  <2>1. at + 1 \in 1..Len(answer.tail)
    BY <1>2, <1>4
  <2> QED BY <1>2, <1>3, <2>1
<1>5. CASE at + 1 > Len(answer.tail)
  <2>1. j \in 1..Len(buffer) /\ Len(answer.tail) + j = at + 1
    BY <1>2, <1>3, <1>5
  <2> QED BY <1>2, <1>3, <2>1
<1>6. at + 1 <= Len(answer.tail) \/ at + 1 > Len(answer.tail)
  BY <1>2
<1> QED BY <1>4, <1>5, <1>6

\* The tail, and what follows it in the buffer, continue the books.
LEMMA NoGapInLoop ==
  ASSUME OneAtStart, IInv, Delivery, NEW m, NextIncoming(m),
         m.symbol \in Used(answer.snapshots)
  PROVE  m.diff.first <= books[m.symbol].last + 1
<1> DEFINE s == m.symbol
           d == m.diff
           next == books[s].last + 1
<1>1. /\ main = "loop" /\ Started /\ BookInStep(s) /\ BooksInStep
      /\ s \in Used(answer.snapshots) /\ s \in Symbols /\ answer \in Answers
  BY TailFacts DEF Delivery, NextIncoming, Started, BooksInStep
<1>2. d \in Diffs /\ next \in Int /\ d.first \in Int
  BY <1>1, IncomingMessage, BookFacts, DiffRange
<1> SUFFICES ASSUME next < d.first PROVE FALSE
  BY <1>2
<1>3. next \in Needed(answer, s, d)
  BY <1>1, <1>2, NextIsNeeded
<1>4. /\ at \in Nat /\ Len(answer.tail) \in Nat /\ Len(buffer) \in Nat
  BY <1>1, IncomingFacts
\* No earlier diff of the tail, since the book has passed them all.
<1>5. ASSUME NEW k \in 1..Len(answer.tail), k <= at, answer.tail[k].symbol = s,
             next \in answer.tail[k].diff.first..answer.tail[k].diff.final
      PROVE  FALSE
  <2>1. PICK x : x = answer.tail[k]
    OBVIOUS
  <2>2. Done(x)
    BY <1>1, <1>5, <2>1 DEF Delivery, TailDone
  <2> QED BY <1>1, <1>5, <2>1, <2>2, NextIsNotDone, TailFacts
<1>6. CASE at + 1 \in 1..Len(answer.tail) /\ m = answer.tail[at + 1]
  <2>1. d \in OfTail(answer, s)
    BY <1>6 DEF OfTail
  <2>2. Covers(OfTail(answer, s), next)
    BY <1>1, <1>3, <2>1, SeamlessAssumption
  <2>3. PICK e \in OfTail(answer, s) : next \in e.first..e.final
    BY <2>2 DEF Covers
  <2>4. PICK k \in 1..Len(answer.tail) :
          answer.tail[k].symbol = s /\ e = answer.tail[k].diff
    BY <2>3 DEF OfTail
  <2>5. e \in Diffs
    BY <2>4, TailFacts
  <2>6. e # d /\ ~ (d.final < e.first)
    BY <1>2, <2>3, <2>5, CoversBefore
  <2>7. k > at
    BY <1>4, <1>5, <2>3, <2>4
  <2>8. k > at + 1
    BY <1>4, <1>6, <2>4, <2>6, <2>7
  <2>9. answer.tail[at + 1].diff.final < answer.tail[k].diff.first
    BY <1>6, <2>4, <2>8, TailFacts
  <2> QED BY <1>6, <2>4, <2>6, <2>9
<1>7. CASE /\ at + 1 - Len(answer.tail) \in 1..Len(buffer)
           /\ m = buffer[at + 1 - Len(answer.tail)]
  <2> DEFINE j == at + 1 - Len(answer.tail)
  <2>1. PICK t \in Threads \ Late :
          \E n \in 1..fed[t] : buffer[j] = feed[t][n] /\ (Holding(t) => n < fed[t])
    BY <1>1, <1>7 DEF Delivery, BufferInOrder
  <2>2. PICK n \in 1..fed[t] : buffer[j] = feed[t][n] /\ (Holding(t) => n < fed[t])
    BY <2>1
  <2>3. /\ n \in 1..Len(feed[t]) /\ m = feed[t][n] /\ feed \in Feeds
        /\ fed[t] \in Nat /\ fed[t] <= Len(feed[t]) /\ Len(feed[t]) \in Nat
    BY <1>7, <2>2, FeedFacts DEF IInv, TypeOK
  <2>4. d \in OfFeed(feed, t, s)
    BY <2>3 DEF OfFeed
  <2>5. Covers(OfTail(answer, s) \cup OfFeed(feed, t, s), next)
    BY <1>1, <1>3, <2>3, <2>4 DEF OneAtStart
  <2>6. PICK e \in OfTail(answer, s) \cup OfFeed(feed, t, s) : next \in e.first..e.final
    BY <2>5 DEF Covers
  <2>7. e \notin OfTail(answer, s)
    <3> SUFFICES ASSUME NEW k \in 1..Len(answer.tail), answer.tail[k].symbol = s,
                        e = answer.tail[k].diff
                 PROVE  FALSE
      BY DEF OfTail
    <3>1. k <= at
      BY <1>4, <1>7
    <3> QED BY <1>5, <2>6, <3>1
  <2>8. PICK k \in 1..Len(feed[t]) : feed[t][k].symbol = s /\ e = feed[t][k].diff
    BY <2>6, <2>7 DEF OfFeed
  <2>9. e \in Diffs
    BY <2>8, FeedFacts
  <2>10. e # d /\ ~ (d.final < e.first) /\ e.first \in Int /\ e.final \in Int
         /\ e.first <= e.final
    BY <1>2, <2>6, <2>9, CoversBefore, DiffRange
  <2>11. k < n
    <3>1. k # n
      BY <2>3, <2>8, <2>10
    <3>2. ~ (n < k)
      BY <2>3, <2>8, <2>10, FeedFacts
    <3> QED BY <3>1, <3>2
  <2>12. PICK x : x = feed[t][k]
    OBVIOUS
  <2>13. x \in keys[s] /\ x.symbol = s /\ x.diff = e
    <3>1. k \in 1..fed[t]
      BY <2>11, <2>3
    <3> QED BY <2>8, <2>12, <3>1 DEF Delivery, KeysAreRead
  <2>14. Placed(x)
    BY <1>1, <2>13 DEF Delivery, AllPlaced
  <2>15. ~ Done(x)
    BY <1>1, <2>6, <2>9, <2>13, NextIsNotDone
  <2>16. ~ \E u \in Threads : Holding(u) /\ arg[u] = x
    <3> SUFFICES ASSUME NEW u \in Threads, Holding(u), arg[u] = x PROVE FALSE
      OBVIOUS
    <3>1. fed[u] \in 1..Len(feed[u]) /\ x = feed[u][fed[u]] /\ u \notin Late
      BY <1>1, HeldIsRead DEF Delivery, KeysAreRead
    <3>2. feed[u][fed[u]].symbol = s /\ feed[t][n].symbol = s
      BY <2>3, <2>13, <3>1
    <3>3. u = t
      BY <2>1, <2>3, <3>1, <3>2 DEF OneAtStart
    <3>4. k < fed[t]
      BY <2>3, <2>11
    <3>5. feed[t][k].diff.final < feed[t][fed[t]].diff.first
      BY <2>8, <3>1, <3>2, <3>3, <3>4, FeedFacts
    <3> QED BY <2>8, <2>10, <2>12, <3>1, <3>3, <3>5
  <2>17. ~ \E i \in 1..Len(buffer) : i > at - Len(answer.tail) /\ buffer[i] = x
    <3> SUFFICES ASSUME NEW i \in 1..Len(buffer), i > at - Len(answer.tail),
                        buffer[i] = x
                 PROVE  FALSE
      OBVIOUS
    <3>1. i # j
      BY <1>7, <2>10, <2>13
    <3>2. j < i
      <4> DEFINE l == Len(answer.tail)
      <4>1. at \in Int /\ l \in Int /\ i \in Int /\ i > at - l /\ i # at + 1 - l
        BY <1>4, <3>1
      <4> HIDE DEF l
      <4>2. at + 1 - l < i
        BY <4>1
      <4> QED BY <4>2 DEF l
    <3>3. buffer[j].diff.final < buffer[i].diff.first
      BY <1>1, <1>7, <2>13, <3>2 DEF Delivery, BufferInOrder
    <3> QED BY <1>7, <2>10, <2>13, <3>3
  <2> QED BY <2>14, <2>15, <2>16, <2>17 DEF Placed
<1> QED BY <1>1, <1>6, <1>7, NextPlace

\* A message of the loop that its book then has, or that no book wants.
LEMMA LoopGoesOn ==
  ASSUME IInv, Delivery, NEW m, NextIncoming(m), at' = at + 1,
         UNCHANGED <<answer, buffer, main, pc, arg, feed, fed, keys>>,
         m.symbol \in Used(answer.snapshots) => Done(m)',
         \A x : x.symbol \in Symbols /\ x.diff \in Diffs /\ Done(x) => Done(x)',
         BooksInStep'
  PROVE  Delivery'
<1>1. main = "loop" /\ BooksInStep
  BY DEF NextIncoming, Delivery
<1>2. at \in Nat /\ Len(answer.tail) \in Nat /\ Len(buffer) \in Nat
  BY <1>1, IncomingFacts
<1>3. \/ at + 1 \in 1..Len(answer.tail) /\ m = answer.tail[at + 1]
      \/ at + 1 - Len(answer.tail) \in 1..Len(buffer)
         /\ m = buffer[at + 1 - Len(answer.tail)]
  BY <1>1, NextPlace
<1>4. KeysAreRead'
  BY DEF Delivery, KeysAreRead, Holding
<1>5. BufferInOrder'
  BY DEF Delivery, BufferInOrder, Holding
<1>6. AllPlaced'
  <2> SUFFICES ASSUME NEW s \in Used(answer.snapshots), NEW x \in keys[s]
               PROVE  Placed(x)'
    BY <1>1 DEF AllPlaced
  <2>1. s \in Symbols /\ x.symbol = s /\ x.diff \in Diffs
    BY TailFacts, ConsumerAssumption DEF Delivery, KeysAreRead, IInv, TypeOK
  <2>2. Placed(x)
    BY <1>1 DEF Delivery, AllPlaced
  <2>3. CASE \E t \in Threads : Holding(t) /\ arg[t] = x
    BY <2>3 DEF Placed, Holding
  <2>4. CASE \E k \in 1..Len(buffer) : k > at - Len(answer.tail) /\ buffer[k] = x
    <3>1. PICK k \in 1..Len(buffer) : k > at - Len(answer.tail) /\ buffer[k] = x
      BY <2>4
    <3> DEFINE l == Len(answer.tail)
    <3>2. at \in Int /\ l \in Int /\ k \in Int /\ k > at - l
      BY <1>2, <3>1
    <3> HIDE DEF l
    <3>3. k > (at + 1) - l \/ k = (at + 1) - l
      BY <3>2
    <3>4. CASE k > (at + 1) - l
      BY <1>1, <3>1, <3>4 DEF Placed, l
    <3>5. CASE k = (at + 1) - l
      <4>1. ~ ((at + 1) \in 1..l)
        BY <3>1, <3>2, <3>5
      <4>2. /\ ~ (at + 1 \in 1..Len(answer.tail))
            /\ k = at + 1 - Len(answer.tail)
        BY <1>2, <3>5, <4>1 DEF l
      <4>3. m = buffer[at + 1 - Len(answer.tail)]
        BY <1>3, <4>2
      <4>4. x = m
        BY <3>1, <4>2, <4>3
      <4> QED BY <1>1, <2>1, <4>4 DEF Placed, Started
    <3> QED BY <3>3, <3>4, <3>5
  <2>5. CASE Done(x)
    BY <1>1, <2>1, <2>5 DEF Placed, Started
  <2> QED BY <2>2, <2>3, <2>4, <2>5 DEF Placed
<1>7. TailDone'
  <2> SUFFICES ASSUME NEW k \in 1..Len(answer.tail), k <= at + 1,
                      answer.tail[k].symbol \in Used(answer.snapshots)
               PROVE  Done(answer.tail[k])'
    BY <1>1 DEF TailDone
  <2>1. PICK x : x = answer.tail[k]
    OBVIOUS
  <2>2. x.symbol \in Used(answer.snapshots) /\ x.symbol \in Symbols /\ x.diff \in Diffs
    BY <2>1, TailFacts
  <2>3. CASE k <= at
    <3>1. Done(x)
      BY <1>1, <2>1, <2>3 DEF Delivery, TailDone, Started
    <3>2. Done(x)'
      BY <2>2, <3>1
    <3> QED BY <2>1, <3>2 DEF Done
  <2>4. CASE k = at + 1
    <3>1. ~ (at + 1 - Len(answer.tail) \in 1..Len(buffer))
      BY <1>2, <2>4
    <3>2. x = m
      BY <1>3, <2>1, <2>4, <3>1
    <3> QED BY <2>1, <2>2, <3>2 DEF Done
  <2> QED BY <1>2, <2>3, <2>4
<1> QED BY <1>4, <1>5, <1>6, <1>7 DEF Delivery

\* Skipped: the book has it.
LEMMA SkipDelivers ==
  ASSUME IInv, Delivery, NEW m, InitSkip(m), UNCHANGED <<feed, fed, keys>>
  PROVE  Delivery'
<1>1. /\ NextIncoming(m) /\ Skipped(m) /\ main = "loop" /\ at' = at + 1
      /\ UNCHANGED <<answer, books, ob_diffs_tail, buffer, main, symbol2last, pc, arg>>
  BY DEF InitSkip, NextIncoming, pushVars
<1>2. ASSUME m.symbol \in Used(answer.snapshots) PROVE Done(m)'
  <2> DEFINE s == m.symbol
  <2>1. /\ s \in Symbols /\ m.diff.final <= symbol2last[s] /\ BookInStep(s)
        /\ m.diff \in Diffs
    BY <1>1, <1>2, TailFacts, IncomingMessage
    DEF Skipped, Delivery, BooksInStep, Started
  <2>2. symbol2last[s] <= books[s].last /\ symbol2last[s] \in Int
    BY <1>1, <2>1 DEF BookInStep, IInv, TypeOK, ConsumerTypeOK
  <2>3. m.diff.final <= books[s].last
    BY <2>1, <2>2, BookFacts, DiffRange
  <2> QED BY <1>1, <2>3 DEF Done
<1>3. ASSUME NEW x, Done(x) PROVE Done(x)'
  BY <1>1, <1>3 DEF Done
<1>4. BooksInStep'
  BY <1>1 DEF Delivery, BooksInStep, BookInStep, Started, Received
<1> QED BY <1>1, <1>2, <1>3, <1>4, LoopGoesOn

\* Put: the book goes on to its end, and its queue stays empty.
LEMMA InitPutDelivers ==
  ASSUME Garbage = {}, OneAtStart, IInv, Delivery, NEW m, InitPut(m),
         UNCHANGED <<feed, fed, keys>>
  PROVE  Delivery'
<1>1. /\ NextIncoming(m) /\ main = "loop" /\ at' = at + 1 /\ m.symbol \in Symbols
      /\ books[m.symbol].last # Unset /\ PutDiff(m)
      /\ symbol2last' = [symbol2last EXCEPT ![m.symbol] = m.diff.final]
      /\ UNCHANGED <<answer, ob_diffs_tail, buffer, main, pc, arg>>
  BY DEF InitPut, Skipped, PutThrows, NextIncoming, pushVars
<1>2. /\ m.symbol \in Used(answer.snapshots) /\ m.diff \in Diffs
      /\ BooksInStep /\ Started
  BY <1>1, StartedIsKnown, IncomingMessage DEF Delivery, Started
<1>3. /\ \A x : x.symbol \in Symbols /\ x.diff \in Diffs /\ Done(x) => Done(x)'
      /\ Done(m)'
      /\ \A s \in Symbols : s # m.symbol => books'[s] = books[s]
  BY <1>1, <1>2, PutDone
<1>4. m.diff.first <= books[m.symbol].last + 1
  BY <1>1, <1>2, NoGapInLoop
<1>5. BooksInStep'
  <2>1. ASSUME NEW s \in Used(answer.snapshots) PROVE BookInStep(s)'
    <3>1. s \in Symbols /\ BookInStep(s) /\ answer.snapshots[s].last \in Int
      BY <1>2, TailFacts DEF BooksInStep
    <3>2. symbol2last \in [Symbols -> 0..LastId]
      BY DEF IInv, TypeOK, ConsumerTypeOK
    <3>3. CASE s # m.symbol
      <4>1. books'[s] = books[s] /\ symbol2last'[s] = symbol2last[s]
        BY <1>1, <1>3, <3>1, <3>2, <3>3
      <4> QED BY <1>1, <3>1, <4>1 DEF BookInStep, Received
    <3>4. CASE s = m.symbol
      <4> DEFINE b == books[s]
                 c == books'[s]
                 d == m.diff
      <4>1. /\ c.last >= b.last /\ c.last \in Int /\ b.last \in Int
            /\ Len(c.q) < MaxSize /\ c.qlast <= c.last /\ c.q \in Seq(Diffs)
            /\ \A k \in 1..Len(c.q) : c.q[k].first > c.last + 1
            /\ \A e : Waits(c.q, e) => Waits(b.q, e) \/ e = d
        BY <1>1, <1>2, <3>1, <3>4, PutDone, BookFacts
      <4>2. b.last >= answer.snapshots[s].last /\ b.q = <<>>
        BY <1>1, <3>1 DEF BookInStep
      <4>3. d.first <= b.last + 1 /\ d.first \in Int /\ d.final \in Int
        BY <1>2, <1>4, <3>4, DiffRange
      <4>4. symbol2last'[s] = d.final
        BY <1>1, <3>1, <3>2, <3>4
      <4>5. d.final <= c.last \/ Waits(c.q, d)
        BY <1>3, <3>4 DEF Done
      <4> HIDE DEF b, c, d
      <4>6. \A e : ~ Waits(c.q, e)
        <5> SUFFICES ASSUME NEW k \in 1..Len(c.q) PROVE FALSE
          BY DEF Waits
        <5>1. c.q[k] = d
          <6>1. Waits(c.q, c.q[k])
            BY DEF Waits
          <6>2. ~ Waits(b.q, c.q[k])
            BY <4>2 DEF Waits
          <6> QED BY <4>1, <6>1, <6>2
        <5> QED BY <4>1, <4>3, <5>1
      <4>7. c.q = <<>>
        <5>1. ~ (1 \in 1..Len(c.q))
          <6>1. ~ Waits(c.q, c.q[1])
            BY <4>6
          <6> QED BY <6>1 DEF Waits
        <5> QED BY <4>1, <5>1
      <4>8. c.last >= answer.snapshots[s].last /\ c.last >= symbol2last'[s]
        BY <3>1, <4>1, <4>2, <4>3, <4>4, <4>5, <4>6
      <4> QED BY <1>1, <4>1, <4>7, <4>8 DEF BookInStep, c
    <3> QED BY <3>3, <3>4
  <2>2. \A s \in Symbols : s \notin Used(answer.snapshots) =>
          books'[s].last = Unset /\ ~ books'[s].reported
    BY <1>2, <1>3 DEF BooksInStep
  <2> QED BY <1>1, <1>2, <2>1, <2>2 DEF BooksInStep
<1> QED BY <1>1, <1>2, <1>3, <1>5, LoopGoesOn

-----------------------------------------------------------------------------
(* The theorem *)

LEMMA MainDelivers ==
  ASSUME Garbage = {}, OneAtStart, IInv, Delivery, Main, UNCHANGED <<feed, fed, keys>>
  PROVE  Delivery'
<1>1. CASE SetSnapshots \/ SetDiffsTail \/ TryInitTooEarly
  BY <1>1, EarlyDelivers
<1>2. CASE TryInitSnapshots
  BY <1>2, SnapshotsDeliver
<1>3. CASE InitDone
  BY <1>3, DoneDelivers
<1>4. ASSUME NEW m, InitSkip(m) PROVE Delivery'
  BY <1>4, SkipDelivers
<1>5. ASSUME NEW m, InitPut(m) PROVE Delivery'
  BY <1>5, InitPutDelivers
<1>6. ASSUME NEW m, InitThrow(m) PROVE Delivery'
  BY <1>6, ThrowDelivers
<1>7. ASSUME NEW incoming \in Incoming, NEW n \in 1..Len(incoming),
             InitSkip(incoming[n]) \/ InitPut(incoming[n]) \/ InitThrow(incoming[n])
      PROVE  Delivery'
  <2>1. PICK m : m = incoming[n]
    OBVIOUS
  <2> QED BY <1>4, <1>5, <1>6, <1>7, <2>1
<1> QED BY <1>1, <1>2, <1>3, <1>7 DEF Main

LEMMA PushDelivers ==
  ASSUME Garbage = {}, OneAtStart, IInv, Delivery, NEW t \in Threads, Push(t),
         UNCHANGED <<feed, fed, keys>>
  PROVE  Delivery'
BY StillHeldDelivers, BufferDelivers, PutDelivers, PutThrowDelivers DEF Push

LEMMA InitDelivers == Init => Delivery
<1> SUFFICES ASSUME Init PROVE Delivery
  OBVIOUS
<1>1. /\ books \in [Symbols -> EmptyBooks] /\ main = "set_snapshots" /\ buffer = <<>>
      /\ pc = [t \in Threads |-> "receive"] /\ fed = [t \in Threads |-> 0]
      /\ keys = [s \in Symbols |-> {}] /\ answer \in Answers
  BY DEF Init, ConsumerInit
<1>2. KeysAreRead
  BY <1>1, FeedAssumption DEF KeysAreRead, Holding
<1>3. BufferInOrder
  BY <1>1 DEF BufferInOrder
<1>4. AllPlaced
  BY <1>1 DEF AllPlaced, Used
<1>5. TailDone /\ BooksInStep
  BY <1>1, EmptyIsSound DEF TailDone, BooksInStep, Started, EmptyBooks
<1> QED BY <1>2, <1>3, <1>4, <1>5 DEF Delivery

LEMMA StepDelivers ==
  ASSUME Garbage = {}, OneAtStart, IInv, Delivery, [Next]_vars
  PROVE  Delivery'
<1>1. CASE UNCHANGED vars
  <2> USE <1>1 DEF vars, consumerVars, initVars, pushVars
  <2>1. KeysAreRead'
    BY DEF Delivery, KeysAreRead, Holding
  <2>2. BufferInOrder'
    BY DEF Delivery, BufferInOrder, Holding
  <2>3. AllPlaced'
    BY DEF Delivery, AllPlaced, Placed, Started, Done, Holding
  <2>4. TailDone' /\ BooksInStep'
    BY DEF Delivery, TailDone, BooksInStep, BookInStep, Started, Done, Received
  <2> QED BY <2>1, <2>2, <2>3, <2>4 DEF Delivery
<1>2. CASE Next
  BY <1>2, MainDelivers, PushDelivers, EventDelivers DEF Next, Connection
<1> QED BY <1>1, <1>2

\* Each message that was read is on its way, or with its book.
THEOREM DeliveryInvariance ==
  ASSUME Garbage = {}, OneAtStart
  PROVE  Spec => [](IInv /\ Delivery)
<1>1. Init => Delivery
  BY InitDelivers
<1>2. IInv /\ Delivery /\ [Next]_vars => Delivery'
  BY StepDelivers
<1>3. Spec => []IInv
  BY Invariance
<1> QED BY <1>1, <1>2, <1>3, PTL DEF Spec

\* No diff is lost between two connections, in the buffer, the two reads of is_ready
\* or the loop, nor left in a queue: for any number of symbols, connections and
\* reconnects, and any interleaving of them, where one connection per symbol brings
\* what comes before the start (consumer.cpp:34-77).
THEOREM NothingIsLost ==
  ASSUME Garbage = {}, OneAtStart
  PROVE  Spec => []NothingLost
<1>1. IInv /\ Delivery => NothingLost
  <2> SUFFICES ASSUME IInv, Delivery, main = "ready", Quiet,
                      NEW s \in Used(answer.snapshots), NEW d \in Received(s),
                      Complete(s, d)
               PROVE  books[s].last >= d.final
    BY DEF NothingLost
  <2>1. /\ Started /\ BookInStep(s) /\ s \in Symbols /\ answer \in Answers
        /\ feed \in Feeds
    BY TailFacts DEF Delivery, Started, BooksInStep, IInv, TypeOK
  \* What has been read is with its book.
  <2>2. ASSUME NEW t \in Threads, NEW n \in 1..fed[t], feed[t][n].symbol = s
        PROVE  /\ feed[t][n].diff \in Diffs /\ n \in 1..Len(feed[t])
               /\ feed[t][n].diff.final <= books[s].last
                  \/ Waits(books[s].q, feed[t][n].diff)
    <3>1. PICK x : x = feed[t][n]
      OBVIOUS
    <3>2. x \in keys[s] /\ n \in 1..Len(feed[t])
      BY <2>2, <3>1, FeedFacts DEF Delivery, KeysAreRead
    <3>3. Placed(x)
      BY <3>2 DEF Delivery, AllPlaced
    <3>4. ~ \E u \in Threads : Holding(u)
      BY DEF Quiet, Holding
    <3> QED BY <2>2, <3>1, <3>2, <3>3, <3>4, FeedFacts DEF Placed, Done
  <2>3. PICK t \in Threads : \E n \in 1..fed[t] :
          feed[t][n].symbol = s /\ feed[t][n].diff = d
    BY DEF Received
  <2>4. PICK n \in 1..fed[t] : feed[t][n].symbol = s /\ feed[t][n].diff = d
    BY <2>3
  <2>5. /\ d \in Diffs /\ n \in 1..Len(feed[t])
        /\ d.final <= books[s].last \/ Waits(books[s].q, d)
    BY <2>2, <2>4
  <2>6. /\ books[s].last \in Int /\ d.first \in Int /\ d.final \in Int
    BY <2>1, <2>5, BookFacts, DiffRange
  <2>7. CASE Waits(books[s].q, d)
    <3> DEFINE next == books[s].last + 1
    <3>1. next < d.first /\ next \in Int
      BY <2>1, <2>6, <2>7 DEF BookInStep, Waits
    <3>2. next \in Needed(answer, s, d)
      BY <2>1, <2>5, <3>1, NextIsNeeded
    <3>3. d \in OfFeed(feed, t, s)
      BY <2>4, <2>5 DEF OfFeed
    <3>4. Covers(OfTail(answer, s) \cup UNION {OfFeed(feed, u, s) : u \in Threads}, next)
      BY <2>1, <3>2, <3>3, SeamlessAssumption
    <3>5. PICK e \in OfTail(answer, s) \cup UNION {OfFeed(feed, u, s) : u \in Threads} :
            next \in e.first..e.final
      BY <3>4 DEF Covers
    <3>6. CASE e \in OfTail(answer, s)
      <4>1. PICK k \in 1..Len(answer.tail) :
              answer.tail[k].symbol = s /\ e = answer.tail[k].diff
        BY <3>6 DEF OfTail
      <4>2. PICK x : x = answer.tail[k]
        OBVIOUS
      <4>3. Done(x)
        BY <2>1, <4>1, <4>2 DEF Delivery, TailDone
      <4> QED BY <2>1, <3>5, <4>1, <4>2, <4>3, NextIsNotDone, TailFacts
    <3>7. ASSUME NEW u \in Threads, e \in OfFeed(feed, u, s) PROVE FALSE
      <4>1. PICK k \in 1..Len(feed[u]) : feed[u][k].symbol = s /\ e = feed[u][k].diff
        BY <3>7 DEF OfFeed
      <4>2. e \in Diffs
        BY <4>1, FeedFacts
      <4>3. CASE k \in 1..fed[u]
        <5>1. e.final <= books[s].last \/ Waits(books[s].q, e)
          BY <2>2, <4>1, <4>3
        <5>2. PICK x : x = feed[u][k]
          OBVIOUS
        <5> QED BY <2>1, <3>5, <4>1, <4>2, <5>1, <5>2, NextIsNotDone DEF Done
      <4>4. CASE k \notin 1..fed[u]
        <5>1. k \in (fed[u] + 1)..Len(feed[u])
          BY <4>1, <4>4, FeedFacts
        <5>2. e.final > d.final
          BY <4>1, <5>1 DEF Complete
        <5>3. e.final < d.first /\ e.final \in Int /\ d.first <= d.final
          BY <2>5, <3>1, <3>5, <4>2, CoversBefore, DiffRange
        <5> QED BY <2>6, <5>2, <5>3
      <4> QED BY <4>3, <4>4
    <3> QED BY <3>5, <3>6, <3>7
  <2> QED BY <2>5, <2>6, <2>7
<1> QED BY <1>1, DeliveryInvariance, PTL

-----------------------------------------------------------------------------
(* No book reports a gap *)

NoReport == \A s \in Symbols : ~ books[s].reported

\* The exchange publishes finitely many diffs.
LEMMA DiffsAreFinite == IsFiniteSet(Diffs)
<1> DEFINE f == [d \in Diffs |-> d.first]
<1>1. f \in [Diffs -> 1..LastId]
  BY DiffsAssumption
<1>2. \A d, e \in Diffs : f[d] = f[e] => d = e
  BY DiffRange
<1> HIDE DEF f
<1>3. f \in Injection(Diffs, 1..LastId)
  BY <1>1, <1>2, Fun_IsInj
<1>4. IsFiniteSet(1..LastId)
  <2>1. 1 \in Int /\ LastId \in Int
    BY ConstantsAssumption
  <2> QED BY <2>1, FS_Interval
<1> QED BY <1>3, <1>4, FS_Injection

\* What a book needs next, when the loop is over, is to be read or in push_ob_diff.
LEMMA NextIsPending ==
  ASSUME IInv, Delivery, main = "ready", NEW s \in Used(answer.snapshots),
         NEW t \in Threads, Holding(t), arg[t].symbol = s,
         books[s].last + 1 < arg[t].diff.first
  PROVE  \E e \in Pending(s) : e \in Diffs /\ books[s].last + 1 \in e.first..e.final
<1> DEFINE next == books[s].last + 1
<1>1. PICK d : d = arg[t].diff
  OBVIOUS
<1>2. /\ BookInStep(s) /\ s \in Symbols /\ Started /\ feed \in Feeds
      /\ answer \in Answers
  BY TailFacts DEF Delivery, BooksInStep, Started, IInv, TypeOK
<1>3. d \in Diffs /\ d \in OfFeed(feed, t, s) /\ next \in Int
  <2>1. fed[t] \in 1..Len(feed[t]) /\ arg[t] = feed[t][fed[t]] /\ d \in Diffs
    BY <1>1, HeldIsRead DEF Delivery
  <2> QED BY <1>1, <1>2, <2>1, BookFacts DEF OfFeed
<1>4. next \in Needed(answer, s, d)
  BY <1>1, <1>2, <1>3, NextIsNeeded
<1>5. Covers(OfTail(answer, s) \cup UNION {OfFeed(feed, u, s) : u \in Threads}, next)
  BY <1>2, <1>3, <1>4, SeamlessAssumption
<1>6. PICK e \in OfTail(answer, s) \cup UNION {OfFeed(feed, u, s) : u \in Threads} :
        next \in e.first..e.final
  BY <1>5 DEF Covers
<1>7. CASE e \in OfTail(answer, s)
  <2>1. PICK k \in 1..Len(answer.tail) :
          answer.tail[k].symbol = s /\ e = answer.tail[k].diff
    BY <1>7 DEF OfTail
  <2>2. PICK x : x = answer.tail[k]
    OBVIOUS
  <2>3. Done(x)
    BY <1>2, <2>1, <2>2 DEF Delivery, TailDone
  <2> QED BY <1>2, <1>6, <2>1, <2>2, <2>3, NextIsNotDone, TailFacts
<1>8. ASSUME NEW u \in Threads, e \in OfFeed(feed, u, s)
      PROVE  e \in Diffs /\ e \in Pending(s)
  <2>1. PICK k \in 1..Len(feed[u]) : feed[u][k].symbol = s /\ e = feed[u][k].diff
    BY <1>8 DEF OfFeed
  <2>2. e \in Diffs /\ e \in UNION {OfFeed(feed, v, s) : v \in Threads}
    BY <1>8, <2>1, FeedFacts
  <2>3. CASE e \in Received(s)
    <3>1. PICK v \in Threads : \E n \in 1..fed[v] :
            feed[v][n].symbol = s /\ feed[v][n].diff = e
      BY <2>3 DEF Received
    <3>2. PICK n \in 1..fed[v] : feed[v][n].symbol = s /\ feed[v][n].diff = e
      BY <3>1
    <3>3. PICK x : x = feed[v][n]
      OBVIOUS
    <3>4. x \in keys[s] /\ x.symbol = s /\ x.diff = e
      BY <3>2, <3>3 DEF Delivery, KeysAreRead
    <3>5. Placed(x)
      BY <3>4 DEF Delivery, AllPlaced
    <3>6. ~ Done(x)
      BY <1>2, <1>6, <2>2, <3>4, NextIsNotDone
    <3>7. \E w \in Threads : Holding(w) /\ arg[w] = x
      BY <3>5, <3>6 DEF Placed
    <3> QED BY <2>2, <3>4, <3>7 DEF Pending
  <2>4. CASE e \notin Received(s)
    BY <2>2, <2>4 DEF Pending
  <2> QED BY <2>2, <2>3, <2>4
<1> QED BY <1>6, <1>7, <1>8

\* A put meets no gap: what fills the queue would have overtaken the diff missing.
LEMMA PutReportsNothing ==
  ASSUME Garbage = {}, IInv, Delivery, NotOvertaken, NoReport,
         NEW t \in Threads, Put(t), UNCHANGED <<feed, fed, keys>>
  PROVE  NoReport'
<1>0. PICK m : m = arg[t]
  OBVIOUS
<1>1. /\ Holding(t) /\ main = "ready" /\ PutDiff(m) /\ books[m.symbol].last # Unset
      /\ answer' = answer /\ Started /\ BooksInStep
  BY <1>0 DEF Put, Holding, PutThrows, IInv, initVars, Started, Delivery
<1>2. /\ m.symbol \in Used(answer.snapshots) /\ m.diff \in Diffs
      /\ m.symbol \in Symbols /\ m.diff \in Received(m.symbol)
  BY <1>0, <1>1, HeldIsRead, StartedIsKnown DEF Delivery
<1>3. \A s \in Symbols : s # m.symbol => books'[s] = books[s]
  BY <1>1, <1>2, PutDone
<1>4. ~ books'[m.symbol].reported
  <2> SUFFICES ASSUME books'[m.symbol].reported PROVE FALSE
    OBVIOUS
  <2> DEFINE s == m.symbol
             b == books[s]
             d == m.diff
             q == Queued(b.q, d)
  <2>1. d.first > b.last + 1 /\ Len(q) = MaxSize
    BY <1>1, <1>2, PutDone DEF NoReport
  <2>2. /\ b.q \in Seq(Diffs) /\ Ordered(b.q) /\ b.last \in Int
        /\ \A k \in 1..Len(b.q) : b.q[k].first > b.last + 1 /\ b.q[k] \in Received(s)
    BY <1>1, <1>2, BookFacts DEF BooksInStep, BookInStep
  <2>3. d \in Diffs /\ d \in Received(s) /\ d.first \in Int
    BY <1>2, DiffRange
  <2>4. PICK e \in Pending(s) : e \in Diffs /\ b.last + 1 \in e.first..e.final
    BY <1>0, <1>1, <1>2, <2>1, <2>2, <2>3, NextIsPending
  <2> DEFINE S == {x \in Received(s) : x.first > e.first}
  <2>5. Cardinality(S) < MaxSize
    BY <1>2, <2>4 DEF NotOvertaken
  <2>6. S \subseteq Diffs
    BY FeedFacts DEF Received
  <2>7. IsFiniteSet(S)
    BY <2>6, DiffsAreFinite, FS_Subset
  <2> HIDE DEF b, d, q
  <2>8. /\ q \in Seq(Diffs) /\ Ordered(q)
        /\ \A k \in 1..Len(q) : q[k] = d \/ \E j \in 1..Len(b.q) : q[k] = b.q[j]
    BY <2>2, <2>3, QueuedProperties DEF q
  <2>9. ASSUME NEW k \in 1..Len(q) PROVE q[k] \in S
    <3>1. q[k] \in Received(s) /\ q[k].first > b.last + 1
      BY <2>1, <2>2, <2>3, <2>8
    <3>2. q[k] \in Diffs
      BY <2>8
    <3> QED BY <2>2, <2>4, <3>1, <3>2, DiffRange
  <2> HIDE DEF S
  <2>10. Len(q) <= Cardinality(S)
    BY <2>7, <2>8, <2>9, QueueLength
  <2>11. Cardinality(S) \in Nat /\ MaxSize \in Nat
    BY <2>7, FS_CardinalityType, ConstantsAssumption
  <2> QED BY <2>1, <2>5, <2>10, <2>11
<1> QED BY <1>3, <1>4 DEF NoReport

LEMMA StepReportsNothing ==
  ASSUME Garbage = {}, OneAtStart, IInv, Delivery, NotOvertaken, NoReport, [Next]_vars
  PROVE  NoReport'
<1>1. CASE UNCHANGED books
  BY <1>1 DEF NoReport
<1>2. CASE TryInitSnapshots
  <2> SUFFICES ASSUME NEW s \in Symbols PROVE ~ books'[s].reported
    BY DEF NoReport
  <2>1. books'[s] = IF s \in Used(answer.snapshots)
                    THEN AfterSnapshot(books[s], answer.snapshots[s]) ELSE books[s]
    BY <1>2 DEF TryInitSnapshots, IInv, TypeOK, ConsumerTypeOK
  <2>2. books[s] \in Books /\ ~ books[s].reported
    BY BookFacts DEF NoReport
  <2>3. AfterSnapshot(books[s], answer.snapshots[s]).reported = books[s].reported
    BY <2>2 DEF AfterSnapshot, Books
  <2> QED BY <2>1, <2>2, <2>3
<1>3. ASSUME NEW m, InitPut(m) PROVE NoReport'
  <2>1. /\ NextIncoming(m) /\ m.symbol \in Symbols
        /\ books[m.symbol].last # Unset /\ PutDiff(m)
    BY <1>3 DEF InitPut, Skipped, PutThrows
  <2>2. /\ m.symbol \in Used(answer.snapshots) /\ m.diff \in Diffs
        /\ BooksInStep /\ Started
    BY <2>1, StartedIsKnown, IncomingMessage DEF Delivery, Started, NextIncoming
  <2>3. m.diff.first <= books[m.symbol].last + 1
    BY <2>1, <2>2, NoGapInLoop
  <2>4. books[m.symbol].last \in Int /\ m.diff.first \in Int
    BY <2>1, <2>2, BookFacts, DiffRange
  <2>5. ~ books'[m.symbol].reported
    BY <2>1, <2>2, <2>3, <2>4, PutDone DEF NoReport
  <2>6. \A s \in Symbols : s # m.symbol => books'[s] = books[s]
    BY <2>1, <2>2, PutDone
  <2> QED BY <2>5, <2>6 DEF NoReport
<1>4. ASSUME NEW incoming \in Incoming, NEW n \in 1..Len(incoming),
             InitPut(incoming[n])
      PROVE  NoReport'
  <2>1. PICK m : m = incoming[n]
    OBVIOUS
  <2> QED BY <1>3, <1>4, <2>1
<1>5. ASSUME NEW t \in Threads, Put(t), UNCHANGED <<feed, fed, keys>> PROVE NoReport'
  BY <1>5, PutReportsNothing
<1>6. CASE Main /\ UNCHANGED <<feed, fed, keys>>
  <2>1. \/ UNCHANGED books \/ TryInitSnapshots
        \/ \E incoming \in Incoming : \E n \in 1..Len(incoming) : InitPut(incoming[n])
    BY <1>6 DEF Main, SetSnapshots, SetDiffsTail, TryInitTooEarly, InitDone,
       InitSkip, InitThrow
  <2> QED BY <1>1, <1>2, <1>4, <2>1
<1>7. ASSUME NEW t \in Threads, Connection(t) PROVE NoReport'
  <2>1. UNCHANGED books \/ (Put(t) /\ UNCHANGED <<feed, fed, keys>>)
    BY <1>7 DEF Connection, OnKnownEvent, OnNewEvent, Receive, consumerVars,
       Push, CheckReady, LockAndBuffer, LockAndGoOn, PutThrow
  <2> QED BY <1>1, <1>5, <2>1
<1> QED BY <1>1, <1>6, <1>7 DEF Next, vars, consumerVars

\* The books are the exchange's: where no diff is overtaken by as many as a queue
\* holds, snapshot, tail, buffer and connections join without a gap, at every moment
\* of the start and after it (consumer.cpp:34-77, orderbook.cpp:107-182).
THEOREM BooksAreTheExchange ==
  ASSUME Garbage = {}, OneAtStart
  PROVE  Spec /\ []NotOvertaken => []BooksAreExchange
<1>1. Init => NoReport
  BY DEF Init, ConsumerInit, EmptyBooks, NoReport
<1>2. IInv /\ Delivery /\ NotOvertaken /\ NoReport /\ [Next]_vars => NoReport'
  BY StepReportsNothing
<1>3. Spec => [](IInv /\ Delivery)
  BY DeliveryInvariance
<1>4. IInv /\ NoReport => BooksAreExchange
  BY DEF IInv, Sound, NoReport, BooksAreExchange
<1> QED BY <1>1, <1>2, <1>3, <1>4, PTL DEF Spec
=============================================================================
