-------------------------- MODULE SpotContextProofs --------------------------
(***************************************************************************)
(* What is proved of the context and of the messages its consumers hand    *)
(* on: of SpotContext for any exchange info, any list of symbols and any   *)
(* size of a batch, and of EventDedup for any number of connections and    *)
(* messages, every expiry and every course of the clock.                    *)
(***************************************************************************)
EXTENDS SpotContext, EventDedup, FiniteSetTheorems, SequenceTheorems,
        WellFoundedInduction, TLAPS

-----------------------------------------------------------------------------
(* Division into batches *)

\* Division that rounds up.
LEMMA DivUpFacts ==
  ASSUME NEW a \in Nat, NEW b \in Nat \ {0}
  PROVE  /\ DivUp(a, b) \in Nat
         /\ DivUp(a, b) * b >= a
         /\ (DivUp(a, b) - 1) * b < a
<1> DEFINE m == a + b - 1
           q == m \div b
<1>1. m \in Nat
  OBVIOUS
<1> HIDE DEF m
<1>2. q \in Nat /\ q * b <= m /\ m < q * b + b
  BY <1>1
<1> HIDE DEF q
<1>3. (q - 1) * b = q * b - b /\ q * b \in Int
  BY <1>2
<1>4. q * b >= a /\ (q - 1) * b < a
  BY <1>2, <1>3 DEF m
<1> QED BY <1>2, <1>4 DEF DivUp, q, m

\* A product grows with its factor.
LEMMA FactorFromProduct ==
  ASSUME NEW a \in Int, NEW b \in Int, NEW m \in Nat, a * m < b * m
  PROVE  a < b
<1> SUFFICES ASSUME b <= a PROVE b * m <= a * m
  OBVIOUS
<1> DEFINE d == a - b
<1>1. d \in Nat /\ a = b + d
  OBVIOUS
<1> HIDE DEF d
<1>2. a * m = b * m + d * m /\ d * m \in Nat /\ b * m \in Int
  BY <1>1
<1> QED BY <1>2

\* get_symbols_batches makes as many batches as are needed, none larger than allowed.
LEMMA BatchSizeFacts ==
  ASSUME NEW n \in Nat \ {0}
  PROVE  /\ BatchSize(n) \in 1..MaxBatch
         /\ DivUp(n, BatchSize(n)) = DivUp(n, MaxBatch)
         /\ DivUp(n, MaxBatch) \in Nat \ {0}
<1> DEFINE M == MaxBatch
           c == DivUp(n, M)
           B == DivUp(n, c)
           d == DivUp(n, B)
<1>1. M \in Nat \ {0}
  BY ContextAssumption
<1>2. c \in Nat /\ c * M >= n /\ (c - 1) * M < n
  BY <1>1, DivUpFacts
<1>3. c # 0
  BY <1>1, <1>2
<1> HIDE DEF M, c
<1>4. B \in Nat /\ B * c >= n /\ (B - 1) * c < n
  BY <1>2, <1>3, DivUpFacts
<1>5. B # 0
  BY <1>2, <1>4
<1> HIDE DEF B
<1>6. d \in Nat /\ d * B >= n /\ (d - 1) * B < n
  BY <1>4, <1>5, DivUpFacts
<1> HIDE DEF d
<1>7. B <= M
  <2>1. (B - 1) * c < M * c
    BY <1>1, <1>2, <1>4
  <2>2. B - 1 < M
    BY <1>1, <1>2, <1>4, <2>1, FactorFromProduct
  <2> QED BY <1>1, <1>4, <2>2
<1>8. d <= c
  <2>1. (d - 1) * B < c * B
    BY <1>2, <1>4, <1>6
  <2>2. d - 1 < c
    BY <1>2, <1>4, <1>6, <2>1, FactorFromProduct
  <2> QED BY <1>2, <1>6, <2>2
<1>9. c <= d
  <2>1. d * B <= d * M
    BY <1>1, <1>4, <1>6, <1>7
  <2>2. (c - 1) * M < d * M
    BY <1>1, <1>2, <1>4, <1>6, <2>1
  <2>3. c - 1 < d
    BY <1>1, <1>2, <1>6, <2>2, FactorFromProduct
  <2> QED BY <1>2, <1>6, <2>3
<1>10. d = c
  BY <1>2, <1>6, <1>8, <1>9
<1>11. BatchSize(n) = B /\ DivUp(n, B) = d /\ DivUp(n, MaxBatch) = c
  BY DEF BatchSize, B, c, M, d
<1> QED BY <1>1, <1>2, <1>3, <1>4, <1>5, <1>7, <1>10, <1>11 DEF M

\* Min of two numbers (the library gives it by CHOOSE).
LEMMA MinOfTwo ==
  ASSUME NEW a \in Int, NEW b \in Int
  PROVE  Min({a, b}) = IF a <= b THEN a ELSE b
<1>1. CASE a <= b
  <2>1. \E x \in {a, b} : \A y \in {a, b} : x <= y
    BY <1>1
  <2>2. Min({a, b}) \in {a, b} /\ \A y \in {a, b} : Min({a, b}) <= y
    BY <2>1 DEF Min
  <2> HIDE DEF Min
  <2> QED BY <1>1, <2>2
<1>2. CASE b < a
  <2>1. \E x \in {a, b} : \A y \in {a, b} : x <= y
    BY <1>2
  <2>2. Min({a, b}) \in {a, b} /\ \A y \in {a, b} : Min({a, b}) <= y
    BY <2>1 DEF Min
  <2> QED BY <1>2, <2>2
<1> QED BY <1>1, <1>2

\* Where the batches of a list of n symbols end.
CutAt(n) ==
  [k \in 0..DivUp(n, MaxBatch) |->
     IF k * BatchSize(n) <= n THEN k * BatchSize(n) ELSE n]

\* They cut the list into pieces that are neither empty nor too long ...
LEMMA CutAtFacts ==
  ASSUME NEW n \in Nat \ {0}
  PROVE  /\ CutAt(n) \in [0..DivUp(n, MaxBatch) -> 0..n]
         /\ CutAt(n)[0] = 0 /\ CutAt(n)[DivUp(n, MaxBatch)] = n
         /\ \A k \in 1..DivUp(n, MaxBatch) :
              /\ CutAt(n)[k] - CutAt(n)[k - 1] \in 1..MaxBatch
              /\ CutAt(n)[k - 1] = (k - 1) * BatchSize(n)
<1> DEFINE c == DivUp(n, MaxBatch)
           B == BatchSize(n)
           cut == CutAt(n)
<1>1. /\ B \in Nat \ {0} /\ B <= MaxBatch /\ MaxBatch \in Nat
      /\ c \in Nat \ {0} /\ DivUp(n, B) = c
  BY BatchSizeFacts, ContextAssumption
<1>2. c * B >= n /\ (c - 1) * B < n
  BY <1>1, DivUpFacts
<1>3. cut = [k \in 0..c |-> IF k * B <= n THEN k * B ELSE n]
  BY DEF CutAt
<1> HIDE DEF c, B, cut
<1>4. cut \in [0..c -> 0..n]
  <2> SUFFICES ASSUME NEW k \in 0..c PROVE k * B \in Nat
    BY <1>3
  <2> QED BY <1>1
<1>5. cut[0] = 0 /\ cut[c] = n
  <2>1. 0 * B = 0 /\ c * B \in Nat
    BY <1>1
  <2> QED BY <1>1, <1>2, <1>3, <2>1
<1>6. ASSUME NEW k \in 1..c
      PROVE  cut[k] - cut[k - 1] \in 1..MaxBatch /\ cut[k - 1] = (k - 1) * B
  <2>1. (k - 1) * B <= (c - 1) * B /\ (k - 1) * B \in Nat /\ (c - 1) * B \in Nat
    BY <1>1
  <2>2. cut[k - 1] = (k - 1) * B /\ (k - 1) * B < n
    BY <1>1, <1>2, <1>3, <2>1
  <2>3. k * B = (k - 1) * B + B
    BY <1>1
  <2>4. cut[k] \in {k * B, n} /\ cut[k] <= k * B /\ cut[k] <= n
    BY <1>1, <1>3, <2>1, <2>3
  <2> QED BY <1>1, <2>1, <2>2, <2>3, <2>4
<1> QED BY <1>4, <1>5, <1>6 DEF c, B, cut

\* ... which are the batches.
LEMMA BatchesFacts ==
  ASSUME NEW S, NEW s \in Seq(S)
  PROVE  /\ Batches(s) \in Seq(Seq(S))
         /\ Len(Batches(s)) = DivUp(Len(s), MaxBatch)
         /\ \E cut \in [0..Len(Batches(s)) -> 0..Len(s)] :
              /\ cut[0] = 0 /\ cut[Len(Batches(s))] = Len(s)
              /\ \A k \in 1..Len(Batches(s)) :
                   /\ cut[k] - cut[k - 1] \in 1..MaxBatch
                   /\ Batches(s)[k] = SubSeq(s, cut[k - 1] + 1, cut[k])
<1> DEFINE n == Len(s)
<1>1. n \in Nat /\ MaxBatch \in Nat \ {0}
  BY ContextAssumption
<1>2. CASE n = 0
  <2>1. Batches(s) = <<>>
    BY <1>2 DEF Batches
  <2>2. DivUp(0, MaxBatch) = 0
    <3>1. /\ DivUp(0, MaxBatch) \in Nat
          /\ (DivUp(0, MaxBatch) - 1) * MaxBatch < 0 * MaxBatch
      BY <1>1, DivUpFacts
    <3>2. DivUp(0, MaxBatch) - 1 < 0
      BY <1>1, <3>1, FactorFromProduct
    <3> QED BY <3>1, <3>2
  <2>3. Len(Batches(s)) = 0 /\ Batches(s) \in Seq(Seq(S))
    BY <2>1
  <2> DEFINE cut == [k \in 0..0 |-> 0]
  <2>4. cut \in [0..0 -> 0..n] /\ cut[0] = 0
    BY <1>2
  <2> HIDE DEF cut
  <2>5. \A k \in 1..0 : FALSE
    OBVIOUS
  <2>6. /\ cut \in [0..Len(Batches(s)) -> 0..Len(s)]
        /\ cut[0] = 0 /\ cut[Len(Batches(s))] = Len(s)
        /\ \A k \in 1..Len(Batches(s)) : FALSE
    BY <1>2, <2>3, <2>4, <2>5
  <2> QED BY <1>2, <2>2, <2>3, <2>6
<1>3. CASE n # 0
  <2> DEFINE c == DivUp(n, MaxBatch)
             B == BatchSize(n)
             cut == CutAt(n)
  <2>1. n \in Nat \ {0}
    BY <1>1, <1>3
  <2>2. /\ c \in Nat \ {0} /\ DivUp(n, B) = c /\ B \in Nat
    BY <2>1, BatchSizeFacts
  <2>3. /\ cut \in [0..c -> 0..n] /\ cut[0] = 0 /\ cut[c] = n
        /\ \A k \in 1..c : /\ cut[k] - cut[k - 1] \in 1..MaxBatch
                           /\ cut[k - 1] = (k - 1) * B
    BY <2>1, CutAtFacts
  <2>4. \A k \in 0..c : cut[k] = IF k * B <= n THEN k * B ELSE n
    BY DEF CutAt
  <2>5. Batches(s) = [b \in 1..c |-> SubSeq(s, (b - 1) * B + 1, Min({b * B, n}))]
    BY <1>3, <2>2 DEF Batches
  <2> HIDE DEF c, B, cut
  <2>6. \A b \in 1..c : SubSeq(s, (b - 1) * B + 1, Min({b * B, n}))
                          = SubSeq(s, cut[b - 1] + 1, cut[b])
    <3> SUFFICES ASSUME NEW b \in 1..c
                 PROVE  Min({b * B, n}) = cut[b] /\ cut[b - 1] = (b - 1) * B
      OBVIOUS
    <3>1. b * B \in Int /\ n \in Int
      BY <1>1, <2>2
    <3>2. Min({b * B, n}) = IF b * B <= n THEN b * B ELSE n
      BY <3>1, MinOfTwo
    <3>3. b \in 0..c
      BY <2>2
    <3> QED BY <2>3, <2>4, <3>2, <3>3
  <2>7. \A b \in 1..c : SubSeq(s, cut[b - 1] + 1, cut[b]) \in Seq(S)
    <3> SUFFICES ASSUME NEW b \in 1..c
                 PROVE  SubSeq(s, cut[b - 1] + 1, cut[b]) \in Seq(S)
      OBVIOUS
    <3>1. b \in 0..c /\ b - 1 \in 0..c
      BY <2>2
    <3>2. cut[b] \in 0..n /\ cut[b - 1] \in 0..n
      BY <2>3, <3>1
    <3> QED BY <1>1, <3>2, SubSeqProperties
  <2> DEFINE piece(b) == SubSeq(s, cut[b - 1] + 1, cut[b])
  <2>8. Batches(s) = [b \in 1..c |-> piece(b)]
    BY <2>5, <2>6
  <2> HIDE DEF piece
  <2>9. \A b \in 1..c : piece(b) \in Seq(S)
    BY <2>7 DEF piece
  <2>10. /\ Batches(s) \in Seq(Seq(S)) /\ Len(Batches(s)) = c
        /\ \A k \in 1..c : Batches(s)[k] = piece(k)
    BY <2>2, <2>8, <2>9
  <2> QED BY <2>3, <2>10 DEF c, piece
<1> QED BY <1>2, <1>3

-----------------------------------------------------------------------------
(* The inductive invariant of the context *)

\* The large consumer is made before the first thread starts, and outlives all; who is
\* stuck without it is so before there is a thread.
LargeOutlives ==
  /\ main \in {"init_symbols", "new_consumer"} => consumers = <<>>
  /\ main \notin {"init_symbols", "new_consumer", "thrown", "destroyed"} =>
       large = "alive" \/ (main = "stuck" /\ consumers = <<>>)

\* Only a consumer that has not ended calls back, and at the end all are deleted.
CallersLive ==
  /\ \A k \in 1..Len(consumers) :
       consumers[k].callback => consumers[k].state \in {"starting", "running", "finishing"}
  /\ main = "destroyed" => \A k \in 1..Len(consumers) : consumers[k].state = "deleted"

\* The consumers made so far have the first batches, in turn.
BatchesInTurn ==
  /\ Len(consumers) <= Len(Batches(symbols))
  /\ \A k \in 1..Len(consumers) : consumers[k].symbols = Batches(symbols)[k]
  /\ main \in {"tail", "get", "using"} => Len(consumers) = Len(Batches(symbols))

ContextInv ==
  /\ ContextTypeOK
  /\ LargeOutlives
  /\ CallersLive
  /\ BatchesInTurn
  /\ FetchIsAwaited

ConsumerRecords ==
  [symbols : Seq(Listed), callback : BOOLEAN, hung : BOOLEAN,
   state : {"starting", "running", "finishing", "ended", "deleted"}]

\* The lists of symbols there may be.
LEMMA SymbolsAreListed ==
  ASSUME NEW asked \in Asked, InitSymbols(asked)
  PROVE  symbols' \in Seq(Listed)
<1>1. CASE asked = <<>>
  <2>1. symbols' \in SetToSeqs(Listed)
    BY <1>1 DEF InitSymbols
  <2>2. Cardinality(Listed) \in Nat
    BY ContextAssumption, FS_CardinalityType
  <2>3. symbols' \in [1..Cardinality(Listed) -> Listed]
    BY <2>1 DEF SetToSeqs
  <2> QED BY <2>2, <2>3
<1>2. CASE asked # <<>>
  <2> DEFINE places == {i \in 1..Len(asked) : asked[i] \in Listed}
             k == Cardinality(places)
  <2>1. k \in Nat
    <3>1. asked \in Seq(Range(asked))
      BY ContextAssumption
    <3>2. IsFiniteSet(1..Len(asked))
      BY <3>1, FS_Interval
    <3>3. IsFiniteSet(places)
      BY <3>2, FS_Subset
    <3> QED BY <3>3, FS_CardinalityType
  <2> HIDE DEF k
  <2>2. PICK at \in [1..k -> places] : symbols' = [j \in 1..k |-> asked[at[j]]]
    BY <1>2 DEF InitSymbols, Filtered, k
  <2>3. \A j \in 1..k : asked[at[j]] \in Listed
    OBVIOUS
  <2> QED BY <2>1, <2>2, <2>3
<1> QED BY <1>1, <1>2

\* The steps of the application's thread that make no consumer.
LEMMA MainStep ==
  ASSUME ContextInv,
         \/ \E asked \in Asked : InitSymbols(asked)
         \/ InitSymbolsThrows \/ NewConsumer \/ ConsumerRuns
         \/ NewApi \/ NewApiThrows \/ TailGot \/ TailThrows \/ TailSpins
         \/ RequestUnanswered \/ Unwind \/ SetData \/ SetDataThrows \/ Destroy \/ DeleteConsumer
  PROVE  ContextInv'
<1> USE DEF ContextInv
<1>1. ASSUME NEW asked \in Asked, InitSymbols(asked) PROVE ContextInv'
  <2>1. symbols' \in Seq(Listed) /\ consumers' = <<>> /\ main' = "new_consumer"
    BY <1>1, SymbolsAreListed DEF InitSymbols, LargeOutlives
  <2>2. Len(Batches(symbols')) \in Nat
    <3> DEFINE list == symbols'
    <3>1. list \in Seq(Listed)
      BY <2>1
    <3> HIDE DEF list
    <3>2. Batches(list) \in Seq(Seq(Listed))
      BY <3>1, BatchesFacts
    <3>3. Len(Batches(list)) \in Nat
      BY <3>2
    <3> QED BY <3>3 DEF list
  <2>3. BatchesInTurn'
    BY <2>1, <2>2 DEF BatchesInTurn
  <2>4. ContextTypeOK'
    BY <1>1, <2>1 DEF InitSymbols, ContextTypeOK
  <2>5. LargeOutlives' /\ CallersLive' /\ FetchIsAwaited'
    BY <1>1, <2>1 DEF InitSymbols, LargeOutlives, CallersLive, FetchIsAwaited, FetchRuns
  <2> QED BY <2>3, <2>4, <2>5
<1>2. CASE InitSymbolsThrows \/ NewConsumer \/ ConsumerRuns
  BY <1>2 DEF InitSymbolsThrows, NewConsumer, ConsumerRuns, ContextTypeOK,
              LargeOutlives, CallersLive, BatchesInTurn, FetchIsAwaited, FetchRuns
<1>3. CASE NewApi \/ NewApiThrows \/ TailGot \/ TailThrows \/ TailSpins \/ Unwind
  BY <1>3 DEF NewApi, NewApiThrows, TailGot, TailThrows, TailSpins, Unwind,
              ContextTypeOK, LargeOutlives, CallersLive, BatchesInTurn,
              FetchIsAwaited, FetchRuns
<1>4. CASE RequestUnanswered
  BY <1>4 DEF RequestUnanswered, ContextTypeOK, LargeOutlives, CallersLive,
              BatchesInTurn, FetchIsAwaited, FetchRuns
<1>5. CASE SetData \/ SetDataThrows \/ Destroy \/ DeleteConsumer
  BY <1>5 DEF SetData, SetDataThrows, Destroy, DeleteConsumer,
              ContextTypeOK, LargeOutlives, CallersLive, BatchesInTurn,
              FetchIsAwaited, FetchRuns
<1> QED BY <1>1, <1>2, <1>3, <1>4, <1>5

\* The next batch gets a consumer.
LEMMA RunConsumerStep ==
  ASSUME ContextInv, RunConsumer
  PROVE  ContextInv'
<1> USE DEF ContextInv
<1> DEFINE n == Len(consumers)
           new == [symbols |-> Batches(symbols)[n + 1], state |-> "starting",
                   hung |-> FALSE, callback |-> FALSE]
<1>1. /\ consumers \in Seq(ConsumerRecords) /\ symbols \in Seq(Listed)
      /\ consumers' = Append(consumers, new) /\ main = "run" /\ main' = "wait"
      /\ n < Len(Batches(symbols))
      /\ UNCHANGED <<symbols, large, fetch, retries>>
  BY DEF RunConsumer, ContextTypeOK, ConsumerRecords
<1>2. Batches(symbols) \in Seq(Seq(Listed)) /\ n \in Nat
  BY <1>1, BatchesFacts
<1>3. Batches(symbols)[n + 1] \in Seq(Listed)
  BY <1>1, <1>2
<1>4. new \in ConsumerRecords
  BY <1>3 DEF ConsumerRecords
<1>5. /\ new.symbols = Batches(symbols)[n + 1] /\ ~ new.callback
  OBVIOUS
<1> HIDE DEF new
<1>6. /\ consumers' \in Seq(ConsumerRecords) /\ Len(consumers') = n + 1
      /\ \A k \in 1..n : consumers'[k] = consumers[k]
      /\ consumers'[n + 1] = new
  BY <1>1, <1>4
<1>7. ContextTypeOK'
  BY <1>1, <1>6 DEF ContextTypeOK, ConsumerRecords
<1>8. LargeOutlives' /\ FetchIsAwaited'
  BY <1>1 DEF LargeOutlives, FetchIsAwaited, FetchRuns
<1>9. CallersLive'
  BY <1>1, <1>2, <1>5, <1>6 DEF CallersLive
<1>10. BatchesInTurn'
  BY <1>1, <1>2, <1>5, <1>6 DEF BatchesInTurn
<1> QED BY <1>7, <1>8, <1>9, <1>10

\* A step of a consumer, or of the destructor about one: nobody calls back who
\* has ended, and nobody changes his symbols.
LEMMA ConsumerStep ==
  ASSUME ContextInv, NEW k \in 1..Len(consumers),
         \/ Consumer(k) \/ FinishConsumer(k) \/ JoinConsumer(k)
  PROVE  ContextInv'
<1> USE DEF ContextInv
<1>1. /\ consumers \in Seq(ConsumerRecords) /\ consumers[k] \in ConsumerRecords
      /\ Len(consumers) \in Nat
  <2>1. consumers \in Seq(ConsumerRecords)
    BY DEF ContextTypeOK, ConsumerRecords
  <2>2. consumers[k] \in ConsumerRecords
    BY <2>1
  <2> QED BY <2>1, <2>2
<1>2. PICK r \in ConsumerRecords :
        /\ consumers' = [consumers EXCEPT ![k] = r]
        /\ r.symbols = consumers[k].symbols
        /\ r.callback => r.state \in {"starting", "running", "finishing"}
  <2>1. ASSUME NEW st \in {"starting", "running", "finishing", "ended", "deleted"},
               consumers' = [consumers EXCEPT ![k].state = st],
               st \in {"ended", "deleted"} => ~ consumers[k].callback
        PROVE  \E r \in ConsumerRecords :
                 /\ consumers' = [consumers EXCEPT ![k] = r]
                 /\ r.symbols = consumers[k].symbols
                 /\ r.callback => r.state \in {"starting", "running", "finishing"}
    <3> DEFINE r == [consumers[k] EXCEPT !.state = st]
    <3>1. r \in ConsumerRecords /\ r.symbols = consumers[k].symbols
          /\ r.state = st /\ r.callback = consumers[k].callback
      BY <1>1 DEF ConsumerRecords
    <3>2. consumers' = [consumers EXCEPT ![k] = r]
      BY <2>1
    <3> HIDE DEF r
    <3> QED BY <2>1, <3>1, <3>2
  <2>2. ASSUME NEW b \in BOOLEAN, consumers' = [consumers EXCEPT ![k].callback = b],
               b => consumers[k].state \in {"starting", "running", "finishing"}
        PROVE  \E r \in ConsumerRecords :
                 /\ consumers' = [consumers EXCEPT ![k] = r]
                 /\ r.symbols = consumers[k].symbols
                 /\ r.callback => r.state \in {"starting", "running", "finishing"}
    <3> DEFINE r == [consumers[k] EXCEPT !.callback = b]
    <3>1. r \in ConsumerRecords /\ r.symbols = consumers[k].symbols
          /\ r.state = consumers[k].state /\ r.callback = b
      BY <1>1 DEF ConsumerRecords
    <3>2. consumers' = [consumers EXCEPT ![k] = r]
      BY <2>2
    <3> HIDE DEF r
    <3> QED BY <2>2, <3>1, <3>2
  <2>3. CASE Hangs(k)
    <3> DEFINE r == [consumers[k] EXCEPT !.hung = TRUE]
    <3>1. r \in ConsumerRecords /\ r.symbols = consumers[k].symbols
          /\ r.state = consumers[k].state /\ r.callback = consumers[k].callback
      BY <1>1 DEF ConsumerRecords
    <3>2. consumers' = [consumers EXCEPT ![k] = r]
      BY <2>3 DEF Hangs
    <3> HIDE DEF r
    <3> QED BY <3>1, <3>2 DEF CallersLive
  <2>4. CASE Started(k) \/ Ended(k)
    BY <2>1, <2>4 DEF Started, Ended, CallersLive
  <2>5. CASE OnEvent(k) \/ OnEventReturns(k)
    BY <2>2, <2>5 DEF OnEvent, OnEventReturns
  <2>6. CASE FinishConsumer(k) \/ JoinConsumer(k)
    BY <2>1, <2>6 DEF FinishConsumer, JoinConsumer, CallersLive
  <2> QED BY <2>3, <2>4, <2>5, <2>6 DEF Consumer
<1>3. /\ consumers' \in Seq(ConsumerRecords) /\ Len(consumers') = Len(consumers)
      /\ \A j \in 1..Len(consumers) : consumers'[j] = IF j = k THEN r ELSE consumers[j]
  BY <1>1, <1>2
<1>4. /\ UNCHANGED <<symbols, large, fetch, retries>>
      /\ \/ main' = main
         \/ main = "delete" /\ main' = "join"
         \/ main = "join" /\ main' = "delete"
      /\ main # "destroyed"
  <2>1. main # "destroyed"
    BY <1>1 DEF Consumer, Hangs, Started, OnEvent, OnEventReturns, Ended,
                FinishConsumer, JoinConsumer, CallersLive
  <2> QED
    BY <2>1 DEF Consumer, Hangs, Started, OnEvent, OnEventReturns, Ended,
                FinishConsumer, JoinConsumer
<1>5. ContextTypeOK'
  BY <1>3, <1>4 DEF ContextTypeOK, ConsumerRecords
<1>6. consumers # <<>>
  BY <1>1
<1>7. LargeOutlives' /\ FetchIsAwaited'
  BY <1>4, <1>6 DEF LargeOutlives, FetchIsAwaited, FetchRuns
<1>8. CallersLive'
  BY <1>2, <1>3, <1>4 DEF CallersLive
<1>9. BatchesInTurn'
  BY <1>2, <1>3, <1>4 DEF BatchesInTurn
<1> QED BY <1>5, <1>7, <1>8, <1>9

\* A step of get_snapshots: its thread runs on, or ends.
LEMMA FetchStep ==
  ASSUME ContextInv, Fetch
  PROVE  ContextInv'
<1> USE DEF ContextInv
<1>1. /\ UNCHANGED <<main, symbols, consumers, large>>
      /\ FetchRuns
      /\ fetch' \in {"url", "download", "stuck", "done", "failed"}
      /\ retries' \in 0..(MaxRetries - 1)
  <2>1. \A body \in Body : DownloadEnds[body] \in {"done", "failed", "stuck"}
    BY DEF Body, DownloadEnds
  <2>2. retries \in 0..(MaxRetries - 1) /\ MaxRetries \in Nat \ {0}
    BY ContextAssumption DEF ContextTypeOK
  <2> QED
    BY <2>1, <2>2 DEF Fetch, FetchUrl, FetchUrlRetries, FetchUrlThrows, Download,
           FetchUnanswered, FetchRuns, LastTry, ContextTypeOK
<1>2. ContextTypeOK'
  BY <1>1 DEF ContextTypeOK
<1>3. LargeOutlives' /\ CallersLive' /\ BatchesInTurn'
  BY <1>1 DEF LargeOutlives, CallersLive, BatchesInTurn
<1>4. FetchIsAwaited'
  BY <1>1 DEF FetchIsAwaited
<1> QED BY <1>2, <1>3, <1>4

\* ContextInv holds in every reachable state.
THEOREM ContextInvariance == ContextSpec => []ContextInv
<1>1. ContextInit => ContextInv
  <2> SUFFICES ASSUME ContextInit PROVE ContextInv
    OBVIOUS
  <2>1. symbols = <<>> /\ symbols \in Seq(Listed) /\ consumers = <<>> /\ Len(consumers) = 0
    BY DEF ContextInit
  <2>2. Batches(symbols) = <<>>
    BY <2>1 DEF Batches
  <2>3. MaxRetries \in Nat \ {0}
    BY ContextAssumption
  <2> QED
    BY <2>1, <2>2, <2>3
    DEF ContextInit, ContextInv, ContextTypeOK, LargeOutlives, CallersLive,
        BatchesInTurn, FetchIsAwaited, FetchRuns
<1>2. ContextInv /\ [ContextNext]_contextVars => ContextInv'
  <2>1. ASSUME ContextInv, UNCHANGED contextVars PROVE ContextInv'
    BY <2>1 DEF contextVars, ContextInv, ContextTypeOK, LargeOutlives, CallersLive,
                BatchesInTurn, FetchIsAwaited, FetchRuns
  <2>2. ASSUME ContextInv, ContextNext PROVE ContextInv'
    BY <2>2, MainStep, RunConsumerStep, ConsumerStep, FetchStep
    DEF ContextNext, Constructor, Destructor
  <2> QED BY <2>1, <2>2
<1> QED BY <1>1, <1>2, PTL DEF ContextSpec

\* The variables keep their types.
THEOREM ContextTypeCorrect == ContextSpec => []ContextTypeOK
<1>1. ContextInv => ContextTypeOK
  BY DEF ContextInv
<1> QED BY <1>1, ContextInvariance, PTL

\* Whatever the services answer, whichever consumers hang and whenever messages
\* come, no callback outlives the consumer it pushes to, for any number of consumers.
THEOREM CallbacksFindConsumer == ContextSpec => []CallbackFindsConsumer
<1>1. ContextInv => CallbackFindsConsumer
  BY DEF ContextInv, CallbackFindsConsumer, LargeOutlives, CallersLive
<1> QED BY <1>1, ContextInvariance, PTL

\* No exit of the constructor leaves the thread of get_snapshots behind.
THEOREM FetchNeverLeftBehind == ContextSpec => []FetchIsAwaited
<1>1. ContextInv => FetchIsAwaited
  BY DEF ContextInv
<1> QED BY <1>1, ContextInvariance, PTL

\* The batches cut the list of symbols without losing or repeating one, are neither
\* empty nor too long and as few as can be: for every list and every size allowed.
THEOREM EverySymbolSubscribed == ContextSpec => []AllSubscribed
<1>1. ContextInv => AllSubscribed
  <2> SUFFICES ASSUME ContextInv, main = "using" PROVE AllSubscribed
    BY DEF AllSubscribed
  <2>1. symbols \in Seq(Listed)
    BY DEF ContextInv, ContextTypeOK
  <2>2. /\ Len(consumers) = Len(Batches(symbols))
        /\ \A k \in 1..Len(consumers) : consumers[k].symbols = Batches(symbols)[k]
    BY DEF ContextInv, BatchesInTurn
  <2>3. /\ Len(Batches(symbols)) = DivUp(Len(symbols), MaxBatch)
        /\ \E cut \in [0..Len(Batches(symbols)) -> 0..Len(symbols)] :
             /\ cut[0] = 0 /\ cut[Len(Batches(symbols))] = Len(symbols)
             /\ \A k \in 1..Len(Batches(symbols)) :
                  /\ cut[k] - cut[k - 1] \in 1..MaxBatch
                  /\ Batches(symbols)[k] = SubSeq(symbols, cut[k - 1] + 1, cut[k])
    BY <2>1, BatchesFacts
  <2>4. PICK cut \in [0..Len(consumers) -> 0..Len(symbols)] :
          /\ cut[0] = 0 /\ cut[Len(consumers)] = Len(symbols)
          /\ \A k \in 1..Len(consumers) :
               /\ cut[k] - cut[k - 1] \in 1..MaxBatch
               /\ Batches(symbols)[k] = SubSeq(symbols, cut[k - 1] + 1, cut[k])
    BY <2>2, <2>3
  <2>5. \A k \in 1..Len(consumers) :
          consumers[k].symbols = SubSeq(symbols, cut[k - 1] + 1, cut[k])
    BY <2>2, <2>4
  <2> QED BY <2>2, <2>3, <2>4, <2>5 DEF AllSubscribed
<1> QED BY <1>1, ContextInvariance, PTL

-----------------------------------------------------------------------------
(* Messages and their copies *)

\* A bounded set of naturals has a greatest element: how far the loop goes.
LEMMA GreatestElement ==
  ASSUME NEW n \in Nat, NEW S \in SUBSET (0..n), S # {}
  PROVE  \E a \in S : \A b \in S : a >= b
<1> DEFINE T == {i \in 0..n : n - i \in S}
           R == OpToRel(<, Nat)
<1>1. IsWellFoundedOn(R, Nat)
  BY NatLessThanWellFounded
<1>2. \A x, y \in Nat : x < y => <<x, y>> \in R
  BY DEF OpToRel
<1> HIDE DEF R
<1>3. PICK s \in S : TRUE
  OBVIOUS
<1>4. T \in SUBSET Nat /\ n - s \in T
  OBVIOUS
<1>5. PICK t \in T : \A u \in T : ~ (<<u, t>> \in R)
  BY <1>1, <1>4, WFMin
<1>6. \A b \in S : n - b \in T
  OBVIOUS
<1>7. t \in 0..n /\ n - t \in S
  OBVIOUS
<1> HIDE DEF T
<1>8. \A b \in S : ~ (n - b < t)
  BY <1>2, <1>4, <1>5, <1>6
<1>9. \A b \in S : n - t >= b
  BY <1>7, <1>8
<1> QED BY <1>7, <1>9

Entries == [key : Keys, ts : -MaxBack..MaxForth, back : 0..MaxBack]

LEMMA EntryFields ==
  ASSUME NEW x \in Entries
  PROVE  /\ x.ts \in Int /\ x.back \in Nat /\ Forth(x) \in Int
         /\ Forth(x) = x.ts + x.back
  BY DedupAssumption DEF Entries, Forth

\* The entries counted as expired are the first ones, up to the first that is not.
LEMMA ExpiredPrefix ==
  ASSUME NEW q \in Seq(Entries), get_current_ts \in Int
  PROVE  /\ Expired(q) \in 0..Len(q)
         /\ \A j \in 1..Expired(q) : q[j].ts < get_current_ts - Expiry
         /\ Expired(q) < Len(q) => ~ (q[Expired(q) + 1].ts < get_current_ts - Expiry)
<1> DEFINE n == Len(q)
           old(j) == q[j].ts < get_current_ts - Expiry
           S == {k \in 1..n : \A j \in 1..k : old(j)}
<1>1. n \in Nat /\ S \in SUBSET (0..n)
  OBVIOUS
<1>2. Expired(q) = Cardinality(S)
  BY DEF Expired
<1> HIDE DEF n, old
<1>3. CASE S = {}
  <2>1. Expired(q) = 0
    BY <1>2, <1>3, FS_EmptySet
  <2>2. n > 0 => ~ old(1)
    <3> SUFFICES ASSUME n > 0, old(1) PROVE FALSE
      OBVIOUS
    <3>1. 1 \in S
      BY <1>1
    <3> QED BY <1>3, <3>1
  <2> QED BY <1>1, <2>1, <2>2 DEF n, old
<1>4. CASE S # {}
  <2>1. PICK a \in S : \A b \in S : a >= b
    BY <1>1, <1>4, GreatestElement
  <2>2. a \in 1..n /\ \A j \in 1..a : old(j)
    BY <2>1
  <2>3. S = 1..a
    BY <1>1, <2>1, <2>2
  <2>4. Cardinality(S) = a
    <3>1. a \in Int /\ a >= 1
      BY <1>1, <2>2
    <3>2. Cardinality(1..a) = a
      BY <3>1, FS_Interval
    <3> QED BY <2>3, <3>2, Zenon
  <2>5. a < n => ~ old(a + 1)
    <3> SUFFICES ASSUME a < n, old(a + 1) PROVE FALSE
      OBVIOUS
    <3>1. a + 1 \in S
      BY <1>1, <2>2
    <3> QED BY <2>1, <2>2, <3>1
  <2>6. Expired(q) = a
    BY <1>2, <2>4, Zenon
  <2>7. a \in 0..n
    BY <1>1, <2>2
  <2> HIDE DEF S
  <2>8. /\ Expired(q) \in 0..n
        /\ \A j \in 1..Expired(q) : old(j)
        /\ Expired(q) < n => ~ old(Expired(q) + 1)
    BY <2>2, <2>5, <2>6, <2>7
  <2> QED BY <2>8 DEF n, old
<1> QED BY <1>3, <1>4

\* A queue whose last entry is recorded now, after what has expired is gone: the
\* last one stays, and the first of those that stay has not expired.
LEMMA Shortened ==
  ASSUME NEW q \in Seq(Entries), Len(q) > 0, get_current_ts \in Int,
         q[Len(q)].ts = get_current_ts
  PROVE  LET e == Expired(q)
             r == SubSeq(q, e + 1, Len(q))
         IN /\ e \in 0..(Len(q) - 1)
            /\ r \in Seq(Entries) /\ Len(r) = Len(q) - e
            /\ \A k \in 1..(Len(q) - e) : r[k] = q[e + k]
            /\ \A j \in 1..e : q[j].ts < get_current_ts - Expiry
            /\ q[e + 1].ts >= get_current_ts - Expiry
<1> DEFINE e == Expired(q)
           n == Len(q)
           r == SubSeq(q, e + 1, n)
<1>1. /\ e \in 0..n
      /\ \A j \in 1..e : q[j].ts < get_current_ts - Expiry
      /\ e < n => ~ (q[e + 1].ts < get_current_ts - Expiry)
  BY ExpiredPrefix
<1>2. n \in Nat /\ n > 0 /\ \A j \in 1..n : q[j] \in Entries /\ q[j].ts \in Int
  <2>1. n \in Nat /\ n > 0 /\ \A j \in 1..n : q[j] \in Entries
    OBVIOUS
  <2> HIDE DEF n
  <2> QED BY <2>1, EntryFields
<1>3. Expiry \in Nat
  BY DedupAssumption
<1> HIDE DEF e, n
<1>4. e # n
  <2>1. q[n].ts = get_current_ts
    BY DEF n
  <2> QED BY <1>1, <1>2, <1>3, <2>1
<1>5. e \in 0..(n - 1)
  BY <1>1, <1>2, <1>4
<1>6. /\ r \in Seq(Entries) /\ Len(r) = n - e
      /\ \A k \in 1..(n - e) : r[k] = q[e + k]
  <2>1. \A k \in (e + 1)..n : q[k] \in Entries
    BY <1>2, <1>5
  <2>2. /\ r \in Seq(Entries)
        /\ Len(r) = IF e + 1 <= n THEN n - (e + 1) + 1 ELSE 0
        /\ \A k \in 1..(n - (e + 1) + 1) : r[k] = q[(e + 1) + k - 1]
    BY <1>2, <1>5, <2>1, SubSeqProperties
  <2> HIDE DEF r
  <2>3. n - (e + 1) + 1 = n - e /\ e + 1 <= n
    BY <1>2, <1>5
  <2>4. \A k \in 1..(n - e) : (e + 1) + k - 1 = e + k
    BY <1>2, <1>5
  <2> QED BY <2>2, <2>3, <2>4
<1>7. q[e + 1].ts >= get_current_ts - Expiry
  <2>1. q[e + 1].ts \in Int /\ e < n
    BY <1>2, <1>5
  <2> QED BY <1>1, <1>3, <2>1
<1> QED BY <1>1, <1>5, <1>6, <1>7 DEF e, n

-----------------------------------------------------------------------------
(* The inductive invariant of on_event *)

\* The entries are in the order they were recorded, all of them in the past.
InOrder ==
  /\ \A j, k \in 1..Len(queue) : j <= k => Forth(queue[j]) <= Forth(queue[k])
  /\ \A k \in 1..Len(queue) : Forth(queue[k]) <= forth /\ queue[k].back <= back

\* A message let through within the expiry is still in the queue.
Remembered ==
  \A m \in Messages :
    \/ accepted[m] = Never
    \/ forth - accepted[m] > Expiry
    \/ \E k \in 1..Len(queue) :
         queue[k].key = Key(m) /\ Forth(queue[k]) = accepted[m]

\* A key is that of a message let through.
KnownWasAccepted ==
  \A x \in keys : \E m \in Messages : Key(m) = x /\ accepted[m] # Never

IInv ==
  /\ TypeOK
  /\ \A t \in Threads : pc[t] # "read" => arg[t] \in Messages
  /\ SetIsQueue /\ WithinExpiry
  /\ InOrder /\ Remembered /\ KnownWasAccepted

\* A new event keeps the invariant, and was not let through within the expiry.
LEMMA NewEventIInv ==
  ASSUME IInv, NEW t \in Threads, OnNewEvent(t)
  PROVE  /\ IInv'
         /\ accepted[arg[t]] = Never \/ forth - accepted[arg[t]] > Expiry
<1> DEFINE m == arg[t]
           entry == [key |-> Key(m), ts |-> get_current_ts, back |-> back]
           all == Append(queue, entry)
           n == Len(queue)
           e == Expired(all)
<1>0. /\ forth \in 0..MaxForth /\ back \in 0..MaxBack /\ forth \in Nat /\ back \in Nat
      /\ Expiry \in Nat /\ MaxForth \in Nat /\ MaxBack \in Nat
      /\ get_current_ts = forth - back /\ get_current_ts \in -MaxBack..MaxForth
      /\ get_current_ts \in Int
  BY DedupAssumption DEF IInv, TypeOK, get_current_ts
<1>1. m \in Messages /\ Key(m) \in Keys /\ Key(m) \notin keys
  BY DEF IInv, OnNewEvent, Keys
<1>2. queue \in Seq(Entries) /\ entry \in Entries /\ n \in Nat
  BY <1>0, <1>1 DEF IInv, TypeOK, Entries
<1>3. /\ queue' = SubSeq(all, e + 1, Len(all))
      /\ keys' = (keys \cup {Key(m)}) \ {all[k].key : k \in 1..e}
      /\ received' = received \cup {m.data}
      /\ accepted' = [accepted EXCEPT ![m] = forth]
      /\ pc' = [pc EXCEPT ![t] = "callback"]
      /\ forth' = forth /\ back' = back /\ arg' = arg
  BY DEF OnNewEvent, Entry, clock
<1>4. /\ all \in Seq(Entries) /\ Len(all) = n + 1
      /\ \A k \in 1..n : all[k] = queue[k]
      /\ all[n + 1] = entry
  BY <1>2, AppendProperties
<1>5. keys = {queue[k].key : k \in 1..n}
      /\ \A j, k \in 1..n : queue[j].key = queue[k].key => j = k
  BY DEF IInv, SetIsQueue
<1>6. \A j, k \in 1..n : j <= k => Forth(queue[j]) <= Forth(queue[k])
  BY DEF IInv, InOrder
<1>7. \A k \in 1..n : Forth(queue[k]) <= forth /\ queue[k].back <= back
  BY DEF IInv, InOrder
<1> HIDE DEF m, all, n
<1>8. /\ \A k \in 1..(n + 1) : Forth(all[k]) <= forth /\ all[k].back <= back
      /\ Forth(all[n + 1]) = forth
      /\ \A j, k \in 1..(n + 1) : j <= k => Forth(all[j]) <= Forth(all[k])
  <2>1. Forth(all[n + 1]) = forth /\ all[n + 1].back = back
    BY <1>0, <1>4 DEF Forth
  <2>2. \A k \in 1..(n + 1) : k \in 1..n \/ k = n + 1
    BY <1>2
  <2>3. \A k \in 1..(n + 1) : Forth(all[k]) <= forth /\ all[k].back <= back
    BY <1>0, <1>4, <1>7, <2>1, <2>2
  <2>4. ASSUME NEW j \in 1..(n + 1), NEW k \in 1..(n + 1), j <= k
        PROVE  Forth(all[j]) <= Forth(all[k])
    <3>1. CASE k \in 1..n
      <4>1. j \in 1..n
        BY <1>2, <2>4, <3>1
      <4> QED BY <1>4, <1>6, <2>4, <3>1, <4>1
    <3>2. CASE k = n + 1
      BY <2>1, <2>3, <3>2
    <3> QED BY <2>2, <3>1, <3>2
  <2> QED BY <2>1, <2>3, <2>4
<1>9. /\ e \in 0..n
      /\ queue' \in Seq(Entries) /\ Len(queue') = (n + 1) - e
      /\ \A k \in 1..((n + 1) - e) : queue'[k] = all[e + k]
      /\ \A j \in 1..e : all[j].ts < get_current_ts - Expiry
      /\ all[e + 1].ts >= get_current_ts - Expiry
  <2>1. Len(all) = n + 1 /\ Len(all) > 0 /\ all[Len(all)].ts = get_current_ts
    BY <1>2, <1>4
  <2>2. /\ e \in 0..(Len(all) - 1)
        /\ queue' \in Seq(Entries) /\ Len(queue') = Len(all) - e
        /\ \A k \in 1..(Len(all) - e) : queue'[k] = all[e + k]
        /\ \A j \in 1..e : all[j].ts < get_current_ts - Expiry
        /\ all[e + 1].ts >= get_current_ts - Expiry
    BY <1>0, <1>3, <1>4, <2>1, Shortened
  <2>3. (n + 1) - 1 = n
    BY <1>2
  <2> QED BY <2>1, <2>2, <2>3
<1> HIDE DEF e
<1>10. \A j, k \in 1..(n + 1) : all[j].key = all[k].key => j = k
  <2>1. \A k \in 1..n : all[k].key \in keys /\ all[k].key = queue[k].key
    BY <1>4, <1>5
  <2>2. all[n + 1].key \notin keys
    BY <1>1, <1>4 DEF m
  <2>3. \A k \in 1..(n + 1) : k \in 1..n \/ k = n + 1
    BY <1>2
  <2> QED BY <1>5, <2>1, <2>2, <2>3
<1>11. keys \cup {Key(m)} = {all[k].key : k \in 1..(n + 1)}
  <2>1. \A k \in 1..n : all[k].key = queue[k].key
    BY <1>4
  <2>2. all[n + 1].key = Key(m)
    BY <1>4
  <2>3. 1..(n + 1) = 1..n \cup {n + 1}
    BY <1>2
  <2> QED BY <1>5, <2>1, <2>2, <2>3
\* What is left of the queue: the entries behind the first e.
<1>12. \A k \in (e + 1)..(n + 1) :
         k - e \in 1..Len(queue') /\ queue'[k - e] = all[k]
  BY <1>2, <1>9
<1>13. \A k \in 1..Len(queue') :
         e + k \in (e + 1)..(n + 1) /\ e + k \in 1..(n + 1)
         /\ queue'[k] = all[e + k]
  BY <1>2, <1>9
<1>14. SetIsQueue'
  <2>1. keys' = {all[k].key : k \in (e + 1)..(n + 1)}
    <3>1. keys' = {all[k].key : k \in 1..(n + 1)} \ {all[k].key : k \in 1..e}
      BY <1>3, <1>11
    <3>2. 1..(n + 1) = 1..e \cup (e + 1)..(n + 1) /\ 1..e \subseteq 1..(n + 1)
      BY <1>2, <1>9
    <3>3. \A j \in 1..e, k \in (e + 1)..(n + 1) : j # k
      BY <1>9
    <3> QED BY <1>10, <3>1, <3>2, <3>3
  <2>2. keys' = {queue'[k].key : k \in 1..Len(queue')}
    <3>1. \A x \in keys' : \E k \in 1..Len(queue') : x = queue'[k].key
      BY <1>12, <2>1
    <3>2. \A k \in 1..Len(queue') : queue'[k].key \in keys'
      BY <1>13, <2>1
    <3> QED BY <3>1, <3>2
  <2>3. \A j, k \in 1..Len(queue') : queue'[j].key = queue'[k].key => j = k
    <3> SUFFICES ASSUME NEW j \in 1..Len(queue'), NEW k \in 1..Len(queue'),
                        queue'[j].key = queue'[k].key
                 PROVE  j = k
      OBVIOUS
    <3>1. e + j = e + k
      BY <1>10, <1>13
    <3> QED BY <1>9, <3>1
  <2> QED BY <2>2, <2>3 DEF SetIsQueue
<1>15. InOrder'
  <2>1. \A k \in 1..Len(queue') : Forth(queue'[k]) <= forth' /\ queue'[k].back <= back'
    BY <1>3, <1>8, <1>13
  <2>2. ASSUME NEW j \in 1..Len(queue'), NEW k \in 1..Len(queue'), j <= k
        PROVE  Forth(queue'[j]) <= Forth(queue'[k])
    <3>1. e + j <= e + k
      BY <1>9, <2>2
    <3> QED BY <1>8, <1>13, <3>1
  <2> QED BY <2>1, <2>2 DEF InOrder, Forth
<1>16. WithinExpiry'
  <2> SUFFICES ASSUME NEW k \in 1..Len(queue')
               PROVE  Forth(queue'[k]) - Forth(queue'[1]) \in
                        0..(Expiry + Last(queue').back - queue'[1].back)
    BY DEF WithinExpiry, Forth, Last
  <2>1. /\ Len(queue') \in Nat /\ 1 \in 1..Len(queue')
        /\ Len(queue') \in 1..Len(queue') /\ e + Len(queue') = n + 1
    BY <1>2, <1>9
  <2>2. Last(queue').back = back /\ queue'[1] = all[e + 1]
    BY <1>4, <1>9, <1>13, <2>1 DEF Last
  <2>3. Forth(queue'[k]) <= forth /\ Forth(queue'[1]) <= Forth(queue'[k])
    <3>1. e + 1 <= e + k
      BY <1>9
    <3> QED BY <1>8, <1>13, <2>1, <3>1
  <2>4. queue'[k] \in Entries /\ queue'[1] \in Entries
    BY <1>9, <2>1
  <2> HIDE DEF all
  <2>5. Forth(queue'[1]) >= (forth - back) - Expiry + queue'[1].back
    BY <1>0, <1>9, <2>2, <2>4, EntryFields
  <2> QED BY <1>0, <2>2, <2>3, <2>4, <2>5, EntryFields
<1>17. Remembered'
  <2> SUFFICES ASSUME NEW x \in Messages, accepted'[x] # Never,
                      ~ (forth - accepted'[x] > Expiry)
               PROVE  \E k \in 1..Len(queue') :
                        queue'[k].key = Key(x) /\ Forth(queue'[k]) = accepted'[x]
    BY <1>3 DEF Remembered, Forth
  <2>1. PICK k \in 1..(n + 1) : all[k].key = Key(x) /\ Forth(all[k]) = accepted'[x]
    <3>1. CASE x = m
      <4>1. accepted'[x] = forth /\ all[n + 1].key = Key(x)
        BY <1>1, <1>3, <1>4, <3>1 DEF IInv, TypeOK
      <4> QED BY <1>2, <1>8, <4>1
    <3>2. CASE x # m
      <4>1. accepted'[x] = accepted[x]
        BY <1>3, <3>2 DEF IInv, TypeOK
      <4>2. PICK k \in 1..n : queue[k].key = Key(x) /\ Forth(queue[k]) = accepted[x]
        BY <1>3, <4>1 DEF IInv, Remembered, n
      <4> QED BY <1>2, <1>4, <4>1, <4>2
    <3> QED BY <3>1, <3>2
  <2>2. accepted'[x] \in Nat
    BY <1>0, <1>1, <1>3 DEF IInv, TypeOK
  <2>3. ~ (all[k].ts < get_current_ts - Expiry)
    <3>1. all[k] \in Entries /\ all[k].back <= back
      BY <1>4, <1>8
    <3> QED BY <1>0, <2>1, <2>2, <3>1, EntryFields
  <2>4. k \in (e + 1)..(n + 1)
    BY <1>9, <2>3
  <2> QED BY <1>12, <2>1, <2>4
<1>18. KnownWasAccepted'
  <2>1. \A x \in Messages : accepted[x] # Never => accepted'[x] # Never
    BY <1>0, <1>1, <1>3 DEF IInv, TypeOK, Never
  <2>2. accepted'[m] # Never
    BY <1>0, <1>1, <1>3 DEF IInv, TypeOK, Never
  <2>3. keys' \subseteq keys \cup {Key(m)}
    BY <1>3
  <2> QED BY <1>1, <2>1, <2>2, <2>3 DEF IInv, KnownWasAccepted
<1>19. TypeOK'
  <2>1. keys' \subseteq Keys
    BY <1>1, <1>3 DEF IInv, TypeOK
  <2> QED BY <1>0, <1>1, <1>3, <1>9, <2>1 DEF IInv, TypeOK, Entries
<1>20. accepted[m] = Never \/ forth - accepted[m] > Expiry
  <2> SUFFICES ASSUME NEW k \in 1..n, queue[k].key = Key(m)
               PROVE  FALSE
    BY <1>1 DEF IInv, Remembered, n
  <2> QED BY <1>1, <1>5
<1>21. \A u \in Threads : pc'[u] # "read" => arg'[u] \in Messages
  BY <1>1, <1>3 DEF IInv, TypeOK, m
<1> QED BY <1>14, <1>15, <1>16, <1>17, <1>18, <1>19, <1>20, <1>21 DEF IInv, m

\* The other steps leave queue and keys alone.
LEMMA OtherIInv ==
  ASSUME IInv,
         \/ Tick \/ SetBack
         \/ \E t \in Threads :
              \/ \E m \in Messages : Receive(t, m)
              \/ OnKnownEvent(t) \/ Callback(t)
  PROVE  IInv'
<1>1. UNCHANGED <<keys, queue, accepted>>
  BY DEF Tick, SetBack, Receive, OnKnownEvent, Callback
<1>2. SetIsQueue' /\ WithinExpiry' /\ KnownWasAccepted'
  BY <1>1 DEF IInv, SetIsQueue, WithinExpiry, Forth, KnownWasAccepted
<1>3. /\ forth' \in 0..MaxForth /\ forth' >= forth /\ forth \in Nat /\ MaxForth \in Nat
      /\ back' \in 0..MaxBack /\ back' >= back /\ back \in Nat /\ MaxBack \in Nat
  BY DedupAssumption
  DEF IInv, TypeOK, Tick, SetBack, Receive, OnKnownEvent, Callback, clock
<1>4. InOrder'
  <2>1. \A k \in 1..Len(queue) : queue[k] \in Entries
    <3>1. queue \in Seq(Entries)
      BY DEF IInv, TypeOK, Entries
    <3> QED BY <3>1
  <2>2. \A k \in 1..Len(queue) : Forth(queue[k]) <= forth' /\ queue[k].back <= back'
    BY <1>3, <2>1, EntryFields DEF IInv, InOrder
  <2> QED BY <1>1, <2>2 DEF IInv, InOrder, Forth
<1>5. Remembered'
  <2> SUFFICES ASSUME NEW m \in Messages, accepted[m] # Never,
                      ~ (forth' - accepted[m] > Expiry)
               PROVE  \E k \in 1..Len(queue) :
                        queue[k].key = Key(m) /\ Forth(queue[k]) = accepted[m]
    BY <1>1 DEF Remembered, Forth
  <2>1. accepted[m] \in Nat /\ Expiry \in Nat
    BY <1>3, DedupAssumption DEF IInv, TypeOK
  <2>2. ~ (forth - accepted[m] > Expiry)
    BY <1>3, <2>1
  <2> QED BY <2>2 DEF IInv, Remembered
<1>6. TypeOK' /\ \A u \in Threads : pc'[u] # "read" => arg'[u] \in Messages
  <2>1. CASE Tick \/ SetBack
    BY <1>3, <2>1 DEF IInv, TypeOK, Tick, SetBack
  <2>2. ASSUME NEW t \in Threads, NEW m \in Messages, Receive(t, m)
        PROVE  TypeOK' /\ \A u \in Threads : pc'[u] # "read" => arg'[u] \in Messages
    BY <2>2 DEF IInv, TypeOK, Receive, clock
  <2>3. ASSUME NEW t \in Threads, OnKnownEvent(t)
        PROVE  TypeOK' /\ \A u \in Threads : pc'[u] # "read" => arg'[u] \in Messages
    BY <2>3 DEF IInv, TypeOK, OnKnownEvent, clock
  <2>4. ASSUME NEW t \in Threads, Callback(t)
        PROVE  TypeOK' /\ \A u \in Threads : pc'[u] # "read" => arg'[u] \in Messages
    BY <2>4 DEF IInv, TypeOK, Callback, clock
  <2> QED BY <2>1, <2>2, <2>3, <2>4
<1> QED BY <1>2, <1>4, <1>5, <1>6 DEF IInv

\* IInv holds in every reachable state.
THEOREM Invariance == Spec => []IInv
<1>1. Init => IInv
  <2> SUFFICES ASSUME Init PROVE IInv
    OBVIOUS
  <2>1. TypeOK
    BY DedupAssumption DEF Init, TypeOK
  <2>2. queue = <<>> /\ Len(queue) = 0 /\ keys = {}
    BY DEF Init
  <2>3. SetIsQueue /\ WithinExpiry /\ InOrder /\ KnownWasAccepted
    BY <2>2 DEF SetIsQueue, WithinExpiry, InOrder, KnownWasAccepted
  <2>4. Remembered
    BY DEF Init, Remembered
  <2> QED BY <2>1, <2>3, <2>4 DEF Init, IInv
<1>2. IInv /\ [Next]_vars => IInv'
  <2>1. ASSUME IInv, UNCHANGED vars PROVE IInv'
    <3>1. UNCHANGED <<forth, back, keys, queue, pc, arg, received, accepted>>
      BY <2>1 DEF vars, clock
    <3>2. TypeOK' /\ \A t \in Threads : pc'[t] # "read" => arg'[t] \in Messages
      BY <2>1, <3>1 DEF IInv, TypeOK
    <3>3. SetIsQueue' /\ KnownWasAccepted'
      BY <2>1, <3>1 DEF IInv, SetIsQueue, KnownWasAccepted
    <3>4. WithinExpiry'
      BY <2>1, <3>1 DEF IInv, WithinExpiry, Forth
    <3>5. InOrder' /\ Remembered'
      BY <2>1, <3>1 DEF IInv, InOrder, Remembered, Forth
    <3> QED BY <3>2, <3>3, <3>4, <3>5 DEF IInv
  <2> QED BY <2>1, NewEventIInv, OtherIInv DEF Next
<1> QED BY <1>1, <1>2, PTL DEF Spec

\* The variables keep their types.
THEOREM TypeCorrect == Spec => []TypeOK
<1>1. IInv => TypeOK
  BY DEF IInv
<1> QED BY <1>1, Invariance, PTL

\* Set and queue hold the same keys, each once, for ever.
THEOREM SetAndQueueAgree == Spec => []SetIsQueue
<1>1. IInv => SetIsQueue
  BY DEF IInv
<1> QED BY <1>1, Invariance, PTL

\* And they are no more than those of the expiry and of what the clock is set back.
THEOREM QueueIsBounded == Spec => []WithinExpiry
<1>1. IInv => WithinExpiry
  BY DEF IInv
<1> QED BY <1>1, Invariance, PTL

\* No copy of a message is handed on within the expiry, whichever of any number of
\* connections brings it and whatever they bring in between.
THEOREM CopiesAreHeldBack == Spec => OncePerExpiry
<1> DEFINE A ==
      \A t \in Threads :
        pc[t] = "on_event" /\ pc'[t] = "callback" =>
          accepted[arg[t]] = Never \/ forth - accepted[arg[t]] > Expiry
<1>1. IInv /\ [Next]_vars => [A]_vars
  <2> SUFFICES ASSUME IInv, Next, NEW t \in Threads,
                      pc[t] = "on_event", pc'[t] = "callback"
               PROVE  accepted[arg[t]] = Never \/ forth - accepted[arg[t]] > Expiry
    OBVIOUS
  <2>1. OnNewEvent(t)
    <3>1. pc \in [Threads -> {"read", "on_event", "callback"}]
      BY DEF IInv, TypeOK
    <3>2. CASE Tick \/ SetBack
      BY <3>2 DEF Tick, SetBack
    <3>3. ASSUME NEW u \in Threads, NEW m \in Messages, Receive(u, m) PROVE FALSE
      BY <3>1, <3>3 DEF Receive
    <3>4. ASSUME NEW u \in Threads, OnKnownEvent(u) \/ Callback(u) PROVE FALSE
      BY <3>1, <3>4 DEF OnKnownEvent, Callback
    <3>5. ASSUME NEW u \in Threads, OnNewEvent(u) PROVE u = t
      BY <3>1, <3>5 DEF OnNewEvent
    <3> QED BY <3>2, <3>3, <3>4, <3>5 DEF Next
  <2> QED BY <2>1, NewEventIInv
<1> QED BY <1>1, Invariance, PTL DEF Spec, OncePerExpiry

-----------------------------------------------------------------------------
(* Where keys tell messages apart *)

\* A short stream name's key is all of the data; of a long one's the five fields
\* have to tell, as those of depth diffs do: one symbol's differ in their update id.
LEMMA KeysTellApart ==
  ASSUME NEW m \in Messages, NEW n \in Messages, Key(m) = Key(n),
         /\ m.long /\ n.long
         /\ m.fields.e = n.fields.e /\ m.fields.s = n.fields.s
         /\ m.fields.u = n.fields.u /\ m.fields.T = n.fields.T
         /\ m.fields.E = n.fields.E
         => m = n
  PROVE  m = n
<1>1. CASE m.long /\ n.long
  BY <1>1 DEF Key
<1>2. CASE ~ m.long /\ ~ n.long
  BY <1>2, DedupAssumption DEF Key
<1>3. CASE (m.long /\ ~ n.long) \/ (~ m.long /\ n.long)
  BY <1>3 DEF Key
<1> QED BY <1>1, <1>2, <1>3

\* If messages with long stream names differ in one of the five fields, no message
\* is taken for a copy of another, whichever of the two kinds each is of.
THEOREM NothingIsSwallowed ==
  ASSUME \A m, n \in Messages :
           /\ m.long /\ n.long
           /\ m.fields.e = n.fields.e /\ m.fields.s = n.fields.s
           /\ m.fields.u = n.fields.u /\ m.fields.T = n.fields.T
           /\ m.fields.E = n.fields.E
           => m = n
  PROVE  Spec => []NoneSwallowed
<1>1. Init => NoneSwallowed
  BY DEF Init, NoneSwallowed
<1>2. IInv /\ NoneSwallowed /\ [Next]_vars => NoneSwallowed'
  <2> SUFFICES ASSUME IInv, NoneSwallowed, [Next]_vars PROVE NoneSwallowed'
    OBVIOUS
  <2>1. CASE UNCHANGED <<received, accepted>>
    BY <2>1 DEF NoneSwallowed
  <2>2. ASSUME NEW t \in Threads, OnKnownEvent(t) PROVE NoneSwallowed'
    <3>1. arg[t] \in Messages /\ Key(arg[t]) \in keys
      BY <2>2 DEF IInv, OnKnownEvent
    <3>2. PICK m \in Messages : Key(m) = Key(arg[t]) /\ accepted[m] # Never
      BY <3>1 DEF IInv, KnownWasAccepted
    <3>3. m = arg[t]
      BY <3>1, <3>2, KeysTellApart
    <3>4. \A x \in Messages : x.data = arg[t].data => x = arg[t]
      BY <3>1, DedupAssumption
    <3>5. received' = received \cup {arg[t].data} /\ accepted' = accepted
      BY <2>2 DEF OnKnownEvent
    <3> QED BY <3>2, <3>3, <3>4, <3>5 DEF NoneSwallowed
  <2>3. ASSUME NEW t \in Threads, OnNewEvent(t) PROVE NoneSwallowed'
    <3>1. arg[t] \in Messages
      BY <2>3 DEF IInv, OnNewEvent
    <3>2. \A x \in Messages : x.data = arg[t].data => x = arg[t]
      BY <3>1, DedupAssumption
    <3>3. /\ received' = received \cup {arg[t].data}
          /\ accepted' = [accepted EXCEPT ![arg[t]] = forth]
      BY <2>3 DEF OnNewEvent
    <3>4. forth # Never /\ accepted \in [Messages -> {Never} \cup (0..MaxForth)]
      BY DedupAssumption DEF IInv, TypeOK, Never
    <3> QED BY <3>1, <3>2, <3>3, <3>4 DEF NoneSwallowed
  <2> QED
    BY <2>1, <2>2, <2>3 DEF Next, vars, Tick, SetBack, Receive, Callback
<1> QED BY <1>1, <1>2, Invariance, PTL DEF Spec
=============================================================================
