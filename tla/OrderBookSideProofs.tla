------------------------- MODULE OrderBookSideProofs -------------------------
(***************************************************************************)
(* The two maps of a side agree, together are the abstract map of amounts  *)
(* that the modules of order books start from, and are read best first.    *)
(***************************************************************************)
EXTENDS OrderBookSide, FiniteSetTheorems, FunctionTheorems, WellFoundedInduction,
        TLAPS

\* Order::create gives each number one text.
LEMMA OneSpelling ==
  /\ Price \in [Spellings -> Int]
  /\ \A s, t \in Spellings : Price[s] = Price[t] => s = t
  /\ Amounts \subseteq Nat /\ 0 \in Amounts
<1>1. ASSUME NEW t \in Texts
      PROVE  /\ Create(t) \in [number : Int, zeros : Nat, point : BOOLEAN]
             /\ Create(t).number = t.number
             /\ Create(t).point = t.point
             /\ Create(t).zeros = 0
  BY SideAssumption DEF Create
<1>2. ASSUME NEW t \in Texts, NEW u \in Texts, Create(t).number = Create(u).number
      PROVE  Create(t) = Create(u)
  <2>1. t.point = u.point
    BY <1>1, <1>2, SideAssumption
  <2> QED
    BY <1>1, <1>2, <2>1
<1>3. \A s \in Spellings : Price[s] = s.number /\ \E t \in Texts : s = Create(t)
  BY DEF Spellings, Price
<1>4. Price \in [Spellings -> Int]
  BY <1>1 DEF Spellings, Price
<1>5. \A s, t \in Spellings : Price[s] = Price[t] => s = t
  BY <1>2, <1>3
<1> QED
  BY <1>4, <1>5, SideAssumption

\* The inductive invariant: the maps agree, and hold orders of the model only.
IInv ==
  /\ DOMAIN sprice2order \subseteq Spellings
  /\ \A s \in DOMAIN sprice2order : sprice2order[s] \in Amounts
  /\ MapsAgree

\* What is held, order by order.
HeldIs ==
  /\ \A s \in DOMAIN sprice2order : Held[Price[s]] = sprice2order[s]
  /\ \A s \in Spellings \ DOMAIN sprice2order : Held[Price[s]] = 0

\* The constructed side satisfies it.
LEMMA InitIInv == Init => IInv
BY DEF Init, IInv, MapsAgree

\* Where the maps agree, the amount held at the price of an order is its own,
\* and nothing is held elsewhere.
LEMMA HeldAt == IInv => HeldIs
<1> SUFFICES ASSUME IInv PROVE HeldIs
  OBVIOUS
<1>1. ASSUME NEW s \in DOMAIN sprice2order
      PROVE  Held[Price[s]] = sprice2order[s]
  <2>1. /\ s \in Spellings
        /\ Price[s] \in DOMAIN fprice2sprice
    BY <1>1 DEF IInv, MapsAgree
  <2>2. HasOrder(Price[s]) /\ Price[fprice2sprice[Price[s]]] = Price[s]
    BY <2>1 DEF IInv, MapsAgree
  <2>3. fprice2sprice[Price[s]] = s
    BY <2>1, <2>2, OneSpelling DEF IInv, HasOrder
  <2>4. Price[s] \in Prices
    BY <2>1, OneSpelling DEF Prices, Range
  <2> QED
    BY <2>1, <2>2, <2>3, <2>4 DEF Held, OrderAt
<1>2. ASSUME NEW s \in Spellings \ DOMAIN sprice2order
      PROVE  Held[Price[s]] = 0
  <2>1. Price[s] \notin DOMAIN fprice2sprice
    BY <1>2, OneSpelling DEF IInv, MapsAgree
  <2>2. Price[s] \in Prices
    BY <1>2, OneSpelling DEF Prices, Range
  <2> QED
    BY <2>1, <2>2 DEF Held
<1> QED
  BY <1>1, <1>2 DEF HeldIs

\* A call of put keeps the maps in agreement.
LEMMA PutIInv ==
  ASSUME IInv, NEW s \in Spellings, NEW a \in Amounts, Put(s, a)
  PROVE  IInv'
<1>1. CASE Add(s, a)
  <2>1. /\ sprice2order' = With(sprice2order, s, a)
        /\ fprice2sprice' = With(fprice2sprice, Price[s], s)
        /\ s \notin DOMAIN sprice2order
    BY <1>1 DEF Add
  <2>2. /\ DOMAIN sprice2order' = DOMAIN sprice2order \cup {s}
        /\ sprice2order'[s] = a
        /\ \A t \in DOMAIN sprice2order \ {s} : sprice2order'[t] = sprice2order[t]
    BY <2>1 DEF With, Without, Restrict
  <2>3. /\ DOMAIN fprice2sprice' = DOMAIN fprice2sprice \cup {Price[s]}
        /\ fprice2sprice'[Price[s]] = s
        /\ \A p \in DOMAIN fprice2sprice \ {Price[s]} :
             fprice2sprice'[p] = fprice2sprice[p]
    BY <2>1 DEF With, Without, Restrict
  <2> QED
    BY <2>1, <2>2, <2>3, OneSpelling DEF IInv, MapsAgree, HasOrder
<1>2. CASE Erase(s, a)
  <2>1. /\ sprice2order' = Without(sprice2order, s)
        /\ fprice2sprice' = Without(fprice2sprice, Price[s])
        /\ s \in DOMAIN sprice2order
    BY <1>2 DEF Erase
  <2>2. /\ DOMAIN sprice2order' = DOMAIN sprice2order \ {s}
        /\ \A t \in DOMAIN sprice2order \ {s} : sprice2order'[t] = sprice2order[t]
    BY <2>1 DEF With, Without, Restrict
  <2>3. /\ DOMAIN fprice2sprice' = DOMAIN fprice2sprice \ {Price[s]}
        /\ \A p \in DOMAIN fprice2sprice \ {Price[s]} :
             fprice2sprice'[p] = fprice2sprice[p]
    BY <2>1 DEF With, Without, Restrict
  <2>4. ASSUME NEW p \in DOMAIN fprice2sprice'
        PROVE  HasOrder(p)' /\ Price[fprice2sprice'[p]] = p
    BY <2>1, <2>2, <2>3, OneSpelling DEF IInv, MapsAgree, HasOrder
  <2>5. DOMAIN fprice2sprice' = {Price[t] : t \in DOMAIN sprice2order'}
    BY <2>1, <2>2, <2>3, OneSpelling DEF IInv, MapsAgree
  <2> QED
    BY <2>2, <2>4, <2>5 DEF IInv, MapsAgree
<1>3. CASE Update(s, a)
  <2>1. /\ DOMAIN sprice2order' = DOMAIN sprice2order
        /\ sprice2order'[s] = a
        /\ \A t \in DOMAIN sprice2order \ {s} : sprice2order'[t] = sprice2order[t]
        /\ fprice2sprice' = fprice2sprice
    BY <1>3 DEF Update, With
  <2> QED
    BY <2>1 DEF IInv, MapsAgree, HasOrder
<1> QED
  BY <1>1, <1>2, <1>3 DEF Put

\* Putting an order is putting its amount at its price.
LEMMA PutIsPut ==
  ASSUME HeldIs, HeldIs', IInv, NEW s \in Spellings, NEW a \in Amounts, Put(s, a)
  PROVE  Held' = [Held EXCEPT ![Price[s]] = a]
<1>1. /\ s \in DOMAIN sprice2order' <=> a # 0
      /\ a # 0 => sprice2order'[s] = a
      /\ \A t \in Spellings \ {s} :
           /\ t \in DOMAIN sprice2order' <=> t \in DOMAIN sprice2order
           /\ t \in DOMAIN sprice2order => sprice2order'[t] = sprice2order[t]
  BY DEF Put, Add, Erase, Update, With, Without, Restrict
<1>2. Held'[Price[s]] = a
  BY <1>1 DEF HeldIs
<1>3. \A t \in Spellings \ {s} : Held'[Price[t]] = Held[Price[t]]
  BY <1>1 DEF HeldIs
<1>4. /\ Held = [p \in Prices |-> Held[p]]
      /\ Held' = [p \in Prices |-> Held'[p]]
  BY DEF Held
<1>5. \A p \in Prices : \E t \in Spellings : p = Price[t]
  BY OneSpelling DEF Prices, Range
<1> QED
  BY <1>2, <1>3, <1>4, <1>5

\* The invariant is inductive.
LEMMA StepIInv == IInv /\ [Next]_vars => IInv'
<1>1. CASE Next
  BY <1>1, PutIInv DEF Next, Spellings
<1>2. CASE UNCHANGED vars
  BY <1>2 DEF vars, IInv, MapsAgree, HasOrder
<1> QED
  BY <1>1, <1>2

\* The maps of a side agree whatever is put (MapsAgree).
THEOREM Agreement == Spec => []MapsAgree
<1>1. IInv => MapsAgree
  BY DEF IInv
<1> QED
  BY InitIInv, StepIInv, <1>1, PTL DEF Spec

\* A side is the abstract map of amounts (IsPriceLevels), so the modules of
\* order books may take its orders for one function of prices.
THEOREM SideIsPriceLevels == Spec => IsPriceLevels
<1>1. Init => Levels!Init
  BY DEF Init, Levels!Init, Held
<1>2. ASSUME IInv, HeldIs, HeldIs', [Next]_vars
      PROVE  [\E p \in Prices, a \in Amounts : Levels!Put(p, a)]_Held
  <2>1. CASE Next
    <3>1. PICK s \in Spellings, a \in Amounts : Put(s, a)
      BY <2>1 DEF Next, Spellings
    <3>2. Held' = [Held EXCEPT ![Price[s]] = a]
      BY <1>2, <3>1, PutIsPut
    <3>3. Price[s] \in Prices
      BY OneSpelling DEF Prices, Range
    <3> QED
      BY <3>2, <3>3 DEF Levels!Put
  <2>2. CASE UNCHANGED vars
    BY <2>2 DEF vars, Held, HasOrder, OrderAt
  <2> QED
    BY <1>2, <2>1, <2>2
<1> QED
  BY <1>1, <1>2, InitIInv, StepIInv, HeldAt, PTL DEF Spec, IsPriceLevels, Levels!Spec

-----------------------------------------------------------------------------
(* The order of the reads *)

\* No two numbers are as good as each other.
LEMMA BetterIsTotal ==
  /\ \A p, q \in Int : Better(p, q) \/ Better(q, p) \/ p = q
  /\ \A p, q \in Int : Better(p, q) => ~ Better(q, p) /\ p # q
  /\ \A p, q, r \in Int : Better(p, q) /\ Better(q, r) => Better(p, r)
BY DEF Better

\* Of n numbers each has fewer than n better ones, and no two have as many: so for
\* each k less than n there is one with k better ones.
LEMMA Ranks ==
  ASSUME NEW S \in SUBSET Int, IsFiniteSet(S)
  PROVE  LET rank == [p \in S |-> Cardinality({q \in S : Better(q, p)})] IN
         /\ Cardinality(S) \in Nat
         /\ rank \in [S -> 0..(Cardinality(S) - 1)]
         /\ \A p, q \in S : Better(p, q) => rank[p] < rank[q]
         /\ \A k \in 0..(Cardinality(S) - 1) : \E p \in S : rank[p] = k
<1> DEFINE Ahead(p) == {q \in S : Better(q, p)}
           rank == [p \in S |-> Cardinality(Ahead(p))]
           n == Cardinality(S)
           T == 0..(n - 1)
<1>1. n \in Nat
  BY FS_CardinalityType
<1>2. ASSUME NEW p \in S
      PROVE  IsFiniteSet(Ahead(p)) /\ rank[p] = Cardinality(Ahead(p)) /\ rank[p] \in T
  <2>1. Ahead(p) \subseteq S /\ p \notin Ahead(p)
    BY BetterIsTotal
  <2>2. IsFiniteSet(Ahead(p)) /\ Cardinality(Ahead(p)) < n
    <3>1. PICK A : A = Ahead(p)
      OBVIOUS
    <3>2. A \subseteq S /\ A # S
      BY <2>1, <3>1
    <3>3. IsFiniteSet(A) /\ Cardinality(A) <= n /\ Cardinality(A) # n
      BY <3>2, FS_Subset
    <3>4. Cardinality(A) \in Nat
      BY <3>3, FS_CardinalityType
    <3> QED BY <1>1, <3>1, <3>3, <3>4
  <2>3. Cardinality(Ahead(p)) \in Nat
    BY <2>2, FS_CardinalityType
  <2> QED BY <1>1, <2>2, <2>3
<1>3. ASSUME NEW p \in S, NEW q \in S, Better(p, q)
      PROVE  rank[p] < rank[q]
  <2>1. Ahead(p) \subseteq Ahead(q) /\ p \in Ahead(q) /\ p \notin Ahead(p)
    BY <1>3, BetterIsTotal
  <2>2. Cardinality(Ahead(p)) < Cardinality(Ahead(q))
    <3>1. PICK A, B : A = Ahead(p) /\ B = Ahead(q)
      OBVIOUS
    <3>2. A \subseteq B /\ A # B /\ IsFiniteSet(B)
      BY <1>2, <2>1, <3>1
    <3>3. IsFiniteSet(A) /\ Cardinality(A) <= Cardinality(B)
          /\ Cardinality(A) # Cardinality(B)
      BY <3>2, FS_Subset
    <3>4. Cardinality(A) \in Nat /\ Cardinality(B) \in Nat
      BY <3>2, <3>3, FS_CardinalityType
    <3> QED BY <3>1, <3>3, <3>4
  <2> QED BY <1>2, <2>2
<1>4. rank \in [S -> T]
  BY <1>2
<1>5. \A p, q \in S : rank[p] = rank[q] => p = q
  <2> SUFFICES ASSUME NEW p \in S, NEW q \in S, p # q PROVE rank[p] # rank[q]
    OBVIOUS
  <2>1. rank[p] \in Int /\ rank[q] \in Int
    BY <1>2
  <2>2. rank[p] < rank[q] \/ rank[q] < rank[p]
    BY <1>3, BetterIsTotal
  <2> QED BY <2>1, <2>2
<1>6. Cardinality(T) = n /\ IsFiniteSet(T)
  <2>1. 0 \in Int /\ n - 1 \in Int
    BY <1>1
  <2>2. IsFiniteSet(T) /\ Cardinality(T) = IF 0 > n - 1 THEN 0 ELSE (n - 1) - 0 + 1
    BY <2>1, FS_Interval
  <2> QED BY <1>1, <2>2
<1> HIDE DEF rank
<1>7. rank \in Surjection(S, T)
  <2>1. rank \in Injection(S, T)
    BY <1>4, <1>5, Fun_IsInj
  <2> HIDE DEF T, n
  <2> QED BY <1>6, <2>1, FS_Injection DEF n
<1>8. \A k \in T : \E p \in S : rank[p] = k
  BY <1>7 DEF Surjection
<1> QED BY <1>1, <1>3, <1>4, <1>8 DEF rank

\* The enumeration lists all numbers, best first.
LEMMA InOrderIsSorted ==
  ASSUME NEW S \in SUBSET Int, IsFiniteSet(S)
  PROVE  /\ Cardinality(S) \in Nat
         /\ InOrder(S) \in Seq(S) /\ Len(InOrder(S)) = Cardinality(S)
         /\ \A j, k \in 1..Cardinality(S) :
              j < k => Better(InOrder(S)[j], InOrder(S)[k])
         /\ \A p \in S : \E k \in 1..Cardinality(S) : InOrder(S)[k] = p
<1> DEFINE rank == [p \in S |-> Cardinality({q \in S : Better(q, p)})]
           n == Cardinality(S)
           f == InOrder(S)
<1>1. /\ n \in Nat /\ rank \in [S -> 0..(n - 1)]
      /\ \A p, q \in S : Better(p, q) => rank[p] < rank[q]
      /\ \A k \in 0..(n - 1) : \E p \in S : rank[p] = k
  BY Ranks
<1>2. ASSUME NEW k \in 1..n PROVE f[k] \in S /\ rank[f[k]] = k - 1
  <2>1. f[k] = CHOOSE p \in S : Cardinality({q \in S : Better(q, p)}) = k - 1
    BY DEF InOrder
  <2>2. \E p \in S : Cardinality({q \in S : Better(q, p)}) = k - 1
    <3>1. k - 1 \in 0..(n - 1)
      BY <1>1
    <3>2. PICK p \in S : rank[p] = k - 1
      BY <1>1, <3>1
    <3> QED BY <3>2
  <2> QED BY <2>1, <2>2
<1>3. f = [k \in 1..n |-> f[k]]
  BY DEF InOrder
<1> HIDE DEF rank, n, f
<1>4. f \in Seq(S) /\ Len(f) = n
  BY <1>1, <1>2, <1>3
<1>5. ASSUME NEW j \in 1..n, NEW k \in 1..n, j < k PROVE Better(f[j], f[k])
  <2>1. f[j] \in S /\ f[k] \in S /\ rank[f[j]] = j - 1 /\ rank[f[k]] = k - 1
    BY <1>2
  <2>2. ~ (rank[f[k]] < rank[f[j]]) /\ rank[f[j]] # rank[f[k]]
    BY <1>5, <2>1
  <2>3. f[j] # f[k] /\ ~ Better(f[k], f[j])
    BY <1>1, <2>1, <2>2
  <2> QED BY <2>1, <2>3, BetterIsTotal
<1>6. ASSUME NEW p \in S PROVE \E k \in 1..n : f[k] = p
  <2>1. rank[p] \in 0..(n - 1)
    BY <1>1
  <2>2. rank[p] + 1 \in 1..n /\ (rank[p] + 1) - 1 = rank[p]
    BY <1>1, <2>1
  <2>3. f[rank[p] + 1] \in S /\ rank[f[rank[p] + 1]] = rank[p]
    BY <1>2, <2>2
  <2>4. \A q \in S : rank[q] = rank[p] => q = p
    <3> SUFFICES ASSUME NEW q \in S, q # p PROVE rank[q] # rank[p]
      OBVIOUS
    <3>1. rank[q] < rank[p] \/ rank[p] < rank[q]
      BY <1>1, BetterIsTotal
    <3> QED BY <1>1, <3>1
  <2> QED BY <2>2, <2>3, <2>4
<1> QED BY <1>1, <1>4, <1>5, <1>6 DEF n, f

\* A side holds finitely many orders.
LEMMA FiniteStep ==
  ASSUME IsFiniteSet(DOMAIN sprice2order), [Next]_vars
  PROVE  IsFiniteSet(DOMAIN sprice2order)'
<1>1. CASE UNCHANGED vars
  BY <1>1 DEF vars
<1>2. ASSUME NEW s, NEW a, Put(s, a)
      PROVE  IsFiniteSet(DOMAIN sprice2order')
  <2>1. \/ DOMAIN sprice2order' = DOMAIN sprice2order \cup {s}
        \/ DOMAIN sprice2order' = DOMAIN sprice2order \ {s}
    BY <1>2 DEF Put, Add, Erase, Update, With, Without, Restrict
  <2> QED BY <2>1, FS_AddElement, FS_RemoveElement
<1>3. CASE Next
  <2>1. PICK t \in Texts, a \in Amounts : Put(Create(t), a)
    BY <1>3 DEF Next
  <2> QED BY <1>2, <2>1
<1> QED BY <1>1, <1>3

\* The listed numbers are those of the orders, one for each.
LEMMA ListedFacts ==
  ASSUME IInv, IsFiniteSet(DOMAIN sprice2order)
  PROVE  /\ DOMAIN fprice2sprice \in SUBSET Int /\ IsFiniteSet(DOMAIN fprice2sprice)
         /\ Cardinality(DOMAIN fprice2sprice) = Cardinality(DOMAIN sprice2order)
<1> DEFINE S == DOMAIN sprice2order
           D == DOMAIN fprice2sprice
           f == [s \in S |-> Price[s]]
<1>1. S \subseteq Spellings /\ D = {Price[s] : s \in S}
  BY DEF IInv, MapsAgree
<1>2. D \in SUBSET Int
  BY <1>1, OneSpelling
<1>3. /\ f \in [S -> D] /\ \A s, t \in S : f[s] = f[t] => s = t
      /\ \A p \in D : \E s \in S : f[s] = p
  BY <1>1, OneSpelling
<1> HIDE DEF f
<1>4. f \in Bijection(S, D)
  BY <1>3, Fun_IsBij
<1>5. ExistsBijection(S, D)
  BY <1>4 DEF ExistsBijection
<1> HIDE DEF S, D
<1>6. IsFiniteSet(D) /\ Cardinality(D) = Cardinality(S)
  BY <1>5, FS_Bijection DEF S
<1> QED BY <1>2, <1>6 DEF S, D

\* get_orders cuts the list of the iterators.
LEMMA OrdersAreBest ==
  ASSUME IInv, IsFiniteSet(DOMAIN sprice2order), NEW max_count \in Nat
  PROVE  LET got == GetOrders(max_count)
             prices == {got[k].price : k \in 1..Len(got)}
         IN /\ Len(got) = Min({max_count, Cardinality(DOMAIN sprice2order)})
            /\ \A j, k \in 1..Len(got) : j < k => Better(got[j].price, got[k].price)
            /\ \A s \in DOMAIN sprice2order :
                 \/ Price[s] \in prices
                 \/ \A p \in prices : Better(p, Price[s])
<1> DEFINE D == DOMAIN fprice2sprice
           n == Cardinality(D)
           L == Listed
           m == Min({max_count, n})
           first == {L[k] : k \in 1..m}
           found == InOrder(first)
           got == [k \in 1..Len(found) |-> OrderAt(found[k])]
<1>1. /\ D \in SUBSET Int /\ IsFiniteSet(D)
      /\ n = Cardinality(DOMAIN sprice2order)
  BY ListedFacts
<1>2. /\ n \in Nat /\ L \in Seq(D) /\ Len(L) = n
      /\ \A j, k \in 1..n : j < k => Better(L[j], L[k])
      /\ \A p \in D : \E k \in 1..n : L[k] = p
  BY <1>1, InOrderIsSorted DEF Listed
<1>3. m \in Nat /\ m <= n /\ m <= max_count
  <2>1. \E x \in {max_count, n} : \A y \in {max_count, n} : x <= y
    BY <1>2
  <2> QED BY <1>2, <2>1 DEF Min
<1>4. first \subseteq D /\ {p \in first : HasOrder(p)} = first
  <2>1. \A p \in D : HasOrder(p)
    BY DEF IInv, MapsAgree
  <2>2. \A k \in 1..m : L[k] \in D
    BY <1>2, <1>3
  <2> QED BY <2>1, <2>2
<1>5. GetOrders(max_count) = got
  BY <1>2, <1>4 DEF GetOrders
<1> HIDE DEF D, n, L, m
<1>6. Cardinality(first) = m /\ IsFiniteSet(first)
  <2> DEFINE g == [k \in 1..m |-> L[k]]
  <2>1. /\ g \in [1..m -> first]
        /\ \A p \in first : \E k \in 1..m : g[k] = p
    OBVIOUS
  <2>2. \A j, k \in 1..m : g[j] = g[k] => j = k
    <3> SUFFICES ASSUME NEW j \in 1..m, NEW k \in 1..m, j # k PROVE L[j] # L[k]
      OBVIOUS
    <3>1. j \in 1..n /\ k \in 1..n /\ (j < k \/ k < j)
      BY <1>2, <1>3
    <3>2. L[j] \in D /\ L[k] \in D
      BY <1>2, <3>1
    <3>3. L[j] \in Int /\ L[k] \in Int
      BY <1>1, <3>2
    <3> QED BY <1>2, <3>1, <3>3, BetterIsTotal
  <2> HIDE DEF g, first
  <2>3. ExistsBijection(1..m, first)
    BY <2>1, <2>2, Fun_IsBij DEF ExistsBijection
  <2>4. IsFiniteSet(1..m) /\ Cardinality(1..m) = m
    <3>1. 1 \in Int /\ m \in Int
      BY <1>3
    <3>2. IsFiniteSet(1..m) /\ Cardinality(1..m) = IF 1 > m THEN 0 ELSE m - 1 + 1
      BY <3>1, FS_Interval
    <3> QED BY <1>3, <3>2
  <2> QED BY <2>3, <2>4, FS_Bijection
<1>7. first \in SUBSET Int
  BY <1>1, <1>4
<1> HIDE DEF first
<1>8. /\ found \in Seq(first) /\ Len(found) = m
      /\ \A j, k \in 1..m : j < k => Better(found[j], found[k])
      /\ \A p \in first : \E k \in 1..m : found[k] = p
  BY <1>6, <1>7, InOrderIsSorted
<1> HIDE DEF found
<1>9. Len(got) = m /\ \A k \in 1..m : got[k].price = found[k]
  BY <1>3, <1>8 DEF OrderAt
<1>10. {got[k].price : k \in 1..Len(got)} = first
  BY <1>8, <1>9
<1>11. ASSUME NEW s \in DOMAIN sprice2order
       PROVE  Price[s] \in first \/ \A p \in first : Better(p, Price[s])
  <2>1. Price[s] \in D
    BY DEF IInv, MapsAgree, D
  <2>2. PICK k \in 1..n : L[k] = Price[s]
    BY <1>2, <2>1
  <2>3. CASE k <= m
    BY <1>3, <2>2, <2>3 DEF first
  <2>4. CASE ~ (k <= m)
    <3> SUFFICES ASSUME NEW p \in first PROVE Better(p, Price[s])
      OBVIOUS
    <3>1. PICK j \in 1..m : p = L[j]
      BY DEF first
    <3>2. j \in 1..n /\ j < k
      BY <1>2, <1>3, <2>4, <3>1
    <3> QED BY <1>2, <2>2, <3>1, <3>2
  <2> QED BY <2>3, <2>4
<1> HIDE DEF got
<1>12. /\ Len(got) = m
       /\ \A j, k \in 1..Len(got) : j < k => Better(got[j].price, got[k].price)
  BY <1>8, <1>9
<1> QED BY <1>1, <1>5, <1>10, <1>11, <1>12 DEF m

\* get_orders gives the best orders of the side, best first, none twice and none
\* better left out, whatever was put and however many are asked for
\* (orderbook.cpp:28-53).
THEOREM OrdersComeBestFirst == Spec => []BestFirst
<1>1. Init => IsFiniteSet(DOMAIN sprice2order)
  BY FS_EmptySet DEF Init
<1>2. IsFiniteSet(DOMAIN sprice2order) /\ [Next]_vars
        => IsFiniteSet(DOMAIN sprice2order)'
  BY FiniteStep
<1>3. IInv /\ IsFiniteSet(DOMAIN sprice2order) => BestFirst
  <2> SUFFICES ASSUME IInv, IsFiniteSet(DOMAIN sprice2order),
                      NEW max_count \in 0..Cardinality(Spellings)
               PROVE  LET got == GetOrders(max_count)
                          prices == {got[k].price : k \in 1..Len(got)}
                      IN /\ Len(got) = Min({max_count, Cardinality(DOMAIN sprice2order)})
                         /\ \A j, k \in 1..Len(got) :
                              j < k => Better(got[j].price, got[k].price)
                         /\ \A s \in DOMAIN sprice2order :
                              \/ Price[s] \in prices
                              \/ \A p \in prices : Better(p, Price[s])
    BY DEF BestFirst
  <2>1. max_count \in Nat
    OBVIOUS
  <2> QED BY <2>1, OrdersAreBest
<1> QED
  BY InitIInv, StepIInv, <1>1, <1>2, <1>3, PTL DEF Spec

-----------------------------------------------------------------------------
(* Sums *)

LEMMA LeastElement ==
  ASSUME NEW S \in SUBSET Nat, S # {}
  PROVE  \E n \in S : \A m \in S : n <= m
<1> DEFINE R == OpToRel(<, Nat)
<1>1. IsWellFoundedOn(R, Nat)
  BY NatLessThanWellFounded
<1>2. \A x, y \in Nat : x < y => <<x, y>> \in R
  BY DEF OpToRel
<1> HIDE DEF R
<1>3. PICK n \in S : \A y \in S : ~(<<y, n>> \in R)
  BY <1>1, WFMin
<1>4. \A m \in S : ~ (m < n)
  BY <1>2, <1>3
<1> QED BY <1>4

\* Of some subsets of a finite set there is one that is none of them when an
\* element is taken away.
LEMMA SmallestSubset ==
  ASSUME NEW D, IsFiniteSet(D), NEW T \in SUBSET (SUBSET D), T # {}
  PROVE  \E s \in T : \A x \in s : s \ {x} \notin T
<1> DEFINE sizes == {Cardinality(s) : s \in T}
<1>1. \A s \in T : IsFiniteSet(s) /\ Cardinality(s) \in Nat
  BY FS_Subset, FS_CardinalityType
<1>2. sizes \in SUBSET Nat /\ sizes # {}
  BY <1>1
<1>3. PICK s \in T : \A u \in T : Cardinality(s) <= Cardinality(u)
  <2>1. PICK n \in sizes : \A m \in sizes : n <= m
    BY <1>2, LeastElement
  <2>2. PICK s \in T : n = Cardinality(s)
    BY <2>1
  <2>3. \A u \in T : Cardinality(u) \in sizes
    OBVIOUS
  <2> QED BY <2>1, <2>2, <2>3
<1>4. ASSUME NEW x \in s, s \ {x} \in T PROVE FALSE
  <2>1. Cardinality(s \ {x}) = Cardinality(s) - 1 /\ Cardinality(s) \in Nat
    BY <1>1, FS_RemoveElement
  <2> QED BY <1>3, <1>4, <2>1
<1> QED BY <1>4

LEMMA BoundedInduction ==
  ASSUME NEW k \in Nat, NEW S, 0 \in S,
         \A i \in 1..k : i - 1 \in S => i \in S
  PROVE  \A i \in 0..k : i \in S
<1> DEFINE T == {i \in 0..k : i \notin S}
<1> SUFFICES ASSUME T # {} PROVE FALSE
  OBVIOUS
<1>0. T \in SUBSET Nat
  OBVIOUS
<1>1. PICK t \in T : \A u \in T : t <= u
  BY <1>0, LeastElement
<1>2. t \in 1..k /\ t \notin S
  OBVIOUS
<1>3. t - 1 \in T
  BY <1>2
<1> QED BY <1>1, <1>2, <1>3

\* A recursion over the subsets of a finite set that takes one element after the
\* other away has a solution: c says which, F what it adds.
Chooses(c, D) == \A s \in SUBSET D : s # {} => c[s] \in s

IsFold(f, D, base, F, c) ==
  \A s \in SUBSET D :
    f[s] = IF s = {} THEN base ELSE F[<<c[s], f[s \ {c[s]}]>>]

LEMMA FoldExists ==
  ASSUME NEW D, IsFiniteSet(D), NEW V, NEW base \in V, NEW F \in [D \X V -> V],
         NEW c, Chooses(c, D)
  PROVE  \E f \in [SUBSET D -> V] : IsFold(f, D, base, F, c)
<1> USE DEF Chooses, IsFold
<1> DEFINE k == Cardinality(D)
           size == [s \in SUBSET D |-> Cardinality(s)]
<1>1. /\ k \in Nat
      /\ size \in [SUBSET D -> 0..k]
      /\ \A s \in SUBSET D : size[s] = 0 => s = {}
      /\ \A s \in SUBSET D : s # {} => size[s \ {c[s]}] = size[s] - 1
  <2>1. k \in Nat
    BY FS_CardinalityType
  <2>2. ASSUME NEW s \in SUBSET D
        PROVE  /\ Cardinality(s) \in 0..k
               /\ Cardinality(s) = 0 => s = {}
               /\ s # {} => Cardinality(s \ {c[s]}) = Cardinality(s) - 1
    <3>1. IsFiniteSet(s) /\ Cardinality(s) <= Cardinality(D)
      BY FS_Subset
    <3>2. Cardinality(s) \in Nat
      BY <3>1, FS_CardinalityType
    <3>3. s # {} => Cardinality(s \ {c[s]}) = Cardinality(s) - 1
      BY <3>1, FS_RemoveElement
    <3>4. Cardinality(s) = 0 => s = {}
      BY <3>1, FS_EmptySet
    <3> QED BY <2>1, <3>1, <3>2, <3>3, <3>4
  <2> QED BY <2>1, <2>2
<1> HIDE DEF k, size
<1> DEFINE Small(n) == {s \in SUBSET D : size[s] <= n}
           Solves(f, n) ==
             \A s \in Small(n) :
               f[s] = IF s = {} THEN base ELSE F[<<c[s], f[s \ {c[s]}]>>]
           N == {n \in Nat : \E f \in [Small(n) -> V] : Solves(f, n)}
<1>2. 0 \in N
  <2> DEFINE f == [s \in Small(0) |-> base]
  <2>1. \A s \in Small(0) : s = {}
    BY <1>1
  <2>2. f \in [Small(0) -> V] /\ Solves(f, 0)
    BY <2>1
  <2> QED BY <2>2
<1>3. ASSUME NEW n \in 1..k, n - 1 \in N PROVE n \in N
  <2>1. PICK f \in [Small(n - 1) -> V] : Solves(f, n - 1)
    BY <1>3
  <2> DEFINE g == [s \in Small(n) |->
                     IF s = {} THEN base ELSE F[<<c[s], f[s \ {c[s]}]>>]]
  <2>2. ASSUME NEW s \in Small(n), s # {}
        PROVE  s \ {c[s]} \in Small(n - 1) /\ s \ {c[s]} \in Small(n)
    BY <1>1, <2>2
  <2>3. g \in [Small(n) -> V]
    <3> SUFFICES ASSUME NEW s \in Small(n), s # {}
                 PROVE  F[<<c[s], f[s \ {c[s]}]>>] \in V
      OBVIOUS
    <3>1. c[s] \in D /\ f[s \ {c[s]}] \in V
      BY <2>2
    <3> QED BY <3>1
  <2>4. \A s \in Small(n - 1) : g[s] = f[s]
    <3> SUFFICES ASSUME NEW s \in Small(n - 1) PROVE g[s] = f[s]
      OBVIOUS
    <3>1. s \in Small(n)
      BY <1>1
    <3> QED BY <2>1, <3>1
  <2>5. \A s \in Small(n) :
          g[s] = IF s = {} THEN base ELSE F[<<c[s], f[s \ {c[s]}]>>]
    OBVIOUS
  <2> HIDE DEF Small, g
  <2>6. Solves(g, n)
    BY <2>2, <2>4, <2>5
  <2> HIDE DEF Solves
  <2>7. \E h \in [Small(n) -> V] : Solves(h, n)
    BY <2>3, <2>6
  <2> QED BY <1>1, <2>7
<1> HIDE DEF N
<1>4. k \in N
  BY <1>1, <1>2, <1>3, BoundedInduction
<1>5. Small(k) = SUBSET D
  BY <1>1
<1>6. PICK f \in [Small(k) -> V] : Solves(f, k)
  BY <1>4 DEF N
<1> HIDE DEF Small
<1> QED BY <1>5, <1>6


\* The sums over the subsets of D, each of one value and the sum of the others:
\* whichever the one may be.
SumsSomehow(iter, f, D) ==
  /\ iter \in [SUBSET D -> Nat]
  /\ iter[{}] = 0
  /\ \A s \in SUBSET D : s # {} => \E x \in s : iter[s] = f[x] + iter[s \ {x}]

SumsAnyhow(iter, f, D) ==
  /\ iter \in [SUBSET D -> Nat]
  /\ iter[{}] = 0
  /\ \A s \in SUBSET D : \A x \in s : iter[s] = f[x] + iter[s \ {x}]

\* What the library's fold does: it adds the values one after the other, in an
\* order of its own.
LEMMA SumRecursion ==
  ASSUME NEW f, NEW D, IsFiniteSet(D), \A x \in D : f[x] \in Nat
  PROVE  \E iter : SumsSomehow(iter, f, D) /\ SumFunctionOnSet(f, D) = iter[D]
<1> DEFINE pick(s) == CHOOSE x \in s : TRUE
           c == [s \in SUBSET D |-> pick(s)]
           F == [p \in D \X Nat |-> f[p[1]] + p[2]]
           step(g, s) ==
             IF s = {} THEN 0 ELSE f[CHOOSE x \in s : TRUE] + g[s \ {CHOOSE x \in s : TRUE}]
<1>1. F \in [D \X Nat -> Nat]
  OBVIOUS
<1>2. \A s : s # {} => pick(s) \in s
  OBVIOUS
<1>3. \A s \in SUBSET D : s # {} => c[s] = pick(s) /\ pick(s) \in s /\ pick(s) \in D
  BY <1>2
<1>4. PICK g \in [SUBSET D -> Nat] : \A s \in SUBSET D :
        g[s] = IF s = {} THEN 0 ELSE F[<<c[s], g[s \ {c[s]}]>>]
  <2> DEFINE V == Nat
             zero == 0
  <2>1. zero \in V /\ F \in [D \X V -> V]
    BY <1>1
  <2>2. Chooses(c, D)
    BY <1>3 DEF Chooses
  <2> HIDE DEF F, c, V, zero
  <2>3. \E g \in [SUBSET D -> V] : IsFold(g, D, zero, F, c)
    BY <2>1, <2>2, FoldExists
  <2> QED BY <2>3 DEF V, zero, IsFold
<1>5. g = [s \in SUBSET D |-> step(g, s)]
  <2>1. ASSUME NEW s \in SUBSET D, s # {} PROVE g[s] = step(g, s)
    <3>1. pick(s) \in D /\ c[s] = pick(s) /\ g[s \ {pick(s)}] \in Nat
      BY <1>3, <2>1
    <3>2. g[s] = F[<<pick(s), g[s \ {pick(s)}]>>]
      BY <1>4, <2>1, <3>1
    <3>3. F[<<pick(s), g[s \ {pick(s)}]>>] = f[pick(s)] + g[s \ {pick(s)}]
      <4> HIDE DEF pick, c
      <4> QED BY <3>1
    <3> QED BY <2>1, <3>2, <3>3
  <2>2. \A s \in SUBSET D : g[s] = step(g, s)
    BY <1>4, <2>1
  <2> HIDE DEF step
  <2> QED BY <2>2
<1> DEFINE iter == CHOOSE h : h = [s \in SUBSET D |-> step(h, s)]
<1>6. SumFunctionOnSet(f, D) = iter[D]
  BY DEF SumFunctionOnSet, FoldFunctionOnSet, MapThenFoldSet
<1>7. iter = [s \in SUBSET D |-> step(iter, s)]
  <2> HIDE DEF step
  <2> QED BY <1>5
<1> HIDE DEF iter
<1>8. \A s \in SUBSET D : iter[s] = step(iter, s)
  <2> HIDE DEF step
  <2> QED BY <1>7
<1>9. iter[{}] = 0
  BY <1>8
<1>10. ASSUME NEW s \in SUBSET D, s # {}
       PROVE  \E x \in s : iter[s] = f[x] + iter[s \ {x}]
  BY <1>2, <1>8, <1>10
<1>11. iter \in [SUBSET D -> Nat]
  <2> DEFINE bad == {s \in SUBSET D : iter[s] \notin Nat}
  <2> SUFFICES ASSUME bad # {} PROVE FALSE
    <3> HIDE DEF step
    <3>1. \A s \in SUBSET D : iter[s] \in Nat
      OBVIOUS
    <3> QED BY <1>7, <3>1
  <2>1. PICK s \in bad : \A x \in s : s \ {x} \notin bad
    BY SmallestSubset
  <2>2. s # {} /\ s \in SUBSET D /\ iter[s] \notin Nat
    <3>1. s \in SUBSET D /\ iter[s] \notin Nat
      BY <2>1
    <3>2. 0 \in Nat
      OBVIOUS
    <3> QED BY <1>9, <3>1, <3>2
  <2>3. PICK x \in s : iter[s] = f[x] + iter[s \ {x}]
    BY <1>10, <2>2
  <2>4. iter[s \ {x}] \in Nat /\ f[x] \in Nat
    BY <2>1, <2>2
  <2> QED BY <2>2, <2>3, <2>4
<1> QED BY <1>6, <1>9, <1>10, <1>11 DEF SumsSomehow

\* Any element may be added last: the sum does not depend on the order.
LEMMA AnyOrder ==
  ASSUME NEW f, NEW D, IsFiniteSet(D), \A x \in D : f[x] \in Nat,
         NEW iter, SumsSomehow(iter, f, D)
  PROVE  SumsAnyhow(iter, f, D)
<1> USE DEF SumsSomehow, SumsAnyhow
<1> DEFINE bad == {s \in SUBSET D : \E x \in s : iter[s] # f[x] + iter[s \ {x}]}
<1> SUFFICES ASSUME bad # {} PROVE FALSE
  OBVIOUS
<1>1. PICK s \in bad : \A y \in s : s \ {y} \notin bad
  BY SmallestSubset
<1>2. PICK x \in s : iter[s] # f[x] + iter[s \ {x}]
  OBVIOUS
<1>3. s \in SUBSET D /\ x \in D
  BY <1>2
<1>4. PICK y \in s : iter[s] = f[y] + iter[s \ {y}]
  BY <1>3
<1>5. x # y /\ y \in D
  BY <1>2, <1>3, <1>4
<1>6. /\ iter[s \ {y}] = f[x] + iter[(s \ {y}) \ {x}]
      /\ iter[s \ {x}] = f[y] + iter[(s \ {x}) \ {y}]
  BY <1>1, <1>3, <1>5
<1>7. (s \ {y}) \ {x} = (s \ {x}) \ {y} /\ (s \ {x}) \ {y} \in SUBSET D
  BY <1>3
<1>8. /\ f[x] \in Nat /\ f[y] \in Nat /\ iter[(s \ {x}) \ {y}] \in Nat
  BY <1>3, <1>5, <1>7
<1> DEFINE rest == iter[(s \ {x}) \ {y}]
<1>9. /\ iter[s \ {y}] = f[x] + rest /\ iter[s \ {x}] = f[y] + rest
      /\ rest \in Nat
  BY <1>6, <1>7, <1>8
<1> HIDE DEF bad, rest
<1> QED BY <1>2, <1>4, <1>8, <1>9

\* Two sums of the same values are the same.
LEMMA SameSum ==
  ASSUME NEW f, NEW D, IsFiniteSet(D), \A x \in D : f[x] \in Nat,
         NEW g, NEW E, IsFiniteSet(E), \A y \in E : g[y] \in Nat,
         NEW h \in [D -> E],
         \A x, z \in D : h[x] = h[z] => x = z,
         \A y \in E : \E x \in D : h[x] = y,
         \A x \in D : f[x] = g[h[x]]
  PROVE  SumFunctionOnSet(f, D) = SumFunctionOnSet(g, E)
<1>1. PICK a : SumsAnyhow(a, f, D) /\ SumFunctionOnSet(f, D) = a[D]
  BY SumRecursion, AnyOrder
<1>2. PICK b : SumsAnyhow(b, g, E) /\ SumFunctionOnSet(g, E) = b[E]
  BY SumRecursion, AnyOrder
<1> DEFINE image(s) == {h[x] : x \in s}
           bad == {s \in SUBSET D : a[s] # b[image(s)]}
<1>3. bad = {}
  <2> SUFFICES ASSUME bad # {} PROVE FALSE
    OBVIOUS
  <2>1. PICK s \in bad : \A x \in s : s \ {x} \notin bad
    BY SmallestSubset
  <2>2. s \in SUBSET D /\ a[s] # b[image(s)]
    BY <2>1
  <2>3. s # {}
    <3>1. image({}) = {}
      OBVIOUS
    <3> HIDE DEF image
    <3> QED BY <1>1, <1>2, <2>2, <3>1 DEF SumsAnyhow
  <2>4. PICK x \in s : a[s] = f[x] + a[s \ {x}]
    BY <1>1, <2>2, <2>3 DEF SumsAnyhow
  <2>5. x \in D /\ s \ {x} \in SUBSET D
    BY <2>2
  <2>6. a[s \ {x}] = b[image(s \ {x})]
    BY <2>1, <2>5
  <2>7. image(s \ {x}) = image(s) \ {h[x]} /\ h[x] \in image(s) /\ image(s) \in SUBSET E
    BY <2>2, <2>5
  <2> HIDE DEF image
  <2>8. b[image(s)] = g[h[x]] + b[image(s) \ {h[x]}]
    BY <1>2, <2>7 DEF SumsAnyhow
  <2> QED BY <2>2, <2>4, <2>5, <2>6, <2>7, <2>8
<1>4. a[D] = b[image(D)]
  BY <1>3
<1>5. image(D) = E
  OBVIOUS
<1> QED BY <1>1, <1>2, <1>4, <1>5

\* Numbers from 1 on without a gap are the numbers up to their count.
LEMMA WithoutGap ==
  ASSUME NEW n \in Nat, NEW S \in SUBSET (1..n),
         \A k \in S : \A j \in 1..k : j \in S
  PROVE  Cardinality(S) \in 0..n /\ S = 1..Cardinality(S)
<1> DEFINE T == {k \in 1..(n + 1) : k \notin S}
<1>1. T \in SUBSET Nat /\ n + 1 \in T
  OBVIOUS
<1>2. PICK t \in T : \A u \in T : t <= u
  BY <1>1, LeastElement
<1>3. t \in 1..(n + 1) /\ t \notin S
  OBVIOUS
<1>4. \A k \in 1..(t - 1) : k \in S
  BY <1>2, <1>3
<1>5. \A k \in S : k \in 1..(t - 1)
  BY <1>3
<1>6. S = 1..(t - 1)
  BY <1>4, <1>5
<1>7. Cardinality(1..(t - 1)) = t - 1
  <2>1. 1 \in Int /\ t - 1 \in Int
    BY <1>3
  <2>2. Cardinality(1..(t - 1)) = IF 1 > t - 1 THEN 0 ELSE (t - 1) - 1 + 1
    BY <2>1, FS_Interval
  <2> QED BY <1>3, <2>2
<1> HIDE DEF T
<1> QED BY <1>3, <1>6, <1>7

-----------------------------------------------------------------------------
(* The depth of the side *)

\* The loop goes through the numbers that reach the price, and adds up the orders
\* that are no worse.
LEMMA TopAmountAddsUp ==
  ASSUME IInv, IsFiniteSet(DOMAIN sprice2order), NEW price \in Int
  PROVE  GetTopAmount(price) =
           SumFunctionOnSet(sprice2order,
             {s \in DOMAIN sprice2order : ~ Better(price, Price[s])})
<1> DEFINE D == DOMAIN fprice2sprice
           L == Listed
           n == Cardinality(D)
           amount == [k \in 1..Len(L) |->
                        IF HasOrder(L[k]) THEN OrderAt(L[k]).amount ELSE 0]
           reached == {k \in 1..Len(L) : \A j \in 1..k : Reaches(L[j], price)}
           m == Cardinality(reached)
           E == {s \in DOMAIN sprice2order : ~ Better(price, Price[s])}
           h == [k \in 1..m |-> fprice2sprice[L[k]]]
<1>1. D \in SUBSET Int /\ IsFiniteSet(D)
  BY ListedFacts
<1>2. /\ n \in Nat /\ L \in Seq(D) /\ Len(L) = n
      /\ \A j, k \in 1..n : j < k => Better(L[j], L[k])
      /\ \A p \in D : \E k \in 1..n : L[k] = p
  BY <1>1, InOrderIsSorted DEF Listed
<1>3. GetTopAmount(price) = SumFunctionOnSet(amount, 1..m)
  BY DEF GetTopAmount
<1> HIDE DEF D, L, n
<1>4. \A k \in 1..n : L[k] \in D /\ L[k] \in Int
  <2>1. L \in Seq(D) /\ Len(L) = n
    BY <1>2
  <2>2. \A k \in 1..n : L[k] \in D
    BY <2>1
  <2> QED BY <1>1, <2>2
\* What the order at a listed number is.
<1>5. ASSUME NEW k \in 1..n
      PROVE  /\ fprice2sprice[L[k]] \in DOMAIN sprice2order
             /\ Price[fprice2sprice[L[k]]] = L[k]
             /\ amount[k] = sprice2order[fprice2sprice[L[k]]]
  <2>1. HasOrder(L[k]) /\ Price[fprice2sprice[L[k]]] = L[k]
    BY <1>4 DEF IInv, MapsAgree, D
  <2> QED BY <1>2, <2>1 DEF HasOrder, OrderAt
<1>6. DOMAIN sprice2order \subseteq Spellings
      /\ \A s \in DOMAIN sprice2order : sprice2order[s] \in Nat
  BY OneSpelling DEF IInv
\* How far the loop gets.
<1>7. m \in 0..n /\ reached = 1..m
  <2>1. reached \in SUBSET (1..n)
    BY <1>2
  <2>2. \A k \in reached : \A j \in 1..k : j \in reached
    <3> SUFFICES ASSUME NEW k \in reached, NEW j \in 1..k PROVE j \in reached
      OBVIOUS
    <3>1. k \in 1..n /\ \A i \in 1..k : Reaches(L[i], price)
      BY <1>2
    <3>2. j \in 1..n /\ \A i \in 1..j : i \in 1..k
      BY <1>2, <3>1
    <3> QED BY <1>2, <3>1, <3>2
  <2> HIDE DEF reached
  <2> QED BY <1>2, <2>1, <2>2, WithoutGap
<1>8. \A k \in 1..n : k \in 1..m <=> ~ Better(price, L[k])
  <2> SUFFICES ASSUME NEW k \in 1..n
               PROVE  k \in reached <=> ~ Better(price, L[k])
    BY <1>7
  <2>1. k \in reached => ~ Better(price, L[k])
    BY <1>2 DEF Reaches
  <2>2. ASSUME ~ Better(price, L[k]), NEW j \in 1..k PROVE ~ Better(price, L[j])
    <3>1. j \in 1..n /\ (j < k \/ j = k)
      BY <1>2
    <3>2. j < k => Better(L[j], L[k])
      BY <1>2, <3>1
    <3> QED BY <1>4, <2>2, <3>1, <3>2, BetterIsTotal
  <2> QED BY <1>2, <2>1, <2>2 DEF Reaches
<1> HIDE DEF amount, reached, m
\* The loop meets each of those orders once.
<1>9. ASSUME NEW k \in 1..m
      PROVE  k \in 1..n /\ h[k] = fprice2sprice[L[k]] /\ h[k] \in E
  <2>1. k \in 1..n /\ ~ Better(price, L[k])
    BY <1>2, <1>7, <1>8
  <2> QED BY <1>5, <2>1
<1>10. h \in [1..m -> E]
  BY <1>9
<1>11. \A j, k \in 1..m : h[j] = h[k] => j = k
  <2> SUFFICES ASSUME NEW j \in 1..m, NEW k \in 1..m, h[j] = h[k], j # k PROVE FALSE
    OBVIOUS
  <2>1. L[j] = L[k] /\ j \in 1..n /\ k \in 1..n
    BY <1>5, <1>9
  <2>2. Better(L[j], L[k]) \/ Better(L[k], L[j])
    BY <1>2, <2>1
  <2> QED BY <1>4, <2>1, <2>2, BetterIsTotal
<1>12. \A s \in E : \E k \in 1..m : h[k] = s
  <2> SUFFICES ASSUME NEW s \in E PROVE \E k \in 1..m : h[k] = s
    OBVIOUS
  <2>1. s \in DOMAIN sprice2order /\ ~ Better(price, Price[s])
    OBVIOUS
  <2>2. PICK k \in 1..n : L[k] = Price[s]
    BY <1>2, <2>1 DEF IInv, MapsAgree, D
  <2>3. k \in 1..m
    BY <1>8, <2>1, <2>2
  <2>4. fprice2sprice[L[k]] = s
    BY <1>5, <1>6, <2>1, <2>2, OneSpelling
  <2> QED BY <1>9, <2>3, <2>4
<1>13. \A k \in 1..m : amount[k] = sprice2order[h[k]] /\ amount[k] \in Nat
  BY <1>5, <1>6, <1>9
<1>14. IsFiniteSet(1..m) /\ IsFiniteSet(E)
  <2>1. 1 \in Int /\ m \in Int
    BY <1>7
  <2> QED BY <2>1, FS_Interval, FS_Subset
<1>15. \A s \in E : sprice2order[s] \in Nat
  BY <1>6
<1> HIDE DEF h, E
<1>16. SumFunctionOnSet(amount, 1..m) = SumFunctionOnSet(sprice2order, E)
  <2> DEFINE places == 1..m
             orders == sprice2order
  <2>1. /\ IsFiniteSet(places) /\ IsFiniteSet(E) /\ h \in [places -> E]
        /\ \A s \in E : orders[s] \in Nat
        /\ \A k \in places : amount[k] \in Nat /\ amount[k] = orders[h[k]]
        /\ \A j, k \in places : h[j] = h[k] => j = k
        /\ \A s \in E : \E k \in places : h[k] = s
    BY <1>10, <1>11, <1>12, <1>13, <1>14, <1>15
  <2> HIDE DEF places, orders
  <2>2. SumFunctionOnSet(amount, places) = SumFunctionOnSet(orders, E)
    BY <2>1, SameSum
  <2> QED BY <2>2 DEF places, orders
<1> QED BY <1>3, <1>16 DEF E

\* get_top_amount adds up the amounts of all orders from the best price to the one
\* given and of no others, in whatever order they were put and however many there
\* are (orderbook.cpp:55-87).
THEOREM TopAmountIsTheDepth == Spec => []TopAmountIsDepth
<1>1. Init => IsFiniteSet(DOMAIN sprice2order)
  BY FS_EmptySet DEF Init
<1>2. IsFiniteSet(DOMAIN sprice2order) /\ [Next]_vars
        => IsFiniteSet(DOMAIN sprice2order)'
  BY FiniteStep
<1>3. Prices \subseteq Int
  BY OneSpelling DEF Prices, Range
<1>4. IInv /\ IsFiniteSet(DOMAIN sprice2order) => TopAmountIsDepth
  BY <1>3, TopAmountAddsUp DEF TopAmountIsDepth
<1> QED
  BY InitIInv, StepIInv, <1>1, <1>2, <1>4, PTL DEF Spec
=============================================================================
