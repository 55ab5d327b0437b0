---------------------------- MODULE OrderBookSide ----------------------------
(***************************************************************************)
(* One side of an order book (class OrderBookSide,                         *)
(* market/orderbook/orderbook.cpp:7-87): orders are found by the text of   *)
(* their price and listed by its number, in two maps kept in step.  The    *)
(* text is what Order::create makes of the one the exchange sent.          *)
(***************************************************************************)
EXTENDS Integers, SequencesExt, Functions

CONSTANTS
  Texts,     \* the texts of prices the exchange sends
  Amounts    \* 0 (less than 1e-12) removes an order

\* A text is known by the number it spells, the zeros at its end and whether it
\* has a decimal point.  The exchange may add zeros to a price, but does not send
\* the same number with and without a point.
ASSUME SideAssumption ==
  /\ Texts \subseteq [number : Int, zeros : Nat, point : BOOLEAN]
  /\ \A t \in Texts : t.zeros > 0 => t.point
  /\ \A t, u \in Texts : t.number = u.number => t.point = u.point
  /\ Amounts \subseteq Nat /\ 0 \in Amounts

\* Mutant: one zero is taken off.
CreateStrippingOne(t) ==
  IF t.point /\ t.zeros > 0 THEN [t EXCEPT !.zeros = @ - 1] ELSE t

\* Order::create: the zeros behind the point are taken off ("1.00" gives "1.").
Create(t) == IF t.point /\ t.zeros > 0 THEN [t EXCEPT !.zeros = 0] ELSE t

\* The texts of orders, and the numbers std::stold makes of them.
Spellings == {Create(t) : t \in Texts}
Price == [s \in Spellings |-> s.number]

VARIABLES
  side,
  sprice2order,  \* spelling -> amount: the orders
  fprice2sprice  \* number -> spelling

vars == <<side, sprice2order, fprice2sprice>>

Init ==
  /\ side \in {"BUY", "SELL"}
  /\ sprice2order = <<>>
  /\ fprice2sprice = <<>>

Without(map, key) == Restrict(map, DOMAIN map \ {key})
With(map, key, value) ==
  [k \in DOMAIN map \cup {key} |-> IF k = key THEN value ELSE map[k]]

Add(s, a) ==
  /\ s \notin DOMAIN sprice2order /\ a # 0
  /\ sprice2order' = With(sprice2order, s, a)
  /\ fprice2sprice' = With(fprice2sprice, Price[s], s)
  /\ UNCHANGED side

Erase(s, a) ==
  /\ s \in DOMAIN sprice2order /\ a = 0
  /\ fprice2sprice' = Without(fprice2sprice, Price[s])
  /\ sprice2order' = Without(sprice2order, s)
  /\ UNCHANGED side

\* Mutant: amounts are added up.
UpdateAdding(s, a) ==
  /\ s \in DOMAIN sprice2order /\ a # 0
  /\ sprice2order' = With(sprice2order, s, sprice2order[s] + a)
  /\ UNCHANGED <<side, fprice2sprice>>

Update(s, a) ==
  /\ s \in DOMAIN sprice2order /\ a # 0
  /\ sprice2order' = With(sprice2order, s, a)
  /\ UNCHANGED <<side, fprice2sprice>>

\* put.  An order of amount zero at a price without one is ignored.
Put(s, a) == Add(s, a) \/ Erase(s, a) \/ Update(s, a)

Next == \E t \in Texts, a \in Amounts : Put(Create(t), a)

Spec == Init /\ [][Next]_vars

-----------------------------------------------------------------------------
(* The reads.  A number whose text has no order is passed over (the "???"s  *)
(* of the code), but counts.                                                *)

Better(p, q) == IF side = "BUY" THEN p > q ELSE p < q

\* Mutant: always ascending.
ListedAscending == SetToSortSeq(DOMAIN fprice2sprice, <)

\* Numbers, best first: the k-th is the one with k - 1 better ones.
InOrder(S) ==
  [k \in 1..Cardinality(S) |->
     CHOOSE p \in S : Cardinality({q \in S : Better(q, p)}) = k - 1]

\* The order in which the iterators of the side run over them.
Listed == InOrder(DOMAIN fprice2sprice)

OrderAt(p) == [price |-> p, amount |-> sprice2order[fprice2sprice[p]]]

HasOrder(p) == fprice2sprice[p] \in DOMAIN sprice2order

GetOrders(max_count) ==
  LET first == {Listed[k] : k \in 1..Min({max_count, Len(Listed)})}
      found == InOrder({p \in first : HasOrder(p)})
  IN [k \in 1..Len(found) |-> OrderAt(found[k])]

\* Mutant: the price asked for is left out.
ReachesStrictly(p, price) == Better(p, price)

\* The loop of get_top_amount stops at the first number beyond the price.
Reaches(p, price) == ~ Better(price, p)

GetTopAmount(price) ==
  LET amount == [k \in 1..Len(Listed) |->
                   IF HasOrder(Listed[k]) THEN OrderAt(Listed[k]).amount ELSE 0]
      reached == Cardinality({k \in 1..Len(Listed) :
                                \A j \in 1..k : Reaches(Listed[j], price)})
  IN SumFunctionOnSet(amount, 1..reached)

-----------------------------------------------------------------------------
Prices == Range(Price)

\* The promise of the abstract map, read through both maps.
Held ==
  [p \in Prices |-> IF p \in DOMAIN fprice2sprice /\ HasOrder(p)
                    THEN OrderAt(p).amount ELSE 0]

Levels == INSTANCE PriceLevels WITH levels <- Held

IsPriceLevels == Levels!Spec

\* The two maps list the same orders, each under its own price: no order is
\* lost to the reads, none is listed that is gone.
MapsAgree ==
  /\ DOMAIN fprice2sprice = {Price[s] : s \in DOMAIN sprice2order}
  /\ \A p \in DOMAIN fprice2sprice :
       HasOrder(p) /\ Price[fprice2sprice[p]] = p

\* get_orders gives the best orders of the side, best first, none twice and
\* none better left out.
BestFirst ==
  \A max_count \in 0..Cardinality(Spellings) :
    LET got == GetOrders(max_count)
        prices == {got[k].price : k \in 1..Len(got)}
    IN /\ Len(got) = Min({max_count, Cardinality(DOMAIN sprice2order)})
       /\ \A j, k \in 1..Len(got) : j < k => Better(got[j].price, got[k].price)
       /\ \A s \in DOMAIN sprice2order :
            \/ Price[s] \in prices
            \/ \A p \in prices : Better(p, Price[s])

\* get_top_amount adds up the amounts of all orders from the best price to the one
\* given, and of no others.
TopAmountIsDepth ==
  \A price \in Prices :
    GetTopAmount(price) =
      SumFunctionOnSet(sprice2order,
        {s \in DOMAIN sprice2order : ~ Better(price, Price[s])})
=============================================================================
