---------------------------- MODULE MarketProofs ----------------------------
(***************************************************************************)
(* Theorems about the HashShare market and the marketplace page: its coins *)
(* are conserved, its swaps stay within their legs, its makers get their   *)
(* price, and a swap built on a fresh book executes as shown.              *)
(***************************************************************************)
EXTENDS MarketPage, WorkSumsProofs

-----------------------------------------------------------------------------
(* Holdings and escrows.                                                   *)

LEMMA MarketFacts ==
  ASSUME NEW m, MarketOK(m)
  PROVE  /\ m.quote \in [Accounts -> Nat] /\ m.shares \in [Accounts -> Nat]
         /\ m.admin \in Accounts /\ m.epoch \in 0 .. MaxEpoch
         /\ m.placed \in Seq({"bid", "ask"}) /\ Len(m.placed) \in Nat
         /\ Len(m.placed) <= MaxOrders /\ DOMAIN m.placed = 1 .. Len(m.placed)
         /\ Live(m) \subseteq 1 .. Len(m.placed) /\ Live(m) \subseteq OrderIds
         /\ m.orders \in [Live(m) -> OrderType]
         /\ \A i \in Live(m) :
              /\ m.orders[i] \in OrderType /\ m.placed[i] = m.orders[i].side
              /\ m.orders[i].side \in {"bid", "ask"} /\ m.orders[i].owner \in Accounts
              /\ m.orders[i].price \in Nat /\ m.orders[i].price > 0
              /\ m.orders[i].rem \in Nat /\ m.orders[i].exp \in Nat
<1>1. /\ m.quote \in [Accounts -> Nat] /\ m.shares \in [Accounts -> Nat]
      /\ m.admin \in Accounts /\ m.epoch \in 0 .. MaxEpoch
      /\ m.placed \in Seq({"bid", "ask"}) /\ Len(m.placed) <= MaxOrders
      /\ m.orders \in [Live(m) -> OrderType] /\ Live(m) \subseteq DOMAIN m.placed
      /\ \A i \in Live(m) : m.placed[i] = m.orders[i].side
  BY DEF MarketOK
<1>2. Len(m.placed) \in Nat /\ DOMAIN m.placed = 1 .. Len(m.placed)
  BY <1>1, LenProperties
<1>3. MaxOrders \in Nat
  BY ShareMarketAssumption
<1>4. Live(m) \subseteq OrderIds
  BY <1>1, <1>2, <1>3 DEF OrderIds
<1>5. \A i \in Live(m) : m.orders[i] \in OrderType
  BY <1>1
<1> QED
  BY <1>1, <1>2, <1>4, <1>5 DEF OrderType

LEMMA HeldType ==
  ASSUME NEW f \in [Accounts -> Nat]
  PROVE  Held(f) \in Nat
BY UnitsFinite, ShareMarketAssumption DEF Held

\* When one holding changes, the total changes by as much.
LEMMA HeldChange ==
  ASSUME NEW f \in [Accounts -> Nat], NEW g \in [Accounts -> Nat], NEW a \in Accounts,
         \A b \in Accounts : b # a => g[b] = f[b]
  PROVE  Held(g) + f[a] = Held(f) + g[a]
<1>1. IsFiniteSet(Accounts)
  BY ShareMarketAssumption
<1>2. /\ \A z \in Accounts : f[z] \in Nat
      /\ (\A z \in Accounts \ {a} : g[z] = f[z]) /\ g[a] \in Nat
  OBVIOUS
<1>3. SumOver(Accounts, g) + f[a] = SumOver(Accounts, f) + g[a]
  BY <1>1, <1>2, SumUpdate
<1> QED
  BY <1>3 DEF Held

\* An amount that b gets when a gets n.
Only(b, a, n) == IF b = a THEN n ELSE 0

LEMMA OnlyType ==
  ASSUME NEW a, NEW b, NEW n \in Nat
  PROVE  Only(b, a, n) \in Nat /\ Only(b, a, n) <= n
BY DEF Only

\* g is what Debit and Credit make of the holdings f.
Credited(f, a, x, g) == g = Credit(f, a, x)
Debited(f, a, x, g) == g = Debit(f, a, x)
CreditedTwice(f, a, x, c, y, g) == g = Credit(Credit(f, a, x), c, y)
HandedOver(f, a, x, c, g) == g = Credit(Debit(f, a, x), c, x)

LEMMA CreditFacts ==
  ASSUME NEW f \in [Accounts -> Nat], NEW a \in Accounts, NEW x \in Nat,
         NEW g, Credited(f, a, x, g)
  PROVE  /\ g \in [Accounts -> Nat] /\ Held(g) = Held(f) + x
         /\ \A b \in Accounts : g[b] = f[b] + Only(b, a, x)
<1>1. /\ g \in [Accounts -> Nat] /\ g[a] = f[a] + x
      /\ \A b \in Accounts : b # a => g[b] = f[b]
  BY DEF Credit, Credited
<1>2. Held(g) + f[a] = Held(f) + g[a]
  BY <1>1, HeldChange
<1>3. Held(g) \in Nat /\ Held(f) \in Nat /\ f[a] \in Nat
  BY <1>1, HeldType
<1>4. Held(g) = Held(f) + x
  BY <1>1, <1>2, <1>3
<1>5. \A b \in Accounts : g[b] = f[b] + Only(b, a, x)
  BY <1>1 DEF Only
<1> QED
  BY <1>1, <1>4, <1>5

LEMMA DebitFacts ==
  ASSUME NEW f \in [Accounts -> Nat], NEW a \in Accounts, NEW x \in Nat, x <= f[a],
         NEW g, Debited(f, a, x, g)
  PROVE  /\ g \in [Accounts -> Nat] /\ Held(g) + x = Held(f)
         /\ \A b \in Accounts : g[b] = f[b] - Only(b, a, x)
<1>1. /\ g \in [Accounts -> Nat] /\ g[a] = f[a] - x
      /\ \A b \in Accounts : b # a => g[b] = f[b]
  BY DEF Debit, Debited
<1>2. Held(g) + f[a] = Held(f) + g[a]
  BY <1>1, HeldChange
<1>3. Held(g) \in Nat /\ Held(f) \in Nat /\ f[a] \in Nat
  BY <1>1, HeldType
<1>4. Held(g) + x = Held(f)
  BY <1>1, <1>2, <1>3
<1>5. \A b \in Accounts : g[b] = f[b] - Only(b, a, x)
  BY <1>1 DEF Only
<1> QED
  BY <1>1, <1>4, <1>5

LEMMA CreditTwice ==
  ASSUME NEW f \in [Accounts -> Nat], NEW a \in Accounts, NEW x \in Nat, NEW c \in Accounts,
         NEW y \in Nat, NEW g, CreditedTwice(f, a, x, c, y, g)
  PROVE  /\ g \in [Accounts -> Nat] /\ Held(g) = Held(f) + x + y
         /\ \A b \in Accounts : g[b] = f[b] + Only(b, a, x) + Only(b, c, y)
<1>0. PICK h : Credited(f, a, x, h) /\ Credited(h, c, y, g)
  BY DEF Credited, CreditedTwice
<1>1. /\ h \in [Accounts -> Nat] /\ Held(h) = Held(f) + x
      /\ \A b \in Accounts : h[b] = f[b] + Only(b, a, x)
  BY <1>0, CreditFacts
<1>3. /\ g \in [Accounts -> Nat] /\ Held(g) = Held(h) + y
      /\ \A b \in Accounts : g[b] = h[b] + Only(b, c, y)
  BY <1>0, <1>1, CreditFacts
<1> QED
  BY <1>1, <1>3

LEMMA HandOver ==
  ASSUME NEW f \in [Accounts -> Nat], NEW a \in Accounts, NEW x \in Nat, x <= f[a],
         NEW c \in Accounts, NEW g, HandedOver(f, a, x, c, g)
  PROVE  /\ g \in [Accounts -> Nat] /\ Held(g) = Held(f)
         /\ \A b \in Accounts : g[b] = f[b] - Only(b, a, x) + Only(b, c, x)
<1>0. PICK h : Debited(f, a, x, h) /\ Credited(h, c, x, g)
  BY DEF Debited, Credited, HandedOver
<1>1. /\ h \in [Accounts -> Nat] /\ Held(h) + x = Held(f)
      /\ \A b \in Accounts : h[b] = f[b] - Only(b, a, x)
  BY <1>0, DebitFacts
<1>3. /\ g \in [Accounts -> Nat] /\ Held(g) = Held(h) + x
      /\ \A b \in Accounts : g[b] = h[b] + Only(b, c, x)
  BY <1>0, <1>1, CreditFacts
<1> QED
  BY <1>1, <1>3

LEMMA OrdersOfFacts ==
  ASSUME NEW m, MarketOK(m), NEW side
  PROVE  /\ IsFiniteSet(Live(m)) /\ IsFiniteSet(OrdersOf(m, side))
         /\ \A i \in OrdersOf(m, side) : m.orders[i].rem \in Nat
         /\ Escrowed(m, side) \in Nat
<1>1. IsFiniteSet(1 .. Len(m.placed))
  BY MarketFacts, FS_Interval
<1>2. OrdersOf(m, side) \subseteq Live(m) /\ Live(m) \subseteq 1 .. Len(m.placed)
  BY MarketFacts DEF OrdersOf
<1>3. IsFiniteSet(Live(m)) /\ IsFiniteSet(OrdersOf(m, side))
  BY <1>1, <1>2, FS_Subset
<1>4. \A i \in OrdersOf(m, side) : m.orders[i].rem \in Nat
  BY <1>2, MarketFacts
<1> DEFINE S == OrdersOf(m, side)
           f == [i \in S |-> m.orders[i].rem]
<1>5. \A i \in S : f[i] \in Nat
  BY <1>4
<1> HIDE DEF f
<1>6. SumOver(S, f) \in Nat
  BY <1>3, <1>5, UnitsFinite
<1> QED
  BY <1>3, <1>4, <1>6 DEF Escrowed, f

\* An order that is added escrows what it holds.
LEMMA EscrowAdded ==
  ASSUME NEW m, MarketOK(m), NEW n, MarketOK(n), NEW i, i \notin Live(m),
         Live(n) = Live(m) \cup {i}, \A j \in Live(m) : n.orders[j] = m.orders[j], NEW side
  PROVE  Escrowed(n, side)
           = Escrowed(m, side) + (IF n.orders[i].side = side THEN n.orders[i].rem ELSE 0)
<1> DEFINE S == OrdersOf(m, side)
           f == [j \in S |-> m.orders[j].rem]
           T == OrdersOf(n, side)
           g == [j \in T |-> n.orders[j].rem]
<1>1. IsFiniteSet(S) /\ Escrowed(m, side) \in Nat /\ \A j \in S : f[j] \in Nat
  BY OrdersOfFacts
<1>2. /\ i \notin S /\ (\A j \in S : j \in T /\ n.orders[j] = m.orders[j])
      /\ T = IF n.orders[i].side = side THEN S \cup {i} ELSE S
  BY DEF OrdersOf
<1>3. \A j \in S : g[j] = f[j]
  BY <1>2
<1>4. i \in T => g[i] = n.orders[i].rem /\ g[i] \in Nat
  BY OrdersOfFacts
<1>5. Escrowed(m, side) = SumOver(S, f) /\ Escrowed(n, side) = SumOver(T, g)
  BY DEF Escrowed
<1> HIDE DEF S, f, T, g
<1>6. CASE n.orders[i].side = side
  <2>1. T = S \cup {i} /\ i \in T
    BY <1>2, <1>6
  <2>2. SumOver(S \cup {i}, g) = SumOver(S, f) + g[i]
    <3>1. \A j \in S : f[j] \in Nat /\ g[j] = f[j]
      BY <1>1, <1>3
    <3>2. i \notin S /\ g[i] \in Nat /\ IsFiniteSet(S)
      BY <1>1, <1>2, <1>4, <2>1
    <3> QED
      BY <3>1, <3>2, SumInsert
  <2> QED
    BY <1>4, <1>5, <1>6, <2>1, <2>2
<1>7. CASE n.orders[i].side # side
  <2>1. T = S
    BY <1>2, <1>7
  <2>2. SumOver(S, f) = SumOver(S, g)
    BY <1>3, SumExt
  <2> QED
    BY <1>1, <1>5, <1>7, <2>1, <2>2
<1> QED
  BY <1>6, <1>7

\* When one order's holding changes, its side's escrow changes by as much.
LEMMA EscrowChanged ==
  ASSUME NEW m, MarketOK(m), NEW n, MarketOK(n), NEW i \in Live(m), Live(n) = Live(m),
         \A j \in Live(m) : j # i => n.orders[j] = m.orders[j],
         n.orders[i].side = m.orders[i].side, NEW side
  PROVE  IF m.orders[i].side = side
         THEN Escrowed(n, side) + m.orders[i].rem = Escrowed(m, side) + n.orders[i].rem
         ELSE Escrowed(n, side) = Escrowed(m, side)
<1> DEFINE S == OrdersOf(m, side)
           f == [j \in S |-> m.orders[j].rem]
           g == [j \in S |-> n.orders[j].rem]
<1>1. /\ IsFiniteSet(S) /\ OrdersOf(n, side) = S
      /\ \A j \in S : f[j] \in Nat /\ g[j] \in Nat
  <2>1. OrdersOf(n, side) = S
    BY DEF OrdersOf
  <2> QED
    BY <2>1, OrdersOfFacts
<1>2. \A j \in S \ {i} : g[j] = f[j]
  BY DEF OrdersOf
<1>3. /\ i \in S <=> m.orders[i].side = side
      /\ i \in S => f[i] = m.orders[i].rem /\ g[i] = n.orders[i].rem
  BY DEF OrdersOf
<1>4. Escrowed(m, side) = SumOver(S, f) /\ Escrowed(n, side) = SumOver(S, g)
  BY <1>1 DEF Escrowed
<1> HIDE DEF S, f, g
<1>5. CASE i \in S
  <2>1. /\ g[i] \in Nat /\ IsFiniteSet(S) /\ (\A j \in S : f[j] \in Nat)
        /\ \A j \in S \ {i} : g[j] = f[j]
    BY <1>1, <1>2, <1>5
  <2>2. SumOver(S, g) + f[i] = SumOver(S, f) + g[i]
    BY <1>5, <2>1, SumUpdate
  <2> QED
    BY <1>3, <1>4, <1>5, <2>2
<1>6. CASE i \notin S
  <2>1. \A j \in S : f[j] = g[j]
    BY <1>2, <1>6
  <2>2. SumOver(S, f) = SumOver(S, g)
    BY <2>1, SumExt
  <2> QED
    BY <1>3, <1>4, <1>6, <2>2
<1> QED
  BY <1>5, <1>6

-----------------------------------------------------------------------------
(* The entry functions.                                                    *)

\* The coins of either kind, wherever they are.
QuoteIn(m) == Held(m.quote) + Escrowed(m, "bid")
SharesIn(m) == Held(m.shares) + Escrowed(m, "ask")
Keeps(m, n) == MarketOK(n) /\ QuoteIn(n) = QuoteIn(m) /\ SharesIn(n) = SharesIn(m)

LEMMA CoinsInType ==
  ASSUME NEW m, MarketOK(m)
  PROVE  /\ Held(m.quote) \in Nat /\ Held(m.shares) \in Nat
         /\ Escrowed(m, "bid") \in Nat /\ Escrowed(m, "ask") \in Nat
BY MarketFacts, HeldType, OrdersOfFacts

LEMMA ConservedIs ==
  ASSUME NEW m, NEW n, Keeps(m, n), Conserved(m)
  PROVE  Conserved(n)
BY DEF Keeps, Conserved, QuoteIn, SharesIn

LEMMA FeeFacts ==
  ASSUME NEW gross \in Nat
  PROVE  Fee(gross) \in Nat /\ Fee(gross) <= gross /\ Net(gross) \in Nat
         /\ Net(gross) = gross - Fee(gross)
<1>1. FeeBps \in Nat /\ BpsDenom \in Nat /\ BpsDenom > 0 /\ FeeBps <= BpsDenom
  BY ShareMarketAssumption
<1> DEFINE x == gross * FeeBps
           q == x \div BpsDenom
<1>2. x \in Nat
  BY <1>1, ProductType
<1>3. gross * FeeBps <= gross * BpsDenom
  BY <1>1, ProductMonotone
<1> HIDE DEF x
<1>4. q \in Nat /\ BpsDenom * q <= x
  BY <1>1, <1>2, DivFacts
<1> HIDE DEF q
<1>5. BpsDenom * q <= BpsDenom * gross
  BY <1>1, <1>2, <1>3, <1>4 DEF x
<1>6. q <= gross
  BY <1>1, <1>4, <1>5, ProductCancel
<1>7. Fee(gross) = q
  BY DEF Fee, q, x
<1> QED
  BY <1>4, <1>6, <1>7 DEF Net

\* One order changes, no order is added or removed, nothing else but holdings changes.
Changes(m, n, i, o) ==
  /\ HasFields(n) /\ n.orders = [m.orders EXCEPT ![i] = o]
  /\ n.placed = m.placed /\ n.admin = m.admin /\ n.epoch = m.epoch
  /\ n.quote \in [Accounts -> Nat] /\ n.shares \in [Accounts -> Nat]

LEMMA OrderChanged ==
  ASSUME NEW m, MarketOK(m), NEW n, NEW i \in Live(m), NEW o \in OrderType,
         o.side = m.orders[i].side, Changes(m, n, i, o)
  PROVE  /\ MarketOK(n) /\ Live(n) = Live(m) /\ n.orders[i] = o
         /\ \A j \in Live(m) : j # i => n.orders[j] = m.orders[j]
         /\ \A side : IF o.side = side
                      THEN Escrowed(n, side) + m.orders[i].rem = Escrowed(m, side) + o.rem
                      ELSE Escrowed(n, side) = Escrowed(m, side)
<1>0. /\ HasFields(n) /\ n.orders = [m.orders EXCEPT ![i] = o]
      /\ n.placed = m.placed /\ n.admin = m.admin /\ n.epoch = m.epoch
      /\ n.quote \in [Accounts -> Nat] /\ n.shares \in [Accounts -> Nat]
  BY DEF Changes
<1>1. m.orders \in [Live(m) -> OrderType]
  BY MarketFacts
<1>2. /\ Live(n) = Live(m) /\ n.orders[i] = o /\ n.orders \in [Live(n) -> OrderType]
      /\ \A j \in Live(m) : j # i => n.orders[j] = m.orders[j]
  BY <1>0, <1>1 DEF Live
<1>3. \A j \in Live(n) : n.placed[j] = n.orders[j].side
  BY <1>0, <1>2, MarketFacts
<1>4. /\ Live(n) \subseteq DOMAIN n.placed /\ n.placed \in Seq({"bid", "ask"})
      /\ Len(n.placed) <= MaxOrders /\ n.admin \in Accounts /\ n.epoch \in 0 .. MaxEpoch
  BY <1>0, <1>2, MarketFacts
<1>5. MarketOK(n)
  BY <1>0, <1>2, <1>3, <1>4 DEF MarketOK
<1>6. \A side : IF m.orders[i].side = side
                THEN Escrowed(n, side) + m.orders[i].rem = Escrowed(m, side) + n.orders[i].rem
                ELSE Escrowed(n, side) = Escrowed(m, side)
  BY <1>2, <1>5, EscrowChanged
<1> QED
  BY <1>2, <1>5, <1>6

\* fill_buy_order.
TakenFromBid(m, n, i, who, units) ==
  LET o     == m.orders[i]
      gross == units * o.price
  IN  /\ Keeps(m, n) /\ i \in Live(m) /\ Live(n) = Live(m) /\ gross \in Nat
      /\ n.admin = m.admin /\ n.epoch = m.epoch /\ n.placed = m.placed
      /\ \A j \in Live(m) : j # i => n.orders[j] = m.orders[j]
      /\ gross <= o.rem /\ n.orders[i] = [o EXCEPT !.rem = o.rem - gross]
      /\ \A b \in Accounts :
           /\ n.shares[b] = m.shares[b] - Only(b, who, units) + Only(b, o.owner, units)
           /\ n.quote[b] = m.quote[b] + Only(b, who, Net(gross)) + Only(b, m.admin, Fee(gross))

LEMMA FillBuyEffect ==
  ASSUME NEW m, MarketOK(m), NEW i, NEW who \in Accounts, NEW units \in Nat,
         CanFillBuy(m, i, who, units)
  PROVE  TakenFromBid(m, FillBuy(m, i, who, units), i, who, units)
<1> DEFINE n == FillBuy(m, i, who, units)
           o == m.orders[i]
           gross == units * o.price
           o2 == [o EXCEPT !.rem = o.rem - gross]
<1>1. /\ i \in Live(m) /\ o.side = "bid" /\ units <= m.shares[who] /\ o.rem >= gross
  BY DEF CanFillBuy
<1>2. /\ o \in OrderType /\ o.price \in Nat /\ o.rem \in Nat /\ o.owner \in Accounts
      /\ m.admin \in Accounts /\ m.quote \in [Accounts -> Nat] /\ m.shares \in [Accounts -> Nat]
      /\ m.orders \in [Live(m) -> OrderType]
  BY <1>1, MarketFacts
<1>3. gross \in Nat
  BY <1>2, ProductType
<1>4. /\ n.orders = [m.orders EXCEPT ![i].rem = @ - gross]
      /\ n.shares = Credit(Debit(m.shares, who, units), o.owner, units)
      /\ n.quote = Credit(Credit(m.quote, who, Net(gross)), m.admin, Fee(gross))
      /\ n.placed = m.placed /\ n.admin = m.admin /\ n.epoch = m.epoch
      /\ HasFields(n)
  <2>1. m = [orders |-> m.orders, placed |-> m.placed, quote |-> m.quote, shares |-> m.shares,
             admin |-> m.admin, epoch |-> m.epoch]
    BY DEF MarketOK, HasFields
  <2>2. n = [m EXCEPT !.orders[i].rem = @ - gross,
                !.shares = Credit(Debit(@, who, units), o.owner, units),
                !.quote  = Credit(Credit(@, who, Net(gross)), m.admin, Fee(gross))]
    BY DEF FillBuy, Net
  <2> HIDE DEF n, o, gross
  <2> QED
    BY <2>1, <2>2 DEF HasFields
<1> HIDE DEF n, gross
<1>5. n.orders = [m.orders EXCEPT ![i] = o2]
  BY <1>1, <1>2, <1>4
<1>6. o2 \in OrderType /\ o2.side = "bid" /\ o2.rem = o.rem - gross
  BY <1>1, <1>2, <1>3 DEF OrderType
<1> HIDE DEF o2
<1>7. Fee(gross) \in Nat /\ Fee(gross) <= gross /\ Net(gross) \in Nat
      /\ Net(gross) = gross - Fee(gross)
  BY <1>3, FeeFacts
<1>8. m.quote \in [Accounts -> Nat] /\ m.shares \in [Accounts -> Nat]
  BY <1>2
<1>9. m.admin \in Accounts /\ o.owner \in Accounts
  BY <1>2
<1>10. /\ n.shares \in [Accounts -> Nat] /\ Held(n.shares) = Held(m.shares)
       /\ \A b \in Accounts :
            n.shares[b] = m.shares[b] - Only(b, who, units) + Only(b, o.owner, units)
  <2>1. HandedOver(m.shares, who, units, o.owner, n.shares)
    BY <1>4 DEF HandedOver
  <2>2. units <= m.shares[who]
    BY <1>1
  <2> HIDE DEF o
  <2> QED
    BY <1>8, <1>9, <2>1, <2>2, HandOver
<1>11. /\ n.quote \in [Accounts -> Nat] /\ Held(n.quote) = Held(m.quote) + Net(gross) + Fee(gross)
       /\ \A b \in Accounts :
            n.quote[b] = m.quote[b] + Only(b, who, Net(gross)) + Only(b, m.admin, Fee(gross))
  <2>1. PICK net \in Nat, fee \in Nat : net = Net(gross) /\ fee = Fee(gross)
    BY <1>7
  <2>2. CreditedTwice(m.quote, who, net, m.admin, fee, n.quote)
    BY <1>4, <2>1 DEF CreditedTwice
  <2>3. n.quote \in [Accounts -> Nat] /\ Held(n.quote) = Held(m.quote) + net + fee
    BY <1>8, <1>9, <2>2, CreditTwice
  <2>4. \A b \in Accounts : n.quote[b] = m.quote[b] + Only(b, who, net) + Only(b, m.admin, fee)
    BY <1>8, <1>9, <2>2 DEF CreditedTwice, Credit, Only
  <2> QED
    BY <2>1, <2>3, <2>4
<1>12. /\ MarketOK(n) /\ Live(n) = Live(m) /\ n.orders[i] = o2
       /\ \A j \in Live(m) : j # i => n.orders[j] = m.orders[j]
       /\ \A side : IF o2.side = side
                    THEN Escrowed(n, side) + o.rem = Escrowed(m, side) + o2.rem
                    ELSE Escrowed(n, side) = Escrowed(m, side)
  <2>1. /\ i \in Live(m) /\ o2 \in OrderType /\ o2.side = m.orders[i].side
    BY <1>1, <1>6
  <2>2. n.quote \in [Accounts -> Nat] /\ n.shares \in [Accounts -> Nat]
    BY <1>10, <1>11
  <2>3. Changes(m, n, i, o2)
    BY <1>4, <1>5, <2>2 DEF Changes
  <2> QED
    BY <2>1, <2>3, OrderChanged, Z3
<1>13. Keeps(m, n)
  <2>1. Escrowed(n, "bid") + o.rem = Escrowed(m, "bid") + (o.rem - gross)
        /\ Escrowed(n, "ask") = Escrowed(m, "ask")
    BY <1>6, <1>12
  <2>3. /\ Held(m.quote) \in Nat /\ Escrowed(m, "bid") \in Nat /\ Escrowed(n, "bid") \in Nat
    BY <1>12, CoinsInType
  <2> HIDE DEF o
  <2> QED
    BY <1>2, <1>3, <1>7, <1>10, <1>11, <1>12, <2>1, <2>3 DEF Keeps, QuoteIn, SharesIn
<1> QED
  BY <1>1, <1>3, <1>4, <1>10, <1>11, <1>12, <1>13 DEF TakenFromBid, n, gross, o2

\* fill_sell_order.
TakenFromAsk(m, n, i, who, payment, units) ==
  LET o     == m.orders[i]
      gross == units * o.price
  IN  /\ Keeps(m, n) /\ i \in Live(m) /\ Live(n) = Live(m) /\ gross \in Nat
      /\ n.admin = m.admin /\ n.epoch = m.epoch /\ n.placed = m.placed
      /\ \A j \in Live(m) : j # i => n.orders[j] = m.orders[j]
      /\ units <= o.rem /\ n.orders[i] = [o EXCEPT !.rem = o.rem - units]
      /\ gross <= payment /\ gross <= m.quote[who]
      /\ \A b \in Accounts :
           /\ n.shares[b] = m.shares[b] + Only(b, who, units)
           /\ n.quote[b] = m.quote[b] - Only(b, who, gross) + Only(b, o.owner, Net(gross))
                                      + Only(b, m.admin, Fee(gross))

LEMMA FillSellEffect ==
  ASSUME NEW m, MarketOK(m), NEW i, NEW who \in Accounts, NEW units \in Nat, NEW payment \in Nat,
         CanFillSell(m, i, who, payment, units)
  PROVE  TakenFromAsk(m, FillSell(m, i, who, payment, units), i, who, payment, units)
<1> DEFINE n == FillSell(m, i, who, payment, units)
           o == m.orders[i]
           gross == units * o.price
           o2 == [o EXCEPT !.rem = o.rem - units]
<1>1. /\ i \in Live(m) /\ o.side = "ask" /\ o.rem >= units
      /\ payment <= m.quote[who] /\ payment >= gross
  BY DEF CanFillSell
<1>2. /\ o \in OrderType /\ o.price \in Nat /\ o.rem \in Nat /\ o.owner \in Accounts
      /\ m.admin \in Accounts /\ m.quote \in [Accounts -> Nat] /\ m.shares \in [Accounts -> Nat]
      /\ m.orders \in [Live(m) -> OrderType]
  BY <1>1, MarketFacts
<1>3. gross \in Nat
  BY <1>2, ProductType
<1>4. /\ n.orders = [m.orders EXCEPT ![i].rem = @ - units]
      /\ n.shares = Credit(m.shares, who, units)
      /\ n.quote = Credit(Credit(Debit(m.quote, who, gross), o.owner, Net(gross)), m.admin,
                          Fee(gross))
      /\ n.placed = m.placed /\ n.admin = m.admin /\ n.epoch = m.epoch
      /\ HasFields(n)
  <2>1. m = [orders |-> m.orders, placed |-> m.placed, quote |-> m.quote, shares |-> m.shares,
             admin |-> m.admin, epoch |-> m.epoch]
    BY DEF MarketOK, HasFields
  <2>2. n = [m EXCEPT !.orders[i].rem = @ - units,
                !.shares = Credit(@, who, units),
                !.quote  = Credit(Credit(Debit(@, who, gross), o.owner, Net(gross)), m.admin,
                                  Fee(gross))]
    BY DEF FillSell, Net
  <2> HIDE DEF n, o, gross
  <2> QED
    BY <2>1, <2>2 DEF HasFields
<1> HIDE DEF n, gross
<1>5. n.orders = [m.orders EXCEPT ![i] = o2]
  BY <1>1, <1>2, <1>4
<1>6. o2 \in OrderType /\ o2.side = "ask" /\ o2.rem = o.rem - units
  BY <1>1, <1>2 DEF OrderType
<1> HIDE DEF o2
<1>7. Fee(gross) \in Nat /\ Fee(gross) <= gross /\ Net(gross) \in Nat
      /\ Net(gross) = gross - Fee(gross)
  BY <1>3, FeeFacts
<1>8. /\ m.quote \in [Accounts -> Nat] /\ m.shares \in [Accounts -> Nat]
      /\ gross <= m.quote[who]
  <2>1. m.quote[who] \in Nat
    BY <1>2
  <2> QED
    BY <1>1, <1>2, <1>3, <2>1
<1>9. m.admin \in Accounts /\ o.owner \in Accounts
  BY <1>2
<1>10. /\ n.shares \in [Accounts -> Nat] /\ Held(n.shares) = Held(m.shares) + units
       /\ \A b \in Accounts : n.shares[b] = m.shares[b] + Only(b, who, units)
  <2>1. Credited(m.shares, who, units, n.shares)
    BY <1>4 DEF Credited
  <2> HIDE DEF o
  <2> QED
    BY <1>8, <2>1, CreditFacts
<1>11. /\ n.quote \in [Accounts -> Nat] /\ Held(n.quote) = Held(m.quote)
       /\ \A b \in Accounts :
            n.quote[b] = m.quote[b] - Only(b, who, gross) + Only(b, o.owner, Net(gross))
                                    + Only(b, m.admin, Fee(gross))
  <2>1. PICK net \in Nat, fee \in Nat, g \in Nat :
          net = Net(gross) /\ fee = Fee(gross) /\ g = gross /\ net + fee = g
    BY <1>3, <1>7
  <2>2. PICK h : Debited(m.quote, who, g, h)
    BY DEF Debited
  <2>3. h \in [Accounts -> Nat] /\ Held(h) + g = Held(m.quote)
    BY <1>8, <2>1, <2>2, DebitFacts
  <2>4. \A b \in Accounts : h[b] = m.quote[b] - Only(b, who, g)
    BY <1>8, <2>2 DEF Debited, Debit, Only
  <2>5. CreditedTwice(h, o.owner, net, m.admin, fee, n.quote)
    BY <1>4, <2>1, <2>2 DEF CreditedTwice, Debited
  <2> HIDE DEF o
  <2>6. n.quote \in [Accounts -> Nat] /\ Held(n.quote) = Held(h) + net + fee
    <3>1. h \in [Accounts -> Nat]
      BY <2>3
    <3> QED
      BY <1>9, <2>5, <3>1, CreditTwice
  <2>7. \A b \in Accounts : n.quote[b] = h[b] + Only(b, o.owner, net) + Only(b, m.admin, fee)
    BY <1>9, <2>3, <2>5 DEF CreditedTwice, Credit, Only
  <2>8. Held(m.quote) \in Nat /\ Held(h) \in Nat
    BY <1>8, <2>3, HeldType
  <2> QED
    BY <2>1, <2>3, <2>4, <2>6, <2>7, <2>8
<1>12. /\ MarketOK(n) /\ Live(n) = Live(m) /\ n.orders[i] = o2
       /\ \A j \in Live(m) : j # i => n.orders[j] = m.orders[j]
       /\ \A side : IF o2.side = side
                    THEN Escrowed(n, side) + o.rem = Escrowed(m, side) + o2.rem
                    ELSE Escrowed(n, side) = Escrowed(m, side)
  <2>1. /\ i \in Live(m) /\ o2 \in OrderType /\ o2.side = m.orders[i].side
    BY <1>1, <1>6
  <2>2. n.quote \in [Accounts -> Nat] /\ n.shares \in [Accounts -> Nat]
    BY <1>10, <1>11
  <2>3. Changes(m, n, i, o2)
    BY <1>4, <1>5, <2>2 DEF Changes
  <2> QED
    BY <2>1, <2>3, OrderChanged, Z3
<1>13. Keeps(m, n)
  <2>1. Escrowed(n, "ask") + o.rem = Escrowed(m, "ask") + (o.rem - units)
        /\ Escrowed(n, "bid") = Escrowed(m, "bid")
    BY <1>6, <1>12
  <2>3. /\ Held(m.shares) \in Nat /\ Escrowed(m, "ask") \in Nat /\ Escrowed(n, "ask") \in Nat
    BY <1>12, CoinsInType
  <2> HIDE DEF o
  <2> QED
    BY <1>2, <1>10, <1>11, <1>12, <2>1, <2>3 DEF Keeps, QuoteIn, SharesIn
<1> QED
  BY <1>1, <1>3, <1>4, <1>8, <1>10, <1>11, <1>12, <1>13 DEF TakenFromAsk, n, gross, o2

\* Re-pricing moves no coin.
LEMMA UpdatePriceEffect ==
  ASSUME NEW m, MarketOK(m), NEW i \in Live(m), NEW price \in Nat, price > 0
  PROVE  LET n == UpdatePrice(m, i, price)
         IN  /\ Keeps(m, n) /\ Live(n) = Live(m) /\ n.quote = m.quote /\ n.shares = m.shares
             /\ \A j \in Live(m) : n.orders[j].rem = m.orders[j].rem
<1> DEFINE n == UpdatePrice(m, i, price)
           o == m.orders[i]
           o2 == [o EXCEPT !.price = price]
<1>1. /\ o \in OrderType /\ o.rem \in Nat /\ m.orders \in [Live(m) -> OrderType]
      /\ m.quote \in [Accounts -> Nat] /\ m.shares \in [Accounts -> Nat]
  BY MarketFacts
<1>2. /\ n.orders = [m.orders EXCEPT ![i].price = price]
      /\ n.shares = m.shares /\ n.quote = m.quote
      /\ n.placed = m.placed /\ n.admin = m.admin /\ n.epoch = m.epoch /\ HasFields(n)
  <2>1. m = [orders |-> m.orders, placed |-> m.placed, quote |-> m.quote, shares |-> m.shares,
             admin |-> m.admin, epoch |-> m.epoch]
    BY DEF MarketOK, HasFields
  <2>2. n = [m EXCEPT !.orders[i].price = price]
    BY DEF UpdatePrice
  <2> HIDE DEF n
  <2> QED
    BY <2>1, <2>2 DEF HasFields
<1> HIDE DEF n
<1>3. n.orders = [m.orders EXCEPT ![i] = o2]
  BY <1>1, <1>2
<1>4. o2 \in OrderType /\ o2.side = o.side /\ o2.rem = o.rem
  BY <1>1 DEF OrderType
<1> HIDE DEF o2
<1>5. Changes(m, n, i, o2)
  BY <1>1, <1>2, <1>3 DEF Changes
<1>6. /\ MarketOK(n) /\ Live(n) = Live(m) /\ n.orders[i] = o2
      /\ \A j \in Live(m) : j # i => n.orders[j] = m.orders[j]
      /\ \A side : IF o2.side = side
                   THEN Escrowed(n, side) + o.rem = Escrowed(m, side) + o2.rem
                   ELSE Escrowed(n, side) = Escrowed(m, side)
  BY <1>4, <1>5, OrderChanged, Z3
<1>7. Escrowed(n, "bid") = Escrowed(m, "bid") /\ Escrowed(n, "ask") = Escrowed(m, "ask")
  <2>1. /\ Escrowed(m, "bid") \in Nat /\ Escrowed(n, "bid") \in Nat
        /\ Escrowed(m, "ask") \in Nat /\ Escrowed(n, "ask") \in Nat
    BY <1>6, CoinsInType
  <2> HIDE DEF o
  <2> QED
    BY <1>1, <1>4, <1>6, <2>1
<1>8. \A j \in Live(m) : n.orders[j].rem = m.orders[j].rem
  BY <1>4, <1>6
<1> QED
  BY <1>2, <1>6, <1>7, <1>8 DEF Keeps, QuoteIn, SharesIn, n

\* A step of who that takes nothing from the others, nor from any order.
TakesNothing(m, n, who) ==
  /\ \A b \in Accounts : b # who => n.quote[b] >= m.quote[b] /\ n.shares[b] >= m.shares[b]
  /\ \A j \in Live(m) : j \in Live(n) => n.orders[j].rem >= m.orders[j].rem

LEMMA UpdatePriceTakesNothing ==
  ASSUME NEW m, MarketOK(m), NEW i \in Live(m), NEW price \in Nat, price > 0, NEW who
  PROVE  TakesNothing(m, UpdatePrice(m, i, price), who)
<1> DEFINE n == UpdatePrice(m, i, price)
<1>1. /\ Live(n) = Live(m) /\ n.quote = m.quote /\ n.shares = m.shares
      /\ \A j \in Live(m) : n.orders[j].rem = m.orders[j].rem
  BY UpdatePriceEffect
<1> HIDE DEF n
<1>2. TakesNothing(m, n, who)
  BY <1>1, MarketFacts DEF TakesNothing
<1> QED
  BY <1>2 DEF n

\* top_up_buy_order and top_up_sell_order.
LEMMA TopUpEffect ==
  ASSUME NEW m, MarketOK(m), NEW i, NEW who \in Accounts, NEW x \in Nat, CanTopUp(m, i, who, x)
  PROVE  Keeps(m, TopUp(m, i, who, x)) /\ TakesNothing(m, TopUp(m, i, who, x), who)
<1> DEFINE n == TopUp(m, i, who, x)
           o == m.orders[i]
           o2 == [o EXCEPT !.rem = o.rem + x]
<1>1. i \in Live(m) /\ x <= (IF o.side = "bid" THEN m.quote[who] ELSE m.shares[who])
  BY DEF CanTopUp
<1>2. /\ o \in OrderType /\ o.rem \in Nat /\ o.side \in {"bid", "ask"}
      /\ m.orders \in [Live(m) -> OrderType]
      /\ m.quote \in [Accounts -> Nat] /\ m.shares \in [Accounts -> Nat]
  BY <1>1, MarketFacts
<1>3. /\ n.orders = [m.orders EXCEPT ![i].rem = @ + x]
      /\ n.shares = IF o.side = "bid" THEN m.shares ELSE Debit(m.shares, who, x)
      /\ n.quote = IF o.side = "bid" THEN Debit(m.quote, who, x) ELSE m.quote
      /\ n.placed = m.placed /\ n.admin = m.admin /\ n.epoch = m.epoch /\ HasFields(n)
  <2>1. m = [orders |-> m.orders, placed |-> m.placed, quote |-> m.quote, shares |-> m.shares,
             admin |-> m.admin, epoch |-> m.epoch]
    BY DEF MarketOK, HasFields
  <2>2. n = IF o.side = "bid"
            THEN [m EXCEPT !.orders[i].rem = @ + x, !.quote = Debit(@, who, x)]
            ELSE [m EXCEPT !.orders[i].rem = @ + x, !.shares = Debit(@, who, x)]
    BY DEF TopUp
  <2> HIDE DEF n, o
  <2> QED
    BY <2>1, <2>2 DEF HasFields
<1> HIDE DEF n
<1>4. n.orders = [m.orders EXCEPT ![i] = o2]
  BY <1>1, <1>2, <1>3
<1>5. o2 \in OrderType /\ o2.side = o.side /\ o2.rem = o.rem + x
  BY <1>2 DEF OrderType
<1> HIDE DEF o2
<1>6. CASE o.side = "bid"
  <2>1. Debited(m.quote, who, x, n.quote) /\ n.shares = m.shares /\ x <= m.quote[who]
    BY <1>1, <1>3, <1>6 DEF Debited
  <2>2. m.quote \in [Accounts -> Nat] /\ m.shares \in [Accounts -> Nat]
    BY <1>2
  <2>3. n.quote \in [Accounts -> Nat] /\ Held(n.quote) + x = Held(m.quote)
    BY <2>1, <2>2, DebitFacts
  <2>4. \A b \in Accounts : b # who => n.quote[b] = m.quote[b]
    BY <2>1, <2>2 DEF Debited, Debit
  <2>5. Changes(m, n, i, o2)
    BY <1>3, <1>4, <2>1, <2>2, <2>3 DEF Changes
  <2>6. /\ MarketOK(n) /\ Live(n) = Live(m) /\ n.orders[i] = o2
        /\ \A j \in Live(m) : j # i => n.orders[j] = m.orders[j]
        /\ \A side : IF o2.side = side
                     THEN Escrowed(n, side) + o.rem = Escrowed(m, side) + o2.rem
                     ELSE Escrowed(n, side) = Escrowed(m, side)
    <3>1. i \in Live(m) /\ o2 \in OrderType /\ o2.side = m.orders[i].side
      BY <1>1, <1>5
    <3> QED
      BY <2>5, <3>1, OrderChanged, Z3
  <2>7. /\ Escrowed(n, "bid") + o.rem = Escrowed(m, "bid") + (o.rem + x)
        /\ Escrowed(n, "ask") = Escrowed(m, "ask")
    BY <1>5, <1>6, <2>6
  <2>8. /\ Held(m.quote) \in Nat /\ Held(n.quote) \in Nat
        /\ Escrowed(m, "bid") \in Nat /\ Escrowed(n, "bid") \in Nat
    BY <2>6, CoinsInType
  <2>9. TakesNothing(m, n, who)
    <3>1. \A b \in Accounts : b # who => n.quote[b] >= m.quote[b] /\ n.shares[b] >= m.shares[b]
      BY <2>1, <2>2, <2>4
    <3>2. \A j \in Live(m) : m.orders[j].rem \in Nat
      BY MarketFacts
    <3>3. n.orders[i].rem >= m.orders[i].rem
      BY <1>2, <1>5, <2>6
    <3>4. \A j \in Live(m) : n.orders[j].rem >= m.orders[j].rem
      BY <2>6, <3>2, <3>3
    <3> QED
      BY <3>1, <3>4 DEF TakesNothing
  <2> HIDE DEF o
  <2> QED
    BY <1>2, <2>1, <2>3, <2>6, <2>7, <2>8, <2>9 DEF Keeps, QuoteIn, SharesIn, n
<1>7. CASE o.side = "ask"
  <2>1. Debited(m.shares, who, x, n.shares) /\ n.quote = m.quote /\ x <= m.shares[who]
    BY <1>1, <1>3, <1>7 DEF Debited
  <2>2. m.quote \in [Accounts -> Nat] /\ m.shares \in [Accounts -> Nat]
    BY <1>2
  <2>3. n.shares \in [Accounts -> Nat] /\ Held(n.shares) + x = Held(m.shares)
    BY <2>1, <2>2, DebitFacts
  <2>4. \A b \in Accounts : b # who => n.shares[b] = m.shares[b]
    BY <2>1, <2>2 DEF Debited, Debit
  <2>5. Changes(m, n, i, o2)
    BY <1>3, <1>4, <2>1, <2>2, <2>3 DEF Changes
  <2>6. /\ MarketOK(n) /\ Live(n) = Live(m) /\ n.orders[i] = o2
        /\ \A j \in Live(m) : j # i => n.orders[j] = m.orders[j]
        /\ \A side : IF o2.side = side
                     THEN Escrowed(n, side) + o.rem = Escrowed(m, side) + o2.rem
                     ELSE Escrowed(n, side) = Escrowed(m, side)
    <3>1. i \in Live(m) /\ o2 \in OrderType /\ o2.side = m.orders[i].side
      BY <1>1, <1>5
    <3> QED
      BY <2>5, <3>1, OrderChanged, Z3
  <2>7. /\ Escrowed(n, "ask") + o.rem = Escrowed(m, "ask") + (o.rem + x)
        /\ Escrowed(n, "bid") = Escrowed(m, "bid")
    BY <1>5, <1>7, <2>6
  <2>8. /\ Held(m.shares) \in Nat /\ Held(n.shares) \in Nat
        /\ Escrowed(m, "ask") \in Nat /\ Escrowed(n, "ask") \in Nat
    BY <2>6, CoinsInType
  <2>9. TakesNothing(m, n, who)
    <3>1. \A b \in Accounts : b # who => n.quote[b] >= m.quote[b] /\ n.shares[b] >= m.shares[b]
      BY <2>1, <2>2, <2>4
    <3>2. \A j \in Live(m) : m.orders[j].rem \in Nat
      BY MarketFacts
    <3>3. n.orders[i].rem >= m.orders[i].rem
      BY <1>2, <1>5, <2>6
    <3>4. \A j \in Live(m) : n.orders[j].rem >= m.orders[j].rem
      BY <2>6, <3>2, <3>3
    <3> QED
      BY <3>1, <3>4 DEF TakesNothing
  <2> HIDE DEF o
  <2> QED
    BY <1>2, <2>1, <2>3, <2>6, <2>7, <2>8, <2>9 DEF Keeps, QuoteIn, SharesIn, n
<1> QED
  BY <1>2, <1>6, <1>7

\* A new order, after the holdings have become q and s.
Adds(m, q, s, o, n) == n = Opened([m EXCEPT !.quote = q, !.shares = s], o)

LEMMA OpenedEffect ==
  ASSUME NEW m, MarketOK(m), Len(m.placed) < MaxOrders, NEW o \in OrderType,
         NEW q \in [Accounts -> Nat], NEW s \in [Accounts -> Nat],
         NEW n, Adds(m, q, s, o, n)
  PROVE  /\ MarketOK(n) /\ n.quote = q /\ n.shares = s
         /\ \A j \in Live(m) : j \in Live(n) /\ n.orders[j] = m.orders[j]
         /\ \A side : Escrowed(n, side) = Escrowed(m, side) + Only(o.side, side, o.rem)
<1> DEFINE k == [m EXCEPT !.quote = q, !.shares = s]
           id == Len(m.placed) + 1
<1>1. /\ k.orders = m.orders /\ k.placed = m.placed /\ k.quote = q /\ k.shares = s
      /\ k.admin = m.admin /\ k.epoch = m.epoch /\ HasFields(k) /\ Live(k) = Live(m)
  <2>1. m = [orders |-> m.orders, placed |-> m.placed, quote |-> m.quote, shares |-> m.shares,
             admin |-> m.admin, epoch |-> m.epoch]
    BY DEF MarketOK, HasFields
  <2>2. k = [m EXCEPT !.quote = q, !.shares = s]
    OBVIOUS
  <2> HIDE DEF k
  <2> QED
    BY <2>1, <2>2 DEF HasFields, Live
<1> HIDE DEF k
<1>2. /\ n.placed = Append(m.placed, o.side)
      /\ n.orders = [i \in Live(m) \cup {id} |-> IF i = id THEN o ELSE m.orders[i]]
      /\ n.quote = q /\ n.shares = s /\ n.admin = m.admin /\ n.epoch = m.epoch /\ HasFields(n)
  <2>1. n = [k EXCEPT !.placed = Append(@, o.side),
                      !.orders = [i \in Live(m) \cup {id} |-> IF i = id THEN o ELSE m.orders[i]]]
    BY <1>1 DEF Adds, Opened, k
  <2>2. k = [orders |-> k.orders, placed |-> k.placed, quote |-> k.quote, shares |-> k.shares,
             admin |-> k.admin, epoch |-> k.epoch]
    BY <1>1 DEF HasFields
  <2> QED
    BY <1>1, <2>1, <2>2 DEF HasFields
<1>3. /\ o.side \in {"bid", "ask"} /\ m.placed \in Seq({"bid", "ask"}) /\ Len(m.placed) \in Nat
      /\ DOMAIN m.placed = 1 .. Len(m.placed) /\ Live(m) \subseteq 1 .. Len(m.placed)
  BY MarketFacts DEF OrderType
<1>4. /\ n.placed \in Seq({"bid", "ask"}) /\ Len(n.placed) = id /\ n.placed[id] = o.side
      /\ DOMAIN n.placed = 1 .. id
      /\ \A i \in 1 .. Len(m.placed) : n.placed[i] = m.placed[i]
  <2>1. PICK sd \in {"bid", "ask"} : sd = o.side
    BY <1>3
  <2>2. n.placed = Append(m.placed, sd)
    BY <1>2, <2>1
  <2>3. /\ n.placed \in Seq({"bid", "ask"}) /\ Len(n.placed) = Len(m.placed) + 1
        /\ \A i \in 1 .. Len(m.placed) : n.placed[i] = m.placed[i]
        /\ n.placed[Len(m.placed) + 1] = sd
    BY <1>3, <2>2, AppendProperties
  <2> QED
    BY <2>1, <2>3, LenProperties
<1>5. id \notin Live(m)
  BY <1>3
<1>6. /\ Live(n) = Live(m) \cup {id} /\ n.orders[id] = o
      /\ \A j \in Live(m) : n.orders[j] = m.orders[j]
  BY <1>2, <1>5 DEF Live
<1>7. n.orders \in [Live(n) -> OrderType]
  <2>1. \A j \in Live(m) : m.orders[j] \in OrderType
    BY MarketFacts
  <2>2. Live(n) = DOMAIN n.orders
    BY DEF Live
  <2> HIDE DEF id
  <2> QED
    BY <1>2, <1>6, <2>1, <2>2
<1>8. Live(n) \subseteq DOMAIN n.placed
  BY <1>3, <1>4, <1>6
<1>9. \A j \in Live(n) : n.placed[j] = n.orders[j].side
  <2>1. \A j \in Live(m) : j \in 1 .. Len(m.placed) /\ m.placed[j] = m.orders[j].side
    BY MarketFacts
  <2> HIDE DEF id
  <2> QED
    BY <1>4, <1>6, <2>1
<1>10. Len(n.placed) <= MaxOrders
  BY <1>3, <1>4, ShareMarketAssumption
<1>11. MarketOK(n)
  BY <1>2, <1>4, <1>7, <1>8, <1>9, <1>10, MarketFacts DEF MarketOK
<1>12. ASSUME NEW side
       PROVE  Escrowed(n, side) = Escrowed(m, side) + Only(o.side, side, o.rem)
  BY <1>5, <1>6, <1>11, EscrowAdded DEF Only
<1> QED
  BY <1>2, <1>6, <1>11, <1>12

\* place_buy_order.
LEMMA PlaceBuyEffect ==
  ASSUME NEW m, MarketOK(m), NEW who \in Accounts, NEW price \in Nat, NEW budget \in Nat,
         NEW exp \in Nat, CanPlaceBuy(m, who, price, budget)
  PROVE  /\ Keeps(m, PlaceBuy(m, who, price, budget, exp))
         /\ TakesNothing(m, PlaceBuy(m, who, price, budget, exp), who)
<1> DEFINE n == PlaceBuy(m, who, price, budget, exp)
           o == [side |-> "bid", owner |-> who, price |-> price, rem |-> budget, exp |-> exp]
<1>1. Len(m.placed) < MaxOrders /\ price > 0 /\ budget <= m.quote[who]
  BY DEF CanPlaceBuy
<1>2. m.quote \in [Accounts -> Nat] /\ m.shares \in [Accounts -> Nat]
  BY MarketFacts
<1>3. PICK q : Debited(m.quote, who, budget, q)
  BY DEF Debited
<1>4. q \in [Accounts -> Nat] /\ Held(q) + budget = Held(m.quote)
  BY <1>1, <1>2, <1>3, DebitFacts
<1>5. \A b \in Accounts : b # who => q[b] = m.quote[b]
  BY <1>2, <1>3 DEF Debited, Debit
<1>6. o \in OrderType /\ o.side = "bid" /\ o.rem = budget
  BY <1>1 DEF OrderType
<1>7. Adds(m, q, m.shares, o, n)
  <2>1. m = [orders |-> m.orders, placed |-> m.placed, quote |-> m.quote, shares |-> m.shares,
             admin |-> m.admin, epoch |-> m.epoch]
    BY DEF MarketOK, HasFields
  <2>2. [m EXCEPT !.quote = Debit(@, who, budget)] = [m EXCEPT !.quote = q, !.shares = m.shares]
    BY <1>3, <2>1 DEF Debited
  <2> QED
    BY <2>2 DEF PlaceBuy, Adds
<1> HIDE DEF n, o
<1>8. /\ MarketOK(n) /\ n.quote = q /\ n.shares = m.shares
      /\ \A j \in Live(m) : j \in Live(n) /\ n.orders[j] = m.orders[j]
      /\ \A side : Escrowed(n, side) = Escrowed(m, side) + Only(o.side, side, o.rem)
  <2>1. Len(m.placed) < MaxOrders /\ o \in OrderType
    BY <1>1, <1>6
  <2>2. q \in [Accounts -> Nat] /\ m.shares \in [Accounts -> Nat]
    BY <1>2, <1>4
  <2> QED
    BY <1>7, <2>1, <2>2, OpenedEffect, Z3
<1>9. Escrowed(n, "bid") = Escrowed(m, "bid") + budget /\ Escrowed(n, "ask") = Escrowed(m, "ask") + 0
  BY <1>6, <1>8 DEF Only
<1>10. /\ Held(m.quote) \in Nat /\ Held(q) \in Nat /\ Escrowed(m, "bid") \in Nat
       /\ Escrowed(m, "ask") \in Nat
  BY <1>4, HeldType, CoinsInType
<1>11. TakesNothing(m, n, who)
  BY <1>2, <1>5, <1>8, MarketFacts DEF TakesNothing
<1>12. Keeps(m, n)
  BY <1>4, <1>8, <1>9, <1>10 DEF Keeps, QuoteIn, SharesIn
<1> QED
  BY <1>11, <1>12 DEF n

\* place_sell_order.
LEMMA PlaceSellEffect ==
  ASSUME NEW m, MarketOK(m), NEW who \in Accounts, NEW price \in Nat, NEW units \in Nat,
         NEW exp \in Nat, CanPlaceSell(m, who, price, units)
  PROVE  /\ Keeps(m, PlaceSell(m, who, price, units, exp))
         /\ TakesNothing(m, PlaceSell(m, who, price, units, exp), who)
<1> DEFINE n == PlaceSell(m, who, price, units, exp)
           o == [side |-> "ask", owner |-> who, price |-> price, rem |-> units, exp |-> exp]
<1>1. Len(m.placed) < MaxOrders /\ price > 0 /\ units <= m.shares[who]
  BY DEF CanPlaceSell
<1>2. m.quote \in [Accounts -> Nat] /\ m.shares \in [Accounts -> Nat]
  BY MarketFacts
<1>3. PICK s : Debited(m.shares, who, units, s)
  BY DEF Debited
<1>4. s \in [Accounts -> Nat] /\ Held(s) + units = Held(m.shares)
  BY <1>1, <1>2, <1>3, DebitFacts
<1>5. \A b \in Accounts : b # who => s[b] = m.shares[b]
  BY <1>2, <1>3 DEF Debited, Debit
<1>6. o \in OrderType /\ o.side = "ask" /\ o.rem = units
  BY <1>1 DEF OrderType
<1>7. Adds(m, m.quote, s, o, n)
  <2>1. m = [orders |-> m.orders, placed |-> m.placed, quote |-> m.quote, shares |-> m.shares,
             admin |-> m.admin, epoch |-> m.epoch]
    BY DEF MarketOK, HasFields
  <2>2. [m EXCEPT !.shares = Debit(@, who, units)] = [m EXCEPT !.quote = m.quote, !.shares = s]
    BY <1>3, <2>1 DEF Debited
  <2> QED
    BY <2>2 DEF PlaceSell, Adds
<1> HIDE DEF n, o
<1>8. /\ MarketOK(n) /\ n.quote = m.quote /\ n.shares = s
      /\ \A j \in Live(m) : j \in Live(n) /\ n.orders[j] = m.orders[j]
      /\ \A side : Escrowed(n, side) = Escrowed(m, side) + Only(o.side, side, o.rem)
  <2>1. Len(m.placed) < MaxOrders /\ o \in OrderType
    BY <1>1, <1>6
  <2>2. m.quote \in [Accounts -> Nat] /\ s \in [Accounts -> Nat]
    BY <1>2, <1>4
  <2> QED
    BY <1>7, <2>1, <2>2, OpenedEffect, Z3
<1>9. Escrowed(n, "ask") = Escrowed(m, "ask") + units /\ Escrowed(n, "bid") = Escrowed(m, "bid") + 0
  BY <1>6, <1>8 DEF Only
<1>10. /\ Held(m.shares) \in Nat /\ Held(s) \in Nat /\ Escrowed(m, "bid") \in Nat
       /\ Escrowed(m, "ask") \in Nat
  BY <1>4, HeldType, CoinsInType
<1>11. TakesNothing(m, n, who)
  BY <1>2, <1>5, <1>8, MarketFacts DEF TakesNothing
<1>12. Keeps(m, n)
  BY <1>4, <1>8, <1>9, <1>10 DEF Keeps, QuoteIn, SharesIn
<1> QED
  BY <1>11, <1>12 DEF n

\* cancel_buy_order, cancel_sell_order and their cleanups.
LEMMA ClosedEffect ==
  ASSUME NEW m, MarketOK(m), NEW i \in Live(m), NEW who
  PROVE  Keeps(m, Closed(m, i)) /\ TakesNothing(m, Closed(m, i), who)
<1> DEFINE n == Closed(m, i)
           o == m.orders[i]
<1>1. /\ o.rem \in Nat /\ o.side \in {"bid", "ask"} /\ o.owner \in Accounts
      /\ m.orders \in [Live(m) -> OrderType]
  BY MarketFacts
<1>2. m.quote \in [Accounts -> Nat] /\ m.shares \in [Accounts -> Nat]
  BY MarketFacts
<1>3. /\ n.orders = [j \in Live(m) \ {i} |-> m.orders[j]]
      /\ n.quote = IF o.side = "bid" THEN Credit(m.quote, o.owner, o.rem) ELSE m.quote
      /\ n.shares = IF o.side = "bid" THEN m.shares ELSE Credit(m.shares, o.owner, o.rem)
      /\ n.placed = m.placed /\ n.admin = m.admin /\ n.epoch = m.epoch /\ HasFields(n)
  <2>1. m = [orders |-> m.orders, placed |-> m.placed, quote |-> m.quote, shares |-> m.shares,
             admin |-> m.admin, epoch |-> m.epoch]
    BY DEF MarketOK, HasFields
  <2> DEFINE rest == [m EXCEPT !.orders = [j \in Live(m) \ {i} |-> m.orders[j]]]
  <2>2. rest = [m EXCEPT !.orders = Restrict(@, Live(m) \ {i})]
    BY DEF Restrict
  <2>3. n = IF o.side = "bid" THEN [rest EXCEPT !.quote = Credit(@, o.owner, o.rem)]
                              ELSE [rest EXCEPT !.shares = Credit(@, o.owner, o.rem)]
    BY <2>2 DEF Closed
  <2>4. /\ rest.orders = [j \in Live(m) \ {i} |-> m.orders[j]]
        /\ rest = [orders |-> rest.orders, placed |-> m.placed, quote |-> m.quote,
                   shares |-> m.shares, admin |-> m.admin, epoch |-> m.epoch]
    BY <2>1
  <2> HIDE DEF n, o, rest
  <2> QED
    BY <2>3, <2>4 DEF HasFields
<1> HIDE DEF n
<1>4. /\ Live(n) = Live(m) \ {i} /\ n.orders \in [Live(n) -> OrderType]
      /\ \A j \in Live(n) : n.orders[j] = m.orders[j]
  BY <1>1, <1>3 DEF Live
<1>5. \A j \in Live(n) : n.placed[j] = n.orders[j].side
  BY <1>3, <1>4, MarketFacts
<1>6. /\ Live(n) \subseteq DOMAIN n.placed /\ n.placed \in Seq({"bid", "ask"})
      /\ Len(n.placed) <= MaxOrders /\ n.admin \in Accounts /\ n.epoch \in 0 .. MaxEpoch
  BY <1>3, <1>4, MarketFacts
<1>7. ASSUME n.quote \in [Accounts -> Nat], n.shares \in [Accounts -> Nat]
      PROVE  /\ MarketOK(n)
             /\ \A side : Escrowed(m, side) = Escrowed(n, side) + Only(o.side, side, o.rem)
  <2>1. MarketOK(n)
    BY <1>3, <1>4, <1>5, <1>6, <1>7 DEF MarketOK
  <2>2. i \notin Live(n) /\ Live(m) = Live(n) \cup {i}
    BY <1>4
  <2>3. ASSUME NEW side
        PROVE  Escrowed(m, side) = Escrowed(n, side) + Only(o.side, side, o.rem)
    <3>1. \A j \in Live(n) : m.orders[j] = n.orders[j]
      BY <1>4
    <3> HIDE DEF o
    <3>2. MarketOK(m)
      OBVIOUS
    <3>3. Escrowed(m, side)
            = Escrowed(n, side) + (IF m.orders[i].side = side THEN m.orders[i].rem ELSE 0)
      BY ONLY <2>1, <2>2, <3>1, <3>2, EscrowAdded, Z3
    <3> QED
      BY <3>3 DEF Only, o
  <2> QED
    BY <2>1, <2>3
<1>8. \A j \in Live(m) : j \in Live(n) => n.orders[j].rem >= m.orders[j].rem
  BY <1>4, MarketFacts
<1>9. CASE o.side = "bid"
  <2>1. PICK x \in Nat, w \in Accounts : x = o.rem /\ w = o.owner
    BY <1>1
  <2>2. Credited(m.quote, w, x, n.quote) /\ n.shares = m.shares
    BY <1>3, <1>9, <2>1 DEF Credited
  <2>3. n.quote \in [Accounts -> Nat] /\ Held(n.quote) = Held(m.quote) + x
    BY <1>2, <2>2, CreditFacts
  <2>4. \A b \in Accounts : n.quote[b] >= m.quote[b] /\ n.shares[b] >= m.shares[b]
    BY <1>2, <2>2 DEF Credited, Credit
  <2>5. MarketOK(n) /\ Escrowed(m, "bid") = Escrowed(n, "bid") + x
        /\ Escrowed(m, "ask") = Escrowed(n, "ask") + 0
    BY <1>2, <1>7, <1>9, <2>1, <2>2, <2>3 DEF Only
  <2>6. /\ Held(m.quote) \in Nat /\ Escrowed(n, "bid") \in Nat /\ Escrowed(n, "ask") \in Nat
    BY <2>5, CoinsInType
  <2>7. TakesNothing(m, n, who)
    BY <1>8, <2>4 DEF TakesNothing
  <2>8. Keeps(m, n)
    BY <2>2, <2>3, <2>5, <2>6 DEF Keeps, QuoteIn, SharesIn
  <2> QED
    BY <2>7, <2>8 DEF n
<1>10. CASE o.side = "ask"
  <2>1. PICK x \in Nat, w \in Accounts : x = o.rem /\ w = o.owner
    BY <1>1
  <2>2. Credited(m.shares, w, x, n.shares) /\ n.quote = m.quote
    BY <1>3, <1>10, <2>1 DEF Credited
  <2>3. n.shares \in [Accounts -> Nat] /\ Held(n.shares) = Held(m.shares) + x
    BY <1>2, <2>2, CreditFacts
  <2>4. \A b \in Accounts : n.quote[b] >= m.quote[b] /\ n.shares[b] >= m.shares[b]
    BY <1>2, <2>2 DEF Credited, Credit
  <2>5. MarketOK(n) /\ Escrowed(m, "ask") = Escrowed(n, "ask") + x
        /\ Escrowed(m, "bid") = Escrowed(n, "bid") + 0
    BY <1>2, <1>7, <1>10, <2>1, <2>2, <2>3 DEF Only
  <2>6. /\ Held(m.shares) \in Nat /\ Escrowed(n, "bid") \in Nat /\ Escrowed(n, "ask") \in Nat
    BY <2>5, CoinsInType
  <2>7. TakesNothing(m, n, who)
    BY <1>8, <2>4 DEF TakesNothing
  <2>8. Keeps(m, n)
    BY <2>2, <2>3, <2>5, <2>6 DEF Keeps, QuoteIn, SharesIn
  <2> QED
    BY <2>7, <2>8 DEF n
<1> QED
  BY <1>1, <1>9, <1>10

\* The epoch moves no coin.
LEMMA EpochEffect ==
  ASSUME NEW m, MarketOK(m), m.epoch < MaxEpoch, NEW who
  PROVE  Keeps(m, [m EXCEPT !.epoch = @ + 1]) /\ TakesNothing(m, [m EXCEPT !.epoch = @ + 1], who)
<1> DEFINE n == [m EXCEPT !.epoch = @ + 1]
<1>1. /\ n.orders = m.orders /\ n.placed = m.placed /\ n.quote = m.quote /\ n.shares = m.shares
      /\ n.admin = m.admin /\ n.epoch = m.epoch + 1 /\ HasFields(n)
  <2>1. m = [orders |-> m.orders, placed |-> m.placed, quote |-> m.quote, shares |-> m.shares,
             admin |-> m.admin, epoch |-> m.epoch]
    BY DEF MarketOK, HasFields
  <2>2. n = [m EXCEPT !.epoch = m.epoch + 1]
    OBVIOUS
  <2> HIDE DEF n
  <2> QED
    BY <2>1, <2>2 DEF HasFields
<1> HIDE DEF n
<1>2. Live(n) = Live(m) /\ \A side : OrdersOf(n, side) = OrdersOf(m, side)
  BY <1>1 DEF Live, OrdersOf
<1>3. n.epoch \in 0 .. MaxEpoch
  BY <1>1, MarketFacts, ShareMarketAssumption
<1>4. MarketOK(n)
  BY <1>1, <1>2, <1>3, MarketFacts DEF MarketOK
<1>5. \A side : Escrowed(n, side) = Escrowed(m, side)
  BY <1>1, <1>2 DEF Escrowed
<1>6. TakesNothing(m, n, who)
  BY <1>1, <1>2, MarketFacts DEF TakesNothing
<1>7. Keeps(m, n)
  BY <1>1, <1>4, <1>5 DEF Keeps, QuoteIn, SharesIn
<1> QED
  BY <1>6, <1>7 DEF n

-----------------------------------------------------------------------------
(* Fills, one after the other, of the orders of a market.                  *)

\* A sum grows by at most what one of its terms grows by.
LEMMA SumGrows ==
  ASSUME NEW S, IsFiniteSet(S), NEW f, NEW g, NEW i, NEW c \in Nat,
         \A z \in S : f[z] \in Nat /\ g[z] \in Nat, \A z \in S : z # i => g[z] = f[z],
         i \in S => g[i] <= f[i] + c
  PROVE  SumOver(S, g) <= SumOver(S, f) + (IF i \in S THEN c ELSE 0)
<1>1. SumOver(S, f) \in Nat
  BY UnitsFinite
<1>2. CASE i \in S
  <2>1. \A z \in S \ {i} : g[z] = f[z]
    OBVIOUS
  <2>2. (\A z \in S : f[z] \in Nat) /\ g[i] \in Nat /\ f[i] \in Nat /\ g[i] <= f[i] + c
    BY <1>2
  <2>3. SumOver(S, g) \in Nat /\ SumOver(S, g) + f[i] = SumOver(S, f) + g[i]
    BY <1>2, <2>1, <2>2, SumUpdate
  <2> QED
    BY <1>1, <1>2, <2>2, <2>3
<1>3. CASE i \notin S
  <2>1. \A z \in S : f[z] = g[z]
    BY <1>3
  <2>2. SumOver(S, f) = SumOver(S, g)
    BY <2>1, SumExt
  <2> QED
    BY <1>1, <1>3, <2>2
<1> QED
  BY <1>2, <1>3

LEMMA SumZero ==
  ASSUME NEW S, NEW f, \A z \in S : f[z] = 0
  PROVE  SumOver(S, f) = 0
<1>1. \A z \in S : Block(z, f) = {}
  BY DEF Block
<1>2. Units(S, f) = {}
  BY <1>1 DEF Units
<1> QED
  BY <1>2, FS_EmptySet DEF SumOver

\* The fee of two fills together is at least the fees of both, so the owner gets at most
\* as much from one large fill as from two small ones.
LEMMA NetSplit ==
  ASSUME NEW x \in Nat, NEW y \in Nat
  PROVE  Net(x + y) <= Net(x) + Net(y)
<1>1. FeeBps \in Nat /\ BpsDenom \in Nat /\ BpsDenom > 0
  BY ShareMarketAssumption
<1>2. x * FeeBps \in Nat /\ y * FeeBps \in Nat
  BY <1>1, ProductType
<1>3. (x + y) * FeeBps = x * FeeBps + y * FeeBps
  BY <1>1
<1>4. PICK a \in Nat, b \in Nat : a = x * FeeBps /\ b = y * FeeBps
  BY <1>2
<1>5. a \div BpsDenom + b \div BpsDenom <= (a + b) \div BpsDenom
  BY <1>1, <1>4, DivSplit
<1>6. Fee(x) + Fee(y) <= Fee(x + y)
  BY <1>3, <1>4, <1>5 DEF Fee
<1>7. /\ Fee(x) \in Nat /\ Fee(y) \in Nat /\ Fee(x + y) \in Nat /\ Net(x + y) = x + y - Fee(x + y)
      /\ Net(x) = x - Fee(x) /\ Net(y) = y - Fee(y)
  BY FeeFacts
<1> QED
  BY <1>6, <1>7

LEMMA NetZero == Net(0) = 0
<1>1. FeeBps \in Nat /\ BpsDenom \in Nat /\ BpsDenom > 0
  BY ShareMarketAssumption
<1>2. 0 * FeeBps = 0 /\ 0 \div BpsDenom = 0
  BY <1>1
<1> QED
  BY <1>2 DEF Net, Fee

\* What units U taken from the orders of m are worth to the owner b.
DueQuote(m, U, b) ==
  SumOver(OrdersBy(m, b, "ask"),
          [i \in OrdersBy(m, b, "ask") |-> Net(U[i] * m.orders[i].price)])
DueShares(m, U, b) ==
  SumOver(OrdersBy(m, b, "bid"), [i \in OrdersBy(m, b, "bid") |-> U[i]])

LEMMA OrdersByFacts ==
  ASSUME NEW m, MarketOK(m), NEW U \in [Live(m) -> Nat], NEW b, NEW side
  PROVE  /\ IsFiniteSet(OrdersBy(m, b, side)) /\ OrdersBy(m, b, side) \subseteq Live(m)
         /\ \A i \in OrdersBy(m, b, side) :
              /\ U[i] \in Nat /\ U[i] * m.orders[i].price \in Nat
              /\ Net(U[i] * m.orders[i].price) \in Nat
<1>1. OrdersBy(m, b, side) \subseteq OrdersOf(m, side) /\ OrdersOf(m, side) \subseteq Live(m)
  BY DEF OrdersBy, OrdersOf
<1>2. IsFiniteSet(OrdersBy(m, b, side))
  BY <1>1, OrdersOfFacts, FS_Subset
<1>3. ASSUME NEW i \in Live(m)
      PROVE  U[i] * m.orders[i].price \in Nat /\ Net(U[i] * m.orders[i].price) \in Nat
  <2>1. m.orders[i].price \in Nat /\ U[i] \in Nat
    BY MarketFacts
  <2>2. U[i] * m.orders[i].price \in Nat
    BY <2>1, ProductType
  <2> QED
    BY <2>2, FeeFacts
<1> QED
  BY <1>1, <1>2, <1>3

\* Nothing is due for nothing, and another u units of order i are worth at most their net
\* price to its owner, and nothing to anyone else.
LEMMA DueNothing ==
  ASSUME NEW m, MarketOK(m), NEW U \in [Live(m) -> Nat], \A i \in Live(m) : U[i] = 0, NEW b
  PROVE  DueQuote(m, U, b) = 0 /\ DueShares(m, U, b) = 0
<1>1. \A i \in OrdersBy(m, b, "ask") : i \in Live(m) /\ m.orders[i].price \in Nat
  BY MarketFacts DEF OrdersBy, OrdersOf
<1>2. \A i \in OrdersBy(m, b, "bid") : U[i] = 0
  BY DEF OrdersBy, OrdersOf
<1>3. ASSUME NEW i \in OrdersBy(m, b, "ask") PROVE Net(U[i] * m.orders[i].price) = 0
  <2>1. U[i] = 0 /\ m.orders[i].price \in Nat
    BY <1>1
  <2>2. U[i] * m.orders[i].price = 0
    BY <2>1
  <2> QED
    BY <2>2, NetZero
<1> QED
  BY <1>2, <1>3, SumZero DEF DueQuote, DueShares

LEMMA DueMore ==
  ASSUME NEW m, MarketOK(m), NEW U \in [Live(m) -> Nat], NEW i \in Live(m), NEW u \in Nat,
         NEW V \in [Live(m) -> Nat], V[i] = U[i] + u, \A j \in Live(m) : j # i => V[j] = U[j],
         NEW b
  PROVE  /\ DueQuote(m, U, b) \in Nat /\ DueShares(m, U, b) \in Nat
         /\ DueQuote(m, V, b) \in Nat /\ DueShares(m, V, b) \in Nat
         /\ DueQuote(m, V, b) <= DueQuote(m, U, b)
              + (IF m.orders[i].side = "ask" /\ m.orders[i].owner = b
                 THEN Net(u * m.orders[i].price) ELSE 0)
         /\ DueShares(m, V, b) <= DueShares(m, U, b)
              + (IF m.orders[i].side = "bid" /\ m.orders[i].owner = b THEN u ELSE 0)
<1> DEFINE S == OrdersBy(m, b, "ask")
           T == OrdersBy(m, b, "bid")
           f == [j \in S |-> Net(U[j] * m.orders[j].price)]
           g == [j \in S |-> Net(V[j] * m.orders[j].price)]
           h == [j \in T |-> U[j]]
           k == [j \in T |-> V[j]]
           p == m.orders[i].price
           c == Net(u * p)
<1>1. /\ IsFiniteSet(S) /\ IsFiniteSet(T) /\ S \subseteq Live(m) /\ T \subseteq Live(m)
      /\ \A j \in S : f[j] \in Nat /\ g[j] \in Nat
      /\ \A j \in T : h[j] \in Nat /\ k[j] \in Nat
  BY OrdersByFacts
<1>2. /\ i \in S <=> m.orders[i].side = "ask" /\ m.orders[i].owner = b
      /\ i \in T <=> m.orders[i].side = "bid" /\ m.orders[i].owner = b
  BY DEF OrdersBy, OrdersOf
<1>3. p \in Nat /\ U[i] \in Nat /\ U[i] * p \in Nat /\ u * p \in Nat /\ c \in Nat
  <2>1. p \in Nat /\ U[i] \in Nat
    BY MarketFacts
  <2>2. U[i] * p \in Nat /\ u * p \in Nat
    BY <2>1, ProductType
  <2> QED
    BY <2>1, <2>2, FeeFacts
<1>4. i \in S => g[i] <= f[i] + c
  <2>1. V[i] * p = U[i] * p + u * p
    BY <1>3
  <2>2. Net(V[i] * p) <= Net(U[i] * p) + Net(u * p)
    BY <1>3, <2>1, NetSplit
  <2> QED
    BY <2>2
<1>5. /\ \A j \in S : j # i => g[j] = f[j]
      /\ \A j \in T : j # i => k[j] = h[j]
      /\ i \in T => k[i] <= h[i] + u
  BY <1>1, <1>3
<1>6. /\ DueQuote(m, U, b) = SumOver(S, f) /\ DueQuote(m, V, b) = SumOver(S, g)
      /\ DueShares(m, U, b) = SumOver(T, h) /\ DueShares(m, V, b) = SumOver(T, k)
  BY DEF DueQuote, DueShares
<1> HIDE DEF S, T, f, g, h, k, c, p
<1>7. /\ SumOver(S, f) \in Nat /\ SumOver(S, g) \in Nat /\ SumOver(T, h) \in Nat
      /\ SumOver(T, k) \in Nat
  BY <1>1, UnitsFinite
<1>8. SumOver(S, g) <= SumOver(S, f) + (IF i \in S THEN c ELSE 0)
  BY <1>1, <1>3, <1>4, <1>5, SumGrows
<1>9. SumOver(T, k) <= SumOver(T, h) + (IF i \in T THEN u ELSE 0)
  BY <1>1, <1>5, SumGrows
<1> QED
  BY <1>2, <1>6, <1>7, <1>8, <1>9 DEF c, p

\* The market n is m after who has taken U[i] units of each order i, each order has paid
\* or sold them at its own price, and the others have got what their orders are due.
Cost(o, u) == IF o.side = "ask" THEN u ELSE u * o.price
SameTerms(o, p) == o.side = p.side /\ o.owner = p.owner /\ o.price = p.price /\ o.exp = p.exp
Filled(m, n, U, who) ==
  /\ Keeps(m, n) /\ Live(n) = Live(m)
  /\ n.admin = m.admin /\ n.epoch = m.epoch /\ n.placed = m.placed
  /\ U \in [Live(m) -> Nat]
  /\ \A i \in Live(m) :
       /\ SameTerms(n.orders[i], m.orders[i])
       /\ n.orders[i].rem + Cost(m.orders[i], U[i]) = m.orders[i].rem
       /\ U[i] = 0 => n.orders[i] = m.orders[i]
  /\ \A b \in Accounts \ {who} :
       /\ n.quote[b] >= m.quote[b] + DueQuote(m, U, b)
       /\ n.shares[b] >= m.shares[b] + DueShares(m, U, b)

LEMMA FilledNothing ==
  ASSUME NEW m, MarketOK(m), NEW who
  PROVE  Filled(m, m, [i \in Live(m) |-> 0], who)
<1> DEFINE U == [i \in Live(m) |-> 0]
<1>1. U \in [Live(m) -> Nat] /\ \A i \in Live(m) : U[i] = 0
  OBVIOUS
<1> HIDE DEF U
<1>2. \A b : DueQuote(m, U, b) = 0 /\ DueShares(m, U, b) = 0
  BY <1>1, DueNothing
<1>3. ASSUME NEW i \in Live(m)
      PROVE  SameTerms(m.orders[i], m.orders[i]) /\ Cost(m.orders[i], U[i]) = 0
  <2>1. m.orders[i].price \in Nat /\ U[i] = 0
    BY <1>1, MarketFacts
  <2> QED
    BY <2>1 DEF SameTerms, Cost
<1>4. \A b \in Accounts : m.quote[b] \in Nat /\ m.shares[b] \in Nat
  BY MarketFacts
<1>5. \A i \in Live(m) : m.orders[i].rem \in Nat
  BY MarketFacts
<1>6. Keeps(m, m)
  BY DEF Keeps
<1>7. \A i \in Live(m) : m.orders[i].rem + Cost(m.orders[i], U[i]) = m.orders[i].rem
  BY <1>3, <1>5
<1>8. \A b \in Accounts \ {who} :
        /\ m.quote[b] >= m.quote[b] + DueQuote(m, U, b)
        /\ m.shares[b] >= m.shares[b] + DueShares(m, U, b)
  BY <1>2, <1>4
<1>9. Filled(m, m, U, who)
  BY <1>1, <1>3, <1>6, <1>7, <1>8 DEF Filled
<1> QED
  BY <1>9 DEF U

\* The market r is n after one fill of u units of order i by who.
FilledOnce(n, r, i, u, who) ==
  /\ Keeps(n, r) /\ i \in Live(n) /\ Live(r) = Live(n)
  /\ r.admin = n.admin /\ r.epoch = n.epoch /\ r.placed = n.placed
  /\ \A j \in Live(n) : j # i => r.orders[j] = n.orders[j]
  /\ SameTerms(r.orders[i], n.orders[i])
  /\ r.orders[i].rem + Cost(n.orders[i], u) = n.orders[i].rem
  /\ \A b \in Accounts \ {who} :
       /\ r.quote[b] >= n.quote[b] + (IF n.orders[i].side = "ask" /\ n.orders[i].owner = b
                                      THEN Net(u * n.orders[i].price) ELSE 0)
       /\ r.shares[b] >= n.shares[b] + (IF n.orders[i].side = "bid" /\ n.orders[i].owner = b
                                        THEN u ELSE 0)

LEMMA FillBuyOnce ==
  ASSUME NEW m, MarketOK(m), NEW i, NEW who \in Accounts, NEW units \in Nat,
         CanFillBuy(m, i, who, units)
  PROVE  FilledOnce(m, FillBuy(m, i, who, units), i, units, who)
<1> DEFINE n == FillBuy(m, i, who, units)
           o == m.orders[i]
           gross == units * o.price
<1>1. /\ Keeps(m, n) /\ i \in Live(m) /\ Live(n) = Live(m) /\ gross \in Nat
      /\ n.admin = m.admin /\ n.epoch = m.epoch /\ n.placed = m.placed
      /\ \A j \in Live(m) : j # i => n.orders[j] = m.orders[j]
      /\ gross <= o.rem /\ n.orders[i] = [o EXCEPT !.rem = o.rem - gross]
      /\ \A b \in Accounts :
           /\ n.shares[b] = m.shares[b] - Only(b, who, units) + Only(b, o.owner, units)
           /\ n.quote[b] = m.quote[b] + Only(b, who, Net(gross)) + Only(b, m.admin, Fee(gross))
  BY FillBuyEffect DEF TakenFromBid
<1>2. o \in OrderType /\ o.rem \in Nat /\ o.side = "bid"
  BY <1>1, MarketFacts DEF CanFillBuy
<1>3. Fee(gross) \in Nat
  BY <1>1, FeeFacts
<1> HIDE DEF n
<1>4. SameTerms(n.orders[i], o) /\ n.orders[i].rem = o.rem - gross
  BY <1>1, <1>2 DEF SameTerms, OrderType
<1>5. \A b \in Accounts : m.quote[b] \in Nat /\ m.shares[b] \in Nat
  BY MarketFacts
<1>6. n.orders[i].rem + Cost(o, units) = o.rem
  BY <1>1, <1>2, <1>4 DEF Cost
<1> HIDE DEF o, gross
<1>7. ASSUME NEW b \in Accounts \ {who}
      PROVE  /\ n.quote[b] >= m.quote[b]
             /\ n.shares[b] >= m.shares[b] + (IF o.owner = b THEN units ELSE 0)
  <2>1. Only(b, m.admin, Fee(gross)) \in Nat
    BY <1>3, OnlyType
  <2>2. /\ Only(b, who, units) = 0 /\ Only(b, who, Net(gross)) = 0
        /\ Only(b, o.owner, units) = IF o.owner = b THEN units ELSE 0
    BY DEF Only
  <2> QED
    BY <1>1, <1>5, <2>1, <2>2
<1>8. FilledOnce(m, n, i, units, who)
  BY <1>1, <1>2, <1>4, <1>5, <1>6, <1>7 DEF FilledOnce, o
<1> QED
  BY <1>8 DEF n

LEMMA FillSellOnce ==
  ASSUME NEW m, MarketOK(m), NEW i, NEW who \in Accounts, NEW units \in Nat, NEW payment \in Nat,
         CanFillSell(m, i, who, payment, units)
  PROVE  FilledOnce(m, FillSell(m, i, who, payment, units), i, units, who)
<1> DEFINE n == FillSell(m, i, who, payment, units)
           o == m.orders[i]
           gross == units * o.price
<1>1. /\ Keeps(m, n) /\ i \in Live(m) /\ Live(n) = Live(m) /\ gross \in Nat
      /\ n.admin = m.admin /\ n.epoch = m.epoch /\ n.placed = m.placed
      /\ \A j \in Live(m) : j # i => n.orders[j] = m.orders[j]
      /\ units <= o.rem /\ n.orders[i] = [o EXCEPT !.rem = o.rem - units]
      /\ \A b \in Accounts :
           /\ n.shares[b] = m.shares[b] + Only(b, who, units)
           /\ n.quote[b] = m.quote[b] - Only(b, who, gross) + Only(b, o.owner, Net(gross))
                                      + Only(b, m.admin, Fee(gross))
  <2>1. TakenFromAsk(m, n, i, who, payment, units)
    BY FillSellEffect
  <2> HIDE DEF n
  <2> QED
    BY <2>1 DEF TakenFromAsk
<1>2. o \in OrderType /\ o.rem \in Nat /\ o.side = "ask"
  BY <1>1, MarketFacts DEF CanFillSell
<1>3. Fee(gross) \in Nat /\ Net(gross) \in Nat
  BY <1>1, FeeFacts
<1> HIDE DEF n
<1>4. SameTerms(n.orders[i], o) /\ n.orders[i].rem = o.rem - units
  BY <1>1, <1>2 DEF SameTerms, OrderType
<1>5. \A b \in Accounts : m.quote[b] \in Nat /\ m.shares[b] \in Nat
  BY MarketFacts
<1>6. n.orders[i].rem + Cost(o, units) = o.rem
  BY <1>1, <1>2, <1>4 DEF Cost
<1> HIDE DEF o, gross
<1>7. ASSUME NEW b \in Accounts \ {who}
      PROVE  /\ n.quote[b] >= m.quote[b] + (IF o.owner = b THEN Net(gross) ELSE 0)
             /\ n.shares[b] >= m.shares[b]
  <2>1. Only(b, m.admin, Fee(gross)) \in Nat
    BY <1>3, OnlyType
  <2>2. /\ Only(b, who, units) = 0 /\ Only(b, who, gross) = 0
        /\ Only(b, o.owner, Net(gross)) = IF o.owner = b THEN Net(gross) ELSE 0
    BY DEF Only
  <2> QED
    BY <1>1, <1>3, <1>5, <2>1, <2>2
<1>8. FilledOnce(m, n, i, units, who)
  BY <1>1, <1>2, <1>4, <1>5, <1>6, <1>7 DEF FilledOnce, o, gross
<1> QED
  BY <1>8 DEF n

LEMMA KeepsChain ==
  ASSUME NEW m, NEW n, NEW r, Keeps(m, n), Keeps(n, r)
  PROVE  Keeps(m, r)
BY DEF Keeps

\* Fills add up.
LEMMA FillStep ==
  ASSUME NEW m, MarketOK(m), NEW n, NEW U, NEW who, Filled(m, n, U, who),
         NEW r, NEW i, NEW u \in Nat, u > 0, FilledOnce(n, r, i, u, who)
  PROVE  Filled(m, r, [U EXCEPT ![i] = @ + u], who)
<1> DEFINE V == [U EXCEPT ![i] = @ + u]
           o == m.orders[i]
<1>1. /\ Keeps(m, n) /\ Live(n) = Live(m) /\ U \in [Live(m) -> Nat] /\ MarketOK(n)
      /\ Keeps(n, r) /\ Live(r) = Live(m) /\ i \in Live(m) /\ MarketOK(r)
      /\ r.admin = m.admin /\ r.epoch = m.epoch /\ r.placed = m.placed
  BY DEF Filled, FilledOnce, Keeps
<1>2. Keeps(m, r)
  BY <1>1, KeepsChain
<1>3. V \in [Live(m) -> Nat] /\ V[i] = U[i] + u /\ \A j \in Live(m) : j # i => V[j] = U[j]
  BY <1>1
<1>4. SameTerms(n.orders[i], o)
  BY <1>1 DEF Filled
<1> HIDE DEF V
<1>5. ASSUME NEW j \in Live(m), j # i
      PROVE  /\ SameTerms(r.orders[j], m.orders[j])
             /\ r.orders[j].rem + Cost(m.orders[j], V[j]) = m.orders[j].rem
             /\ V[j] = 0 => r.orders[j] = m.orders[j]
  <2>1. r.orders[j] = n.orders[j] /\ V[j] = U[j]
    BY <1>1, <1>3, <1>5 DEF FilledOnce
  <2> QED
    BY <2>1 DEF Filled
<1>6. /\ SameTerms(r.orders[i], o)
      /\ r.orders[i].rem + Cost(o, V[i]) = o.rem
      /\ V[i] # 0
  <2>1. /\ SameTerms(r.orders[i], n.orders[i])
        /\ r.orders[i].rem + Cost(n.orders[i], u) = n.orders[i].rem
    BY DEF FilledOnce
  <2>2. n.orders[i].rem + Cost(o, U[i]) = o.rem
    BY <1>1 DEF Filled
  <2>3. Cost(n.orders[i], u) = Cost(o, u)
    BY <1>4 DEF SameTerms, Cost
  <2>4. o.price \in Nat /\ U[i] \in Nat /\ r.orders[i].rem \in Nat /\ o.rem \in Nat
    BY <1>1, MarketFacts
  <2>5. /\ Cost(o, V[i]) = Cost(o, U[i]) + Cost(o, u)
        /\ Cost(o, U[i]) \in Nat /\ Cost(o, u) \in Nat
    <3>1. (U[i] + u) * o.price = U[i] * o.price + u * o.price
      BY <2>4
    <3>2. U[i] * o.price \in Nat /\ u * o.price \in Nat
      BY <2>4, ProductType
    <3> QED
      BY <1>3, <2>4, <3>1, <3>2 DEF Cost
  <2>6. SameTerms(r.orders[i], o)
    BY <1>4, <2>1 DEF SameTerms
  <2>7. r.orders[i].rem + Cost(o, V[i]) = o.rem
    BY <2>1, <2>2, <2>3, <2>4, <2>5
  <2> QED
    BY <1>3, <2>4, <2>6, <2>7
<1>7. ASSUME NEW b \in Accounts \ {who}
      PROVE  /\ r.quote[b] >= m.quote[b] + DueQuote(m, V, b)
             /\ r.shares[b] >= m.shares[b] + DueShares(m, V, b)
  <2> DEFINE x == IF o.side = "ask" /\ o.owner = b THEN Net(u * o.price) ELSE 0
             y == IF o.side = "bid" /\ o.owner = b THEN u ELSE 0
  <2>1. n.quote[b] >= m.quote[b] + DueQuote(m, U, b) /\ n.shares[b] >= m.shares[b] + DueShares(m, U, b)
    BY DEF Filled
  <2>2. r.quote[b] >= n.quote[b] + x /\ r.shares[b] >= n.shares[b] + y
    BY <1>4 DEF FilledOnce, SameTerms
  <2>3. /\ DueQuote(m, U, b) \in Nat /\ DueShares(m, U, b) \in Nat
        /\ DueQuote(m, V, b) \in Nat /\ DueShares(m, V, b) \in Nat
        /\ DueQuote(m, V, b) <= DueQuote(m, U, b) + x
        /\ DueShares(m, V, b) <= DueShares(m, U, b) + y
    BY <1>1, <1>3, DueMore
  <2>4. x \in Nat /\ y \in Nat
    <3>1. o.price \in Nat
      BY <1>1, MarketFacts
    <3>2. Net(u * o.price) \in Nat
      BY <3>1, ProductType, FeeFacts
    <3> QED
      BY <3>2
  <2>5. /\ m.quote[b] \in Nat /\ n.quote[b] \in Nat /\ r.quote[b] \in Nat
        /\ m.shares[b] \in Nat /\ n.shares[b] \in Nat /\ r.shares[b] \in Nat
    BY <1>1, MarketFacts
  <2> HIDE DEF x, y
  <2> QED
    BY <2>1, <2>2, <2>3, <2>4, <2>5
<1>8. Filled(m, r, V, who)
  BY <1>1, <1>2, <1>3, <1>5, <1>6, <1>7 DEF Filled
<1> QED
  BY <1>8 DEF V

\* What makers are owed for a step, from either description of the step.
Paid(m, n, a) ==
  /\ n.quote[a] >= m.quote[a] + OwedQuote(m, n, a)
  /\ n.shares[a] >= m.shares[a] + OwedShares(m, n, a)

LEMMA NothingOwed ==
  ASSUME NEW m, MarketOK(m), NEW n, MarketOK(n), NEW who, TakesNothing(m, n, who),
         NEW a \in Accounts \ {who}
  PROVE  Paid(m, n, a)
<1>1. \A i \in Live(m) : Taken(m, n, i) = 0
  BY DEF TakesNothing, Taken
<1>2. ASSUME NEW i \in OrdersBy(m, a, "ask") PROVE Net(Taken(m, n, i) * m.orders[i].price) = 0
  <2>1. i \in Live(m) /\ m.orders[i].price \in Nat
    BY MarketFacts DEF OrdersBy, OrdersOf
  <2>2. Taken(m, n, i) = 0
    BY <1>1, <2>1
  <2>3. Taken(m, n, i) * m.orders[i].price = 0
    BY <2>1, <2>2
  <2> QED
    BY <2>3, NetZero
<1>3. \A i \in OrdersBy(m, a, "bid") : Taken(m, n, i) = 0
  BY <1>1 DEF OrdersBy, OrdersOf
<1>4. OwedQuote(m, n, a) = 0 /\ OwedShares(m, n, a) = 0
  BY <1>2, <1>3, SumZero DEF OwedQuote, OwedShares
<1>5. m.quote[a] \in Nat /\ m.shares[a] \in Nat
  BY MarketFacts
<1> QED
  BY <1>4, <1>5 DEF TakesNothing, Paid

LEMMA FillsPay ==
  ASSUME NEW m, MarketOK(m), NEW n, NEW U, NEW who, Filled(m, n, U, who),
         NEW a \in Accounts \ {who}
  PROVE  Paid(m, n, a)
<1>1. /\ Live(n) = Live(m) /\ U \in [Live(m) -> Nat] /\ MarketOK(n)
      /\ n.quote[a] >= m.quote[a] + DueQuote(m, U, a)
      /\ n.shares[a] >= m.shares[a] + DueShares(m, U, a)
  BY DEF Filled, Keeps
<1>2. ASSUME NEW i \in Live(m) PROVE Taken(m, n, i) = U[i]
  <2> DEFINE o == m.orders[i]
             x == n.orders[i].rem
  <2>1. x + Cost(o, U[i]) = o.rem
    BY DEF Filled
  <2>2. /\ x \in Nat /\ o.rem \in Nat /\ o.price \in Nat /\ o.price > 0 /\ U[i] \in Nat
        /\ o.side \in {"bid", "ask"}
    BY <1>1, MarketFacts
  <2>3. i \in Live(n)
    BY <1>1
  <2>4. Taken(m, n, i) = IF x >= o.rem THEN 0 ELSE IF o.side = "ask" THEN o.rem - x
                                                   ELSE (o.rem - x) \div o.price
    BY <2>3 DEF Taken
  <2>5. CASE o.side = "ask"
    BY <2>1, <2>2, <2>4, <2>5 DEF Cost
  <2>6. CASE o.side = "bid"
    <3>1. PICK p \in Nat, u \in Nat : p = o.price /\ u = U[i]
      BY <2>2
    <3>2. p > 0 /\ p * u \in Nat /\ (p * u) \div p = u
      BY <2>2, <3>1, DivWhole, ProductType
    <3>3. x + p * u = o.rem
      BY <2>1, <2>6, <3>1 DEF Cost
    <3>4. o.rem - x = p * u /\ (x >= o.rem <=> p * u <= 0)
      BY <2>2, <3>2, <3>3
    <3>5. p * u <= 0 => u = 0
      BY <3>2
    <3> HIDE DEF o, x
    <3> QED
      BY <2>4, <2>6, <3>1, <3>2, <3>4, <3>5
  <2> QED
    BY <2>2, <2>5, <2>6
<1>3. \A side : OrdersBy(m, a, side) \subseteq Live(m)
  BY DEF OrdersBy, OrdersOf
<1>4. OwedQuote(m, n, a) = DueQuote(m, U, a)
  <2>1. \A i \in OrdersBy(m, a, "ask") : Taken(m, n, i) = U[i]
    BY <1>2, <1>3
  <2> QED
    BY <2>1 DEF OwedQuote, DueQuote
<1>5. OwedShares(m, n, a) = DueShares(m, U, a)
  <2>1. \A i \in OrdersBy(m, a, "bid") : Taken(m, n, i) = U[i]
    BY <1>2, <1>3
  <2> QED
    BY <2>1 DEF OwedShares, DueShares
<1> QED
  BY <1>1, <1>4, <1>5 DEF Paid

-----------------------------------------------------------------------------
(* Running the calls of a transaction.                                     *)

\* f is the sequence of results of the first n calls.
RunTo(f, m, kind, legs, n) ==
  f = [k \in 0 .. n |-> IF k = 0 THEN [ok |-> TRUE, m |-> m] ELSE RunLeg(f[k - 1], kind, legs[k])]

LEMMA RunExists ==
  ASSUME NEW m, NEW kind, NEW legs
  PROVE  \A n \in Nat : \E f : RunTo(f, m, kind, legs, n)
<1> DEFINE S == {n \in Nat : \E f : RunTo(f, m, kind, legs, n)}
           start == [ok |-> TRUE, m |-> m]
<1>1. 0 \in S
  <2> DEFINE f == [k \in 0 .. 0 |-> start]
  <2>1. RunTo(f, m, kind, legs, 0)
    BY DEF RunTo
  <2> QED
    BY <2>1
<1>2. ASSUME NEW n \in Nat, n \in S PROVE n + 1 \in S
  <2>1. PICK f : RunTo(f, m, kind, legs, n)
    BY <1>2
  <2> DEFINE g == [k \in 0 .. n + 1 |-> IF k = n + 1 THEN RunLeg(f[n], kind, legs[n + 1]) ELSE f[k]]
  <2>2. \A k \in 1 .. n + 1 : k - 1 \in 0 .. n /\ g[k - 1] = f[k - 1]
    BY SMT
  <2>3. \A k \in 0 .. n : f[k] = IF k = 0 THEN start ELSE RunLeg(f[k - 1], kind, legs[k])
    BY <2>1 DEF RunTo
  <2>4. \A k \in 0 .. n + 1 : g[k] = IF k = 0 THEN start ELSE RunLeg(g[k - 1], kind, legs[k])
    <3>1. g[n + 1] = RunLeg(f[n], kind, legs[n + 1]) /\ \A k \in 0 .. n : g[k] = f[k]
      OBVIOUS
    <3> HIDE DEF g, start
    <3>2. n + 1 # 0 /\ f[n] = g[n + 1 - 1]
      BY <3>1
    <3>3. g[n + 1] = RunLeg(g[n + 1 - 1], kind, legs[n + 1])
      BY <3>1, <3>2
    <3>4. ASSUME NEW k \in 0 .. n
          PROVE  g[k] = IF k = 0 THEN start ELSE RunLeg(g[k - 1], kind, legs[k])
      <4>1. g[k] = f[k] /\ (k # 0 => g[k - 1] = f[k - 1])
        BY <3>1
      <4> QED
        BY <2>3, <4>1
    <3>5. \A k \in 0 .. n + 1 : k \in 0 .. n \/ k = n + 1
      OBVIOUS
    <3> QED
      BY <3>2, <3>3, <3>4, <3>5
  <2>5. g = [k \in 0 .. n + 1 |-> g[k]]
    OBVIOUS
  <2> HIDE DEF g
  <2>6. RunTo(g, m, kind, legs, n + 1)
    BY <2>4, <2>5 DEF RunTo
  <2> QED
    BY <2>6
<1> HIDE DEF S
<1>3. Nat \subseteq S
  BY <1>1, <1>2, SetInduction
<1> QED
  BY <1>3 DEF S

LEMMA RunUnfolds ==
  ASSUME NEW m, NEW kind, NEW legs, Len(legs) \in Nat
  PROVE  \E f : /\ RunLegs(m, kind, legs) = f[Len(legs)]
                /\ f[0] = [ok |-> TRUE, m |-> m]
                /\ \A k \in 1 .. Len(legs) : f[k] = RunLeg(f[k - 1], kind, legs[k])
<1> DEFINE f == CHOOSE g : RunTo(g, m, kind, legs, Len(legs))
<1>1. RunTo(f, m, kind, legs, Len(legs))
  BY RunExists
<1>2. RunLegs(m, kind, legs) = f[Len(legs)]
  BY DEF RunLegs, RunTo
<1> HIDE DEF f
<1>3. \A k \in 0 .. Len(legs) :
        f[k] = IF k = 0 THEN [ok |-> TRUE, m |-> m] ELSE RunLeg(f[k - 1], kind, legs[k])
  BY <1>1 DEF RunTo
<1>4. f[0] = [ok |-> TRUE, m |-> m]
  <2>1. 0 \in 0 .. Len(legs) /\ 0 = 0
    OBVIOUS
  <2> QED
    BY <1>3, <2>1, Zenon
<1>5. \A k \in 1 .. Len(legs) : f[k] = RunLeg(f[k - 1], kind, legs[k])
  <2>1. \A k \in 1 .. Len(legs) : k \in 0 .. Len(legs) /\ k # 0
    OBVIOUS
  <2> QED
    BY <1>3, <2>1
<1> WITNESS f
<1> QED
  BY <1>2, <1>4, <1>5

\* The units and the cost of the first k legs.
UnitsTo(legs, k) == SumOver(1 .. k, [j \in DOMAIN legs |-> legs[j].units])
GrossTo(legs, k) == SumOver(1 .. k, [j \in DOMAIN legs |-> legs[j].gross])

LEMMA LegSums ==
  ASSUME NEW legs \in Seq(LegType)
  PROVE  /\ Len(legs) \in Nat /\ DOMAIN legs = 1 .. Len(legs)
         /\ \A k \in 1 .. Len(legs) :
              /\ legs[k] \in LegType /\ legs[k].id \in OrderIds /\ legs[k].gross \in Nat
              /\ legs[k].units \in Nat /\ legs[k].units > 0
              /\ UnitsTo(legs, k) = UnitsTo(legs, k - 1) + legs[k].units
              /\ GrossTo(legs, k) = GrossTo(legs, k - 1) + legs[k].gross
         /\ UnitsTo(legs, 0) = 0 /\ GrossTo(legs, 0) = 0
         /\ \A k \in 0 .. Len(legs) :
              /\ UnitsTo(legs, k) \in Nat /\ UnitsTo(legs, k) <= TotalUnits(legs)
              /\ GrossTo(legs, k) \in Nat /\ GrossTo(legs, k) <= TotalGross(legs)
         /\ UnitsTo(legs, Len(legs)) = TotalUnits(legs) /\ TotalUnits(legs) \in Nat
         /\ GrossTo(legs, Len(legs)) = TotalGross(legs) /\ TotalGross(legs) \in Nat
<1>1. /\ Len(legs) \in Nat /\ DOMAIN legs = 1 .. Len(legs)
      /\ \A k \in 1 .. Len(legs) : legs[k] \in LegType
  BY LenProperties, ElementOfSeq
<1>2. \A k \in 1 .. Len(legs) : /\ legs[k].id \in OrderIds /\ legs[k].gross \in Nat
                                /\ legs[k].units \in Nat /\ legs[k].units > 0
  BY <1>1 DEF LegType
<1> DEFINE f == [j \in DOMAIN legs |-> legs[j].units]
           g == [j \in DOMAIN legs |-> legs[j].gross]
           n == Len(legs)
<1>3. \A j \in 1 .. n : /\ f[j] \in Nat /\ f[j] = legs[j].units
                        /\ g[j] \in Nat /\ g[j] = legs[j].gross
  BY <1>1, <1>2
<1>4. /\ TotalUnits(legs) = SumOver(1 .. n, f) /\ TotalGross(legs) = SumOver(1 .. n, g)
      /\ \A k : UnitsTo(legs, k) = SumOver(1 .. k, f) /\ GrossTo(legs, k) = SumOver(1 .. k, g)
  BY <1>1 DEF TotalUnits, TotalGross, UnitsTo, GrossTo
<1> HIDE DEF f, g
<1>5. /\ SumOver(1 .. 0, f) = 0 /\ SumOver(1 .. n, f) \in Nat
      /\ \A k \in 0 .. n : SumOver(1 .. k, f) \in Nat /\ SumOver(1 .. k, f) <= SumOver(1 .. n, f)
      /\ \A k \in 1 .. n : SumOver(1 .. k, f) = SumOver(1 .. k - 1, f) + f[k]
  BY <1>1, <1>3, SumUpTo
<1>6. /\ SumOver(1 .. 0, g) = 0 /\ SumOver(1 .. n, g) \in Nat
      /\ \A k \in 0 .. n : SumOver(1 .. k, g) \in Nat /\ SumOver(1 .. k, g) <= SumOver(1 .. n, g)
      /\ \A k \in 1 .. n : SumOver(1 .. k, g) = SumOver(1 .. k - 1, g) + g[k]
  BY <1>1, <1>3, SumUpTo
<1>7. \A k \in 1 .. n : /\ UnitsTo(legs, k) = UnitsTo(legs, k - 1) + legs[k].units
                        /\ GrossTo(legs, k) = GrossTo(legs, k - 1) + legs[k].gross
  BY <1>3, <1>4, <1>5, <1>6
<1>8. /\ UnitsTo(legs, 0) = 0 /\ GrossTo(legs, 0) = 0
      /\ UnitsTo(legs, n) = TotalUnits(legs) /\ TotalUnits(legs) \in Nat
      /\ GrossTo(legs, n) = TotalGross(legs) /\ TotalGross(legs) \in Nat
  BY <1>4, <1>5, <1>6
<1>9. \A k \in 0 .. n : /\ UnitsTo(legs, k) \in Nat /\ UnitsTo(legs, k) <= TotalUnits(legs)
                        /\ GrossTo(legs, k) \in Nat /\ GrossTo(legs, k) <= TotalGross(legs)
  BY <1>4, <1>5, <1>6
<1> QED
  BY <1>1, <1>2, <1>7, <1>8, <1>9

\* A call succeeds when those before it did and its asserts hold.
IsRun(acc) == acc = [ok |-> acc.ok, m |-> acc.m] /\ acc.ok \in BOOLEAN
CanLeg(m, kind, leg) ==
  IF kind = "buy" THEN CanFillSell(m, leg.id, You, leg.gross, leg.units)
                  ELSE CanFillBuy(m, leg.id, You, leg.units)
LegDone(m, kind, leg) ==
  IF kind = "buy" THEN FillSell(m, leg.id, You, leg.gross, leg.units)
                  ELSE FillBuy(m, leg.id, You, leg.units)

LEMMA RunLegIs ==
  ASSUME NEW acc, IsRun(acc), NEW kind, NEW leg
  PROVE  /\ IsRun(RunLeg(acc, kind, leg))
         /\ RunLeg(acc, kind, leg).ok => /\ acc.ok /\ CanLeg(acc.m, kind, leg)
                                         /\ RunLeg(acc, kind, leg).m = LegDone(acc.m, kind, leg)
         /\ acc.ok /\ CanLeg(acc.m, kind, leg) => RunLeg(acc, kind, leg).ok
<1> DEFINE r == RunLeg(acc, kind, leg)
<1>1. r = IF ~acc.ok \/ ~CanLeg(acc.m, kind, leg) THEN [ok |-> FALSE, m |-> acc.m]
          ELSE [ok |-> TRUE, m |-> LegDone(acc.m, kind, leg)]
  BY DEF RunLeg, CanLeg, LegDone
<1> HIDE DEF r
<1>2. CASE ~acc.ok \/ ~CanLeg(acc.m, kind, leg)
  <2>2. r = [ok |-> FALSE, m |-> acc.m]
    BY <1>1, <1>2
  <2>3. r.ok = FALSE /\ r.m = acc.m
    BY <2>2
  <2>4. IsRun(r)
    BY <2>2, <2>3 DEF IsRun
  <2> QED
    BY <1>2, <2>3, <2>4 DEF r
<1>3. CASE acc.ok /\ CanLeg(acc.m, kind, leg)
  <2>1. r = [ok |-> TRUE, m |-> LegDone(acc.m, kind, leg)]
    BY <1>1, <1>3
  <2>2. r.ok = TRUE /\ r.m = LegDone(acc.m, kind, leg)
    BY <2>1
  <2>3. IsRun(r)
    BY <2>1, <2>2 DEF IsRun
  <2> QED
    BY <1>3, <2>2, <2>3 DEF r
<1> QED
  BY <1>2, <1>3 DEF IsRun

\* What a leg does to the account, and to the orders.
YouAfter(n, r, kind, units, gross) ==
  IF kind = "buy" THEN /\ r.shares[You] = n.shares[You] + units
                       /\ r.quote[You] + gross >= n.quote[You]
                  ELSE r.shares[You] + units >= n.shares[You]

LEMMA LegEffect ==
  ASSUME NEW n, MarketOK(n), NEW kind, NEW leg \in LegType, CanLeg(n, kind, leg)
  PROVE  /\ FilledOnce(n, LegDone(n, kind, leg), leg.id, leg.units, You)
         /\ YouAfter(n, LegDone(n, kind, leg), kind, leg.units, leg.gross)
<1> DEFINE r == LegDone(n, kind, leg)
           i == leg.id
<1>1. /\ leg.units \in Nat /\ leg.units > 0 /\ leg.gross \in Nat /\ You \in Accounts
      /\ n.quote[You] \in Nat /\ n.shares[You] \in Nat
  BY MarketFacts, MarketPageAssumption DEF LegType
<1>2. CASE kind = "buy"
  <2>1. CanFillSell(n, i, You, leg.gross, leg.units) /\ r = FillSell(n, i, You, leg.gross, leg.units)
    BY <1>2 DEF CanLeg, LegDone
  <2> HIDE DEF r
  <2>2. TakenFromAsk(n, r, i, You, leg.gross, leg.units) /\ FilledOnce(n, r, i, leg.units, You)
    BY <1>1, <2>1, FillSellEffect, FillSellOnce
  <2> DEFINE o == n.orders[i]
             g == leg.units * o.price
  <2>3. /\ i \in Live(n) /\ g \in Nat /\ g <= leg.gross
        /\ r.shares[You] = n.shares[You] + Only(You, You, leg.units)
        /\ r.quote[You] = n.quote[You] - Only(You, You, g) + Only(You, o.owner, Net(g))
                                       + Only(You, n.admin, Fee(g))
    BY <1>1, <2>2 DEF TakenFromAsk
  <2> HIDE DEF g, o
  <2>4. /\ Only(You, You, g) = g /\ Only(You, You, leg.units) = leg.units
        /\ Only(You, o.owner, Net(g)) \in Nat /\ Only(You, n.admin, Fee(g)) \in Nat
    <3>1. Net(g) \in Nat /\ Fee(g) \in Nat
      BY <2>3, FeeFacts
    <3> QED
      BY <3>1 DEF Only
  <2>5. YouAfter(n, r, kind, leg.units, leg.gross)
    BY <1>1, <1>2, <2>3, <2>4 DEF YouAfter
  <2> QED
    BY <2>2, <2>5 DEF r
<1>3. CASE kind # "buy"
  <2>1. CanFillBuy(n, i, You, leg.units) /\ r = FillBuy(n, i, You, leg.units)
    BY <1>3 DEF CanLeg, LegDone
  <2> HIDE DEF r
  <2>2. TakenFromBid(n, r, i, You, leg.units) /\ FilledOnce(n, r, i, leg.units, You)
    BY <1>1, <2>1, FillBuyEffect, FillBuyOnce
  <2>3. r.shares[You] = n.shares[You] - Only(You, You, leg.units)
                                      + Only(You, n.orders[i].owner, leg.units)
    BY <1>1, <2>2 DEF TakenFromBid
  <2>4. /\ Only(You, You, leg.units) = leg.units
        /\ Only(You, n.orders[i].owner, leg.units) \in Nat
    BY <1>1 DEF Only
  <2>5. YouAfter(n, r, kind, leg.units, leg.gross)
    BY <1>1, <1>3, <2>3, <2>4 DEF YouAfter
  <2> QED
    BY <2>2, <2>5 DEF r
<1> QED
  BY <1>2, <1>3

LEMMA YouChain ==
  ASSUME NEW m, MarketOK(m), NEW n, MarketOK(n), NEW r, MarketOK(r), NEW kind,
         NEW u \in Nat, NEW g \in Nat, NEW v \in Nat, NEW h \in Nat,
         YouAfter(m, n, kind, u, g), YouAfter(n, r, kind, v, h)
  PROVE  YouAfter(m, r, kind, u + v, g + h)
<1>1. /\ m.quote[You] \in Nat /\ n.quote[You] \in Nat /\ r.quote[You] \in Nat
      /\ m.shares[You] \in Nat /\ n.shares[You] \in Nat /\ r.shares[You] \in Nat
  BY MarketFacts, MarketPageAssumption
<1> QED
  BY <1>1 DEF YouAfter

\* The first k legs have run: the orders they do not name are as they were.
RanTo(m, n, kind, legs, k) ==
  /\ \E U : /\ Filled(m, n, U, You)
            /\ \A i \in Live(m) : (\A l \in 1 .. k : legs[l].id # i) => U[i] = 0
  /\ YouAfter(m, n, kind, UnitsTo(legs, k), GrossTo(legs, k))

LEMMA RanNothing ==
  ASSUME NEW m, MarketOK(m), NEW kind, NEW legs \in Seq(LegType)
  PROVE  RanTo(m, m, kind, legs, 0)
<1> DEFINE U == [i \in Live(m) |-> 0]
<1>1. Filled(m, m, U, You)
  BY FilledNothing
<1>2. \A i \in Live(m) : U[i] = 0
  OBVIOUS
<1>3. m.quote[You] \in Nat /\ m.shares[You] \in Nat
  BY MarketFacts, MarketPageAssumption
<1>4. UnitsTo(legs, 0) = 0 /\ GrossTo(legs, 0) = 0
  BY LegSums
<1>5. YouAfter(m, m, kind, 0, 0)
  BY <1>3 DEF YouAfter
<1> HIDE DEF U
<1> QED
  BY <1>1, <1>2, <1>4, <1>5 DEF RanTo

LEMMA RanOneMore ==
  ASSUME NEW m, MarketOK(m), NEW kind, NEW legs \in Seq(LegType), NEW k \in 1 .. Len(legs),
         NEW n, RanTo(m, n, kind, legs, k - 1), CanLeg(n, kind, legs[k])
  PROVE  RanTo(m, LegDone(n, kind, legs[k]), kind, legs, k)
<1> DEFINE r == LegDone(n, kind, legs[k])
           leg == legs[k]
<1>1. /\ leg \in LegType /\ leg.units \in Nat /\ leg.units > 0 /\ leg.gross \in Nat
      /\ Len(legs) \in Nat
  BY LegSums
<1>2. PICK U : /\ Filled(m, n, U, You)
               /\ \A i \in Live(m) : (\A l \in 1 .. k - 1 : legs[l].id # i) => U[i] = 0
  BY DEF RanTo
<1>3. MarketOK(n) /\ U \in [Live(m) -> Nat] /\ Live(n) = Live(m)
  BY <1>2 DEF Filled, Keeps
<1>4. FilledOnce(n, r, leg.id, leg.units, You) /\ YouAfter(n, r, kind, leg.units, leg.gross)
  BY <1>1, <1>3, LegEffect
<1> HIDE DEF r
<1>5. MarketOK(r) /\ leg.id \in Live(m)
  BY <1>3, <1>4 DEF FilledOnce, Keeps
<1> DEFINE V == [U EXCEPT ![leg.id] = @ + leg.units]
<1>6. Filled(m, r, V, You)
  BY <1>1, <1>2, <1>4, FillStep
<1>7. \A i \in Live(m) : i # leg.id => V[i] = U[i]
  BY <1>3
<1> HIDE DEF V
<1>8. ASSUME NEW i \in Live(m), \A l \in 1 .. k : legs[l].id # i
      PROVE  V[i] = 0
  <2>1. leg.id # i /\ \A l \in 1 .. k - 1 : legs[l].id # i
    BY <1>1, <1>8
  <2> QED
    BY <1>2, <1>7, <2>1
<1>9. YouAfter(m, r, kind, UnitsTo(legs, k), GrossTo(legs, k))
  <2>1. PICK u \in Nat, g \in Nat : u = UnitsTo(legs, k - 1) /\ g = GrossTo(legs, k - 1)
    <3>1. k - 1 \in 0 .. Len(legs)
      BY <1>1
    <3> QED
      BY <3>1, LegSums
  <2>2. YouAfter(m, n, kind, u, g)
    BY <2>1 DEF RanTo
  <2>3. PICK v \in Nat, h \in Nat : v = leg.units /\ h = leg.gross
    BY <1>1
  <2>4. YouAfter(m, r, kind, u + v, g + h)
    BY <1>3, <1>4, <1>5, <2>2, <2>3, YouChain
  <2>5. UnitsTo(legs, k) = u + v /\ GrossTo(legs, k) = g + h
    BY <2>1, <2>3, LegSums
  <2> QED
    BY <2>4, <2>5
<1>10. RanTo(m, r, kind, legs, k)
  BY <1>6, <1>8, <1>9 DEF RanTo
<1> QED
  BY <1>10 DEF r

\* All calls of a transaction that is executed have run.
LEMMA RunEffect ==
  ASSUME NEW m, MarketOK(m), NEW kind, NEW legs \in Seq(LegType), RunLegs(m, kind, legs).ok
  PROVE  RanTo(m, RunLegs(m, kind, legs).m, kind, legs, Len(legs))
<1>1. Len(legs) \in Nat
  BY LegSums
<1>2. PICK f : /\ RunLegs(m, kind, legs) = f[Len(legs)]
               /\ f[0] = [ok |-> TRUE, m |-> m]
               /\ \A k \in 1 .. Len(legs) : f[k] = RunLeg(f[k - 1], kind, legs[k])
  BY <1>1, RunUnfolds
<1> DEFINE P(k) == IsRun(f[k]) /\ (f[k].ok => RanTo(m, f[k].m, kind, legs, k))
           S == {k \in Nat : k <= Len(legs) => P(k)}
<1>3. 0 \in S
  <2>1. f[0].m = m /\ IsRun(f[0])
    BY <1>2 DEF IsRun
  <2> QED
    BY <2>1, RanNothing
<1>4. ASSUME NEW j \in Nat, j \in S PROVE j + 1 \in S
  <2> SUFFICES ASSUME j + 1 <= Len(legs) PROVE P(j + 1)
    OBVIOUS
  <2>1. P(j)
    BY <1>1, <1>4
  <2>2. PICK k \in 1 .. Len(legs) : k = j + 1 /\ k - 1 = j
    BY <1>1
  <2>3. f[k] = RunLeg(f[j], kind, legs[k])
    BY <1>2, <2>2
  <2>4. IsRun(f[k])
    BY <2>1, <2>3, RunLegIs
  <2>5. ASSUME f[k].ok PROVE RanTo(m, f[k].m, kind, legs, k)
    <3>1. f[j].ok /\ CanLeg(f[j].m, kind, legs[k]) /\ f[k].m = LegDone(f[j].m, kind, legs[k])
      BY <2>1, <2>3, <2>5, RunLegIs
    <3>2. RanTo(m, f[j].m, kind, legs, k - 1)
      BY <2>1, <2>2, <3>1
    <3>3. RanTo(m, LegDone(f[j].m, kind, legs[k]), kind, legs, k)
      BY <3>1, <3>2, RanOneMore
    <3> QED
      BY <3>1, <3>3
  <2> QED
    BY <2>2, <2>4, <2>5
<1> HIDE DEF S
<1>5. Nat \subseteq S
  BY <1>3, <1>4, SetInduction
<1>6. P(Len(legs))
  BY <1>1, <1>5 DEF S
<1> QED
  BY <1>2, <1>6

\* A leg that the market can fill, before the account's coins are looked at.
Fits(m, kind, leg) ==
  /\ leg.id \in Live(m) /\ NotExpired(m, m.orders[leg.id])
  /\ m.orders[leg.id].side = (IF kind = "buy" THEN "ask" ELSE "bid")
  /\ IF kind = "buy" THEN /\ leg.units <= m.orders[leg.id].rem
                          /\ leg.units * m.orders[leg.id].price <= leg.gross
                     ELSE leg.units * m.orders[leg.id].price <= m.orders[leg.id].rem

\* Legs of different orders that fit, and that the account can pay, all execute.
LEMMA FittingLegsRun ==
  ASSUME NEW m, MarketOK(m), NEW kind, NEW legs \in Seq(LegType),
         \A k \in 1 .. Len(legs) : Fits(m, kind, legs[k]),
         \A k \in 1 .. Len(legs) : \A l \in 1 .. k - 1 : legs[l].id # legs[k].id,
         IF kind = "buy" THEN TotalGross(legs) <= m.quote[You] ELSE TotalUnits(legs) <= m.shares[You]
  PROVE  RunLegs(m, kind, legs).ok
<1>1. Len(legs) \in Nat
  BY LegSums
<1>2. PICK f : /\ RunLegs(m, kind, legs) = f[Len(legs)]
               /\ f[0] = [ok |-> TRUE, m |-> m]
               /\ \A k \in 1 .. Len(legs) : f[k] = RunLeg(f[k - 1], kind, legs[k])
  BY <1>1, RunUnfolds
<1> DEFINE P(k) == IsRun(f[k]) /\ f[k].ok /\ RanTo(m, f[k].m, kind, legs, k)
           S == {k \in Nat : k <= Len(legs) => P(k)}
<1>3. 0 \in S
  <2>1. f[0].m = m /\ IsRun(f[0]) /\ f[0].ok
    BY <1>2 DEF IsRun
  <2> QED
    BY <2>1, RanNothing
<1>4. ASSUME NEW j \in Nat, j \in S PROVE j + 1 \in S
  <2> SUFFICES ASSUME j + 1 <= Len(legs) PROVE P(j + 1)
    OBVIOUS
  <2>1. P(j)
    BY <1>1, <1>4
  <2>2. PICK k \in 1 .. Len(legs) : k = j + 1 /\ k - 1 = j
    BY <1>1
  <2>3. f[k] = RunLeg(f[j], kind, legs[k])
    BY <1>2, <2>2
  <2>4. PICK n : n = f[j].m
    OBVIOUS
  <2>5. RanTo(m, n, kind, legs, k - 1)
    BY <2>1, <2>2, <2>4
  <2>6. CanLeg(n, kind, legs[k])
    <3> DEFINE leg == legs[k]
               i == leg.id
    <3>1. Fits(m, kind, leg)
      OBVIOUS
    <3>2. PICK U : /\ Filled(m, n, U, You)
                   /\ \A b \in Live(m) : (\A l \in 1 .. k - 1 : legs[l].id # b) => U[b] = 0
      BY <2>5 DEF RanTo
    <3>3. i \in Live(m) /\ U[i] = 0
      BY <3>1, <3>2 DEF Fits
    <3>4. n.orders[i] = m.orders[i] /\ i \in Live(n) /\ n.epoch = m.epoch /\ MarketOK(n)
      BY <3>2, <3>3 DEF Filled, Keeps
    <3>5. NotExpired(n, n.orders[i])
      BY <3>1, <3>4 DEF Fits, NotExpired
    <3>6. /\ leg.units \in Nat /\ leg.units > 0 /\ leg.gross \in Nat
          /\ UnitsTo(legs, k) = UnitsTo(legs, k - 1) + leg.units
          /\ GrossTo(legs, k) = GrossTo(legs, k - 1) + leg.gross
          /\ UnitsTo(legs, k) <= TotalUnits(legs) /\ GrossTo(legs, k) <= TotalGross(legs)
          /\ UnitsTo(legs, k) \in Nat /\ GrossTo(legs, k) \in Nat
          /\ UnitsTo(legs, k - 1) \in Nat /\ GrossTo(legs, k - 1) \in Nat
          /\ TotalUnits(legs) \in Nat /\ TotalGross(legs) \in Nat
      <4>1. k \in 0 .. Len(legs) /\ k - 1 \in 0 .. Len(legs)
        BY <1>1
      <4> QED
        BY <4>1, LegSums
    <3>7. YouAfter(m, n, kind, UnitsTo(legs, k - 1), GrossTo(legs, k - 1))
      BY <2>5 DEF RanTo
    <3>8. /\ m.quote[You] \in Nat /\ n.quote[You] \in Nat
          /\ m.shares[You] \in Nat /\ n.shares[You] \in Nat
      BY <3>4, MarketFacts, MarketPageAssumption
    <3>9. CASE kind = "buy"
      <4>1. leg.gross <= n.quote[You]
        <5>1. n.quote[You] + GrossTo(legs, k - 1) >= m.quote[You]
          BY <3>7, <3>9 DEF YouAfter
        <5>2. TotalGross(legs) <= m.quote[You]
          BY <3>9
        <5>3. PICK a \in Nat, b \in Nat, c \in Nat, d \in Nat, e \in Nat :
                /\ a = GrossTo(legs, k - 1) /\ b = leg.gross /\ c = TotalGross(legs)
                /\ d = m.quote[You] /\ e = n.quote[You]
          BY <3>6, <3>8
        <5>4. a + b <= c /\ c <= d /\ e + a >= d
          BY <3>6, <5>1, <5>2, <5>3
        <5>5. b <= e
          BY <5>4
        <5> QED
          BY <5>3, <5>5
      <4>2. CanFillSell(n, i, You, leg.gross, leg.units)
        <5>1. /\ n.orders[i].side = "ask" /\ leg.units <= n.orders[i].rem
              /\ leg.units * n.orders[i].price <= leg.gross
          BY <3>1, <3>4, <3>9 DEF Fits
        <5>2. n.orders[i].rem \in Nat /\ n.orders[i].price \in Nat
          BY <3>4, MarketFacts
        <5>3. leg.units * n.orders[i].price \in Nat
          BY <3>6, <5>2, ProductType
        <5> QED
          BY <3>4, <3>5, <3>6, <3>8, <4>1, <5>1, <5>2, <5>3 DEF CanFillSell
      <4> QED
        BY <3>9, <4>2 DEF CanLeg
    <3>10. CASE kind # "buy"
      <4>1. leg.units <= n.shares[You]
        <5>1. n.shares[You] + UnitsTo(legs, k - 1) >= m.shares[You]
          BY <3>7, <3>10 DEF YouAfter
        <5>2. TotalUnits(legs) <= m.shares[You]
          BY <3>10
        <5>3. PICK a \in Nat, b \in Nat, c \in Nat, d \in Nat, e \in Nat :
                /\ a = UnitsTo(legs, k - 1) /\ b = leg.units /\ c = TotalUnits(legs)
                /\ d = m.shares[You] /\ e = n.shares[You]
          BY <3>6, <3>8
        <5>4. a + b <= c /\ c <= d /\ e + a >= d
          BY <3>6, <5>1, <5>2, <5>3
        <5>5. b <= e
          BY <5>4
        <5> QED
          BY <5>3, <5>5
      <4>2. CanFillBuy(n, i, You, leg.units)
        <5>1. n.orders[i].side = "bid" /\ leg.units * n.orders[i].price <= n.orders[i].rem
          BY <3>1, <3>4, <3>10 DEF Fits
        <5>2. n.orders[i].rem \in Nat /\ n.orders[i].price \in Nat
          BY <3>4, MarketFacts
        <5>3. leg.units * n.orders[i].price \in Nat
          BY <3>6, <5>2, ProductType
        <5> QED
          BY <3>4, <3>5, <3>6, <3>8, <4>1, <5>1, <5>2, <5>3 DEF CanFillBuy
      <4> QED
        BY <3>10, <4>2 DEF CanLeg
    <3> QED
      BY <3>9, <3>10
  <2>7. IsRun(f[k]) /\ f[k].ok
    BY <2>1, <2>3, <2>4, <2>6, RunLegIs
  <2>8. f[k].m = LegDone(n, kind, legs[k])
    BY <2>1, <2>3, <2>4, <2>7, RunLegIs
  <2>9. RanTo(m, LegDone(n, kind, legs[k]), kind, legs, k)
    BY <2>5, <2>6, RanOneMore
  <2> QED
    BY <2>2, <2>7, <2>8, <2>9
<1> HIDE DEF S
<1>5. Nat \subseteq S
  BY <1>3, <1>4, SetInduction
<1>6. P(Len(legs))
  BY <1>1, <1>5 DEF S
<1> QED
  BY <1>2, <1>6

-----------------------------------------------------------------------------
(* Steps.                                                                  *)

LEMMA Removed ==
  ASSUME NEW J, NEW s \in Seq(J), NEW k \in 1 .. Len(s)
  PROVE  /\ RemoveAt(s, k) \in Seq(J) /\ Len(RemoveAt(s, k)) = Len(s) - 1
         /\ \A i \in 1 .. Len(s) - 1 : RemoveAt(s, k)[i] = IF i < k THEN s[i] ELSE s[i + 1]
BY WithoutElement DEF RemoveAt

\* Two removals with the same result removed the same value.
LEMMA RemovedFrom ==
  ASSUME NEW J, NEW s \in Seq(J), NEW k \in 1 .. Len(s), NEW l \in 1 .. Len(s), k <= l,
         RemoveAt(s, k) = RemoveAt(s, l)
  PROVE  s[k] = s[l]
<1>1. Len(s) \in Nat
  BY LenProperties
<1>2. \A i \in k .. l - 1 : s[i + 1] = s[i]
  <2> SUFFICES ASSUME NEW i \in k .. l - 1 PROVE s[i + 1] = s[i]
    OBVIOUS
  <2>1. i \in 1 .. Len(s) - 1 /\ i < l /\ ~(i < k)
    BY <1>1
  <2>2. RemoveAt(s, k)[i] = s[i + 1] /\ RemoveAt(s, l)[i] = s[i]
    BY <2>1, Removed
  <2> QED
    BY <2>2
<1> DEFINE S == {d \in Nat : k + d <= l => s[k + d] = s[k]}
<1>3. 0 \in S
  OBVIOUS
<1>4. ASSUME NEW d \in Nat, d \in S PROVE d + 1 \in S
  <2> SUFFICES ASSUME k + (d + 1) <= l PROVE s[k + (d + 1)] = s[k]
    OBVIOUS
  <2>1. s[k + d] = s[k] /\ k + d \in k .. l - 1
    BY <1>4
  <2>2. s[(k + d) + 1] = s[k + d]
    BY <1>2, <2>1
  <2>3. k + (d + 1) = (k + d) + 1
    OBVIOUS
  <2> QED
    BY <2>1, <2>2, <2>3
<1> HIDE DEF S
<1>5. l - k \in S
  BY <1>3, <1>4, SetInduction
<1> QED
  BY <1>5 DEF S

LEMMA SameRemoved ==
  ASSUME NEW J, NEW s \in Seq(J), NEW k \in 1 .. Len(s), NEW l \in 1 .. Len(s),
         RemoveAt(s, k) = RemoveAt(s, l)
  PROVE  s[k] = s[l]
<1>1. k <= l \/ l <= k
  BY LenProperties
<1> QED
  BY <1>1, RemovedFrom

\* A transaction of the page that is executed keeps the coins and pays the makers.
LEMMA RunTx ==
  ASSUME NEW m, MarketOK(m), NEW tx \in TxType, Run(m, tx).ok
  PROVE  /\ Keeps(m, Run(m, tx).m)
         /\ \A a \in Accounts \ {You} : Paid(m, Run(m, tx).m, a)
<1> DEFINE n == Run(m, tx).m
<1>0. You \in Accounts
  BY MarketPageAssumption
<1>1. CASE tx \in [kind : {"buy", "sell"}, legs : Seq(LegType)]
  <2>1. tx.kind \in {"buy", "sell"} /\ tx.legs \in Seq(LegType)
    BY <1>1
  <2>2. Run(m, tx) = RunLegs(m, tx.kind, tx.legs)
    BY <2>1 DEF Run
  <2>3. RanTo(m, n, tx.kind, tx.legs, Len(tx.legs))
    BY <2>1, <2>2, RunEffect
  <2> HIDE DEF n
  <2>4. PICK U : Filled(m, n, U, You)
    BY <2>3 DEF RanTo
  <2>5. Keeps(m, n) /\ \A a \in Accounts \ {You} : Paid(m, n, a)
    BY <2>4, FillsPay DEF Filled
  <2> QED
    BY <2>5 DEF n
<1>2. ASSUME NEW r, Keeps(m, r), TakesNothing(m, r, You)
      PROVE  \A a \in Accounts \ {You} : Paid(m, r, a)
  BY <1>2, NothingOwed DEF Keeps
<1>3. CASE tx \in [kind : {"bid", "ask"}, price : Nat \ {0}, amount : Nat]
  <2>1. tx.kind \in {"bid", "ask"} /\ tx.price \in Nat /\ tx.amount \in Nat
    BY <1>3
  <2>2. CASE tx.kind = "bid"
    <3>1. Run(m, tx) = [ok |-> CanPlaceBuy(m, You, tx.price, tx.amount),
                        m |-> PlaceBuy(m, You, tx.price, tx.amount, 0)]
      BY <2>2 DEF Run
    <3>2. CanPlaceBuy(m, You, tx.price, tx.amount) /\ n = PlaceBuy(m, You, tx.price, tx.amount, 0)
      BY <3>1
    <3> HIDE DEF n
    <3>3. Keeps(m, n) /\ TakesNothing(m, n, You)
      BY <1>0, <2>1, <3>2, PlaceBuyEffect
    <3> QED
      BY <1>2, <3>3 DEF n
  <2>3. CASE tx.kind = "ask"
    <3>1. Run(m, tx) = [ok |-> CanPlaceSell(m, You, tx.price, tx.amount),
                        m |-> PlaceSell(m, You, tx.price, tx.amount, 0)]
      BY <2>3 DEF Run
    <3>2. CanPlaceSell(m, You, tx.price, tx.amount) /\ n = PlaceSell(m, You, tx.price, tx.amount, 0)
      BY <3>1
    <3> HIDE DEF n
    <3>3. Keeps(m, n) /\ TakesNothing(m, n, You)
      BY <1>0, <2>1, <3>2, PlaceSellEffect
    <3> QED
      BY <1>2, <3>3 DEF n
  <2> QED
    BY <2>1, <2>2, <2>3
<1>4. CASE tx \in [kind : {"cancel"}, id : OrderIds]
  <2>1. tx.kind = "cancel"
    BY <1>4
  <2>2. Run(m, tx) = IF CanCancel(m, tx.id, You) THEN [ok |-> TRUE, m |-> Closed(m, tx.id)]
                     ELSE [ok |-> FALSE, m |-> m]
    BY <2>1 DEF Run
  <2>3. CanCancel(m, tx.id, You) /\ n = Closed(m, tx.id)
    BY <2>2
  <2> HIDE DEF n
  <2>4. tx.id \in Live(m)
    BY <2>3 DEF CanCancel
  <2>5. Keeps(m, n) /\ TakesNothing(m, n, You)
    BY <2>3, <2>4, ClosedEffect
  <2> QED
    BY <1>2, <2>5 DEF n
<1> QED
  BY <1>1, <1>3, <1>4 DEF TxType

\* So does a transaction of anyone else, as far as the account is concerned.
LEMMA ScriptStep ==
  ASSUME MarketOK(market), Script
  PROVE  Keeps(market, market') /\ Paid(market, market', You)
<1>0. You \in Accounts /\ Prices \subseteq Nat \ {0} /\ Expiries \subseteq Nat
  BY MarketPageAssumption, ShareMarketAssumption
<1>1. PICK m, n : m = market /\ n = market'
  OBVIOUS
<1>2. MarketOK(m)
  BY <1>1
<1>3. ASSUME NEW who, who # You, Keeps(m, n), TakesNothing(m, n, who)
      PROVE  Keeps(market, market') /\ Paid(market, market', You)
  <2>1. MarketOK(n) /\ You \in Accounts \ {who}
    BY <1>0, <1>3 DEF Keeps
  <2>2. Paid(m, n, You)
    BY <1>2, <1>3, <2>1, NothingOwed
  <2> QED
    BY <1>1, <1>3, <2>2
<1>4. CASE NextEpoch
  <2>1. m.epoch < MaxEpoch /\ n = [m EXCEPT !.epoch = @ + 1]
    BY <1>1, <1>4 DEF NextEpoch
  <2>2. PICK who : who # You
    <3>1. TRUE # You \/ FALSE # You
      OBVIOUS
    <3> QED
      BY <3>1
  <2>3. Keeps(m, n) /\ TakesNothing(m, n, who)
    BY <1>2, <2>1, EpochEffect
  <2> QED
    BY <1>3, <2>2, <2>3
<1>5. ASSUME NEW who \in Accounts \ {You}, MayPlace(who)
      PROVE  Keeps(market, market') /\ Paid(market, market', You)
  <2>1. PICK price \in Prices, x \in 1 .. MaxAmount, exp \in Expiries :
             \/ CanPlaceBuy(m, who, price, x) /\ n = PlaceBuy(m, who, price, x, exp)
             \/ CanPlaceSell(m, who, price, x) /\ n = PlaceSell(m, who, price, x, exp)
    BY <1>1, <1>5 DEF MayPlace
  <2>2. price \in Nat /\ x \in Nat /\ exp \in Nat /\ who \in Accounts /\ who # You
    BY <1>0
  <2>3. Keeps(m, n) /\ TakesNothing(m, n, who)
    BY <1>2, <2>1, <2>2, PlaceBuyEffect, PlaceSellEffect
  <2> QED
    BY <1>3, <2>2, <2>3
<1>6. ASSUME NEW who \in Accounts \ {You}, MayManage(who)
      PROVE  Keeps(market, market') /\ Paid(market, market', You)
  <2>1. PICK i \in Live(m) :
             \/ \E price \in Prices : CanUpdatePrice(m, i, who, price) /\ n = UpdatePrice(m, i, price)
             \/ CanTopUp(m, i, who, 1) /\ n = TopUp(m, i, who, 1)
             \/ n = Closed(m, i)
    BY <1>1, <1>6 DEF MayManage, Live
  <2>2. who \in Accounts /\ who # You /\ 1 \in Nat
    OBVIOUS
  <2>3. ASSUME NEW price \in Prices, n = UpdatePrice(m, i, price)
        PROVE  Keeps(m, n) /\ TakesNothing(m, n, who)
    <3>1. price \in Nat /\ price > 0
      BY <1>0
    <3> QED
      BY <1>2, <2>3, <3>1, UpdatePriceEffect, UpdatePriceTakesNothing
  <2>4. ASSUME CanTopUp(m, i, who, 1), n = TopUp(m, i, who, 1)
        PROVE  Keeps(m, n) /\ TakesNothing(m, n, who)
    BY <1>2, <2>2, <2>4, TopUpEffect
  <2>5. ASSUME n = Closed(m, i)
        PROVE  Keeps(m, n) /\ TakesNothing(m, n, who)
    BY <1>2, <2>5, ClosedEffect
  <2>6. Keeps(m, n) /\ TakesNothing(m, n, who)
    BY <2>1, <2>3, <2>4, <2>5
  <2> QED
    BY <1>3, <2>2, <2>6
<1>7. ASSUME NEW who \in Accounts \ {You}, MayFill(who)
      PROVE  Keeps(market, market') /\ Paid(market, market', You)
  <2>1. PICK i \in Live(m), x \in 1 .. MaxAmount :
             \/ CanFillBuy(m, i, who, x) /\ n = FillBuy(m, i, who, x)
             \/ \E payment \in {x * m.orders[i].price, m.quote[who]} :
                  CanFillSell(m, i, who, payment, x) /\ n = FillSell(m, i, who, payment, x)
    BY <1>1, <1>7 DEF MayFill, Live
  <2>2. x \in Nat /\ x > 0 /\ who \in Accounts /\ You \in Accounts \ {who}
    BY <1>0
  <2>3. \A payment \in {x * m.orders[i].price, m.quote[who]} : payment \in Nat
    <3>1. m.orders[i].price \in Nat /\ m.quote[who] \in Nat
      BY <1>2, MarketFacts
    <3> QED
      BY <2>2, <3>1, ProductType
  <2>4. FilledOnce(m, n, i, x, who)
    BY <1>2, <2>1, <2>2, <2>3, FillBuyOnce, FillSellOnce
  <2> DEFINE U == [j \in Live(m) |-> 0]
             V == [U EXCEPT ![i] = @ + x]
  <2>5. Filled(m, m, U, who)
    BY <1>2, FilledNothing
  <2> HIDE DEF U
  <2>6. Filled(m, n, V, who)
    BY <1>2, <2>2, <2>4, <2>5, FillStep
  <2> HIDE DEF V
  <2>7. Paid(m, n, You) /\ Keeps(m, n)
    BY <1>2, <2>2, <2>6, FillsPay DEF Filled
  <2> QED
    BY <1>1, <2>7
<1> QED
  BY <1>4, <1>5, <1>6, <1>7 DEF Script

-----------------------------------------------------------------------------
(* The page's lists of orders: every order on the page, once, best first.  *)

LEMMA OnPageFacts ==
  ASSUME NEW m, MarketOK(m), NEW side
  PROVE  /\ IsFiniteSet(OnPage(m, side)) /\ Cardinality(OnPage(m, side)) \in Nat
         /\ \A i \in OnPage(m, side) : i \in Live(m) /\ i \in OrderIds /\ m.orders[i].side = side
<1>1. OnPage(m, side) \subseteq Live(m)
  BY DEF OnPage
<1>2. IsFiniteSet(OnPage(m, side))
  BY <1>1, OrdersOfFacts, FS_Subset
<1>3. \A i \in OnPage(m, side) : m.placed[i] = side
  BY DEF OnPage, NewestEvents
<1> QED
  BY <1>1, <1>2, <1>3, MarketFacts, FS_CardinalityType

\* The order of a list is strict and total.
LEMMA BookOrder ==
  ASSUME NEW m, MarketOK(m), NEW side, NEW i \in Live(m), NEW j \in Live(m), NEW k \in Live(m)
  PROVE  /\ ~BookBefore(m, side, i, i)
         /\ BookBefore(m, side, i, j) /\ BookBefore(m, side, j, k) => BookBefore(m, side, i, k)
         /\ i # j => BookBefore(m, side, i, j) \/ BookBefore(m, side, j, i)
<1>1. /\ i \in Nat /\ j \in Nat /\ k \in Nat
      /\ m.orders[i].price \in Nat /\ m.orders[j].price \in Nat /\ m.orders[k].price \in Nat
  BY MarketFacts, ShareMarketAssumption DEF OrderIds
<1> QED
  BY <1>1 DEF BookBefore, BidBefore, AskBefore

LEMMA RankLess ==
  ASSUME NEW m, MarketOK(m), NEW side, NEW i \in OnPage(m, side), NEW j \in OnPage(m, side),
         BookBefore(m, side, i, j)
  PROVE  Rank(m, side, i) < Rank(m, side, j)
<1> DEFINE S == OnPage(m, side)
           A == {k \in S : BookBefore(m, side, k, i)}
           B == {k \in S : BookBefore(m, side, k, j)}
<1>1. IsFiniteSet(S) /\ \A k \in S : k \in Live(m)
  BY OnPageFacts
<1>2. \A k \in S : BookBefore(m, side, k, i) => BookBefore(m, side, k, j)
  BY <1>1, BookOrder
<1>3. ~BookBefore(m, side, i, i)
  BY <1>1, BookOrder
<1>4. i \in B /\ i \notin A /\ A \subseteq B
  BY <1>2, <1>3
<1>5. IsFiniteSet(B)
  <2>1. B \in SUBSET S
    OBVIOUS
  <2> QED
    BY <1>1, <2>1, FS_Subset
<1>6. Rank(m, side, i) = Cardinality(A) /\ Rank(m, side, j) = Cardinality(B)
  BY DEF Rank
<1> HIDE DEF A, B, S
<1>7. /\ IsFiniteSet(A) /\ Cardinality(A) <= Cardinality(B)
      /\ Cardinality(A) = Cardinality(B) => A = B
  BY <1>4, <1>5, FS_Subset
<1>8. Cardinality(A) \in Nat /\ Cardinality(B) \in Nat
  BY <1>5, <1>7, FS_CardinalityType
<1> QED
  BY <1>4, <1>6, <1>7, <1>8

\* Each place of the list is taken by exactly one order.
LEMMA RankOnto ==
  ASSUME NEW m, MarketOK(m), NEW side, NEW k \in 1 .. Cardinality(OnPage(m, side))
  PROVE  \E i \in OnPage(m, side) : Rank(m, side, i) = k - 1
<1> DEFINE S == OnPage(m, side)
           n == Cardinality(S)
           T == 0 .. n - 1
           f == [i \in S |-> Rank(m, side, i)]
<1>1. IsFiniteSet(S) /\ n \in Nat /\ \A i \in S : i \in Live(m)
  BY OnPageFacts
<1>2. ASSUME NEW i \in S PROVE Rank(m, side, i) \in T
  <2> DEFINE A == {j \in S : BookBefore(m, side, j, i)}
  <2>1. ~BookBefore(m, side, i, i)
    BY <1>1, BookOrder
  <2>2. A \in SUBSET (S \ {i})
    BY <2>1
  <2>3. IsFiniteSet(S \ {i}) /\ Cardinality(S \ {i}) = n - 1
    BY <1>1, FS_RemoveElement
  <2>4. Rank(m, side, i) = Cardinality(A)
    BY DEF Rank
  <2> HIDE DEF A, S
  <2>5. IsFiniteSet(A) /\ Cardinality(A) <= n - 1
    BY <2>2, <2>3, FS_Subset
  <2>6. Cardinality(A) \in Nat
    BY <2>5, FS_CardinalityType
  <2> QED
    BY <1>1, <2>4, <2>5, <2>6
<1>3. ASSUME NEW i \in S, NEW j \in S, i # j PROVE Rank(m, side, i) # Rank(m, side, j)
  <2>1. BookBefore(m, side, i, j) \/ BookBefore(m, side, j, i)
    BY <1>1, <1>3, BookOrder
  <2>2. Rank(m, side, i) < Rank(m, side, j) \/ Rank(m, side, j) < Rank(m, side, i)
    BY <2>1, RankLess
  <2> QED
    BY <1>1, <1>2, <2>2
<1>4. f \in [S -> T] /\ \A i, j \in S : f[i] = f[j] => i = j
  BY <1>2, <1>3
<1> HIDE DEF f
<1>5. f \in Injection(S, T)
  BY <1>4 DEF Injection, IsInjective
<1>6. IsFiniteSet(T) /\ Cardinality(T) = n
  <2>1. PICK x \in Nat : x = n
    BY <1>1
  <2>2. 0 \in Int /\ x - 1 \in Int
    OBVIOUS
  <2>3. IsFiniteSet(0 .. x - 1) /\ Cardinality(0 .. x - 1) = x
    BY <2>2, FS_Interval
  <2> QED
    BY <2>1, <2>3
<1> HIDE DEF S, T
<1>7. f \in Surjection(S, T)
  BY <1>5, <1>6, FS_Injection DEF n
<1>8. k - 1 \in T
  BY <1>1 DEF S, T
<1>9. PICK i \in S : f[i] = k - 1
  BY <1>7, <1>8 DEF Surjection
<1> QED
  BY <1>9 DEF f, S

\* The list of a side.
LEMMA EntriesFacts ==
  ASSUME NEW m, MarketOK(m), NEW side
  PROVE  /\ Entries(m, side) \in Seq(EntryType)
         /\ Len(Entries(m, side)) = Cardinality(OnPage(m, side))
         /\ \A k \in 1 .. Len(Entries(m, side)) :
              \E i \in OnPage(m, side) : /\ Entries(m, side)[k] = Entry(m, i)
                                         /\ Rank(m, side, i) = k - 1
<1> DEFINE n == Cardinality(OnPage(m, side))
           pick(k) == CHOOSE i \in OnPage(m, side) : Rank(m, side, i) = k - 1
           es == Entries(m, side)
<1>1. n \in Nat
  BY OnPageFacts
<1>2. \A k \in 1 .. n : pick(k) \in OnPage(m, side) /\ Rank(m, side, pick(k)) = k - 1
  BY RankOnto
<1>3. es = [k \in 1 .. n |-> Entry(m, pick(k))]
  BY DEF Entries
<1> HIDE DEF pick, n, es
<1>4. ASSUME NEW i \in OnPage(m, side) PROVE Entry(m, i) \in EntryType
  <2> DEFINE o == m.orders[i]
  <2>1. i \in Live(m) /\ i \in OrderIds
    BY OnPageFacts
  <2>2. /\ o.owner \in Accounts /\ o.price \in Nat /\ o.price > 0 /\ o.exp \in Nat /\ o.rem \in Nat
    BY <2>1, MarketFacts
  <2>3. o.rem \div o.price \in Nat
    BY <2>2, DivFacts
  <2> QED
    BY <2>1, <2>2, <2>3 DEF Entry, EntryType
<1>5. \A k \in 1 .. n : Entry(m, pick(k)) \in EntryType
  BY <1>2, <1>4
<1>6. es \in [1 .. n -> EntryType]
  BY <1>3, <1>5
<1>7. es \in Seq(EntryType) /\ Len(es) = n
  BY <1>1, <1>6
<1>8. \A k \in 1 .. n : \E i \in OnPage(m, side) : es[k] = Entry(m, i) /\ Rank(m, side, i) = k - 1
  BY <1>2, <1>3
<1> QED
  BY <1>7, <1>8 DEF es, n

\* Its entries are of different orders, and no later entry has a better price.
LEMMA EntriesSorted ==
  ASSUME NEW m, MarketOK(m), NEW side, NEW k \in 1 .. Len(Entries(m, side)),
         NEW l \in 1 .. Len(Entries(m, side)), k < l
  PROVE  /\ Entries(m, side)[k].id # Entries(m, side)[l].id
         /\ IF side = "bid" THEN Entries(m, side)[k].price >= Entries(m, side)[l].price
                            ELSE Entries(m, side)[k].price <= Entries(m, side)[l].price
<1> DEFINE es == Entries(m, side)
<1>1. Len(es) \in Nat
  BY EntriesFacts, OnPageFacts
<1>2. PICK i \in OnPage(m, side) : es[k] = Entry(m, i) /\ Rank(m, side, i) = k - 1
  BY EntriesFacts
<1>3. PICK j \in OnPage(m, side) : es[l] = Entry(m, j) /\ Rank(m, side, j) = l - 1
  BY EntriesFacts
<1> HIDE DEF es
<1>4. i # j
  BY <1>1, <1>2, <1>3
<1>5. i \in Live(m) /\ j \in Live(m)
  BY OnPageFacts
<1>6. ~BookBefore(m, side, j, i)
  <2>1. BookBefore(m, side, j, i) => l - 1 < k - 1
    BY <1>2, <1>3, RankLess
  <2> QED
    BY <1>1, <2>1
<1>7. BookBefore(m, side, i, j)
  BY <1>4, <1>5, <1>6, BookOrder
<1>8. /\ es[k].id = i /\ es[k].price = m.orders[i].price
      /\ es[l].id = j /\ es[l].price = m.orders[j].price
  BY <1>2, <1>3 DEF Entry
<1>9. m.orders[i].price \in Nat /\ m.orders[j].price \in Nat
  BY <1>5, MarketFacts
<1>10. IF side = "bid" THEN m.orders[i].price >= m.orders[j].price
                       ELSE m.orders[i].price <= m.orders[j].price
  BY <1>7, <1>9 DEF BookBefore, BidBefore, AskBefore
<1> QED
  BY <1>4, <1>8, <1>10 DEF es

-----------------------------------------------------------------------------
(* Walking the book.                                                       *)

LEMMA MinOfTwo ==
  ASSUME NEW a \in Nat, NEW b \in Nat
  PROVE  Min({a, b}) = IF a <= b THEN a ELSE b
<1> DEFINE x == IF a <= b THEN a ELSE b
<1>1. x \in {a, b} /\ \A y \in {a, b} : x <= y
  OBVIOUS
<1>2. \A z \in {a, b} : (\A y \in {a, b} : z <= y) => z = x
  OBVIOUS
<1> QED
  BY <1>1, <1>2 DEF Min

LEMMA ReachType ==
  ASSUME NEW entries \in Seq(EntryType)
  PROVE  Len(entries) \in Nat /\ Reach(entries) \in Nat /\ Reach(entries) <= Len(entries)
<1>1. Len(entries) \in Nat /\ MaxLegs \in Nat
  BY LenProperties, MarketPageAssumption
<1> QED
  BY <1>1, MinOfTwo DEF Reach

\* f is the sequence of states of the walk over the first n entries.
WalkTo(f, side, pay, entries, n) ==
  f = [k \in 0 .. n |-> IF k = 0 THEN [legs |-> << >>, left |-> pay]
                        ELSE TakeEntry(side, f[k - 1], entries[k])]

LEMMA WalkExists ==
  ASSUME NEW side, NEW pay, NEW entries
  PROVE  \A n \in Nat : \E f : WalkTo(f, side, pay, entries, n)
<1> DEFINE S == {n \in Nat : \E f : WalkTo(f, side, pay, entries, n)}
           start == [legs |-> << >>, left |-> pay]
<1>1. 0 \in S
  <2> DEFINE f == [k \in 0 .. 0 |-> start]
  <2>1. WalkTo(f, side, pay, entries, 0)
    BY DEF WalkTo
  <2> QED
    BY <2>1
<1>2. ASSUME NEW n \in Nat, n \in S PROVE n + 1 \in S
  <2>1. PICK f : WalkTo(f, side, pay, entries, n)
    BY <1>2
  <2> DEFINE g == [k \in 0 .. n + 1 |-> IF k = n + 1 THEN TakeEntry(side, f[n], entries[n + 1])
                                        ELSE f[k]]
  <2>2. \A k \in 0 .. n : f[k] = IF k = 0 THEN start ELSE TakeEntry(side, f[k - 1], entries[k])
    BY <2>1 DEF WalkTo
  <2>3. \A k \in 0 .. n + 1 : g[k] = IF k = 0 THEN start ELSE TakeEntry(side, g[k - 1], entries[k])
    <3>1. g[n + 1] = TakeEntry(side, f[n], entries[n + 1]) /\ \A k \in 0 .. n : g[k] = f[k]
      OBVIOUS
    <3> HIDE DEF g, start
    <3>2. n + 1 # 0 /\ f[n] = g[n + 1 - 1]
      BY <3>1
    <3>3. g[n + 1] = TakeEntry(side, g[n + 1 - 1], entries[n + 1])
      BY <3>1, <3>2
    <3>4. ASSUME NEW k \in 0 .. n
          PROVE  g[k] = IF k = 0 THEN start ELSE TakeEntry(side, g[k - 1], entries[k])
      <4>1. g[k] = f[k] /\ (k # 0 => g[k - 1] = f[k - 1])
        BY <3>1
      <4> QED
        BY <2>2, <4>1
    <3>5. \A k \in 0 .. n + 1 : k \in 0 .. n \/ k = n + 1
      OBVIOUS
    <3> QED
      BY <3>2, <3>3, <3>4, <3>5
  <2>4. g = [k \in 0 .. n + 1 |-> g[k]]
    OBVIOUS
  <2> HIDE DEF g
  <2>5. WalkTo(g, side, pay, entries, n + 1)
    BY <2>3, <2>4 DEF WalkTo
  <2> QED
    BY <2>5
<1> HIDE DEF S
<1>3. Nat \subseteq S
  BY <1>1, <1>2, SetInduction
<1> QED
  BY <1>3 DEF S

LEMMA WalkUnfolds ==
  ASSUME NEW side, NEW pay, NEW entries, Reach(entries) \in Nat
  PROVE  \E f : /\ Walk(side, pay, entries) = f[Reach(entries)].legs
                /\ f[0].legs = << >> /\ f[0].left = pay
                /\ \A k \in 1 .. Reach(entries) : f[k] = TakeEntry(side, f[k - 1], entries[k])
<1> DEFINE f == CHOOSE g : WalkTo(g, side, pay, entries, Reach(entries))
           start == [legs |-> << >>, left |-> pay]
<1>1. WalkTo(f, side, pay, entries, Reach(entries))
  BY WalkExists
<1>2. Walk(side, pay, entries) = f[Reach(entries)].legs
  BY DEF Walk, WalkTo
<1> HIDE DEF f
<1>3. \A k \in 0 .. Reach(entries) :
        f[k] = IF k = 0 THEN start ELSE TakeEntry(side, f[k - 1], entries[k])
  BY <1>1 DEF WalkTo
<1>4. f[0].legs = << >> /\ f[0].left = pay
  <2>1. 0 \in 0 .. Reach(entries) /\ 0 = 0
    OBVIOUS
  <2>2. start.legs = << >> /\ start.left = pay
    OBVIOUS
  <2> HIDE DEF start
  <2>3. f[0] = start
    BY <1>3, <2>1, Zenon
  <2> QED
    BY <2>2, <2>3
<1>5. \A k \in 1 .. Reach(entries) : f[k] = TakeEntry(side, f[k - 1], entries[k])
  <2>1. \A k \in 1 .. Reach(entries) : k \in 0 .. Reach(entries) /\ k # 0
    OBVIOUS
  <2> HIDE DEF start
  <2> QED
    BY <1>3, <2>1
<1> WITNESS f
<1> QED
  BY <1>2, <1>4, <1>5

\* The sums of the legs when one is added.
LEMMA AppendLeg ==
  ASSUME NEW legs \in Seq(LegType), NEW leg \in LegType
  PROVE  /\ Append(legs, leg) \in Seq(LegType) /\ Len(Append(legs, leg)) = Len(legs) + 1
         /\ Append(legs, leg)[Len(legs) + 1] = leg
         /\ \A l \in 1 .. Len(legs) : Append(legs, leg)[l] = legs[l]
         /\ TotalUnits(Append(legs, leg)) = TotalUnits(legs) + leg.units
         /\ TotalGross(Append(legs, leg)) = TotalGross(legs) + leg.gross
<1> DEFINE n == Len(legs)
           s == Append(legs, leg)
<1>1. /\ n \in Nat /\ s \in Seq(LegType) /\ Len(s) = n + 1 /\ s[n + 1] = leg
      /\ \A l \in 1 .. n : s[l] = legs[l]
  BY LenProperties, AppendProperties
<1> HIDE DEF s
<1> DEFINE f == [j \in DOMAIN legs |-> legs[j].units]
           g == [j \in DOMAIN s |-> s[j].units]
           p == [j \in DOMAIN legs |-> legs[j].gross]
           q == [j \in DOMAIN s |-> s[j].gross]
<1>2. /\ DOMAIN legs = 1 .. n /\ DOMAIN s = (1 .. n) \cup {n + 1} /\ n + 1 \notin 1 .. n
      /\ IsFiniteSet(1 .. n)
  <2>1. DOMAIN legs = 1 .. n /\ DOMAIN s = 1 .. n + 1
    BY <1>1, LenProperties
  <2>2. IsFiniteSet(1 .. n)
    BY <1>1, FS_Interval
  <2>3. 1 .. n + 1 = (1 .. n) \cup {n + 1} /\ n + 1 \notin 1 .. n
    BY <1>1
  <2> QED
    BY <2>1, <2>2, <2>3
<1>3. /\ \A j \in 1 .. n : /\ f[j] \in Nat /\ g[j] = f[j]
                           /\ p[j] \in Nat /\ q[j] = p[j]
      /\ g[n + 1] \in Nat /\ q[n + 1] \in Nat /\ g[n + 1] = leg.units /\ q[n + 1] = leg.gross
  <2>1. leg.units \in Nat /\ leg.gross \in Nat
    BY DEF LegType
  <2>2. \A j \in 1 .. n : legs[j].units \in Nat /\ legs[j].gross \in Nat
    BY LegSums
  <2> QED
    BY <1>1, <1>2, <2>1, <2>2
<1>4. /\ TotalUnits(legs) = SumOver(1 .. n, f) /\ TotalUnits(s) = SumOver((1 .. n) \cup {n + 1}, g)
      /\ TotalGross(legs) = SumOver(1 .. n, p) /\ TotalGross(s) = SumOver((1 .. n) \cup {n + 1}, q)
  BY <1>2 DEF TotalUnits, TotalGross
<1> HIDE DEF f, g, p, q, n
<1> DEFINE S == 1 .. n
           y == n + 1
<1>5. IsFiniteSet(S) /\ y \notin S
  BY <1>2
<1>6. SumOver(S \cup {y}, g) = SumOver(S, f) + g[y]
  <2>1. (\A z \in S : f[z] \in Nat /\ g[z] = f[z]) /\ g[y] \in Nat
    BY <1>3
  <2> HIDE DEF S, y
  <2> QED
    BY <1>5, <2>1, SumInsert
<1>7. SumOver(S \cup {y}, q) = SumOver(S, p) + q[y]
  <2>1. (\A z \in S : p[z] \in Nat /\ q[z] = p[z]) /\ q[y] \in Nat
    BY <1>3
  <2> HIDE DEF S, y
  <2> QED
    BY <1>5, <2>1, SumInsert
<1> QED
  BY <1>1, <1>3, <1>4, <1>6, <1>7 DEF s, n, S, y

\* What holds after k entries: the legs are of ascending entries, at the entries' prices
\* and within their units; what they do not spend is left; and no entry has room for it.
LegOf(leg, e) == leg.id = e.id /\ leg.units <= e.maxUnits /\ leg.gross = leg.units * e.price
Climbs(legs, entries, k, h) ==
  /\ h \in [1 .. Len(legs) -> 1 .. k]
  /\ \A l \in 1 .. Len(legs) : LegOf(legs[l], entries[h[l]])
  /\ \A l \in 1 .. Len(legs) : \A j \in 1 .. l - 1 : h[j] < h[l]
UsedUp(side, legs, left, e) ==
  \/ e.maxUnits = 0 \/ left = 0 \/ (side = "buy" /\ left < e.price)
  \/ \E l \in 1 .. Len(legs) : legs[l].id = e.id /\ legs[l].units = e.maxUnits
Spent(side, legs) == IF side = "buy" THEN TotalGross(legs) ELSE TotalUnits(legs)
WalkOK(side, pay, entries, legs, left, k) ==
  /\ legs \in Seq(LegType) /\ left \in Nat /\ left + Spent(side, legs) = pay
  /\ \E h : Climbs(legs, entries, k, h)
  /\ \A j \in 1 .. k : UsedUp(side, legs, left, entries[j])

LEMMA WalkStart ==
  ASSUME NEW side, NEW pay \in Nat, NEW entries
  PROVE  WalkOK(side, pay, entries, << >>, pay, 0)
<1> DEFINE legs == << >>
<1>1. legs \in Seq(LegType) /\ Len(legs) = 0
  OBVIOUS
<1> HIDE DEF legs
<1>2. TotalUnits(legs) = 0 /\ TotalGross(legs) = 0
  BY <1>1, LegSums
<1>3. \E h : Climbs(legs, entries, 0, h)
  <2> DEFINE h == [l \in 1 .. 0 |-> l]
  <2>1. 1 .. 0 = {}
    OBVIOUS
  <2>2. h \in [1 .. 0 -> 1 .. 0]
    OBVIOUS
  <2> HIDE DEF h
  <2>3. Climbs(legs, entries, 0, h)
    BY <1>1, <2>1, <2>2 DEF Climbs
  <2> QED
    BY <2>3
<1>4. pay + Spent(side, legs) = pay
  BY <1>2 DEF Spent
<1>5. \A j \in 1 .. 0 : UsedUp(side, legs, pay, entries[j])
  OBVIOUS
<1>6. WalkOK(side, pay, entries, legs, pay, 0)
  BY <1>1, <1>3, <1>4, <1>5 DEF WalkOK
<1> QED
  BY <1>6 DEF legs

\* An entry stays used up when more is spent and legs are added.
LEMMA StaysUsedUp ==
  ASSUME NEW side, NEW legs \in Seq(LegType), NEW leg \in LegType, NEW left \in Nat,
         NEW rest \in Nat, rest <= left, NEW e \in EntryType, UsedUp(side, legs, left, e)
  PROVE  UsedUp(side, Append(legs, leg), rest, e)
<1> DEFINE s == Append(legs, leg)
<1>1. Len(s) = Len(legs) + 1 /\ Len(legs) \in Nat /\ \A l \in 1 .. Len(legs) : s[l] = legs[l]
  BY AppendLeg, LegSums
<1>2. e.price \in Nat
  BY DEF EntryType
<1> HIDE DEF s
<1>3. CASE \E l \in 1 .. Len(legs) : legs[l].id = e.id /\ legs[l].units = e.maxUnits
  <2>1. PICK l \in 1 .. Len(legs) : legs[l].id = e.id /\ legs[l].units = e.maxUnits
    BY <1>3
  <2>2. l \in 1 .. Len(s) /\ s[l].id = e.id /\ s[l].units = e.maxUnits
    BY <1>1, <2>1
  <2>3. UsedUp(side, s, rest, e)
    BY <2>2 DEF UsedUp
  <2> QED
    BY <2>3 DEF s
<1>4. CASE e.maxUnits = 0 \/ left = 0 \/ (side = "buy" /\ left < e.price)
  <2>1. e.maxUnits = 0 \/ rest = 0 \/ (side = "buy" /\ rest < e.price)
    BY <1>2, <1>4
  <2> QED
    BY <2>1 DEF UsedUp
<1> QED
  BY <1>3, <1>4 DEF UsedUp

LEMMA ClimbsOn ==
  ASSUME NEW legs \in Seq(LegType), NEW leg \in LegType, NEW entries, NEW k \in Nat, k > 0,
         NEW h, Climbs(legs, entries, k - 1, h), LegOf(leg, entries[k])
  PROVE  \E g : Climbs(Append(legs, leg), entries, k, g)
<1> DEFINE s == Append(legs, leg)
           n == Len(legs)
           g == [l \in 1 .. n + 1 |-> IF l = n + 1 THEN k ELSE h[l]]
<1>1. /\ Len(s) = n + 1 /\ n \in Nat /\ s[n + 1] = leg
      /\ \A l \in 1 .. n : s[l] = legs[l]
  BY AppendLeg, LegSums
<1>2. /\ h \in [1 .. n -> 1 .. k - 1] /\ (\A l \in 1 .. n : LegOf(legs[l], entries[h[l]]))
      /\ \A l \in 1 .. n : \A j \in 1 .. l - 1 : h[j] < h[l]
  BY DEF Climbs
<1> HIDE DEF s, n
<1>3. /\ g[n + 1] = k /\ (\A l \in 1 .. n : g[l] = h[l] /\ g[l] \in 1 .. k - 1)
      /\ g = [l \in 1 .. n + 1 |-> g[l]]
  BY <1>1, <1>2
<1> HIDE DEF g
<1>4. \A l \in 1 .. n + 1 : l = n + 1 \/ l \in 1 .. n
  BY <1>1
<1>5. ASSUME NEW l \in 1 .. n + 1 PROVE g[l] \in 1 .. k
  <2>1. g[l] = k \/ g[l] \in 1 .. k - 1
    BY <1>3, <1>4
  <2> QED
    BY <2>1
<1>6. g \in [1 .. n + 1 -> 1 .. k]
  BY <1>3, <1>5
<1>7. \A l \in 1 .. n + 1 : LegOf(s[l], entries[g[l]])
  BY <1>1, <1>2, <1>3, <1>4
<1>8. ASSUME NEW l \in 1 .. n + 1, NEW j \in 1 .. l - 1 PROVE g[j] < g[l]
  <2>1. j \in 1 .. n
    BY <1>1
  <2>2. CASE l = n + 1
    <3>1. g[l] = k /\ g[j] \in 1 .. k - 1
      BY <1>3, <2>1, <2>2
    <3> QED
      BY <3>1
  <2>3. CASE l \in 1 .. n
    BY <1>2, <1>3, <2>1, <2>3
  <2> QED
    BY <1>4, <2>2, <2>3
<1>9. Climbs(s, entries, k, g)
  BY <1>1, <1>6, <1>7, <1>8 DEF Climbs
<1> QED
  BY <1>9 DEF s

LEMMA WalkStep ==
  ASSUME NEW side \in {"buy", "sell"}, NEW pay \in Nat, NEW entries \in Seq(EntryType),
         NEW k \in 1 .. Len(entries), NEW acc,
         WalkOK(side, pay, entries, acc.legs, acc.left, k - 1)
  PROVE  LET next == TakeEntry(side, acc, entries[k])
         IN  WalkOK(side, pay, entries, next.legs, next.left, k)
<1> DEFINE e == entries[k]
           legs == acc.legs
           left == acc.left
           can == IF side = "buy" THEN left \div e.price ELSE left
           units == Min({can, e.maxUnits})
           gross == units * e.price
           cost == IF side = "buy" THEN gross ELSE units
           next == TakeEntry(side, acc, e)
<1>1. Len(entries) \in Nat /\ e \in EntryType
  BY LenProperties, ElementOfSeq
<1>2. /\ e.id \in OrderIds /\ e.price \in Nat /\ e.price > 0 /\ e.maxUnits \in Nat
      /\ \A j \in 1 .. k : entries[j] \in EntryType
  <2>1. \A j \in 1 .. k : entries[j] \in EntryType
    BY <1>1, ElementOfSeq
  <2> HIDE DEF e
  <2>2. e.id \in OrderIds /\ e.price \in Nat /\ e.price > 0 /\ e.maxUnits \in Nat
    BY <1>1 DEF EntryType
  <2> QED
    BY <2>1, <2>2
<1>3. /\ legs \in Seq(LegType) /\ left \in Nat /\ left + Spent(side, legs) = pay
      /\ (\E h : Climbs(legs, entries, k - 1, h))
      /\ \A j \in 1 .. k - 1 : UsedUp(side, legs, left, entries[j])
  BY DEF WalkOK
<1>4. can \in Nat
  BY <1>2, <1>3, DivFacts
<1>5. next = IF units = 0 THEN acc
             ELSE [legs |-> Append(legs, [id |-> e.id, units |-> units, gross |-> gross]),
                   left |-> left - cost]
  BY DEF TakeEntry
<1> HIDE DEF next, legs, left, e
<1>6. units = IF can <= e.maxUnits THEN can ELSE e.maxUnits
  BY <1>2, <1>4, MinOfTwo
<1>7. units \in Nat /\ units <= e.maxUnits /\ units <= can /\ (units = can \/ units = e.maxUnits)
  BY <1>2, <1>4, <1>6
<1> HIDE DEF units
<1>8. gross \in Nat
  BY <1>2, <1>7, ProductType
<1>9. cost \in Nat /\ cost <= left /\ (units = can => left - cost = 0 \/ (side = "buy" /\ left - cost < e.price))
  <2>1. CASE side = "buy"
    <3>1. PICK p \in Nat, u \in Nat, c \in Nat : p = e.price /\ u = units /\ c = left \div e.price
      BY <1>2, <1>4, <1>7, <2>1
    <3>2. c = can /\ cost = u * p /\ p > 0
      BY <1>2, <2>1, <3>1
    <3>3. p * c <= left /\ left < p * c + p
      BY <1>2, <1>3, <3>1, DivFacts
    <3>4. p * u <= p * c /\ p * u = u * p /\ p * u \in Nat /\ p * c \in Nat
      BY <1>7, <3>1, <3>2, ProductMonotone, ProductType
    <3>5. u = c => left - p * u < p
      BY <1>3, <3>3, <3>4
    <3>6. cost = p * u
      BY <3>2, <3>4
    <3>7. cost \in Nat /\ cost <= left
      BY <1>3, <3>3, <3>4, <3>6
    <3>8. units = can => left - cost < e.price
      BY <3>1, <3>2, <3>5, <3>6
    <3> QED
      BY <2>1, <3>7, <3>8
  <2>2. CASE side = "sell"
    BY <1>3, <1>7, <2>2
  <2> QED
    BY <2>1, <2>2
<1> HIDE DEF can
<1>10. CASE units = 0
  <2>1. next.legs = legs /\ next.left = left
    BY <1>5, <1>10 DEF legs, left
  <2>2. cost = 0
    BY <1>2, <1>10
  <2>3. UsedUp(side, legs, left, e)
    BY <1>3, <1>7, <1>9, <1>10, <2>2 DEF UsedUp
  <2>4. \A j \in 1 .. k : UsedUp(side, legs, left, entries[j])
    <3>1. \A j \in 1 .. k : j \in 1 .. k - 1 \/ j = k
      OBVIOUS
    <3> QED
      BY <1>3, <2>3, <3>1 DEF e
  <2>5. \E h : Climbs(legs, entries, k, h)
    <3>1. PICK h : Climbs(legs, entries, k - 1, h)
      BY <1>3
    <3>2. h \in [1 .. Len(legs) -> 1 .. k]
      BY <3>1 DEF Climbs
    <3>3. Climbs(legs, entries, k, h)
      BY <3>1, <3>2 DEF Climbs
    <3> QED
      BY <3>3
  <2>6. WalkOK(side, pay, entries, legs, left, k)
    BY <1>3, <2>4, <2>5 DEF WalkOK
  <2> QED
    BY <2>1, <2>6 DEF next, e
<1>11. CASE units # 0
  <2> DEFINE leg == [id |-> e.id, units |-> units, gross |-> gross]
             s == Append(legs, leg)
             rest == left - cost
  <2>1. next.legs = s /\ next.left = rest
    BY <1>5, <1>11
  <2>2. leg \in LegType /\ leg.units = units /\ leg.gross = gross /\ leg.id = e.id
    BY <1>2, <1>7, <1>8, <1>11 DEF LegType
  <2>3. LegOf(leg, e)
    BY <1>7, <2>2 DEF LegOf
  <2> HIDE DEF leg
  <2>4. /\ s \in Seq(LegType) /\ Len(s) = Len(legs) + 1 /\ s[Len(legs) + 1] = leg
        /\ TotalUnits(s) = TotalUnits(legs) + units
        /\ TotalGross(s) = TotalGross(legs) + gross
    BY <1>3, <2>2, AppendLeg
  <2>5. rest \in Nat /\ rest <= left
    BY <1>3, <1>9
  <2>6. rest + Spent(side, s) = pay
    <3>1. TotalUnits(legs) \in Nat /\ TotalGross(legs) \in Nat
      BY <1>3, LegSums
    <3>2. Spent(side, s) = Spent(side, legs) + cost /\ Spent(side, legs) \in Nat
      BY <2>4, <3>1 DEF Spent
    <3> HIDE DEF s, cost
    <3> QED
      BY <1>3, <1>9, <3>2
  <2>7. \E h : Climbs(s, entries, k, h)
    BY <1>3, <2>2, <2>3, ClimbsOn DEF e
  <2>8. UsedUp(side, s, rest, e)
    <3>1. CASE units = can
      BY <1>9, <3>1 DEF UsedUp
    <3>2. CASE units = e.maxUnits
      <4>1. Len(legs) + 1 \in 1 .. Len(s)
        BY <1>3, <2>4, LegSums
      <4> QED
        BY <2>2, <2>4, <3>2, <4>1 DEF UsedUp
    <3> QED
      BY <1>7, <3>1, <3>2
  <2>9. ASSUME NEW j \in 1 .. k PROVE UsedUp(side, s, rest, entries[j])
    <3>1. CASE j = k
      BY <2>8, <3>1 DEF e
    <3>2. CASE j \in 1 .. k - 1
      <4>1. entries[j] \in EntryType /\ UsedUp(side, legs, left, entries[j])
        BY <1>2, <1>3, <3>2
      <4> HIDE DEF rest, s
      <4>2. UsedUp(side, Append(legs, leg), rest, entries[j])
        BY <1>3, <2>2, <2>5, <4>1, StaysUsedUp
      <4> QED
        BY <4>2 DEF s
    <3> QED
      BY <3>1, <3>2
  <2> HIDE DEF s, rest
  <2>10. WalkOK(side, pay, entries, s, rest, k)
    BY <2>4, <2>5, <2>6, <2>7, <2>9 DEF WalkOK
  <2> QED
    BY <2>1, <2>10 DEF next, e
<1> QED
  BY <1>10, <1>11

LEMMA WalkFacts ==
  ASSUME NEW side \in {"buy", "sell"}, NEW pay \in Nat, NEW entries \in Seq(EntryType)
  PROVE  \E left : WalkOK(side, pay, entries, Walk(side, pay, entries), left, Reach(entries))
<1> DEFINE n == Reach(entries)
<1>1. n \in Nat /\ Len(entries) \in Nat /\ n <= Len(entries)
  BY ReachType
<1> HIDE DEF n
<1>2. PICK f : /\ Walk(side, pay, entries) = f[n].legs
               /\ f[0].legs = << >> /\ f[0].left = pay
               /\ \A k \in 1 .. n : f[k] = TakeEntry(side, f[k - 1], entries[k])
  BY <1>1, WalkUnfolds DEF n
<1> DEFINE P(k) == WalkOK(side, pay, entries, f[k].legs, f[k].left, k)
           S == {k \in Nat : k <= n => P(k)}
<1>3. 0 \in S
  BY <1>2, WalkStart
<1>4. ASSUME NEW j \in Nat, j \in S PROVE j + 1 \in S
  <2> SUFFICES ASSUME j + 1 <= n PROVE P(j + 1)
    OBVIOUS
  <2>1. P(j)
    BY <1>1, <1>4
  <2>2. PICK k \in 1 .. Len(entries) : k = j + 1 /\ k - 1 = j /\ k \in 1 .. n
    BY <1>1
  <2>3. f[k] = TakeEntry(side, f[j], entries[k])
    BY <1>2, <2>2
  <2>4. PICK acc : acc = f[j]
    OBVIOUS
  <2>5. WalkOK(side, pay, entries, acc.legs, acc.left, k - 1)
    BY <2>1, <2>2, <2>4
  <2>6. PICK next : next = TakeEntry(side, acc, entries[k])
    OBVIOUS
  <2>7. WalkOK(side, pay, entries, next.legs, next.left, k)
    BY <2>5, <2>6, WalkStep
  <2> QED
    BY <2>2, <2>3, <2>4, <2>6, <2>7
<1> HIDE DEF S
<1>5. Nat \subseteq S
  BY <1>3, <1>4, SetInduction
<1>6. P(n)
  BY <1>1, <1>5 DEF S
<1> QED
  BY <1>2, <1>6 DEF n

-----------------------------------------------------------------------------
(* A swap derived from a fresh book.                                       *)

\* An average is between bounds of what is averaged.
LEMMA AverageBounds ==
  ASSUME NEW legs \in Seq(LegType), Len(legs) > 0, NEW lo \in Nat, NEW hi \in Nat,
         \A l \in 1 .. Len(legs) :
           lo * legs[l].units <= legs[l].gross /\ legs[l].gross <= hi * legs[l].units
  PROVE  /\ TotalUnits(legs) > 0
         /\ lo <= TotalGross(legs) \div TotalUnits(legs)
         /\ TotalGross(legs) \div TotalUnits(legs) <= hi
<1> DEFINE n == Len(legs)
           P(k) == lo * UnitsTo(legs, k) <= GrossTo(legs, k) /\ GrossTo(legs, k) <= hi * UnitsTo(legs, k)
           S == {k \in Nat : k <= n => P(k)}
<1>1. n \in Nat
  BY LegSums
<1>2. 0 \in S
  BY LegSums
<1>3. ASSUME NEW j \in Nat, j \in S PROVE j + 1 \in S
  <2> SUFFICES ASSUME j + 1 <= n PROVE P(j + 1)
    OBVIOUS
  <2>1. P(j)
    BY <1>1, <1>3
  <2>2. PICK k \in 1 .. n : k = j + 1 /\ k - 1 = j
    BY <1>1
  <2>3. j \in 0 .. n
    BY <1>1
  <2>4. PICK u \in Nat, g \in Nat, v \in Nat, h \in Nat :
             /\ u = UnitsTo(legs, j) /\ g = GrossTo(legs, j)
             /\ v = legs[k].units /\ h = legs[k].gross
    BY <2>2, <2>3, LegSums
  <2>5. UnitsTo(legs, k) = u + v /\ GrossTo(legs, k) = g + h
    BY <2>2, <2>4, LegSums
  <2>6. lo * u <= g /\ g <= hi * u /\ lo * v <= h /\ h <= hi * v
    BY <2>1, <2>4
  <2>7. lo * (u + v) = lo * u + lo * v /\ hi * (u + v) = hi * u + hi * v
    OBVIOUS
  <2>8. lo * u \in Nat /\ lo * v \in Nat /\ hi * u \in Nat /\ hi * v \in Nat
    BY ProductType
  <2>9. lo * (u + v) <= g + h /\ g + h <= hi * (u + v)
    BY <2>6, <2>7, <2>8
  <2> QED
    BY <2>2, <2>5, <2>9
<1> HIDE DEF S
<1>4. Nat \subseteq S
  BY <1>2, <1>3, SetInduction
<1>5. P(n)
  BY <1>1, <1>4 DEF S
<1>6. PICK u \in Nat, g \in Nat : u = TotalUnits(legs) /\ g = TotalGross(legs)
  BY LegSums
<1>7. lo * u <= g /\ g <= hi * u
  BY <1>5, <1>6, LegSums
<1>8. u > 0
  <2>1. 1 \in 1 .. n /\ 1 \in 0 .. n
    BY <1>1
  <2>2. /\ UnitsTo(legs, 1) = UnitsTo(legs, 1 - 1) + legs[1].units /\ UnitsTo(legs, 0) = 0
        /\ legs[1].units \in Nat /\ legs[1].units > 0 /\ UnitsTo(legs, 1) <= u
    BY <1>6, <2>1, LegSums
  <2>3. 1 - 1 = 0
    OBVIOUS
  <2> QED
    BY <2>2, <2>3
<1>9. PICK q \in Nat : q = g \div u
  BY <1>8, DivFacts
<1>10. u * q <= g /\ g < u * q + u
  BY <1>8, <1>9, DivFacts
<1>11. u * q <= u * hi
  <2>1. u * q \in Nat /\ u * hi \in Nat /\ hi * u = u * hi
    BY ProductType
  <2> QED
    BY <1>7, <1>10, <2>1
<1>12. q <= hi
  BY <1>8, <1>11, ProductCancel
<1>13. u * lo < u * (q + 1)
  <2>1. u * (q + 1) = u * q + u /\ u * lo = lo * u
    OBVIOUS
  <2>2. u * q \in Nat /\ u * lo \in Nat
    BY ProductType
  <2> QED
    BY <1>7, <1>10, <2>1, <2>2
<1>14. lo < q + 1
  BY <1>13, ProductLess
<1>15. lo <= q
  BY <1>14
<1> QED
  BY <1>6, <1>8, <1>9, <1>12, <1>15

\* Entries of different orders, none with a better price than an earlier one.
BestFirst(side, entries) ==
  \A k \in 1 .. Len(entries) : \A j \in 1 .. k - 1 :
    /\ entries[j].id # entries[k].id
    /\ IF side = "sell" THEN entries[j].price >= entries[k].price
                        ELSE entries[j].price <= entries[k].price

\* The details shown of a swap describe its legs.
LEMMA DetailsDescribe ==
  ASSUME NEW side \in {"buy", "sell"}, NEW pay \in Nat, NEW entries \in Seq(EntryType),
         BestFirst(side, entries)
  PROVE  DetailsFit(side, pay, entries, Walk(side, pay, entries))
<1> DEFINE legs == Walk(side, pay, entries)
           n == Len(legs)
           top == TopPrice(entries)
           avg == EffectivePrice(legs)
           end == legs[Len(legs)].gross \div legs[Len(legs)].units
           far == IF side = "buy" THEN avg - top ELSE top - avg
           slip == SlippageBps(side, top, avg)
<1>1. Len(entries) \in Nat /\ Reach(entries) \in Nat /\ Reach(entries) <= Len(entries)
  BY ReachType
<1>2. PICK left : WalkOK(side, pay, entries, legs, left, Reach(entries))
  BY WalkFacts
<1> HIDE DEF legs
<1>3. /\ legs \in Seq(LegType) /\ left \in Nat /\ left + Spent(side, legs) = pay
      /\ \A j \in 1 .. Reach(entries) : UsedUp(side, legs, left, entries[j])
  BY <1>2 DEF WalkOK
<1>4. PICK h : Climbs(legs, entries, Reach(entries), h)
  BY <1>2 DEF WalkOK
<1>5. /\ n \in Nat /\ DOMAIN legs = 1 .. n
      /\ \A l \in 1 .. n : legs[l].units \in Nat /\ legs[l].units > 0 /\ legs[l].gross \in Nat
  BY <1>3, LegSums
<1>6. Unfilled(side, pay, legs) = left
  <2>1. Spent(side, legs) \in Nat
    BY <1>3, LegSums DEF Spent
  <2> QED
    BY <1>3, <2>1 DEF Unfilled, Spent
<1>7. ASSUME left > 0, NEW k \in 1 .. Reach(entries)
      PROVE  \/ entries[k].maxUnits = 0
             \/ side = "buy" /\ left < entries[k].price
             \/ \E l \in DOMAIN legs : /\ legs[l].id = entries[k].id
                                       /\ legs[l].units = entries[k].maxUnits
  <2>1. UsedUp(side, legs, left, entries[k])
    BY <1>3
  <2>2. left # 0
    BY <1>3, <1>7
  <2> QED
    BY <1>5, <2>1, <2>2, Zenon DEF UsedUp
<1>8. ASSUME legs # << >>
      PROVE  /\ IF side = "buy" THEN top <= avg /\ avg <= end ELSE end <= avg /\ avg <= top
             /\ slip * top <= far * 10000 /\ far * 10000 < (slip + 1) * top
  <2>1. n > 0
    BY <1>3, <1>5, <1>8
  <2>2. /\ \A l \in 1 .. n : h[l] \in 1 .. Reach(entries) /\ LegOf(legs[l], entries[h[l]])
        /\ \A l \in 1 .. n : \A j \in 1 .. l - 1 : h[j] < h[l]
    BY <1>4 DEF Climbs
  <2>3. \A k \in 1 .. Len(entries) : entries[k].price \in Nat /\ entries[k].price > 0
    <3>1. \A k \in 1 .. Len(entries) : entries[k] \in EntryType
      BY ElementOfSeq
    <3> QED
      BY <3>1 DEF EntryType
  <2>4. \A l \in 1 .. n : h[l] \in 1 .. Len(entries)
    BY <1>1, <2>2
  <2>5. /\ 1 \in 1 .. Len(entries) /\ n \in 1 .. n
    BY <1>1, <1>5, <2>1, <2>4
  <2>6. top = entries[1].price
    <3>1. entries # << >>
      BY <2>5
    <3> QED
      BY <3>1 DEF TopPrice
  <2> DEFINE last == entries[h[n]].price
  <2>7. top \in Nat /\ top > 0 /\ last \in Nat /\ last > 0
    BY <2>3, <2>4, <2>5, <2>6
  <2>8. end = last
    <3>1. legs[n].gross = legs[n].units * last
      BY <2>2, <2>5 DEF LegOf
    <3>2. PICK u \in Nat, p \in Nat : u = legs[n].units /\ p = last
      BY <1>5, <2>5, <2>7
    <3>3. u > 0 /\ (u * p) \div u = p
      BY <1>5, <2>5, <3>2, DivWhole
    <3> QED
      BY <3>1, <3>2, <3>3
  <2>9. avg = TotalGross(legs) \div TotalUnits(legs)
    BY <1>8 DEF EffectivePrice
  <2> HIDE DEF top, last
  <2>10. \A j, k \in 1 .. Len(entries) :
           j <= k => IF side = "sell" THEN entries[j].price >= entries[k].price
                                      ELSE entries[j].price <= entries[k].price
    <3> SUFFICES ASSUME NEW j \in 1 .. Len(entries), NEW k \in 1 .. Len(entries), j <= k
                 PROVE  IF side = "sell" THEN entries[j].price >= entries[k].price
                                         ELSE entries[j].price <= entries[k].price
      OBVIOUS
    <3>1. CASE j = k
      BY <2>3, <3>1
    <3>2. CASE j # k
      <4>1. j \in 1 .. k - 1
        BY <1>1, <3>2
      <4> QED
        BY <4>1 DEF BestFirst
    <3> QED
      BY <3>1, <3>2
  <2>11. ASSUME NEW l \in 1 .. n
         PROVE  LET p == entries[h[l]].price IN
                /\ p \in Nat /\ legs[l].gross = legs[l].units * p
                /\ IF side = "sell" THEN top >= p /\ p >= last ELSE top <= p /\ p <= last
    <3>1. h[l] \in 1 .. Len(entries) /\ h[n] \in 1 .. Len(entries) /\ 1 <= h[l] /\ h[l] <= h[n]
      <4>1. l = n \/ l \in 1 .. n - 1
        <5>1. PICK x \in Nat : x = n
          BY <1>5
        <5>2. l \in 1 .. x
          BY <5>1
        <5>3. l = x \/ l \in 1 .. x - 1
          BY <5>2
        <5> QED
          BY <5>1, <5>3
      <4>2. h[l] \in 1 .. Len(entries) /\ h[n] \in 1 .. Len(entries)
        BY <2>4, <2>5
      <4> QED
        BY <1>1, <2>2, <2>5, <4>1, <4>2
    <3>2. PICK a \in 1 .. Len(entries), b \in 1 .. Len(entries) : a = h[l] /\ b = h[n]
      BY <3>1
    <3>3. 1 <= a /\ a <= b
      BY <3>1, <3>2
    <3>4. /\ IF side = "sell" THEN entries[1].price >= entries[a].price ELSE entries[1].price <= entries[a].price
          /\ IF side = "sell" THEN entries[a].price >= entries[b].price ELSE entries[a].price <= entries[b].price
      BY <2>5, <2>10, <3>3
    <3>5. entries[a].price \in Nat /\ legs[l].gross = legs[l].units * entries[a].price
      BY <2>2, <2>3, <3>2 DEF LegOf
    <3> QED
      BY <2>6, <3>2, <3>4, <3>5 DEF last
  <2>12. PICK lo \in Nat, hi \in Nat : IF side = "sell" THEN lo = last /\ hi = top
                                                        ELSE lo = top /\ hi = last
    BY <2>7
  <2>13. ASSUME NEW l \in 1 .. n
         PROVE  lo * legs[l].units <= legs[l].gross /\ legs[l].gross <= hi * legs[l].units
    <3>1. PICK p \in Nat, u \in Nat : p = entries[h[l]].price /\ u = legs[l].units
      BY <1>5, <2>11
    <3>2. legs[l].gross = u * p /\ lo <= p /\ p <= hi
      BY <2>7, <2>11, <2>12, <3>1
    <3>3. u * lo <= u * p /\ u * p <= u * hi
      BY <3>2, ProductMonotone
    <3>4. u * lo = lo * u /\ u * hi = hi * u
      OBVIOUS
    <3> QED
      BY <3>1, <3>2, <3>3, <3>4
  <2>14. TotalUnits(legs) > 0 /\ lo <= avg /\ avg <= hi
    BY <1>3, <2>1, <2>9, <2>13, AverageBounds
  <2>15. avg \in Nat
    <3>1. TotalUnits(legs) \in Nat /\ TotalGross(legs) \in Nat
      BY <1>3, LegSums
    <3> QED
      BY <2>9, <2>14, <3>1, DivFacts
  <2> HIDE DEF avg, end
  <2>16. IF side = "buy" THEN top <= avg /\ avg <= end ELSE end <= avg /\ avg <= top
    BY <2>8, <2>12, <2>14
  <2>17. far \in Nat
    BY <2>7, <2>15, <2>16
  <2>18. slip = IF far <= 0 THEN 0 ELSE (far * 10000) \div top
    BY DEF SlippageBps
  <2> HIDE DEF far, slip
  <2>19. slip * top <= far * 10000 /\ far * 10000 < (slip + 1) * top
    <3>1. CASE far = 0
      BY <2>7, <2>18, <3>1
    <3>2. CASE far # 0
      <4>1. PICK x \in Nat, t \in Nat : x = far * 10000 /\ t = top
        BY <2>7, <2>17
      <4>2. slip = x \div t /\ t > 0
        BY <2>7, <2>17, <2>18, <3>2, <4>1
      <4>3. x \div t \in Nat /\ t * (x \div t) <= x /\ x < t * (x \div t) + t
        BY <4>2, DivFacts
      <4>4. PICK q \in Nat : q = slip
        BY <4>2, <4>3
      <4>5. t * q <= x /\ x < t * q + t
        BY <4>2, <4>3, <4>4
      <4>6. q * t = t * q /\ (q + 1) * t = t * q + t
        OBVIOUS
      <4> QED
        BY <4>1, <4>4, <4>5, <4>6
    <3> QED
      BY <3>1, <3>2
  <2> QED
    BY <2>16, <2>19
<1>9. left >= 0
  BY <1>3
<1>10. DetailsFit(side, pay, entries, legs)
  BY <1>6, <1>7, <1>8, <1>9 DEF DetailsFit
<1> QED
  BY <1>10 DEF legs

LEMMA FreshBook ==
  ASSUME NEW m, MarketOK(m), NEW side \in {"buy", "sell"}
  PROVE  BestFirst(side, Entries(m, IF side = "buy" THEN "ask" ELSE "bid"))
<1> DEFINE b == IF side = "buy" THEN "ask" ELSE "bid"
           es == Entries(m, b)
<1>1. Len(es) \in Nat
  BY EntriesFacts, OnPageFacts
<1>2. b = "bid" <=> side = "sell"
  OBVIOUS
<1> HIDE DEF b
<1>3. ASSUME NEW k \in 1 .. Len(es), NEW j \in 1 .. k - 1
      PROVE  /\ es[j].id # es[k].id
             /\ IF side = "sell" THEN es[j].price >= es[k].price ELSE es[j].price <= es[k].price
  <2>1. j \in 1 .. Len(es) /\ j < k
    BY <1>1
  <2> QED
    BY <1>2, <2>1, EntriesSorted
<1>4. BestFirst(side, es)
  BY <1>3 DEF BestFirst
<1> QED
  BY <1>4 DEF b

\* The walker's caps and prices are the contract's: its legs fit.
LEMMA FreshLegsRun ==
  ASSUME NEW m, MarketOK(m), NEW side \in {"buy", "sell"}, NEW pay \in Nat, NEW legs,
         legs = Walk(side, pay, Entries(m, IF side = "buy" THEN "ask" ELSE "bid")),
         \A k \in DOMAIN legs : NotExpired(m, m.orders[legs[k].id]),
         IF side = "buy" THEN TotalGross(legs) <= m.quote[You] ELSE TotalUnits(legs) <= m.shares[You]
  PROVE  RunLegs(m, side, legs).ok
<1> DEFINE b == IF side = "buy" THEN "ask" ELSE "bid"
           es == Entries(m, b)
<1>0. b = IF side = "buy" THEN "ask" ELSE "bid"
  OBVIOUS
<1>1. es \in Seq(EntryType) /\ BestFirst(side, es)
  BY EntriesFacts, FreshBook
<1>2. legs = Walk(side, pay, es)
  OBVIOUS
<1>3. \A k \in 1 .. Len(es) : \E i \in OnPage(m, b) : es[k] = Entry(m, i)
  BY EntriesFacts
<1> HIDE DEF b, es
<1>4. Len(es) \in Nat /\ Reach(es) \in Nat /\ Reach(es) <= Len(es)
  BY <1>1, ReachType
<1>5. PICK left : WalkOK(side, pay, es, legs, left, Reach(es))
  BY <1>1, <1>2, WalkFacts
<1>6. legs \in Seq(LegType)
  BY <1>5 DEF WalkOK
<1>7. PICK h : Climbs(legs, es, Reach(es), h)
  BY <1>5 DEF WalkOK
<1>8. /\ Len(legs) \in Nat /\ DOMAIN legs = 1 .. Len(legs)
      /\ \A k \in 1 .. Len(legs) : /\ legs[k].units \in Nat
                                   /\ h[k] \in 1 .. Len(es) /\ LegOf(legs[k], es[h[k]])
      /\ \A k \in 1 .. Len(legs) : \A l \in 1 .. k - 1 : h[l] < h[k]
  <2>1. \A k \in 1 .. Len(legs) : h[k] \in 1 .. Len(es)
    BY <1>4, <1>7 DEF Climbs
  <2> QED
    BY <1>6, <1>7, <2>1, LegSums DEF Climbs
<1>9. ASSUME NEW k \in 1 .. Len(legs), NEW l \in 1 .. k - 1 PROVE legs[l].id # legs[k].id
  <2>1. l \in 1 .. Len(legs)
    BY <1>8
  <2>2. PICK x \in 1 .. Len(es), y \in 1 .. Len(es) : x = h[l] /\ y = h[k]
    BY <1>8, <2>1
  <2>3. x \in 1 .. y - 1
    BY <1>4, <1>8, <2>2
  <2>4. es[x].id # es[y].id
    BY <1>1, <2>3 DEF BestFirst
  <2> QED
    BY <1>8, <2>1, <2>2, <2>4 DEF LegOf
<1>10. ASSUME NEW k \in 1 .. Len(legs) PROVE Fits(m, side, legs[k])
  <2> DEFINE leg == legs[k]
  <2>1. PICK i \in OnPage(m, b) : es[h[k]] = Entry(m, i)
    BY <1>3, <1>8
  <2> DEFINE o == m.orders[i]
  <2>2. i \in Live(m) /\ o.side = b
    BY OnPageFacts
  <2>3. o.price \in Nat /\ o.price > 0 /\ o.rem \in Nat
    BY <2>2, MarketFacts
  <2>4. /\ leg.id = i /\ leg.gross = leg.units * o.price
        /\ leg.units <= IF b = "bid" THEN o.rem \div o.price ELSE o.rem
    BY <1>8, <2>1, <2>2 DEF LegOf, Entry
  <2>5. NotExpired(m, m.orders[leg.id]) /\ leg.units \in Nat
    BY <1>8
  <2> HIDE DEF leg
  <2>6. CASE side = "buy"
    <3>1. b = "ask" /\ leg.units <= o.rem /\ leg.units * o.price <= leg.gross
      <4>1. leg.units * o.price \in Nat
        BY <2>3, <2>5, ProductType
      <4> QED
        BY <1>0, <2>4, <2>6, <4>1
    <3> QED
      BY <2>2, <2>4, <2>5, <2>6, <3>1 DEF Fits, leg
  <2>7. CASE side = "sell"
    <3>1. PICK u \in Nat, p \in Nat, x \in Nat : u = leg.units /\ p = o.price /\ x = o.rem
      BY <2>3, <2>5
    <3>2. b = "bid" /\ u <= x \div p /\ p > 0
      BY <1>0, <2>3, <2>4, <2>7, <3>1
    <3>3. x \div p \in Nat /\ p * (x \div p) <= x
      BY <3>2, DivFacts
    <3>4. PICK q \in Nat : q = x \div p
      BY <3>3
    <3>5. p * u <= p * q /\ p * q <= x
      BY <3>2, <3>3, <3>4, ProductMonotone
    <3>6. u * p = p * u /\ p * u \in Nat /\ p * q \in Nat
      BY ProductType
    <3>7. u * p <= x
      BY <3>5, <3>6
    <3> QED
      BY <2>2, <2>4, <2>5, <2>7, <3>1, <3>2, <3>7 DEF Fits, leg
  <2> QED
    BY <2>6, <2>7
<1> QED
  BY <1>6, <1>9, <1>10, FittingLegsRun

LEMMA FreshSwaps ==
  ASSUME MarketOK(market)
  PROVE  FreshSwapsExecute
<1>0. PICK m : m = market
  OBVIOUS
<1>1. MarketOK(m)
  BY <1>0
<1> SUFFICES ASSUME NEW pay \in Nat
             PROVE  LET asks == Asks(m)    bids == Bids(m)
                        buy == WalkBuy(pay, asks)    sell == WalkSell(pay, bids)
                    IN  /\ (\A k \in DOMAIN buy : NotExpired(m, m.orders[buy[k].id]))
                             /\ TotalGross(buy) <= m.quote[You] => RunLegs(m, "buy", buy).ok
                        /\ (\A k \in DOMAIN sell : NotExpired(m, m.orders[sell[k].id]))
                             /\ TotalUnits(sell) <= m.shares[You] => RunLegs(m, "sell", sell).ok
                        /\ DetailsFit("buy", pay, asks, buy) /\ DetailsFit("sell", pay, bids, sell)
  <2>1. \A x : \A pay \in 1 .. x : pay \in Nat
    OBVIOUS
  <2> QED
    BY <1>0, <2>1 DEF FreshSwapsExecute
<1> DEFINE asks == Asks(m)
           bids == Bids(m)
           buy == WalkBuy(pay, asks)
           sell == WalkSell(pay, bids)
<1>2. /\ asks = Entries(m, "ask") /\ bids = Entries(m, "bid")
      /\ buy = Walk("buy", pay, asks) /\ sell = Walk("sell", pay, bids)
  BY DEF Asks, Bids, WalkBuy, WalkSell
<1> HIDE DEF asks, bids, buy, sell
<1>3. asks \in Seq(EntryType) /\ bids \in Seq(EntryType)
  BY <1>1, <1>2, EntriesFacts
<1>4. BestFirst("buy", asks) /\ BestFirst("sell", bids)
  <2>1. BestFirst("buy", Entries(m, IF "buy" = "buy" THEN "ask" ELSE "bid"))
    BY <1>1, FreshBook
  <2>2. BestFirst("sell", Entries(m, IF "sell" = "buy" THEN "ask" ELSE "bid"))
    BY <1>1, FreshBook
  <2> QED
    BY <1>2, <2>1, <2>2
<1>5. DetailsFit("buy", pay, asks, buy) /\ DetailsFit("sell", pay, bids, sell)
  BY <1>2, <1>3, <1>4, DetailsDescribe
<1>6. ASSUME \A k \in DOMAIN buy : NotExpired(m, m.orders[buy[k].id]), TotalGross(buy) <= m.quote[You]
      PROVE  RunLegs(m, "buy", buy).ok
  <2>1. buy = Walk("buy", pay, Entries(m, IF "buy" = "buy" THEN "ask" ELSE "bid"))
    BY <1>2
  <2>2. IF "buy" = "buy" THEN TotalGross(buy) <= m.quote[You] ELSE TotalUnits(buy) <= m.shares[You]
    BY <1>6
  <2> QED
    BY <1>1, <1>6, <2>1, <2>2, FreshLegsRun
<1>7. ASSUME \A k \in DOMAIN sell : NotExpired(m, m.orders[sell[k].id]), TotalUnits(sell) <= m.shares[You]
      PROVE  RunLegs(m, "sell", sell).ok
  <2>1. sell = Walk("sell", pay, Entries(m, IF "sell" = "buy" THEN "ask" ELSE "bid"))
    BY <1>2
  <2>2. IF "sell" = "buy" THEN TotalGross(sell) <= m.quote[You] ELSE TotalUnits(sell) <= m.shares[You]
    BY <1>7
  <2> QED
    BY <1>1, <1>7, <2>1, <2>2, FreshLegsRun
<1> QED
  BY <1>5, <1>6, <1>7 DEF asks, bids, buy, sell

-----------------------------------------------------------------------------
(* The theorems.                                                           *)

LEMMA PageStarts ==
  ASSUME PageInit
  PROVE  PageTypeOK /\ MarketFundsConserved
<1>1. PICK m : m = market
  OBVIOUS
<1>2. m = [orders |-> << >>, placed |-> << >>, quote |-> QuoteSupply, shares |-> ShareSupply,
           admin |-> Admin, epoch |-> 0]
  BY <1>1 DEF PageInit, MarketInit
<1>3. /\ m.orders = << >> /\ m.placed = << >> /\ m.quote = QuoteSupply /\ m.shares = ShareSupply
      /\ m.admin = Admin /\ m.epoch = 0 /\ HasFields(m)
  BY <1>2 DEF HasFields
<1>4. Live(m) = {}
  BY <1>3 DEF Live
<1>5. m.orders \in [Live(m) -> OrderType]
  BY <1>3, <1>4
<1>6. m.placed \in Seq({"bid", "ask"}) /\ Len(m.placed) = 0
  BY <1>3
<1>7. MarketOK(m)
  BY <1>3, <1>4, <1>5, <1>6, ShareMarketAssumption DEF MarketOK
<1>8. \A side : Escrowed(m, side) = 0
  <2>1. \A side : OrdersOf(m, side) = {}
    BY <1>4 DEF OrdersOf
  <2> QED
    BY <2>1, SumEmpty DEF Escrowed
<1>9. Held(m.quote) \in Nat /\ Held(m.shares) \in Nat
  BY <1>7, CoinsInType
<1>10. Conserved(m)
  BY <1>3, <1>8, <1>9 DEF Conserved
<1>11. /\ book \in [bids : Seq(EntryType), asks : Seq(EntryType)]
       /\ wallet \in [quote : Nat, shares : Nat]
  BY DEF PageInit
<1>12. inflight \in Seq(TxType) /\ Len(inflight) = 0 /\ pending \in BOOLEAN /\ lag = 0
  <2>1. inflight = << >> /\ lag = 0
    BY DEF PageInit
  <2>2. pending \in BOOLEAN
    BY DEF PageInit
  <2> QED
    BY <2>1, <2>2
<1> QED
  BY <1>1, <1>7, <1>10, <1>11, <1>12, MarketPageAssumption DEF PageTypeOK, MarketFundsConserved

\* The page's own variables keep their types; the market is dealt with above.
PageSideOK ==
  /\ book \in [bids : Seq(EntryType), asks : Seq(EntryType)]
  /\ wallet \in [quote : Nat, shares : Nat]
  /\ inflight \in Seq(TxType) /\ Len(inflight) <= MaxInflight
  /\ pending \in BOOLEAN /\ lag \in 0 .. MaxLag

LEMMA PageTypeSplit == PageTypeOK <=> MarketOK(market) /\ PageSideOK
BY DEF PageTypeOK, PageSideOK

LEMMA SubmitKeeps ==
  ASSUME PageTypeOK, NEW tx \in TxType, Submit(tx)
  PROVE  PageSideOK' /\ market' = market
<1>1. PICK s : s = inflight
  OBVIOUS
<1>2. s \in Seq(TxType) /\ Len(s) < MaxInflight
  BY <1>1 DEF PageTypeOK, Submit
<1>3. Append(s, tx) \in Seq(TxType) /\ Len(Append(s, tx)) = Len(s) + 1 /\ Len(s) \in Nat
  BY <1>2, AppendProperties, LenProperties
<1>4. inflight' \in Seq(TxType) /\ Len(inflight') <= MaxInflight
  BY <1>1, <1>2, <1>3, MarketPageAssumption DEF Submit
<1> QED
  BY <1>4 DEF Submit, PageTypeOK, PageSideOK

LEMMA RefetchKeeps ==
  ASSUME PageTypeOK, Refetch
  PROVE  PageSideOK' /\ market' = market
<1>1. PICK m : m = market
  OBVIOUS
<1>2. MarketOK(m)
  BY <1>1 DEF PageTypeOK
<1>3. Bids(m) \in Seq(EntryType) /\ Asks(m) \in Seq(EntryType)
  BY <1>2, EntriesFacts DEF Bids, Asks
<1>4. QuoteBalance(m) \in Nat /\ BalanceUnits(m) \in Nat
  BY <1>2, MarketFacts, MarketPageAssumption DEF QuoteBalance, BalanceUnits
<1>5. /\ book' = [bids |-> Bids(m), asks |-> Asks(m)]
      /\ wallet' = [quote |-> QuoteBalance(m), shares |-> BalanceUnits(m)]
      /\ lag' = 0 /\ market' = market /\ inflight' = inflight /\ pending' = pending
  BY <1>1 DEF Refetch
<1>6. /\ book' \in [bids : Seq(EntryType), asks : Seq(EntryType)]
      /\ wallet' \in [quote : Nat, shares : Nat]
  BY <1>3, <1>4, <1>5
<1>7. lag' \in 0 .. MaxLag
  BY <1>5, MarketPageAssumption
<1> QED
  BY <1>5, <1>6, <1>7 DEF PageTypeOK, PageSideOK

LEMMA RefuseKeeps ==
  ASSUME PageTypeOK, UNCHANGED pageVars
  PROVE  PageSideOK'
BY DEF PageTypeOK, PageSideOK, pageVars

\* A click submits a transaction of the page's types, or nothing.
LEMMA ClickKeeps ==
  ASSUME PageTypeOK, Click
  PROVE  PageSideOK' /\ market' = market
<1>1. /\ book.bids \in Seq(EntryType) /\ book.asks \in Seq(EntryType)
      /\ wallet.quote \in Nat /\ wallet.shares \in Nat
  BY DEF PageTypeOK
<1>2. Amounts \subseteq Nat /\ GasBuffer \in Nat /\ Prices \subseteq Nat \ {0}
  BY MarketPageAssumption, ShareMarketAssumption
<1>3. \A side : PayAmounts(side) \subseteq Nat
  <2>1. \A side : MaxFromBalance(side) \in Nat
    BY <1>1, <1>2 DEF MaxFromBalance
  <2> QED
    BY <1>2, <2>1 DEF PayAmounts
<1>4. ASSUME Refuse PROVE PageSideOK' /\ market' = market
  BY <1>4, RefuseKeeps DEF Refuse, marketPageVars, pageVars
<1>5. ASSUME NEW pay \in Nat, NEW side \in {"buy", "sell"}, NEW es \in Seq(EntryType)
      PROVE  [kind |-> side, legs |-> Walk(side, pay, es)] \in TxType
  <2>1. PICK left : WalkOK(side, pay, es, Walk(side, pay, es), left, Reach(es))
    BY WalkFacts
  <2>2. Walk(side, pay, es) \in Seq(LegType)
    BY <2>1 DEF WalkOK
  <2> QED
    BY <2>2 DEF TxType
<1>6. ASSUME NEW pay \in PayAmounts("buy"), SwapBuy(pay) PROVE PageSideOK' /\ market' = market
  <2>1. pay \in Nat
    BY <1>3
  <2> DEFINE tx == [kind |-> "buy", legs |-> WalkBuy(pay, book.asks)]
  <2>2. tx \in TxType
    BY <1>1, <1>5, <2>1 DEF WalkBuy
  <2>3. Refuse \/ Submit(tx)
    BY <1>6 DEF SwapBuy
  <2> HIDE DEF tx
  <2> QED
    BY <1>4, <2>2, <2>3, SubmitKeeps
<1>7. ASSUME NEW pay \in PayAmounts("sell"), SwapSell(pay) PROVE PageSideOK' /\ market' = market
  <2>1. pay \in Nat
    BY <1>3
  <2>2. Min({pay, wallet.shares}) \in Nat
    BY <1>1, <2>1, MinOfTwo
  <2> DEFINE tx == [kind |-> "sell", legs |-> WalkSell(Min({pay, wallet.shares}), book.bids)]
  <2>3. tx \in TxType
    BY <1>1, <1>5, <2>2 DEF WalkSell
  <2>4. Refuse \/ Submit(tx)
    BY <1>7 DEF SwapSell
  <2> HIDE DEF tx
  <2> QED
    BY <1>4, <2>3, <2>4, SubmitKeeps
<1>8. ASSUME NEW price \in Prices, NEW qty \in Amounts, PlaceBid(price, qty) \/ PlaceAsk(price, qty)
      PROVE  PageSideOK' /\ market' = market
  <2>1. price \in Nat \ {0} /\ qty \in Nat
    BY <1>2
  <2>2. price * qty \in Nat
    BY <2>1, ProductType
  <2> DEFINE bid == [kind |-> "bid", price |-> price, amount |-> price * qty]
             ask == [kind |-> "ask", price |-> price, amount |-> qty]
  <2>3. bid \in TxType /\ ask \in TxType
    BY <2>1, <2>2 DEF TxType
  <2>4. Refuse \/ Submit(bid) \/ Submit(ask)
    BY <1>8 DEF PlaceBid, PlaceAsk
  <2> HIDE DEF bid, ask
  <2> QED
    BY <1>4, <2>3, <2>4, SubmitKeeps
<1>9. ASSUME NEW entry \in Mine, Cancel(entry) PROVE PageSideOK' /\ market' = market
  <2>1. entry \in Range(book.bids) \/ entry \in Range(book.asks)
    BY DEF Mine
  <2>2. entry \in EntryType
    <3>1. /\ \A k \in DOMAIN book.bids : book.bids[k] \in EntryType
          /\ \A k \in DOMAIN book.asks : book.asks[k] \in EntryType
      BY <1>1, ElementOfSeq, LenProperties
    <3> QED
      BY <2>1, <3>1 DEF Range
  <2> DEFINE tx == [kind |-> "cancel", id |-> entry.id]
  <2>3. tx \in TxType
    BY <2>2 DEF TxType, EntryType
  <2>4. Submit(tx)
    BY <1>9 DEF Cancel
  <2> HIDE DEF tx
  <2> QED
    BY <2>3, <2>4, SubmitKeeps
<1> QED
  BY <1>6, <1>7, <1>8, <1>9 DEF Click, SwapTab, LimitTab, MyOrdersList

LEMMA SettledKeeps ==
  ASSUME PageTypeOK, NEW k \in DOMAIN inflight, Settled(k)
  PROVE  PageSideOK' /\ inflight[k] \in TxType /\ inflight' # inflight
<1>1. PICK s : s = inflight
  OBVIOUS
<1>2. s \in Seq(TxType) /\ Len(s) \in Nat /\ Len(s) <= MaxInflight /\ k \in 1 .. Len(s)
  BY <1>1, LenProperties DEF PageTypeOK
<1>3. RemoveAt(s, k) \in Seq(TxType) /\ Len(RemoveAt(s, k)) = Len(s) - 1 /\ s[k] \in TxType
  BY <1>2, Removed, ElementOfSeq
<1>4. inflight' = RemoveAt(s, k)
  BY <1>1 DEF Settled
<1>5. inflight' \in Seq(TxType) /\ Len(inflight') <= MaxInflight /\ inflight' # inflight
  BY <1>1, <1>2, <1>3, <1>4, MarketPageAssumption
<1>6. pending' \in BOOLEAN /\ book' = book /\ wallet' = wallet /\ lag' = lag
  BY DEF Settled, PageTypeOK
<1> QED
  BY <1>1, <1>3, <1>5, <1>6 DEF PageTypeOK, PageSideOK

\* One step of the page or of the chain: the types, the coins and the makers.
LEMMA PageStep ==
  ASSUME PageTypeOK, MarketFundsConserved, [PageNext]_marketPageVars
  PROVE  /\ PageTypeOK' /\ MarketFundsConserved'
         /\ \A a \in Accounts : (IF inflight' # inflight THEN a # You ELSE a = You) =>
                                  Paid(market, market', a)
<1>0. MarketOK(market) /\ Conserved(market) /\ You \in Accounts
  BY MarketPageAssumption DEF PageTypeOK, MarketFundsConserved
<1>1. ASSUME Keeps(market, market'), PageSideOK'
      PROVE  PageTypeOK' /\ MarketFundsConserved'
  <2>1. PICK m, n : m = market /\ n = market'
    OBVIOUS
  <2>2. MarketOK(n) /\ Conserved(n)
    BY <1>0, <1>1, <2>1, ConservedIs DEF Keeps
  <2> QED
    BY <1>1, <2>1, <2>2 DEF PageTypeOK, PageSideOK, MarketFundsConserved
<1>2. ASSUME market' = market, PageSideOK'
      PROVE  /\ PageTypeOK' /\ MarketFundsConserved'
             /\ \A a \in Accounts : Paid(market, market', a)
  <2>1. PICK m : m = market /\ m = market'
    BY <1>2
  <2>2. Keeps(m, m)
    BY <1>0, <2>1 DEF Keeps
  <2>3. ASSUME NEW a \in Accounts PROVE Paid(m, m, a)
    <3>1. Filled(m, m, [i \in Live(m) |-> 0], {a})
      BY <1>0, <2>1, FilledNothing
    <3>2. \A who : TakesNothing(m, m, who)
      BY <1>0, <2>1, MarketFacts DEF TakesNothing
    <3>3. PICK who : who # a
      <4>1. TRUE # a \/ FALSE # a
        OBVIOUS
      <4> QED
        BY <4>1
    <3> QED
      BY <1>0, <2>1, <3>2, <3>3, NothingOwed
  <2> QED
    BY <1>1, <1>2, <2>1, <2>2, <2>3
<1>3. CASE Script
  <2>1. Keeps(market, market') /\ Paid(market, market', You)
    BY <1>0, <1>3, ScriptStep
  <2>2. /\ lag < MaxLag /\ lag' = lag + 1 /\ inflight' = inflight
        /\ book' = book /\ wallet' = wallet /\ pending' = pending
    BY <1>3 DEF Script
  <2>3. PageSideOK'
    <3>1. lag' \in 0 .. MaxLag
      BY <2>2, MarketPageAssumption DEF PageTypeOK
    <3> QED
      BY <2>2, <3>1 DEF PageTypeOK, PageSideOK
  <2> QED
    BY <1>1, <2>1, <2>2, <2>3
<1>4. CASE Refetch
  BY <1>2, <1>4, RefetchKeeps
<1>5. CASE Click
  BY <1>2, <1>5, ClickKeeps
<1>6. ASSUME NEW k \in DOMAIN inflight, Confirm(k)
      PROVE  /\ PageTypeOK' /\ MarketFundsConserved'
             /\ \A a \in Accounts : (IF inflight' # inflight THEN a # You ELSE a = You) =>
                                      Paid(market, market', a)
  <2>1. Settled(k) /\ Run(market, inflight[k]).ok /\ market' = Run(market, inflight[k]).m
    BY <1>6 DEF Confirm
  <2>2. PageSideOK' /\ inflight[k] \in TxType /\ inflight' # inflight
    BY <2>1, SettledKeeps
  <2>3. PICK m, tx : m = market /\ tx = inflight[k]
    OBVIOUS
  <2>4. Keeps(m, Run(m, tx).m) /\ \A a \in Accounts \ {You} : Paid(m, Run(m, tx).m, a)
    BY <1>0, <2>1, <2>2, <2>3, RunTx
  <2>5. Keeps(market, market') /\ \A a \in Accounts \ {You} : Paid(market, market', a)
    BY <2>1, <2>3, <2>4
  <2> QED
    BY <1>1, <2>2, <2>5
<1>7. ASSUME NEW k \in DOMAIN inflight, Fail(k)
      PROVE  /\ PageTypeOK' /\ MarketFundsConserved'
             /\ \A a \in Accounts : Paid(market, market', a)
  <2>1. Settled(k) /\ market' = market
    BY <1>7 DEF Fail
  <2> QED
    BY <1>2, <2>1, SettledKeeps
<1>8. CASE UNCHANGED marketPageVars
  <2>1. market' = market /\ UNCHANGED pageVars
    BY <1>8 DEF marketPageVars
  <2> QED
    BY <1>2, <2>1, RefuseKeeps
<1> QED
  BY <1>3, <1>4, <1>5, <1>6, <1>7, <1>8 DEF PageNext

\* Every state of the market is typed and conserves the quote coin and the HashShares,
\* and a swap derived from a fresh reading of it executes as the SwapCard shows it: the
\* three parts of the marketplace's invariant, for any number of accounts and orders.
THEOREM TheMarketIsSound == PageSpec => []MarketInv
<1>1. PageInit => PageTypeOK /\ MarketFundsConserved
  BY PageStarts
<1>2. PageTypeOK /\ MarketFundsConserved /\ [PageNext]_marketPageVars
        => PageTypeOK' /\ MarketFundsConserved'
  BY PageStep
<1>3. PageTypeOK /\ MarketFundsConserved => MarketInv
  BY FreshSwaps DEF MarketInv, PageTypeOK
<1> QED
  BY <1>1, <1>2, <1>3, PTL DEF PageSpec

\* An account that does not act itself loses nothing in a step, and gets its own orders'
\* price, less the fee on what it sells, for every unit taken from them.
THEOREM MakersArePaid == PageSpec => MakersGetTheirPrice
<1>1. PageInit => PageTypeOK /\ MarketFundsConserved
  BY PageStarts
<1>2. PageTypeOK /\ MarketFundsConserved /\ [PageNext]_marketPageVars
        => PageTypeOK' /\ MarketFundsConserved'
  BY PageStep
<1>3. PageTypeOK /\ MarketFundsConserved /\ [PageNext]_marketPageVars =>
        [\A a \in Accounts :
           (IF inflight' # inflight THEN a # You ELSE a = You) =>
             /\ market'.quote[a] >= market.quote[a] + OwedQuote(market, market', a)
             /\ market'.shares[a] >= market.shares[a] + OwedShares(market, market', a)]_marketPageVars
  BY PageStep DEF Paid
<1> QED
  BY <1>1, <1>2, <1>3, PTL DEF PageSpec, MakersGetTheirPrice

\* What a confirmed swap gives and takes.
SwapWithin(k) ==
  LET legs == inflight[k].legs IN
  IF inflight[k].kind = "buy"
  THEN /\ market'.shares[You] = market.shares[You] + TotalUnits(legs)
       /\ market'.quote[You] + TotalGross(legs) >= market.quote[You]
  ELSE market'.shares[You] + TotalUnits(legs) >= market.shares[You]

LEMMA SwapStep ==
  ASSUME PageTypeOK, PageNext, NEW k \in DOMAIN inflight, Confirms(k),
         inflight[k].kind \in {"buy", "sell"}
  PROVE  SwapWithin(k)
<1>1. PICK s : s = inflight
  OBVIOUS
<1>2. s \in Seq(TxType) /\ Len(s) \in Nat /\ k \in 1 .. Len(s) /\ DOMAIN s = 1 .. Len(s)
  BY <1>1, LenProperties DEF PageTypeOK
<1>3. market' # market /\ inflight' = RemoveAt(s, k)
  BY <1>1 DEF Confirms
<1>4. inflight' # s
  BY <1>2, <1>3, Removed
<1>5. PICK l \in DOMAIN inflight : Confirm(l)
  <2>1. ~Script
    BY <1>1, <1>4 DEF Script
  <2>2. ~Refetch /\ ~Click
    BY <1>3, RefetchKeeps, ClickKeeps
  <2>3. \A l \in DOMAIN inflight : ~Fail(l)
    BY <1>3 DEF Fail
  <2> QED
    BY <2>1, <2>2, <2>3 DEF PageNext
<1>6. l \in 1 .. Len(s) /\ RemoveAt(s, l) = RemoveAt(s, k)
  BY <1>1, <1>2, <1>3, <1>5 DEF Confirm, Settled
<1>7. s[l] = s[k]
  BY <1>2, <1>6, SameRemoved
<1>8. PICK m, tx : m = market /\ tx = s[k]
  OBVIOUS
<1>9. /\ MarketOK(m) /\ Run(m, tx).ok /\ market' = Run(m, tx).m
      /\ tx \in TxType /\ tx.kind \in {"buy", "sell"}
  <2>1. Run(m, tx).ok /\ market' = Run(m, tx).m
    BY <1>1, <1>5, <1>7, <1>8 DEF Confirm
  <2>2. tx \in TxType /\ tx.kind \in {"buy", "sell"}
    BY <1>1, <1>2, <1>8, ElementOfSeq
  <2> QED
    BY <1>8, <2>1, <2>2 DEF PageTypeOK
<1>10. tx.legs \in Seq(LegType)
  <2>1. tx \in [kind : {"buy", "sell"}, legs : Seq(LegType)]
    BY <1>9 DEF TxType
  <2> QED
    BY <2>1
<1>11. Run(m, tx) = RunLegs(m, tx.kind, tx.legs)
  BY <1>9 DEF Run
<1>12. PICK n : n = RunLegs(m, tx.kind, tx.legs).m /\ n = market'
  BY <1>9, <1>11
<1>13. RanTo(m, n, tx.kind, tx.legs, Len(tx.legs))
  BY <1>9, <1>10, <1>11, <1>12, RunEffect
<1>14. /\ UnitsTo(tx.legs, Len(tx.legs)) = TotalUnits(tx.legs)
       /\ GrossTo(tx.legs, Len(tx.legs)) = TotalGross(tx.legs)
  BY <1>10, LegSums
<1>15. YouAfter(m, n, tx.kind, TotalUnits(tx.legs), TotalGross(tx.legs))
  BY <1>13, <1>14 DEF RanTo
<1> QED
  BY <1>1, <1>8, <1>12, <1>15 DEF YouAfter, SwapWithin

\* A swap of the page that lands gives exactly the HashShares of its legs for at most
\* their cost, and a sale hands over at most its units, whatever happened to the orders
\* since the page read them.
THEOREM SwapsKeepToTheirLegs == PageSpec => SwapsStayWithinTheirLegs
<1>1. PageInit => PageTypeOK /\ MarketFundsConserved
  BY PageStarts
<1>2. PageTypeOK /\ MarketFundsConserved /\ [PageNext]_marketPageVars
        => PageTypeOK' /\ MarketFundsConserved'
  BY PageStep
<1>3. PageTypeOK /\ [PageNext]_marketPageVars =>
        [\A k \in DOMAIN inflight :
           Confirms(k) /\ inflight[k].kind \in {"buy", "sell"} =>
             LET legs == inflight[k].legs IN
             IF inflight[k].kind = "buy"
             THEN /\ market'.shares[You] = market.shares[You] + TotalUnits(legs)
                  /\ market'.quote[You] + TotalGross(legs) >= market.quote[You]
             ELSE market'.shares[You] + TotalUnits(legs) >= market.shares[You]]_marketPageVars
  <2>1. ASSUME PageTypeOK, PageNext
        PROVE  \A k \in DOMAIN inflight :
                 Confirms(k) /\ inflight[k].kind \in {"buy", "sell"} => SwapWithin(k)
    BY <2>1, SwapStep
  <2> QED
    BY <2>1 DEF SwapWithin
<1> QED
  BY <1>1, <1>2, <1>3, PTL DEF PageSpec, SwapsStayWithinTheirLegs

=============================================================================
