---------------------------- MODULE ShareMarket ----------------------------
(***************************************************************************)
(* The HashShare market contract (contracts/sources/hash_share_market.move)*)
(* for one HashShare coin and one quote coin: standing buy orders that     *)
(* escrow quote, standing sell orders that escrow HashShares, a fee on     *)
(* every fill that goes to the admin of the fee pool.                      *)
(*                                                                         *)
(* An entry function is a guard (its asserts) and an effect, both on the   *)
(* record of the market's objects, so that a transaction of several calls  *)
(* is a composition of effects.                                            *)
(***************************************************************************)
EXTENDS WorkSums, Sequences, FiniteSetsExt, SequencesExt

CONSTANTS
  Accounts,     \* addresses
  Admin,        \* the address that created the fee pool
  Prices,       \* values of price_per_unit_mist
  Expiries,     \* values of expires_epoch; 0 is "never"
  FeeBps,       \* FEE_BPS
  BpsDenom,     \* BPS_DENOM
  QuoteSupply,  \* what each address holds of the quote coin at the start
  ShareSupply,  \* and of the HashShare coin
  MaxOrders,    \* bound: orders placed in a behaviour
  MaxAmount,    \* bound: the value of a coin put into an order by a script
  MaxEpoch      \* bound: the Sui epoch

ASSUME ShareMarketAssumption ==
  /\ IsFiniteSet(Accounts) /\ Admin \in Accounts
  /\ Prices \subseteq Nat \ {0} /\ Expiries \subseteq Nat
  /\ FeeBps \in Nat /\ BpsDenom \in Nat \ {0} /\ FeeBps <= BpsDenom
  /\ QuoteSupply \in [Accounts -> Nat] /\ ShareSupply \in [Accounts -> Nat]
  /\ MaxOrders \in Nat /\ MaxAmount \in Nat /\ MaxEpoch \in Nat

\* The market's objects: live shared orders by id, the placement events (their sides, in
\* the order of the ids), coin holdings, the fee pool, the epoch.
VARIABLE market

OrderIds == 1 .. MaxOrders
Live(m) == DOMAIN m.orders

MarketInit ==
  market = [orders |-> << >>, placed |-> << >>, quote |-> QuoteSupply, shares |-> ShareSupply,
            admin |-> Admin, epoch |-> 0]

\* The fee of a fill, rounded down.
Fee(gross) == (gross * FeeBps) \div BpsDenom

\* A coin moves between an address and the market.
Debit(f, a, n) == [f EXCEPT ![a] = @ - n]
Credit(f, a, n) == [f EXCEPT ![a] = @ + n]

NotExpired(m, o) == o.exp = 0 \/ m.epoch < o.exp
Expired(m, o) == o.exp # 0 /\ m.epoch >= o.exp

-----------------------------------------------------------------------------
(* Placing.                                                                *)

Opened(m, o) ==
  LET id == Len(m.placed) + 1 IN
  [m EXCEPT !.placed = Append(@, o.side),
            !.orders = [i \in Live(m) \cup {id} |-> IF i = id THEN o ELSE m.orders[i]]]

\* place_buy_order.
CanPlaceBuy(m, who, price, budget) ==
  /\ Len(m.placed) < MaxOrders
  /\ price > 0 /\ budget <= m.quote[who]

PlaceBuy(m, who, price, budget, exp) ==
  Opened([m EXCEPT !.quote = Debit(@, who, budget)],
         [side |-> "bid", owner |-> who, price |-> price, rem |-> budget, exp |-> exp])

\* place_sell_order.
CanPlaceSell(m, who, price, units) ==
  /\ Len(m.placed) < MaxOrders
  /\ price > 0 /\ units > 0 /\ units <= m.shares[who]

PlaceSell(m, who, price, units, exp) ==
  Opened([m EXCEPT !.shares = Debit(@, who, units)],
         [side |-> "ask", owner |-> who, price |-> price, rem |-> units, exp |-> exp])

-----------------------------------------------------------------------------
(* Filling.  The seller of a fill names only the units, the buyer also what *)
(* it pays at most; neither names a price.                                 *)

CanFillBuy(m, i, who, units) ==
  i \in Live(m) /\ LET o == m.orders[i] IN
  /\ o.side = "bid" /\ NotExpired(m, o)
  /\ units > 0 /\ units <= m.shares[who]
  /\ o.rem >= units * o.price

\* fill_buy_order: inventory to the buyer, net quote to the seller, fee to the admin.
FillBuy(m, i, who, units) ==
  LET o     == m.orders[i]
      gross == units * o.price
  IN  [m EXCEPT !.orders[i].rem = @ - gross,
                !.shares = Credit(Debit(@, who, units), o.owner, units),
                !.quote  = Credit(Credit(@, who, gross - Fee(gross)), m.admin, Fee(gross))]

\* Mutant: the cost is taken from the buyer's coins, whatever the payment split off.
CanFillSellAtAnyPrice(m, i, who, payment, units) ==
  i \in Live(m) /\ LET o == m.orders[i] IN
  /\ o.side = "ask" /\ NotExpired(m, o)
  /\ units > 0 /\ o.rem >= units
  /\ m.quote[who] >= units * o.price

CanFillSell(m, i, who, payment, units) ==
  i \in Live(m) /\ LET o == m.orders[i] IN
  /\ o.side = "ask" /\ NotExpired(m, o)
  /\ payment <= m.quote[who]
  /\ units > 0 /\ o.rem >= units
  /\ payment >= units * o.price

\* fill_sell_order: inventory to the buyer, gross minus fee to the seller, the fee to
\* the admin, what was paid beyond the gross back to the buyer.
FillSell(m, i, who, payment, units) ==
  LET o     == m.orders[i]
      gross == units * o.price
  IN  [m EXCEPT !.orders[i].rem = @ - units,
                !.shares = Credit(@, who, units),
                !.quote  = Credit(Credit(Debit(@, who, gross), o.owner, gross - Fee(gross)),
                                  m.admin, Fee(gross))]

-----------------------------------------------------------------------------
(* Managing an order.                                                      *)

\* update_buy_order_price and update_sell_order_price.
CanUpdatePrice(m, i, who, price) ==
  i \in Live(m) /\ m.orders[i].owner = who /\ price > 0
UpdatePrice(m, i, price) == [m EXCEPT !.orders[i].price = price]

\* top_up_buy_order and top_up_sell_order, which anyone may call.
CanTopUp(m, i, who, n) ==
  /\ i \in Live(m)
  /\ n <= (IF m.orders[i].side = "bid" THEN m.quote[who] ELSE m.shares[who])
TopUp(m, i, who, n) ==
  IF m.orders[i].side = "bid"
  THEN [m EXCEPT !.orders[i].rem = @ + n, !.quote = Debit(@, who, n)]
  ELSE [m EXCEPT !.orders[i].rem = @ + n, !.shares = Debit(@, who, n)]

\* The order object is destructured and what it still holds goes to its owner.
Closed(m, i) ==
  LET o    == m.orders[i]
      rest == [m EXCEPT !.orders = Restrict(@, Live(m) \ {i})]
  IN  IF o.side = "bid"
      THEN [rest EXCEPT !.quote = Credit(@, o.owner, o.rem)]
      ELSE [rest EXCEPT !.shares = Credit(@, o.owner, o.rem)]

\* cancel_buy_order and cancel_sell_order.
CanCancel(m, i, who) == i \in Live(m) /\ m.orders[i].owner = who

\* cleanup_expired_buy_order and cleanup_expired_sell_order, which anyone may call.
CanCleanup(m, i) == i \in Live(m) /\ Expired(m, m.orders[i])

-----------------------------------------------------------------------------
(* Callers that use the contract directly.                                 *)

MayPlace(who) ==
  \E price \in Prices, n \in 1 .. MaxAmount, exp \in Expiries :
    \/ /\ CanPlaceBuy(market, who, price, n)
       /\ market' = PlaceBuy(market, who, price, n, exp)
    \/ /\ CanPlaceSell(market, who, price, n)
       /\ market' = PlaceSell(market, who, price, n, exp)

MayFill(who) ==
  \E i \in DOMAIN market.orders, n \in 1 .. MaxAmount :
    \/ /\ CanFillBuy(market, i, who, n)
       /\ market' = FillBuy(market, i, who, n)
    \/ \E payment \in {n * market.orders[i].price, market.quote[who]} :
         /\ CanFillSell(market, i, who, payment, n)
         /\ market' = FillSell(market, i, who, payment, n)

MayManage(who) ==
  \E i \in DOMAIN market.orders :
    \/ \E price \in Prices : /\ CanUpdatePrice(market, i, who, price)
                             /\ market' = UpdatePrice(market, i, price)
    \/ /\ CanTopUp(market, i, who, 1)
       /\ market' = TopUp(market, i, who, 1)
    \/ /\ CanCancel(market, i, who)
       /\ market' = Closed(market, i)
    \/ /\ CanCleanup(market, i)
       /\ market' = Closed(market, i)

\* The Sui epoch changes between transactions.
NextEpoch ==
  /\ market.epoch < MaxEpoch
  /\ market' = [market EXCEPT !.epoch = @ + 1]

-----------------------------------------------------------------------------
(* Properties.                                                             *)

OrderType ==
  [side : {"bid", "ask"}, owner : Accounts, price : Nat \ {0}, rem : Nat,
   exp : Nat]

\* The objects of a market: each live order is one that was placed.
HasFields(m) ==
  m = [orders |-> m.orders, placed |-> m.placed, quote |-> m.quote, shares |-> m.shares,
       admin |-> m.admin, epoch |-> m.epoch]
MarketOK(m) ==
  /\ HasFields(m)
  /\ m.orders \in [Live(m) -> OrderType] /\ Live(m) \subseteq DOMAIN m.placed
  /\ m.placed \in Seq({"bid", "ask"}) /\ Len(m.placed) <= MaxOrders
  /\ \A i \in Live(m) : m.placed[i] = m.orders[i].side
  /\ m.quote \in [Accounts -> Nat] /\ m.shares \in [Accounts -> Nat]
  /\ m.admin \in Accounts /\ m.epoch \in 0 .. MaxEpoch

\* What the addresses hold of a coin, and what the live orders of a side hold.
Held(f) == SumOver(Accounts, f)
OrdersOf(m, side) == {i \in Live(m) : m.orders[i].side = side}
Escrowed(m, side) == SumOver(OrdersOf(m, side), [i \in OrdersOf(m, side) |-> m.orders[i].rem])

\* Whatever sequence of placements, fills with their fee and change, price changes,
\* top-ups, cancellations and expiries the orders go through, every unit of the quote
\* coin and every HashShare is either held by an address or escrowed in a live order.
Conserved(m) ==
  /\ Held(m.quote) + Escrowed(m, "bid") = Held(QuoteSupply)
  /\ Held(m.shares) + Escrowed(m, "ask") = Held(ShareSupply)
MarketFundsConserved == Conserved(market)

=============================================================================
