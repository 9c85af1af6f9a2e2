----------------------------- MODULE MarketPage -----------------------------
(***************************************************************************)
(* The public tab of the marketplace page (web/app/marketplace/page.tsx,   *)
(* web/components/market/SwapCard.tsx) on top of the market contract.      *)
(*                                                                         *)
(* The page works on copies: the order book read by useShareMarketOrders   *)
(* and the coins read by useHashShareBalances and useQuoteCoins, refreshed *)
(* by polling.  A click builds a transaction from the copies; the wallet   *)
(* signs and the chain executes it later, all of its calls or none.        *)
(***************************************************************************)
EXTENDS ShareMarket

CONSTANTS
  You,          \* the connected account
  Amounts,      \* whole numbers the user types
  GasBuffer,    \* GAS_BUFFER_MIST
  MaxLegs,      \* orders a swap walks (8)
  EventPage,    \* placement events read per side (100)
  MaxInflight,  \* bound: transactions of the page in flight
  MaxLag        \* bound: transactions of others between two readings of the page

ASSUME MarketPageAssumption ==
  /\ You \in Accounts /\ Amounts \subseteq Nat
  /\ GasBuffer \in Nat /\ MaxLegs \in Nat /\ EventPage \in Nat /\ MaxInflight \in Nat
  /\ MaxLag \in Nat

VARIABLES
  book,      \* orders.data: bids and asks, best price first
  wallet,    \* quoteCoins.balance and myInventory.balanceUnits
  inflight,  \* transactions handed to signAndExecute, oldest first
  pending,   \* isPending of the mutation: of the latest of them
  lag        \* transactions of others since the page last read the chain

pageVars == <<book, wallet, inflight, pending, lag>>
marketPageVars == <<market, pageVars>>

-----------------------------------------------------------------------------
(* Reading the chain.                                                      *)

\* Placement events of one side, newest first, one page of them.
NewestEvents(m, side) ==
  LET of == {i \in DOMAIN m.placed : m.placed[i] = side}
  IN  {i \in of : Cardinality({j \in of : j > i}) < EventPage}

\* An order as the page keeps it.  A bid's maxUnits is what its budget still buys.
Entry(m, i) ==
  LET o == m.orders[i] IN
  [id |-> i, owner |-> o.owner, price |-> o.price, exp |-> o.exp,
   maxUnits |-> IF o.side = "bid" THEN o.rem \div o.price ELSE o.rem]

\* Deleted orders are skipped, expired and sold-out ones are not; the sort by price is
\* stable, so that the newest order comes first among equals.
BidBefore(m, i, j) ==
  \/ m.orders[i].price > m.orders[j].price
  \/ m.orders[i].price = m.orders[j].price /\ i > j
\* Mutant: asks are sorted like bids.
AskBeforeDescending(m, i, j) == BidBefore(m, i, j)
AskBefore(m, i, j) ==
  \/ m.orders[i].price < m.orders[j].price
  \/ m.orders[i].price = m.orders[j].price /\ i > j
BookBefore(m, side, i, j) == IF side = "bid" THEN BidBefore(m, i, j) ELSE AskBefore(m, i, j)

\* The place of an order in its list is the number of orders before it.
OnPage(m, side) == Live(m) \cap NewestEvents(m, side)
Rank(m, side, i) == Cardinality({j \in OnPage(m, side) : BookBefore(m, side, j, i)})
Entries(m, side) ==
  [k \in 1 .. Cardinality(OnPage(m, side)) |->
     Entry(m, CHOOSE i \in OnPage(m, side) : Rank(m, side, i) = k - 1)]
Bids(m) == Entries(m, "bid")
Asks(m) == Entries(m, "ask")

\* useQuoteCoins and useHashShareBalances: the coins an account holds, added up.
QuoteBalance(m) == m.quote[You]
BalanceUnits(m) == m.shares[You]

\* useShareMarketOrders, useQuoteCoins and useHashShareBalances, every 15, 10 and 30
\* seconds and after each of the page's transactions.  One action reads all three: the
\* wallet's copy only decides whether the page refuses before it submits.
Refetch ==
  /\ book' = [bids |-> Bids(market), asks |-> Asks(market)]
  /\ wallet' = [quote |-> QuoteBalance(market), shares |-> BalanceUnits(market)]
  /\ lag' = 0
  /\ UNCHANGED <<market, inflight, pending>>

-----------------------------------------------------------------------------
(* Walking the book.                                                       *)

Reach(entries) == Min({MaxLegs, Len(entries)})

\* A buy takes as many units of an entry as what is left to spend affords, a sale as many
\* as are left to sell; neither takes more than the entry has.
TakeEntry(side, acc, e) ==
  LET units == Min({IF side = "buy" THEN acc.left \div e.price ELSE acc.left, e.maxUnits})
      gross == units * e.price
  IN  IF units = 0 THEN acc
      ELSE [legs |-> Append(acc.legs, [id |-> e.id, units |-> units, gross |-> gross]),
            left |-> acc.left - (IF side = "buy" THEN gross ELSE units)]

Walk(side, pay, entries) ==
  LET W[k \in 0 .. Reach(entries)] ==
        IF k = 0 THEN [legs |-> << >>, left |-> pay] ELSE TakeEntry(side, W[k - 1], entries[k])
  IN  W[Reach(entries)].legs

\* walkBuy and walkSell.
WalkBuy(pay, asks) == Walk("buy", pay, asks)
WalkSell(payUnits, bids) == Walk("sell", payUnits, bids)

TotalUnits(legs) == SumOver(DOMAIN legs, [k \in DOMAIN legs |-> legs[k].units])
TotalGross(legs) == SumOver(DOMAIN legs, [k \in DOMAIN legs |-> legs[k].gross])

\* walkBuyProjection and walkSellProjection of the SwapCard, which shows the totals as
\* "You receive" and enables the button when there is a leg.
BuyProjection(pay, asks) == WalkBuy(pay, asks)
SellProjection(pay, bids) == WalkSell(pay, bids)

\* The lines of SwapDetails: top of the book, average price of the legs, slippage in basis
\* points of the top, and what of the amount stays unfilled.
TopPrice(entries) == IF entries = << >> THEN 0 ELSE entries[1].price
EffectivePrice(legs) == IF legs = << >> THEN 0 ELSE TotalGross(legs) \div TotalUnits(legs)
SlippageBps(side, top, eff) ==
  LET diff == IF side = "buy" THEN eff - top ELSE top - eff
  IN  IF diff <= 0 THEN 0 ELSE (diff * 10000) \div top
Unfilled(side, pay, legs) == pay - (IF side = "buy" THEN TotalGross(legs) ELSE TotalUnits(legs))

\* maxFromBalance: the whole balance, less a gas buffer when paying with the quote coin.
MaxFromBalance(side) ==
  IF side = "sell" THEN wallet.shares
  ELSE IF wallet.quote > GasBuffer THEN wallet.quote - GasBuffer ELSE 0

\* What the pay field of the swap tab can hold: digits, or the MAX button's value.
PayAmounts(side) == {n \in Amounts \cup {MaxFromBalance(side)} : n > 0}

-----------------------------------------------------------------------------
(* Clicks.  What the pill above the tabs says afterwards is left out here  *)
(* (PrivateMarket models it).                                              *)

Submit(tx) ==
  /\ Len(inflight) < MaxInflight
  /\ inflight' = Append(inflight, tx)
  /\ pending' = TRUE
  /\ UNCHANGED <<market, book, wallet, lag>>

Refuse == UNCHANGED marketPageVars

\* SwapTab.execute, then swapBuy: the legs are derived again from the page's book, and
\* their cost compared with the page's balance, not the amount typed.
SwapBuy(pay) ==
  LET legs == WalkBuy(pay, book.asks) IN
  /\ BuyProjection(pay, book.asks) # << >> /\ ~pending
  /\ IF wallet.quote < TotalGross(legs)
     THEN Refuse
     ELSE Submit([kind |-> "buy", legs |-> legs])

\* swapSell: the amount is first capped by the page's inventory.
SwapSell(pay) ==
  LET legs == WalkSell(Min({pay, wallet.shares}), book.bids) IN
  /\ SellProjection(pay, book.bids) # << >> /\ ~pending
  /\ IF wallet.shares = 0 \/ legs = << >>
     THEN Refuse
     ELSE Submit([kind |-> "sell", legs |-> legs])

\* LimitTab.place, then placeBid: the budget of a bid is price times quantity.
PlaceBid(price, qty) ==
  /\ price > 0 /\ qty > 0 /\ ~pending
  /\ IF wallet.quote < price * qty
     THEN Refuse
     ELSE Submit([kind |-> "bid", price |-> price, amount |-> price * qty])

\* placeAsk.
PlaceAsk(price, qty) ==
  /\ price > 0 /\ qty > 0 /\ ~pending
  /\ IF wallet.shares = 0 \/ qty > wallet.shares
     THEN Refuse
     ELSE Submit([kind |-> "ask", price |-> price, amount |-> qty])

\* MyOrdersList shows the account's orders of the page's book; its cancel button stays
\* enabled while another transaction is pending.
Mine == {e \in Range(book.bids) \cup Range(book.asks) : e.owner = You}

Cancel(entry) == Submit([kind |-> "cancel", id |-> entry.id])

-----------------------------------------------------------------------------
(* The chain executes a transaction.                                       *)

\* One call of a programmable transaction on the state the earlier calls left.
RunLeg(acc, kind, leg) ==
  LET can == IF kind = "buy" THEN CanFillSell(acc.m, leg.id, You, leg.gross, leg.units)
                             ELSE CanFillBuy(acc.m, leg.id, You, leg.units)
  IN  IF ~acc.ok \/ ~can THEN [ok |-> FALSE, m |-> acc.m]
      ELSE [ok |-> TRUE,
            m  |-> IF kind = "buy" THEN FillSell(acc.m, leg.id, You, leg.gross, leg.units)
                                   ELSE FillBuy(acc.m, leg.id, You, leg.units)]

RunLegs(m, kind, legs) ==
  LET R[k \in 0 .. Len(legs)] ==
        IF k = 0 THEN [ok |-> TRUE, m |-> m] ELSE RunLeg(R[k - 1], kind, legs[k])
  IN  R[Len(legs)]

Run(m, tx) ==
  CASE tx.kind \in {"buy", "sell"} -> RunLegs(m, tx.kind, tx.legs)
    [] tx.kind = "bid" -> [ok |-> CanPlaceBuy(m, You, tx.price, tx.amount),
                           m |-> PlaceBuy(m, You, tx.price, tx.amount, 0)]
    [] tx.kind = "ask" -> [ok |-> CanPlaceSell(m, You, tx.price, tx.amount),
                           m |-> PlaceSell(m, You, tx.price, tx.amount, 0)]
    [] tx.kind = "cancel" -> IF CanCancel(m, tx.id, You)
                             THEN [ok |-> TRUE, m |-> Closed(m, tx.id)]
                             ELSE [ok |-> FALSE, m |-> m]

\* isPending follows the transaction submitted last; an earlier one no longer counts.
Settled(k) ==
  /\ inflight' = RemoveAt(inflight, k)
  /\ pending' = (pending /\ k # Len(inflight))
  /\ UNCHANGED <<book, wallet, lag>>

\* The transaction takes effect as a whole.
Confirm(k) ==
  LET run == Run(market, inflight[k]) IN
  /\ run.ok
  /\ market' = run.m
  /\ Settled(k)

\* An assert fails, a coin object of the page's copy no longer exists, the user rejects
\* the request, or the node cannot be reached.
Fail(k) ==
  /\ Settled(k)
  /\ UNCHANGED market

-----------------------------------------------------------------------------
PageInit ==
  /\ MarketInit
  /\ book = [bids |-> << >>, asks |-> << >>]
  /\ wallet = [quote |-> 0, shares |-> 0]
  /\ inflight = << >> /\ pending = FALSE /\ lag = 0

Script ==
  /\ \/ \E who \in Accounts \ {You} :
          MayPlace(who) \/ MayFill(who) \/ MayManage(who)
     \/ NextEpoch
  /\ lag < MaxLag
  /\ lag' = lag + 1
  /\ UNCHANGED <<book, wallet, inflight, pending>>

SwapTab ==
  \/ \E pay \in PayAmounts("buy") : SwapBuy(pay)
  \/ \E pay \in PayAmounts("sell") : SwapSell(pay)
LimitTab == \E price \in Prices, qty \in Amounts : PlaceBid(price, qty) \/ PlaceAsk(price, qty)
MyOrdersList == \E entry \in Mine : Cancel(entry)
Click == SwapTab \/ LimitTab \/ MyOrdersList

PageNext ==
  \/ Script
  \/ Refetch
  \/ Click
  \/ \E k \in DOMAIN inflight : Confirm(k) \/ Fail(k)

PageSpec == PageInit /\ [][PageNext]_marketPageVars

-----------------------------------------------------------------------------
(* Properties.                                                             *)

EntryType == [id : OrderIds, owner : Accounts, price : Nat \ {0}, exp : Nat, maxUnits : Nat]
LegType == [id : OrderIds, units : Nat \ {0}, gross : Nat]
TxType ==
  [kind : {"buy", "sell"}, legs : Seq(LegType)]
    \cup [kind : {"bid", "ask"}, price : Nat \ {0}, amount : Nat]
    \cup [kind : {"cancel"}, id : OrderIds]

PageTypeOK ==
  /\ MarketOK(market)
  /\ book \in [bids : Seq(EntryType), asks : Seq(EntryType)]
  /\ wallet \in [quote : Nat, shares : Nat]
  /\ inflight \in Seq(TxType) /\ Len(inflight) <= MaxInflight
  /\ pending \in BOOLEAN /\ lag \in 0 .. MaxLag

\* The step confirms transaction k of the page.
Confirms(k) == inflight' = RemoveAt(inflight, k) /\ market' # market

\* A swap that lands gives exactly the HashShares of its legs and spends at most their
\* cost, and a sale hands over at most its units, however the orders were repriced,
\* refilled or taken by others between the page's reading and the execution, and
\* whatever else of the page is in flight.
SwapsStayWithinTheirLegs ==
  [][\A k \in DOMAIN inflight :
       Confirms(k) /\ inflight[k].kind \in {"buy", "sell"} =>
         LET legs == inflight[k].legs IN
         IF inflight[k].kind = "buy"
         THEN /\ market'.shares[You] = market.shares[You] + TotalUnits(legs)
              /\ market'.quote[You] + TotalGross(legs) >= market.quote[You]
         ELSE market'.shares[You] + TotalUnits(legs) >= market.shares[You]]_marketPageVars

\* Units of order i taken from the market m by the time it is n, and what is owed to the
\* owner a of orders for them.
Taken(m, n, i) ==
  LET o == m.orders[i] IN
  IF i \notin Live(n) \/ n.orders[i].rem >= o.rem THEN 0
  ELSE IF o.side = "ask" THEN o.rem - n.orders[i].rem
       ELSE (o.rem - n.orders[i].rem) \div o.price
Net(gross) == gross - Fee(gross)
OrdersBy(m, a, side) == {i \in OrdersOf(m, side) : m.orders[i].owner = a}
OwedQuote(m, n, a) ==
  SumOver(OrdersBy(m, a, "ask"),
          [i \in OrdersBy(m, a, "ask") |-> Net(Taken(m, n, i) * m.orders[i].price)])
OwedShares(m, n, a) ==
  SumOver(OrdersBy(m, a, "bid"), [i \in OrdersBy(m, a, "bid") |-> Taken(m, n, i)])

\* An address that does not act itself loses nothing, and is paid its own orders' price,
\* less the fee when it sells, for every unit the step takes from them.
MakersGetTheirPrice ==
  [][\A a \in Accounts :
       (IF inflight' # inflight THEN a # You ELSE a = You) =>
         /\ market'.quote[a] >= market.quote[a] + OwedQuote(market, market', a)
         /\ market'.shares[a] >= market.shares[a] + OwedShares(market, market', a)]_marketPageVars

\* The lines of SwapDetails fit the legs: the average price is no better than the top of
\* the book and no worse than the last leg, the slippage is the distance between average
\* and top in whole basis points of the top, and nothing is unfilled while an order the
\* walk reaches has room.
DetailsFit(side, pay, entries, legs) ==
  LET top == TopPrice(entries)    avg == EffectivePrice(legs)
      end == legs[Len(legs)].gross \div legs[Len(legs)].units
      far == IF side = "buy" THEN avg - top ELSE top - avg
      slip == SlippageBps(side, top, avg)
      left == Unfilled(side, pay, legs)
  IN  /\ legs # << >> =>
           /\ IF side = "buy" THEN top <= avg /\ avg <= end ELSE end <= avg /\ avg <= top
           /\ slip * top <= far * 10000 /\ far * 10000 < (slip + 1) * top
      /\ left >= 0
      /\ left > 0 =>
           \A k \in 1 .. Reach(entries) :
             \/ entries[k].maxUnits = 0
             \/ side = "buy" /\ left < entries[k].price
             \/ \E l \in DOMAIN legs : /\ legs[l].id = entries[k].id
                                       /\ legs[l].units = entries[k].maxUnits

\* A swap derived from a book that is not stale executes, unless one of its orders has
\* expired: the walkers' cap and price rules agree with the contract's asserts, a buy
\* stays within the amount typed, and the SwapCard's details describe the legs.  Every
\* market the chain reaches is one where nothing of the page is in flight (the wallet may
\* reject what is), so it is enough to look at those.
FreshSwapsExecute ==
  inflight = << >> =>
    LET asks == Asks(market)    bids == Bids(market)
        Unexpired(legs) == \A k \in DOMAIN legs : NotExpired(market, market.orders[legs[k].id])
    IN  \A pay \in 1 .. Max({Held(QuoteSupply), Held(ShareSupply)}) + 1 :
          LET buy == WalkBuy(pay, asks)    sell == WalkSell(pay, bids) IN
          /\ Unexpired(buy) /\ TotalGross(buy) <= market.quote[You] =>
               RunLegs(market, "buy", buy).ok
          /\ Unexpired(sell) /\ TotalUnits(sell) <= market.shares[You] =>
               RunLegs(market, "sell", sell).ok
          /\ DetailsFit("buy", pay, asks, buy) /\ DetailsFit("sell", pay, bids, sell)

\* The market's quote and shares are conserved over accounts and orders, and a swap
\* built on a book that is still the chain's executes with the figures the page shows.
MarketInv == PageTypeOK /\ MarketFundsConserved /\ FreshSwapsExecute

=============================================================================
