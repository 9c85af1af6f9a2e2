--------------------------- MODULE PrivateMarket ---------------------------
(***************************************************************************)
(* The private tab of the marketplace page: hashpower orders of both kinds *)
(* found through their events (web/hooks/useHashpowerOrders.ts), and the   *)
(* owner's cancel, re-price and top-up (PrivateMarketSection and           *)
(* PrivateOrderRow of web/app/marketplace/page.tsx).                       *)
(*                                                                         *)
(* The orders on chain are those of BuyerLane, reduced to what the page    *)
(* reads and calls; each has a coin type, which a call must name.          *)
(***************************************************************************)
EXTENDS QuoteFormat, Sequences, FiniteSetsExt, SequencesExt

CONSTANTS
  Buyer, Other,      \* buyers; the page is connected as Buyer
  Coins,             \* quote coin types
  Listed,            \* the ones in QUOTE_TOKENS with routing to this page
  Decimals,          \* their decimals, of every coin
  FallbackDecimals,  \* quoteForCoinType of an unlisted coin (6)
  Typed,             \* decimal strings the user types
  Placements,        \* orders the scripts place: buyer, kind, coin, dynamic
  Budgets,           \* what they put into them
  Funds,             \* what a buyer holds of each coin at the start
  PageSize,          \* events of a page (100)
  TemplatePages,     \* pages walked for the buyers' templates (10)
  FillPages,         \* pages walked for fills (5)
  PerOrder,          \* fills kept per order (5)
  MaxPrivateOrders,  \* bound: orders placed
  MaxTemplates,      \* bound: templates registered
  MaxFills,          \* bound: fills
  MaxManages         \* bound: transactions of the page in flight

ASSUME PrivateMarketAssumption ==
  /\ Listed \subseteq Coins /\ Decimals \in [Coins -> Nat] /\ FallbackDecimals \in Nat
  /\ {PageSize, TemplatePages, FillPages, PerOrder} \subseteq Nat \ {0}
  /\ {Funds, MaxPrivateOrders, MaxTemplates, MaxFills, MaxManages} \subseteq Nat

Buyers == {Buyer, Other}
None == 0

VARIABLES
  chain,     \* live orders by id, purses, what miners were paid, the event streams
  view,      \* orders.data of useHashpowerOrders
  purse,     \* quoteCoins: the selected coin and the balance read of it
  manages,  \* transactions handed to signAndExecute, oldest first
  managing,   \* isPending of the mounted section's mutation
  pill       \* lastResult of the page: "none", "ok" (shown as Confirmed) or "err"

privateVars == <<chain, view, purse, manages, managing, pill>>

-----------------------------------------------------------------------------
(* The chain: buyers place by script, publish templates; miners fill.      *)

Place(p, price, budget) ==
  LET id == chain.next IN
  /\ id <= MaxPrivateOrders /\ budget <= chain.funds[p.buyer][p.coin]
  /\ chain' = [chain EXCEPT
       !.next = id + 1,
       !.funds[p.buyer][p.coin] = @ - budget,
       !.orders = [i \in DOMAIN chain.orders \cup {id} |->
                     IF i # id THEN chain.orders[i]
                     ELSE [kind |-> p.kind, buyer |-> p.buyer, coin |-> p.coin,
                           price |-> price, budget |-> budget, dynamic |-> p.dynamic]]]

RegisterTemplate(b) ==
  /\ Len(chain.templates) < MaxTemplates
  /\ chain' = [chain EXCEPT !.templates = Append(@, b)]

\* A share of difficulty 1 drains the order by its price.
Fill(i) ==
  LET o == chain.orders[i] IN
  /\ Len(chain.fills) < MaxFills
  /\ o.budget >= o.price
  /\ \E t \in DOMAIN chain.templates : chain.templates[t] = o.buyer
  /\ chain' = [chain EXCEPT !.orders[i].budget = @ - o.price,
                            !.paid[o.coin] = @ + o.price,
                            !.fills = Append(@, [id |-> i, kind |-> o.kind])]

-----------------------------------------------------------------------------
(* useHashpowerOrders.                                                     *)

\* Events are read newest first, a page at a time, up to a number of pages.
NewestFirst(events, pages) ==
  SubSeq(Reverse([k \in DOMAIN events |-> [e |-> events[k], at |-> k]]),
         1, Min({Len(events), pages * PageSize}))

\* Mutant: a fill found in the stream is shown for every order.
CollectFillsOfAll(kind, ids) ==
  LET stream == SelectSeq(NewestFirst(chain.fills, FillPages), LAMBDA ev : ev.e.kind = kind)
  IN  [i \in ids |-> [k \in 1 .. Min({Len(stream), PerOrder}) |-> stream[k].at]]

\* latestByBuyer: the first hit of each buyer, until every buyer is hit.
LatestByBuyer(events, buyers) ==
  FoldLeft(LAMBDA acc, ev : IF ev.e \in buyers /\ acc[ev.e] = None
                            THEN [acc EXCEPT ![ev.e] = ev.at] ELSE acc,
           [b \in buyers |-> None], NewestFirst(events, TemplatePages))

\* collectFills: at most PerOrder fills of each listed order from one kind's stream.
CollectFills(kind, ids) ==
  LET stream == SelectSeq(NewestFirst(chain.fills, FillPages), LAMBDA ev : ev.e.kind = kind)
  IN  [i \in ids |->
         LET of == SelectSeq(stream, LAMBDA ev : ev.e.id = i)
         IN  [k \in 1 .. Min({Len(of), PerOrder}) |-> of[k].at]]

\* collectV1Orders, collectV2Orders: the live orders among those placed; a V2 order gets
\* its buyer's latest template; the fills of either stream; the highest price first,
\* V2 before V1 and newer before older where prices are equal.
Before(i, j) ==
  LET o == chain.orders[i]  p == chain.orders[j] IN
  \/ o.price > p.price
  \/ o.price = p.price /\ o.kind = "v2" /\ p.kind = "v1"
  \/ o.price = p.price /\ o.kind = p.kind /\ i > j

HashpowerOrders ==
  LET ids    == SetToSortSeq(DOMAIN chain.orders, Before)
      v2     == {i \in DOMAIN chain.orders : chain.orders[i].kind = "v2"}
      latest == LatestByBuyer(chain.templates, {chain.orders[i].buyer : i \in v2})
      fills2 == CollectFills("v2", DOMAIN chain.orders)
      fills1 == CollectFills("v1", DOMAIN chain.orders)
      Copy(i) == LET o == chain.orders[i] IN
        [id |-> i, kind |-> o.kind, buyer |-> o.buyer, coin |-> o.coin, price |-> o.price,
         budget |-> o.budget, dynamic |-> o.dynamic,
         latest |-> IF o.kind = "v2" THEN latest[o.buyer] ELSE None,
         fills |-> IF fills2[i] # << >> THEN fills2[i] ELSE fills1[i]]
  IN  [k \in DOMAIN ids |-> Copy(ids[k])]

RefetchOrders ==
  /\ view' = HashpowerOrders
  /\ purse' = [purse EXCEPT !.balance = chain.funds[Buyer][purse.coin]]
  /\ UNCHANGED <<chain, manages, managing, pill>>

\* The quote selector of the public tab; useQuoteCoins is keyed by the coin.
SelectQuote(coin) ==
  /\ coin \in Listed
  /\ purse' = [coin |-> coin, balance |-> chain.funds[Buyer][coin]]
  /\ UNCHANGED <<chain, view, manages, managing, pill>>

-----------------------------------------------------------------------------
(* The manage panel of an order of one's own.                              *)

\* quoteForCoinType.
DisplayDecimals(coin) == IF coin \in Listed THEN Decimals[coin] ELSE FallbackDecimals

\* entryName: which module entry, hence which object type, a call names.
EntryKind(o) == o.kind

SubmitManage(tx) ==
  /\ Len(manages) < MaxManages
  /\ manages' = Append(manages, tx)
  /\ managing' = TRUE
  /\ UNCHANGED <<chain, view, purse>>

RefuseTopUp ==
  /\ pill' = "err"
  /\ UNCHANGED <<chain, view, purse, manages, managing>>

Tx(op, o, amount, typed) ==
  [op |-> op, id |-> o.id, kind |-> EntryKind(o), coin |-> o.coin, amount |-> amount,
   typed |-> typed]

\* cancel: the pill is set to an ok result without digest before the wallet is asked.
CancelOrder(o) ==
  /\ ~managing
  /\ SubmitManage(Tx("cancel", o, 0, [n |-> 0, d |-> 0]))
  /\ pill' = "ok"

\* submitNewPrice and updatePrice, offered for dynamic orders.
Reprice(o, s) ==
  LET p == ParseQuoteAmount(s, DisplayDecimals(o.coin)) IN
  /\ ~managing /\ o.dynamic
  /\ p.ok /\ p.v > 0
  /\ SubmitManage(Tx("reprice", o, p.v, s))
  /\ pill' = pill

\* submitTopUp and topUp.
MayTopUp(o, amount) == o.coin = purse.coin /\ purse.balance >= amount
TopUpOrder(o, s) ==
  LET a == ParseQuoteAmount(s, DisplayDecimals(o.coin)) IN
  /\ ~managing
  /\ a.ok /\ a.v > 0
  /\ IF MayTopUp(o, a.v)
     THEN SubmitManage(Tx("topup", o, a.v, s)) /\ pill' = pill
     ELSE RefuseTopUp

\* Leaving the tab unmounts the section; its mutation, which isPending is of, goes too.
Remount ==
  /\ managing' = FALSE
  /\ UNCHANGED <<chain, view, purse, manages, pill>>

-----------------------------------------------------------------------------
(* The chain executes a transaction.                                       *)

\* The object exists and has the type the entry and its type argument name, and the
\* entry's asserts hold.
CanManage(c, tx) ==
  /\ tx.id \in DOMAIN c.orders
  /\ LET o == c.orders[tx.id] IN
     /\ o.kind = tx.kind /\ o.coin = tx.coin
     /\ tx.op \in {"cancel", "reprice"} => o.buyer = Buyer
     /\ tx.op = "reprice" => o.dynamic /\ tx.amount > 0
     /\ tx.op = "topup" => c.funds[Buyer][tx.coin] >= tx.amount

Manage(c, tx) ==
  CASE tx.op = "cancel" ->
         [c EXCEPT !.funds[Buyer][tx.coin] = @ + c.orders[tx.id].budget,
                   !.orders = Restrict(@, DOMAIN @ \ {tx.id})]
    [] tx.op = "reprice" -> [c EXCEPT !.orders[tx.id].price = tx.amount]
    [] tx.op = "topup" -> [c EXCEPT !.orders[tx.id].budget = @ + tx.amount,
                                    !.funds[Buyer][tx.coin] = @ - tx.amount]

SettledManage(k) ==
  /\ manages' = RemoveAt(manages, k)
  /\ managing' = (managing /\ k # Len(manages))
  /\ UNCHANGED <<view, purse>>

ConfirmManage(k) ==
  /\ CanManage(chain, manages[k])
  /\ chain' = Manage(chain, manages[k])
  /\ pill' = "ok"
  /\ SettledManage(k)

\* The call aborts, the wallet rejects, or the node cannot be reached.
FailManage(k) ==
  /\ pill' = "err"
  /\ UNCHANGED chain
  /\ SettledManage(k)

-----------------------------------------------------------------------------
PrivateInit ==
  /\ chain = [orders |-> << >>, next |-> 1, templates |-> << >>, fills |-> << >>,
              funds |-> [b \in Buyers |-> [c \in Coins |-> Funds]],
              paid |-> [c \in Coins |-> 0]]
  /\ view = << >>
  /\ \E coin \in Listed : purse = [coin |-> coin, balance |-> 0]
  /\ manages = << >> /\ managing = FALSE /\ pill = "none"

ChainStep ==
  /\ \/ \E p \in Placements, n \in Budgets : Place(p, 1, n)
     \/ \E b \in Buyers : RegisterTemplate(b)
     \/ \E i \in DOMAIN chain.orders : Fill(i)
  /\ UNCHANGED <<view, purse, manages, managing, pill>>

\* The rows of the account's own orders; mineOnly filters what is shown of the others.
MyOrders == {o \in Range(view) : o.buyer = Buyer}

\* The controls of the manage panel, open on the rows of the account's own orders.
ManagePanel ==
  \E o \in MyOrders :
    \/ CancelOrder(o)
    \/ \E s \in Typed : Reprice(o, s) \/ TopUpOrder(o, s)

PrivateNext ==
  \/ ChainStep
  \/ RefetchOrders
  \/ \E coin \in Listed : SelectQuote(coin)
  \/ ManagePanel
  \/ Remount
  \/ \E k \in DOMAIN manages : ConfirmManage(k) \/ FailManage(k)

PrivateSpec == PrivateInit /\ [][PrivateNext]_privateVars

-----------------------------------------------------------------------------
(* Properties.                                                             *)

PrivateTypeOK ==
  /\ \A i \in DOMAIN chain.orders :
       chain.orders[i].budget \in Nat /\ chain.orders[i].price \in Nat \ {0}
  /\ \A b \in Buyers, c \in Coins : chain.funds[b][c] \in Nat
  /\ \A o \in Range(view) : o.id \in 1 .. MaxPrivateOrders /\ o.latest \in 0 .. MaxTemplates
  /\ purse.coin \in Listed /\ purse.balance \in Nat
  /\ Len(manages) <= MaxManages /\ managing \in BOOLEAN
  /\ pill \in {"none", "ok", "err"}

\* What the panel offers on an order that is as the page read it goes through: the entry
\* the page routes to by the order's kind accepts the object, the coin it pays with is
\* the order's own, and re-pricing is offered only where the contract allows it.
ManageActionsFitTheOrder ==
  \A o \in MyOrders :
    (/\ o.id \in DOMAIN chain.orders
     /\ purse.balance = chain.funds[Buyer][purse.coin]) =>
      /\ CanManage(chain, Tx("cancel", o, 0, << >>))
      /\ o.dynamic => CanManage(chain, Tx("reprice", o, 1, << >>))
      /\ \A n \in 1 .. 2 * Funds : MayTopUp(o, n) => CanManage(chain, Tx("topup", o, n, << >>))

\* A price typed for an order in a listed coin is the price the contract then holds, in
\* the coin's own base units, whatever happened to the order in between.
RepricesLandAsTyped ==
  [][\A k \in DOMAIN manages :
       LET tx == manages[k] IN
       (manages' = RemoveAt(manages, k) /\ chain' # chain /\ tx.op = "reprice"
         /\ tx.coin \in Listed) =>
         SameNumber(FormatPriceInQuote(chain'.orders[tx.id].price, Decimals[tx.coin]),
                    tx.typed)]_privateVars

\* Of a coin, what the buyers hold, what orders hold and what miners were paid is the
\* same through every top-up, fill, cancellation and double submission.
QuoteFundsConserved ==
  \A c \in Coins :
    chain.paid[c] + chain.funds[Buyer][c] + chain.funds[Other][c]
      + MapThenSumSet(LAMBDA i : chain.orders[i].budget,
                      {i \in DOMAIN chain.orders : chain.orders[i].coin = c}) = 2 * Funds

\* The template shown for a buyer-bound order is one its buyer registered, and the newest
\* when that lies in the pages walked; the fills shown are fills of that order, newest
\* first.
ShownActivityIsTheOrders ==
  \A o \in Range(view) :
    /\ o.latest # None =>
         /\ chain.templates[o.latest] = o.buyer
         /\ o.kind = "v2"
    /\ \A k \in DOMAIN o.fills :
         /\ chain.fills[o.fills[k]].id = o.id
         /\ k > 1 => o.fills[k] < o.fills[k - 1]

\* A fresh reading shows the newest template of the window.
FreshTemplatesAreNewest ==
  [][view' # view => \A o \in Range(view') :
       \A t \in DOMAIN chain.templates :
         (/\ o.kind = "v2" /\ chain.templates[t] = o.buyer
          /\ t > Len(chain.templates) - TemplatePages * PageSize) => o.latest >= t]_privateVars

\* Quote is conserved over wallets, budgets and fills, what a card offers its owner is
\* an entry of the order's own kind, and the activity it lists is that order's.
PrivateInv ==
  PrivateTypeOK /\ QuoteFundsConserved /\ ManageActionsFitTheOrder /\ ShownActivityIsTheOrders

=============================================================================
