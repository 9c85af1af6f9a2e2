----------------------------- MODULE MarketSim -----------------------------
(***************************************************************************)
(* The market simulation of the tools page: generated listings, the order  *)
(* book around their median, and the animation callback that every         *)
(* interval adds a trade, drifts the whole book and extends the comparison *)
(* of a bitcoin position with a share bought at a discount.                *)
(*                                                                         *)
(* A random number is a choice from three: the two ends of its interval    *)
(* and the middle.  Prices are counted in a unit small enough that the     *)
(* drift of a thousandth is a natural: a midpoint is about a thousand.     *)
(* React applies a callback's updates and its effects before the next      *)
(* callback, which comes seconds later, so a tick is one step.             *)
(***************************************************************************)
EXTENDS Integers, Sequences, FiniteSets, SequencesExt

CONSTANTS
    ListingPrices,\* market prices a generated listing can have
    Listings,     \* number of listings generated
    Sizes,        \* hashrates a level can have
    Levels,       \* LEVELS of each side of the book
    SpreadBps,    \* spreadBps of the preset
    History,      \* number of trades generated at the start
    MaxTrades,    \* 100: the trades kept
    MaxPoints,    \* 300: the comparison points kept
    Maturity,     \* 100: blocks until a share matures
    Decay,        \* ratio^alpha at every number of blocks, in percent
    EntryDiscount,\* MAX_DISCOUNT, in percent
    MaxTicks      \* bound on the ticks

\* Math.pow(ratio, 0.7) grows with the ratio, from 0 to 1.
ASSUME DecayAssumption ==
    /\ Decay \in [0..Maturity -> 0..100]
    /\ Decay[0] = 0 /\ Decay[Maturity] = 100
    /\ \A b \in 1..Maturity : Decay[b - 1] <= Decay[b]
    /\ EntryDiscount \in 1..99

ASSUME SimAssumption ==
    /\ ListingPrices \subseteq Nat \ {0} /\ Listings \in Nat \ {0}
    /\ {Levels, MaxTrades, MaxPoints, MaxTicks} \subseteq Nat \ {0}
    /\ History \in 0..MaxTrades

VARIABLES
    orderBook,      \* bids, asks, spread, midpoint, lastTradePrice
    trades,         \* newest first
    comparison,     \* oldest first
    ticks           \* ticks taken; four of them are one simulated block

simVars == <<orderBook, trades, comparison, ticks>>

Noise == {-1, 0, 1}     \* Math.random() - 0.5, in halves

EmptyBook == [bids |-> <<>>, asks |-> <<>>, spread |-> 0, midpoint |-> 0, last |-> 0]

---------------------------------------------------------------------------
(* data/mock-market.ts                                                      *)

\* The prices a run of the generator can give its listings.
GenerateMockListings == [1..Listings -> ListingPrices]

\* Half the spread at a midpoint.
HalfSpread(mid) == (mid * SpreadBps) \div 20000

\* The price of a level, counted from the middle of the book: half a percent
\* of the midpoint apart.
LevelPrice(mid, half, side, i) == mid + side * (half + (i * mid) \div 200)

\* Level by level with the running total of the sizes.
Level(price, sizes, i) ==
    [price |-> price, ph |-> sizes[i],
     cum |-> FoldLeft(+, 0, SubSeq(sizes, 1, i))]

\* The book around the median listing.  A bid's price has a floor here, which
\* the drift does not apply again.
GenerateOrderBook(listings, bidSizes, askSizes, noise) ==
    LET mid == SortSeq(listings, <)[(Len(listings) \div 2) + 1]
        half == HalfSpread(mid)
        Bid(i) == LevelPrice(mid, half, -1, i - 1)
    IN  [bids |-> [i \in 1..Levels |-> Level(IF Bid(i) < 1 THEN 1 ELSE Bid(i), bidSizes, i)],
         asks |-> [i \in 1..Levels |-> Level(LevelPrice(mid, half, 1, i - 1), askSizes, i)],
         spread |-> 2 * half, midpoint |-> mid, last |-> mid + noise * half]

\* Trades of the day before the page was opened, which have no tick; the
\* noise of their prices is left out.
GenerateTradeHistory(mid) == [i \in 1..History |-> [price |-> mid, tick |-> 0]]

---------------------------------------------------------------------------
(* components/MarketSimulator.tsx                                           *)

\* [newTrade, ...prev].slice(0, 100)
AddTrade(trade) == SubSeq(<<trade>> \o trades, 1,
    IF Len(trades) < MaxTrades THEN Len(trades) + 1 ELSE MaxTrades)

\* Both sides are priced again around the new midpoint, with the spread the
\* book was generated with; sizes stay.
DriftBook(book, newMid, price) ==
    LET half == book.spread \div 2 IN
    [book EXCEPT
        !.bids = [i \in DOMAIN @ |-> [@[i] EXCEPT !.price = LevelPrice(newMid, half, -1, i - 1)]],
        !.asks = [i \in DOMAIN @ |-> [@[i] EXCEPT !.price = LevelPrice(newMid, half, 1, i - 1)]],
        !.midpoint = newMid, !.last = price]

\* The share's value at a tick, for an investment of 1000 at the entry
\* discount: the discount left is the curve at the blocks until maturity.
ShareValue(n) ==
    LET elapsed == n \div 4
        b == IF elapsed < Maturity THEN Maturity - elapsed ELSE 0
    IN  (100000 - 10 * EntryDiscount * Decay[b]) \div (100 - EntryDiscount)

\* The newest MaxPoints points.
AddPoint(point) ==
    LET next == Append(comparison, point) IN
    IF Len(next) > MaxPoints THEN SubSeq(next, Len(next) - MaxPoints + 1, Len(next))
    ELSE next

\* The mount effect: listings, book and trades are generated once.
Generate ==
    /\ orderBook = EmptyBook /\ ticks = 0
    /\ \E listings \in GenerateMockListings, noise \in Noise,
          bidSizes \in [1..Levels -> Sizes], askSizes \in [1..Levels -> Sizes] :
           LET book == GenerateOrderBook(listings, bidSizes, askSizes, noise) IN
           /\ orderBook' = book
           /\ trades' = GenerateTradeHistory(book.midpoint)
    /\ UNCHANGED <<comparison, ticks>>

\* One interval of the animation callback; a trade's side is only a colour.
SimTick ==
    /\ orderBook # EmptyBook /\ ticks < MaxTicks
    /\ ticks' = ticks + 1
    /\ \E noise \in Noise, drift \in Noise :
           LET mid == orderBook.midpoint
               offset == mid + noise * HalfSpread(mid)
               price == IF offset < 1 THEN 1 ELSE offset
               newMid == mid + drift * (mid \div 1000)
           IN  /\ trades' = AddTrade([price |-> price, tick |-> ticks + 1])
               /\ orderBook' = DriftBook(orderBook, newMid, price)
    /\ comparison' = AddPoint([tick |-> ticks + 1, share |-> ShareValue(ticks + 1)])

SimInit ==
    /\ orderBook = EmptyBook
    /\ trades = <<>>
    /\ comparison = <<>>
    /\ ticks = 0

SimNext ==
    \/ Generate
    \/ SimTick

SimSpec == SimInit /\ [][SimNext]_simVars

---------------------------------------------------------------------------
(* components/OrderBookTable.tsx and OrderBookDepthChart.tsx                *)

\* The largest total of the levels drawn: the scale of the bars.
MaxCum(levels) ==
    LET LastCum(s) == IF Len(s) = 0 THEN 0
                      ELSE s[IF Len(s) < levels THEN Len(s) ELSE levels].cum
        b == LastCum(orderBook.bids)
        a == LastCum(orderBook.asks)
    IN  IF a > b THEN a ELSE b

---------------------------------------------------------------------------
\* Type correctness: windows within their limits.
SimTypeOK ==
    /\ ticks \in 0..MaxTicks
    /\ Len(trades) <= MaxTrades /\ Len(comparison) <= MaxPoints
    /\ {Len(orderBook.bids), Len(orderBook.asks)} \subseteq {0, Levels}

\* However long the book drifts, its sides stay in order, apart by the spread
\* it was generated with, around the midpoint it shows; the totals still grow
\* level by level, so no bar of the table is longer than its row.
DriftedBookIsABook ==
    LET b == orderBook IN b # EmptyBook =>
        /\ b.asks[1].price - b.bids[1].price = b.spread
        /\ b.midpoint - b.bids[1].price = b.asks[1].price - b.midpoint
        /\ \A i \in 1..Levels - 1 :
               /\ b.bids[i + 1].price < b.bids[i].price
               /\ b.asks[i].price < b.asks[i + 1].price
               /\ b.bids[i].cum < b.bids[i + 1].cum
        /\ \A i \in 1..Levels : b.bids[i].price > 0
        /\ \A n \in 1..Levels : \A i \in 1..n :
               b.bids[i].cum <= MaxCum(n) /\ b.asks[i].cum <= MaxCum(n)

\* The newest trade is first and is the book's last trade, and the list holds
\* the latest ones without a gap.
TradesAreNewestFirst ==
    ticks > 0 =>
        /\ trades[1].tick = ticks /\ trades[1].price = orderBook.last
        /\ \A i \in 1..Len(trades) - 1 :
               trades[i].tick = trades[i + 1].tick + (IF trades[i].tick = 0 THEN 0 ELSE 1)

\* The comparison ends at the last tick without a gap, and along it the share
\* never loses value, until at maturity it is worth the full amount the
\* discount bought.
ComparisonFollowsMaturity ==
    LET n == Len(comparison) IN
    /\ \A i \in 1..n : comparison[i].tick = ticks - n + i
    /\ \A i \in 1..n - 1 : comparison[i].share <= comparison[i + 1].share
    /\ \A i \in 1..n : comparison[i].tick >= 4 * Maturity =>
           comparison[i].share = 100000 \div (100 - EntryDiscount)

\* The simulated book never crosses, its trades are newest first, its chart follows
\* the maturity curve.
SimInv == SimTypeOK /\ DriftedBookIsABook /\ TradesAreNewestFirst /\ ComparisonFollowsMaturity

=============================================================================
