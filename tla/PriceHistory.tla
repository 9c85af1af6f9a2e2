---------------------------- MODULE PriceHistory ----------------------------
(***************************************************************************)
(* The history chart of the stats page: useMarketHistory keeps one series  *)
(* per range, made of two answers, the price samples of the range and the  *)
(* daily hashrates of a window the mempool service offers; alignData cuts  *)
(* the hashrates to the range and gives each the price interpolated at its *)
(* time.  MarketOverlayChart draws the selected range and the point under  *)
(* the pointer.                                                            *)
(*                                                                         *)
(* Time is counted in half days: a price is sampled at every even time, a  *)
(* hashrate at every odd one, so that every price drawn is interpolated.   *)
(***************************************************************************)
EXTENDS Integers, Sequences, FiniteSets, SequencesExt

CONSTANTS
    Ranges,     \* the buttons of the chart
    Span,       \* RANGE_TO_DAYS, per range
    Window,     \* the time span of RANGE_TO_MEMPOOL_TF, per range
    PriceAt,    \* the BTC price at every even time
    RateAt,     \* the hashrate at every odd time, 0 where none was recorded
    Width,      \* the pixels of the chart
    MaxTime     \* bound on the clock

\* The service's window is at least as long as the range.
ASSUME RangeAssumption ==
    /\ Span \in [Ranges -> Nat \ {0}] /\ Window \in [Ranges -> Nat]
    /\ \A r \in Ranges : Span[r] <= Window[r]
    /\ MaxTime \in Nat /\ Width \in Nat \ {0}
    /\ PriceAt \in [0..MaxTime -> Nat \ {0}] /\ RateAt \in [0..MaxTime -> Nat]

VARIABLES
    time,       \* the wall clock
    range,      \* the range selected
    wanted,     \* per range, the request in flight with the answers it has
    series,     \* per range, the query's data
    pointer     \* the pixel the pointer is over, or Off

historyVars == <<time, range, wanted, series, pointer>>

Off == -1       \* outside the canvas or in its margins
NotAsked == [on |-> FALSE, prices |-> <<>>, hasPrices |-> FALSE,
             rates |-> <<>>, hasRates |-> FALSE]

---------------------------------------------------------------------------
(* The two services (external)                                             *)

Samples(from, parity, at) ==
    LET times == {t \in 0..time : t >= from /\ t % 2 = parity}
        order == SetToSortSeq(times, <)
    IN  [i \in 1..Len(order) |-> [t |-> order[i], v |-> at[order[i]]]]

PriceSamples(r) == Samples(time - Span[r], 0, PriceAt)
RateSamples(r) == Samples(time - Window[r], 1, RateAt)

---------------------------------------------------------------------------
(* hooks/useMarketHistory.ts                                                *)

\* The pair of samples the binary search ends on.
Bracket(prices, t) ==
    LET halve[lo \in 1..Len(prices), hi \in 1..Len(prices)] ==
            IF lo >= hi - 1 THEN lo
            ELSE LET mid == (lo + hi) \div 2 IN
                 IF prices[mid].t <= t THEN halve[mid, hi] ELSE halve[lo, mid]
    IN  halve[1, Len(prices)]

\* Linear between two samples, the first or the last one outside them, 0
\* when there are none; a fraction.
InterpolatePrice(prices, t) ==
    IF prices = <<>> THEN <<0, 1>>
    ELSE IF t <= Head(prices).t THEN <<Head(prices).v, 1>>
    ELSE IF t >= prices[Len(prices)].t THEN <<prices[Len(prices)].v, 1>>
    ELSE LET lo == Bracket(prices, t)
             a == prices[lo]
             b == prices[lo + 1]
         IN  <<a.v * (b.t - a.t) + (t - a.t) * (b.v - a.v), b.t - a.t>>

\* Revenue of a day by hashrate, up to a constant factor; 0 where no hashrate
\* was recorded.
Hashprice(prices, h) ==
    LET p == InterpolatePrice(prices, h.t) IN
    IF h.v > 0 THEN <<p[1], p[2] * h.v>> ELSE <<0, 1>>

\* One point per hashrate inside the range.
AlignData(prices, rates, span) ==
    LET kept == SelectSeq(rates, LAMBDA h : h.t >= time - span)
    IN  [i \in 1..Len(kept) |->
            [t |-> kept[i].t, btcPrice |-> InterpolatePrice(prices, kept[i].t),
             hashprice |-> Hashprice(prices, kept[i])]]

\* The selected range's query starts, on mount, on its interval or on a
\* switch to a range not yet fetched.
AskHistory ==
    /\ ~wanted[range].on
    /\ wanted' = [wanted EXCEPT ![range] = [NotAsked EXCEPT !.on = TRUE]]
    /\ UNCHANGED <<time, range, series, pointer>>

AnswerPrices(r) ==
    /\ wanted[r].on /\ ~wanted[r].hasPrices
    /\ wanted' = [wanted EXCEPT ![r].prices = PriceSamples(r), ![r].hasPrices = TRUE]
    /\ UNCHANGED <<time, range, series, pointer>>

AnswerRates(r) ==
    /\ wanted[r].on /\ ~wanted[r].hasRates
    /\ wanted' = [wanted EXCEPT ![r].rates = RateSamples(r), ![r].hasRates = TRUE]
    /\ UNCHANGED <<time, range, series, pointer>>

\* Mutant: the answer goes to the range shown, not to the range it is of.
FinishHistoryShown(r) ==
    /\ wanted[r].hasPrices /\ wanted[r].hasRates
    /\ series' = [series EXCEPT ![range] =
                      AlignData(wanted[r].prices, wanted[r].rates, Span[r])]
    /\ wanted' = [wanted EXCEPT ![r] = NotAsked]
    /\ UNCHANGED <<time, range, pointer>>

\* Both answers are in; the query key holds the range.
FinishHistory(r) ==
    /\ wanted[r].hasPrices /\ wanted[r].hasRates
    /\ series' = [series EXCEPT ![r] =
                      AlignData(wanted[r].prices, wanted[r].rates, Span[r])]
    /\ wanted' = [wanted EXCEPT ![r] = NotAsked]
    /\ UNCHANGED <<time, range, pointer>>

FailHistory(r) ==
    /\ wanted[r].on
    /\ wanted' = [wanted EXCEPT ![r] = NotAsked]
    /\ UNCHANGED <<time, range, series, pointer>>

---------------------------------------------------------------------------
(* components/MarketOverlayChart.tsx                                        *)

Chart == series[range]

Distance(a, b) == IF a < b THEN b - a ELSE a - b

\* targetTs of a pixel, times Width: the axis goes from the first point of
\* the series to the last.
TargetTs(points, x) ==
    Head(points).t * Width + x * (points[Len(points)].t - Head(points).t)

\* xOf, times the length of the axis: the column a point is drawn in.
Column(points, i) == (points[i].t - Head(points).t) * Width

\* The loop over the points: a strictly smaller distance replaces the best.
Closest(points, x) ==
    LET Dist(i) == Distance(points[i].t * Width, TargetTs(points, x))
        best == FoldLeft(LAMBDA acc, i : IF Dist(i) < acc.dist THEN [at |-> i, dist |-> Dist(i)]
                                         ELSE acc,
                         [at |-> 1, dist |-> (MaxTime + 1) * Width], [i \in 1..Len(points) |-> i])
    IN  best.at

\* The point of the tooltip; the chart draws nothing of fewer than 2 points.
Tooltip ==
    IF Len(Chart) < 2 \/ pointer = Off THEN {} ELSE {Closest(Chart, pointer)}

SelectRange ==
    /\ \E r \in Ranges : range' = r
    /\ UNCHANGED <<time, wanted, series, pointer>>

\* handleMouseMove and handleMouseLeave.
MovePointer ==
    /\ \E x \in 0..Width \cup {Off} : pointer' = x
    /\ UNCHANGED <<time, range, wanted, series>>

---------------------------------------------------------------------------
TimePasses ==
    /\ time < MaxTime
    /\ time' = time + 1
    /\ UNCHANGED <<range, wanted, series, pointer>>

HistoryInit ==
    /\ time = 0
    /\ range \in Ranges
    /\ wanted = [r \in Ranges |-> NotAsked]
    /\ series = [r \in Ranges |-> <<>>]
    /\ pointer = Off

HistoryNext ==
    \/ AskHistory
    \/ \E r \in Ranges : AnswerPrices(r)
    \/ \E r \in Ranges : AnswerRates(r)
    \/ \E r \in Ranges : FinishHistory(r)
    \/ \E r \in Ranges : FailHistory(r)
    \/ SelectRange
    \/ MovePointer
    \/ TimePasses

HistorySpec == HistoryInit /\ [][HistoryNext]_historyVars

---------------------------------------------------------------------------
\* Type correctness: the points of a series are in time order and none is
\* from the future.
HistoryTypeOK ==
    /\ time \in 0..MaxTime /\ range \in Ranges
    /\ pointer \in 0..Width \cup {Off}
    /\ \A r \in Ranges :
           /\ \A i \in DOMAIN series[r] : series[r][i].t \in 0..time
           /\ \A i \in DOMAIN series[r] : \A j \in DOMAIN series[r] :
                  i < j => series[r][i].t < series[r][j].t

\* The chart shows the range its button names: whichever of two ranges'
\* answers comes last, all points of a range's series fit into its span.
SeriesFitTheirRange ==
    \A r \in Ranges : series[r] # <<>> =>
        series[r][Len(series[r])].t - Head(series[r]).t <= Span[r]

\* Every price drawn is on the line between the samples around it, and where
\* the price answer does not reach, it is a sampled price of the range, never
\* a 0 of an empty answer for a time the service has prices for.
PricesAreInterpolated ==
    \A r \in Ranges : \A i \in DOMAIN series[r] :
        LET p == series[r][i].btcPrice
            t == series[r][i].t
            linear == t < MaxTime /\
                      2 * p[1] = p[2] * (PriceAt[t - 1] + PriceAt[t + 1])
            sampled == \E s \in 0..time : s % 2 = 0 /\ p = <<PriceAt[s], 1>>
        IN  linear \/ sampled

\* The tooltip is of the point drawn nearest to the pointer, also after
\* another series, with another axis, replaced the one it was moved over.
TooltipIsNearest ==
    \A at \in Tooltip : \A i \in DOMAIN Chart :
        LET x == pointer * (Chart[Len(Chart)].t - Head(Chart).t) IN
        Distance(Column(Chart, at), x) <= Distance(Column(Chart, i), x)

\* The chart shows the series of the range that is selected, interpolated between its
\* neighbours, and the tooltip names the nearest point of that series.
HistoryInv ==
  HistoryTypeOK /\ SeriesFitTheirRange /\ PricesAreInterpolated /\ TooltipIsNearest

=============================================================================
