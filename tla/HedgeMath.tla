----------------------------- MODULE HedgeMath -----------------------------
(***************************************************************************)
(* The hedge of web/lib/hedge-math.ts: a strip of adjacent ranges under    *)
(* the spot price, each paying its quantity when BTC settles inside it.    *)
(* Strikes and prices are in raw units (1e-9 USD in the code), the         *)
(* quantity of a range is the miner's revenue per unit of price times the  *)
(* width of the range, and a probability is a number of Certain-ths.       *)
(***************************************************************************)
EXTENDS Integers, Sequences, FiniteSetsExt, WorkSums

CONSTANTS
  TargetBins,  \* 8
  Permille,    \* the drop band is a fraction of the spot price in these parts
  Certain      \* the value of a sure range

ASSUME HedgeMathAssumption == {TargetBins, Permille, Certain} \subseteq Nat \ {0}

\* Math.round and Math.ceil of a quotient.
RoundDiv(a, b) == (2 * a + b) \div (2 * b)
CeilDiv(a, b) == (a + b - 1) \div b
Least(a, b) == IF a < b THEN a ELSE b
Most(a, b) == IF a < b THEN b ELSE a

\* usdToStrike and spotToTick of the spot price less a drop.
UsdToStrike(spot, drop) == RoundDiv(spot * (Permille - drop), Permille)
SpotToTick(spot, drop, tick) == RoundDiv(spot * (Permille - drop), Permille * tick) * tick

\* topRaw, floorRaw and minBinRaw of buildHedgeStrip.
TopRaw(spot, lo, tick) == Least(UsdToStrike(spot, lo), SpotToTick(spot, lo, tick))
FloorRaw(spot, hi, tick, min) ==
  Most(UsdToStrike(spot, hi), Most(min, SpotToTick(spot, hi, tick)))
BinRaw(span, tick) == Most(tick, (span \div (TargetBins * tick)) * tick)

\* buildHedgeStrip: from the floor up in bins, the last one cut at the top.
BuildHedgeStrip(q, spot, lo, hi, tick, min) ==
  LET top == TopRaw(spot, lo, tick)  floor == FloorRaw(spot, hi, tick, min)
      bin == BinRaw(top - floor, tick)
  IN  IF q <= 0 \/ spot <= 0 \/ lo < 0 \/ hi <= lo \/ floor >= top THEN << >>
      ELSE [i \in 1 .. CeilDiv(top - floor, bin) |->
              LET l == floor + (i - 1) * bin  h == Least(floor + i * bin, top)
              IN  [lower |-> l, higher |-> h, qty |-> q * (h - l)]]

SumQty(strip) == SumOver(DOMAIN strip, [i \in DOMAIN strip |-> strip[i].qty])

\* priceRangeFromSvi: P(above the lower strike) less P(above the higher), within [0, 1].
\* The implied probabilities, each strike at its own volatility, are given.
PriceRangeFromSvi(r, above) == Least(Certain, Most(0, above[r.lower] - above[r.higher]))

\* priceStripFromSvi, in Certain-ths.
PriceStripFromSvi(strip, above) ==
  SumOver(DOMAIN strip,
          [i \in DOMAIN strip |-> strip[i].qty * PriceRangeFromSvi(strip[i], above)])

\* The payoff at a settlement price: the first range it lies in.
Holds(r, s) == s >= r.lower /\ s < r.higher
Payoff(strip, s) ==
  LET in == {i \in DOMAIN strip : Holds(strip[i], s)}
  IN  IF in = {} THEN 0 ELSE strip[Min(in)].qty

Unhedged(q, s) == q * s
Hedged(strip, q, premium, s) == Unhedged(q, s) + Payoff(strip, s) - premium

\* buildPayoffCurve: the same payoff at evenly spaced prices.
BuildPayoffCurve(strip, q, premium, spot, below, over, steps) ==
  LET from == (spot * (Permille - below)) \div Permille
      to   == (spot * (Permille + over)) \div Permille
      At(i) == from + ((to - from) * i) \div steps
  IN  IF q <= 0 \/ spot <= 0 THEN << >>
      ELSE [i \in 1 .. steps + 1 |->
              [price |-> At(i - 1), unhedged |-> Unhedged(q, At(i - 1)),
               hedged |-> Hedged(strip, q, premium, At(i - 1))]]

\* summarizeHedge of a strip that is not empty.
SummarizeHedge(strip, q, premium) ==
  LET floor == Min({strip[i].lower : i \in DOMAIN strip})
      top   == Max({strip[i].higher : i \in DOMAIN strip})
  IN  [floor |-> floor, top |-> top, maxProtected |-> SumQty(strip),
       unhedgedAtFloor |-> q * floor,
       flooredRevenue |-> q * floor + SumQty(strip) - premium,
       breakEven |-> top - CeilDiv(premium, q)]

\* quantile of simulateHedgePnl: the value at place floor(n * num/den) of the sorted samples,
\* counted from zero, which is the least one that enough of the samples do not exceed.
Quantile(xs, num, den) ==
  LET place == Least(Len(xs), (Len(xs) * num) \div den + 1)
      UpTo(v) == {j \in DOMAIN xs : xs[j] <= v}
  IN  IF xs = << >> THEN 0
      ELSE Min({xs[i] : i \in {i \in DOMAIN xs : place <= Cardinality(UpTo(xs[i]))}})

\* simulateHedgePnl over given settlement prices.
SimulateHedgePnl(strip, q, premium, samples) ==
  LET unhedged == [i \in DOMAIN samples |-> Unhedged(q, samples[i])]
      hedged   == [i \in DOMAIN samples |-> Hedged(strip, q, premium, samples[i])]
  IN  [unhedged |-> unhedged, hedged |-> hedged,
       unhedgedP05 |-> Quantile(unhedged, 5, 100), hedgedP05 |-> Quantile(hedged, 5, 100),
       unhedgedP50 |-> Quantile(unhedged, 50, 100), hedgedP50 |-> Quantile(hedged, 50, 100),
       unhedgedP95 |-> Quantile(unhedged, 95, 100), hedgedP95 |-> Quantile(hedged, 95, 100)]

\* PositionLadder: the rungs from high to low, which are live at the spot price, and the
\* rung the spot marker is drawn before.
Above(ranges, i) ==
  {j \in DOMAIN ranges : \/ ranges[j].higher > ranges[i].higher
                         \/ ranges[j].higher = ranges[i].higher /\ j < i}
Rung(ranges, n) == ranges[CHOOSE i \in DOMAIN ranges : Cardinality(Above(ranges, i)) = n - 1]
Rungs(ranges, spot) ==
  [n \in DOMAIN ranges |->
     LET r == Rung(ranges, n)
     IN  [lower |-> r.lower, higher |-> r.higher, qty |-> r.qty, live |-> Holds(r, spot)]]
SpotIndex(ranges, spot) ==
  LET rungs == Rungs(ranges, spot)
      below == {i \in DOMAIN rungs : spot >= rungs[i].higher}
  IN  IF below = {} THEN Len(ranges) + 1 ELSE Min(below)

=============================================================================
