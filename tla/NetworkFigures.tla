--------------------------- MODULE NetworkFigures ---------------------------
(***************************************************************************)
(* The live network figures and the two calculators of the tools page:     *)
(* useHashprice asks a price service and a mempool service at once and     *)
(* derives hashprice and PPS value from the pair of answers;               *)
(* MiningRevenueCalculator and DifficultyImpactSimulator value a share     *)
(* with them, or with the page's defaults while there are none.            *)
(*                                                                         *)
(* Money and difficulties are small naturals, what is computed from them   *)
(* is a fraction <<numerator, denominator>>, exact where the code rounds   *)
(* to a double.  The block subsidy of 3.125 BTC is 25 eighths.             *)
(***************************************************************************)
EXTENDS Integers, Sequences, FiniteSets

CONSTANTS
    BtcPrices,       \* prices the price service can answer
    SuiPrices,       \* SUI prices it can answer, 0 when the field is missing
    Difficulties,    \* difficulties the mempool service can answer
    DefaultBtc,      \* the page's 90_000
    DefaultDiff,     \* the page's DEFAULT_NET_DIFF
    ShareDiffs,      \* positions of the two share difficulty sliders
    PurchasePrices,  \* positions of the purchase price slider
    Aprs,            \* positions of the cost of capital slider
    Holdings,        \* positions of the holding period slider, in blocks
    DiffChanges,     \* positions of the difficulty change slider, in tenths
    BtcChanges,      \* positions of the price change slider, in tenths
    ScenarioRows,    \* SCENARIO_ROWS, in tenths
    BlocksPerYear,   \* 8760 hours of six blocks
    Maturation,      \* MATURATION_BLOCKS
    Curve            \* ratio^alpha at every number of blocks, in percent

\* Math.pow(ratio, 0.7) grows with the ratio, from 0 to 1.
ASSUME CurveAssumption ==
    /\ Curve \in [0..Maturation -> 0..100]
    /\ Curve[0] = 0 /\ Curve[Maturation] = 100
    /\ \A b \in 1..Maturation : Curve[b - 1] <= Curve[b]

ASSUME FigureAssumption ==
    /\ BtcPrices \subseteq Nat \ {0} /\ Difficulties \subseteq Nat \ {0}
    /\ SuiPrices \subseteq Nat
    /\ DefaultBtc \in Nat \ {0} /\ DefaultDiff \in Nat \ {0}
    /\ ShareDiffs \subseteq Nat \ {0} /\ PurchasePrices \subseteq Nat \ {0}
    /\ Aprs \subseteq Nat \ {0} /\ BlocksPerYear \in Nat \ {0}
    /\ Holdings \subseteq 0..Maturation
    /\ \A d \in DiffChanges \cup ScenarioRows : d > -10

VARIABLES
    feeds,      \* what the two services would answer now
    asked,      \* the request in flight, with the answers it has so far
    figures,    \* the query's data: null fields until the first good answer
    estimate,   \* difficultyChange of the next adjustment, or Null
    revenue,    \* the sliders of MiningRevenueCalculator
    impact      \* the sliders of DifficultyImpactSimulator

figureVars == <<feeds, asked, figures, estimate, revenue, impact>>

Null == -1000    \* outside every slider and every answer

---------------------------------------------------------------------------
(* Fractions                                                               *)

Quot(a, b) == <<a, b>>
AsFraction(n) == <<n, 1>>
SameFraction(p, q) == p[1] * q[2] = q[1] * p[2]
AtMost(p, q) == p[1] * q[2] <= q[1] * p[2]       \* positive denominators
Below(p, q) == ~AtMost(q, p)

---------------------------------------------------------------------------
(* lib/hashprice-utils.ts                                                  *)

\* BTC_BLOCK_SUBSIDY times the price.
BlockRewardUsd(btc) == Quot(25 * btc, 8)

\* (reward / network) * share, 0 for a network difficulty of 0.  Both
\* difficulties and the reward are fractions.
ComputeTheoreticalValue(share, network, reward) ==
    IF network[1] <= 0 THEN <<0, 1>>
    ELSE <<reward[1] * network[2] * share[1], reward[2] * network[1] * share[2]>>

\* Percent below the theoretical value, never negative.
ComputeDiscount(price, value) ==
    IF value[1] <= 0 \/ AtMost(value, price) THEN <<0, 1>>
    ELSE <<100 * (value[1] * price[2] - price[1] * value[2]), value[1] * price[2]>>

\* maxDiscount * min(blocks / MATURATION_BLOCKS, 1)^alpha, in percent.
DiscountAtBlock(blocks, maxDiscount) ==
    Quot(maxDiscount * Curve[IF blocks < Maturation THEN blocks ELSE Maturation], 100)

\* The price in percent of waiting for maturity.
ComputeImpliedWaitingCost(apr) == Quot(apr * Maturation, BlocksPerYear)

---------------------------------------------------------------------------
(* hooks/useHashprice.ts                                                   *)

NoFigures == [btcPrice |-> Null, suiPrice |-> Null, networkDifficulty |-> Null,
              hashprice |-> <<Null, 1>>, fairMist |-> <<Null, 1>>]
Idle == [on |-> FALSE, btc |-> Null, sui |-> Null, diff |-> Null]

\* Everything the answer derives from one price and one difficulty.  The
\* powers of ten and two that only change the unit are left out.
Derive(btc, sui, diff) ==
    [btcPrice |-> btc, suiPrice |-> sui, networkDifficulty |-> diff,
     hashprice |-> Quot(25 * btc, diff),
     fairMist |-> IF sui > 0 THEN Quot(25 * btc, diff * sui) ELSE <<0, 1>>]

\* Promise.all: the two requests leave together.
AskFigures ==
    /\ ~asked.on
    /\ asked' = [Idle EXCEPT !.on = TRUE]
    /\ UNCHANGED <<feeds, figures, estimate, revenue, impact>>

AnswerPrice ==
    /\ asked.on /\ asked.btc = Null
    /\ asked' = [asked EXCEPT !.btc = feeds.btc, !.sui = feeds.sui]
    /\ UNCHANGED <<feeds, figures, estimate, revenue, impact>>

AnswerDifficulty ==
    /\ asked.on /\ asked.diff = Null
    /\ asked' = [asked EXCEPT !.diff = feeds.diff]
    /\ UNCHANGED <<feeds, figures, estimate, revenue, impact>>

\* Both are in: the query's data is replaced as a whole.
FinishFigures ==
    /\ asked.on /\ asked.btc # Null /\ asked.diff # Null
    /\ figures' = Derive(asked.btc, asked.sui, asked.diff)
    /\ asked' = Idle
    /\ UNCHANGED <<feeds, estimate, revenue, impact>>

\* An error status, or a field that does not parse: the query throws and
\* react-query keeps the data it had.
FailFigures ==
    /\ asked.on
    /\ asked' = Idle
    /\ UNCHANGED <<feeds, figures, estimate, revenue, impact>>

---------------------------------------------------------------------------
(* app/tools/page.tsx: the figures handed to the tools                      *)

EffectiveBtc == IF figures.btcPrice = Null THEN DefaultBtc ELSE figures.btcPrice
EffectiveDiff == IF figures.networkDifficulty = Null THEN DefaultDiff
                 ELSE figures.networkDifficulty

---------------------------------------------------------------------------
(* components/MiningRevenueCalculator.tsx                                   *)

\* The network difficulty at which the PPS value is the purchase price.
BreakEvenDifficulty(r, reward) ==
    <<reward[1] * r.difficulty, reward[2] * r.price>>

\* The panel's results; the rates per year multiply profit and discount by a
\* positive factor and are left out.  worthSelling is the panel's "Yes": the
\* discount is not below the waiting cost.
RevenueResults(r, btc, diff) ==
    LET reward == BlockRewardUsd(btc)
        value  == ComputeTheoreticalValue(AsFraction(r.difficulty), AsFraction(diff), reward)
        later  == DiscountAtBlock(Maturation - r.holding, 15)
    IN  [theoreticalValue |-> value,
         discountPct |-> ComputeDiscount(AsFraction(r.price), value),
         expected |-> <<value[1] * (100 * later[2] - later[1]), value[2] * 100 * later[2]>>,
         breakEvenDifficulty |-> BreakEvenDifficulty(r, reward),
         worthSelling |-> AtMost(ComputeImpliedWaitingCost(r.apr),
                                 ComputeDiscount(AsFraction(r.price), value))]

Results == RevenueResults(revenue, EffectiveBtc, EffectiveDiff)

MoveRevenueSlider ==
    /\ \/ \E d \in ShareDiffs : revenue' = [revenue EXCEPT !.difficulty = d]
       \/ \E p \in PurchasePrices : revenue' = [revenue EXCEPT !.price = p]
       \/ \E a \in Aprs : revenue' = [revenue EXCEPT !.apr = a]
       \/ \E h \in Holdings : revenue' = [revenue EXCEPT !.holding = h]
    /\ UNCHANGED <<feeds, asked, figures, estimate, impact>>

---------------------------------------------------------------------------
(* components/DifficultyImpactSimulator.tsx                                 *)

\* A quantity changed by a percentage, counted in tenths of the quantity.
ChangedBy(n, tenths) == Quot(n * (10 + tenths), 10)

\* The slider-driven projection.
ProjectedValue(i, btc, diff) ==
    ComputeTheoreticalValue(AsFraction(i.ref), ChangedBy(diff, i.diffChange),
        <<25 * btc * (10 + i.btcChange), 80>>)

\* The value in the row of the scenario table for one difficulty change.
ScenarioValue(i, btc, diff, pct) ==
    ComputeTheoreticalValue(AsFraction(i.ref), ChangedBy(diff, pct), BlockRewardUsd(btc))

MoveImpactSlider ==
    /\ \/ \E d \in ShareDiffs : impact' = [impact EXCEPT !.ref = d]
       \/ \E c \in DiffChanges : impact' = [impact EXCEPT !.diffChange = c]
       \/ \E c \in BtcChanges : impact' = [impact EXCEPT !.btcChange = c]
    /\ UNCHANGED <<feeds, asked, figures, estimate, revenue>>

\* The next adjustment's estimate arrives or changes.  The slider took the
\* estimate it found when the component was mounted and keeps its place.
ReadEstimate ==
    /\ \E c \in DiffChanges : estimate' = c
    /\ UNCHANGED <<feeds, asked, figures, revenue, impact>>

---------------------------------------------------------------------------
\* The services' values move.  (external)
FeedsMove ==
    /\ \E b \in BtcPrices, s \in SuiPrices, d \in Difficulties :
           feeds' = [btc |-> b, sui |-> s, diff |-> d]
    /\ UNCHANGED <<asked, figures, estimate, revenue, impact>>

FiguresInit ==
    /\ \E b \in BtcPrices, s \in SuiPrices, d \in Difficulties :
           feeds = [btc |-> b, sui |-> s, diff |-> d]
    /\ asked = Idle
    /\ figures = NoFigures
    /\ estimate \in DiffChanges \cup {Null}
    /\ \E d \in ShareDiffs, p \in PurchasePrices, h \in Holdings, a \in Aprs :
           revenue = [difficulty |-> d, price |-> p, holding |-> h, apr |-> a]
    /\ \E d \in ShareDiffs :
           impact = [ref |-> d, btcChange |-> 0,
                     diffChange |-> IF estimate = Null THEN 0 ELSE estimate]

FiguresNext ==
    \/ AskFigures
    \/ AnswerPrice
    \/ AnswerDifficulty
    \/ FinishFigures
    \/ FailFigures
    \/ MoveRevenueSlider
    \/ MoveImpactSlider
    \/ ReadEstimate
    \/ FeedsMove

FiguresSpec == FiguresInit /\ [][FiguresNext]_figureVars

---------------------------------------------------------------------------
\* Type correctness: a slider is on one of its positions or where the
\* estimate put it, and a difficulty once shown is never 0.
FiguresTypeOK ==
    /\ feeds \in [btc : BtcPrices, sui : SuiPrices, diff : Difficulties]
    /\ asked.on \in BOOLEAN
    /\ asked.btc \in BtcPrices \cup {Null} /\ asked.diff \in Difficulties \cup {Null}
    /\ figures.btcPrice \in BtcPrices \cup {Null}
    /\ figures.networkDifficulty \in Difficulties \cup {Null}
    /\ revenue \in [difficulty : ShareDiffs, price : PurchasePrices,
                    holding : Holdings, apr : Aprs]
    /\ impact \in [ref : ShareDiffs, diffChange : DiffChanges \cup {0},
                   btcChange : BtcChanges \cup {0}]

\* What the tools page shows is of one answer: price, difficulty, hashprice
\* and the reference price of a limit order are either all the defaults or
\* all derived from the same two readings, however requests fail.
FiguresAreOfOneAnswer ==
    \/ figures = NoFigures
    \/ figures = Derive(figures.btcPrice, figures.suiPrice, figures.networkDifficulty)

\* The break-even difficulty breaks even: at it the PPS value is the purchase
\* price; the discount is positive exactly while the network is below it; a
\* share held to maturity makes a profit exactly while the network is below;
\* and the panel calls a sale rational only while the network is below.
BreakEvenBreaksEven ==
    LET r    == Results
        here == AsFraction(EffectiveDiff)
        paid == AsFraction(revenue.price)
    IN  /\ SameFraction(ComputeTheoreticalValue(AsFraction(revenue.difficulty),
                            r.breakEvenDifficulty, BlockRewardUsd(EffectiveBtc)), paid)
        /\ (r.discountPct[1] > 0) <=> Below(here, r.breakEvenDifficulty)
        /\ r.worthSelling => Below(here, r.breakEvenDifficulty)
        /\ revenue.holding = Maturation =>
               (Below(paid, r.expected) <=> Below(here, r.breakEvenDifficulty))

\* Difficulty and price act on a share's value in proportion: the slider's
\* projection is the current value times one plus the price change over one
\* plus the difficulty change, and with the price left alone it is the value
\* the scenario table lists for the same change.
ImpactIsProportional ==
    LET btc == EffectiveBtc
        diff == EffectiveDiff
        current == ScenarioValue(impact, btc, diff, 0)
        projected == ProjectedValue(impact, btc, diff)
    IN  /\ SameFraction(projected, <<current[1] * (10 + impact.btcChange),
                                     current[2] * (10 + impact.diffChange)>>)
        /\ \A pct \in ScenarioRows :
               impact.diffChange = pct /\ impact.btcChange = 0 =>
                   SameFraction(projected, ScenarioValue(impact, btc, diff, pct))
        /\ \A p, q \in ScenarioRows : p < q =>
               Below(ScenarioValue(impact, btc, diff, q), ScenarioValue(impact, btc, diff, p))

\* The figures shown together are of one answer each, and the calculators' projections
\* agree with the figures they start from.
FiguresInv ==
  FiguresTypeOK /\ FiguresAreOfOneAnswer /\ BreakEvenBreaksEven /\ ImpactIsProportional

=============================================================================
