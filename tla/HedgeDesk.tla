----------------------------- MODULE HedgeDesk -----------------------------
(***************************************************************************)
(* The hedge page: web/components/hedge/HedgeDashboard.tsx and             *)
(* PositionLadder.tsx on top of useMinerHedge.ts, usePredictManager.ts,    *)
(* usePredictOracles.ts and lib/predict-client.ts.                         *)
(*                                                                         *)
(* DeepBook Predict (external) runs one BTC oracle after the other.  The   *)
(* page reads a list of them, the state of the first, the wallet's manager *)
(* through an indexer that lags, and the wallet's coins, each at its own   *)
(* pace, and mints a strip of ranges in one transaction.                   *)
(***************************************************************************)
EXTENDS HedgeMath, SequencesExt

CONSTANTS
  Oracles,       \* BTC oracles, numbered in the order they expire
  Tick, MinStrike,
  Markets,       \* the quotes an oracle may give, a sequence of [spot, above]
  Rate,          \* expected revenue per unit of price and unit of time
  Bands,         \* drop bands of the sliders, [lo, hi]
  DefaultBand, SuggestedBand,
  Purse,         \* DUSDC of the wallet
  Buffer,        \* the deposit per hundred of premium (115)
  MaxTime,       \* bound: the last moment modelled
  MaxManagers,   \* bound: managers created
  MaxPlaced      \* bound: strips placed

ASSUME HedgeDeskAssumption ==
  /\ IsFiniteSet(Oracles) /\ Oracles = 1 .. Cardinality(Oracles)
  /\ {DefaultBand, SuggestedBand} \subseteq Bands /\ Buffer \in Nat /\ Buffer >= 100
  /\ Bands \subseteq [lo : Int, hi : Int]
  /\ \A m, n \in DOMAIN Markets :
       /\ Markets[n].spot \in Nat
       /\ \A k \in 0 .. Markets[n].spot : /\ k \in DOMAIN Markets[m].above
                                          /\ Markets[m].above[k] \in 0 .. Certain
  /\ {Tick, Rate} \subseteq Nat \ {0} /\ {Purse, MinStrike, MaxTime, MaxManagers, MaxPlaced} \subseteq Nat

VARIABLES
  world,  \* time, each oracle's market, managers and what they hold, the wallet
  desk,   \* what the page has read, its sliders and its message
  sent    \* transactions in flight, oldest first

hedgeVars == <<world, desk, sent>>

NoState == [id |-> 0]
Expiry(o) == o
ActiveOracle(o) == world.now < Expiry(o)

-----------------------------------------------------------------------------
(* Predict and its indexer.                                                *)

Time ==
  /\ world.now < MaxTime
  /\ world' = [world EXCEPT !.now = @ + 1]
  /\ UNCHANGED <<desk, sent>>

QuoteOracle(o, m) ==
  /\ ActiveOracle(o) /\ m # world.market[o]
  /\ world' = [world EXCEPT !.market[o] = m]
  /\ UNCHANGED <<desk, sent>>

Index ==
  /\ world.indexed < Len(world.managers)
  /\ world' = [world EXCEPT !.indexed = @ + 1]
  /\ UNCHANGED <<desk, sent>>

-----------------------------------------------------------------------------
(* The queries of the page.                                                *)

\* filterActiveBtcOracles: active, not expired, by expiry.
FilterActiveBtcOracles ==
  LET active == {o \in Oracles : ActiveOracle(o)}
      Sooner(o) == {p \in active : Expiry(p) < Expiry(o)}
  IN  [n \in 1 .. Cardinality(active) |->
         CHOOSE o \in active : Cardinality(Sooner(o)) = n - 1]

First(list) == IF list = << >> THEN 0 ELSE list[1]

\* Mutant: the state of the last oracle is kept until the next one's has arrived.
ReadOraclesKeepsState ==
  LET list == FilterActiveBtcOracles IN
  /\ desk' = [desk EXCEPT !.list = list,
                !.q = IF list = << >> THEN 0 ELSE Rate * (Expiry(list[1]) - world.now)]
  /\ UNCHANGED <<world, sent>>

\* useActiveBtcOracles and the projection over the first oracle's horizon.  The state of
\* an oracle is cached under its id: of a new first one there is none yet.
ReadOracles ==
  LET list == FilterActiveBtcOracles IN
  /\ desk' = [desk EXCEPT !.list = list,
                !.q = IF list = << >> THEN 0 ELSE Rate * (Expiry(list[1]) - world.now),
                !.state = IF First(list) = First(desk.list) THEN @ ELSE NoState]
  /\ UNCHANGED <<world, sent>>

\* useOracleState; the sliders that still stand at their defaults take the suggested band.
ReadState ==
  LET o == First(desk.list) IN
  /\ o # 0
  /\ desk' = [desk EXCEPT
       !.state = [id |-> o, expiry |-> Expiry(o), quote |-> world.market[o]],
       !.band = IF @ = DefaultBand THEN SuggestedBand ELSE @]
  /\ UNCHANGED <<world, sent>>

\* usePredictManager: the first manager the indexer knows, and its ranges.
ReadManager ==
  /\ desk' = [desk EXCEPT
       !.manager = Least(1, world.indexed),
       !.ranges = IF world.indexed = 0 THEN << >> ELSE world.managers[1].ranges]
  /\ UNCHANGED <<world, sent>>

ReadPurse ==
  /\ desk' = [desk EXCEPT !.balance = world.purse]
  /\ UNCHANGED <<world, sent>>

Slide(b) ==
  /\ desk' = [desk EXCEPT !.band = b]
  /\ UNCHANGED <<world, sent>>

-----------------------------------------------------------------------------
(* Simulator and HedgePlacement.                                           *)

\* The spot price and the surface the page has read.
ShownMarket == Markets[desk.state.quote]

\* build of useMinerHedge.
Strip ==
  IF desk.state = NoState THEN << >>
  ELSE BuildHedgeStrip(desk.q, ShownMarket.spot, desk.band.lo, desk.band.hi, Tick,
                       MinStrike)
Premium == PriceStripFromSvi(Strip, ShownMarket.above)
Cost == CeilDiv(Premium * Buffer, 100 * Certain)

Send(tx) ==
  /\ sent' = Append(sent, tx)
  /\ UNCHANGED world

Message(kind) ==
  /\ desk' = [desk EXCEPT !.last = kind]
  /\ UNCHANGED <<world, sent>>

Minting == \E k \in DOMAIN sent : sent[k].op = "mint"

\* place.  The button waits for this component's own mutation, the minting one; a wallet
\* without a manager in the indexer makes one, and the click ends with an error that
\* asks for another.
PlaceStrip ==
  /\ Strip # << >> /\ ~Minting
  /\ \/ /\ desk.manager = 0
        /\ Cardinality({k \in DOMAIN sent : sent[k].op = "create"}) + Len(world.managers)
             < MaxManagers
        /\ desk' = [desk EXCEPT !.last = "none"]
        /\ Send([op |-> "create"])
     \/ /\ desk.manager # 0 /\ desk.balance < Cost
        /\ Message("err")
     \/ /\ desk.manager # 0 /\ desk.balance >= Cost /\ world.placed < MaxPlaced
        /\ desk' = [desk EXCEPT !.last = "none"]
        /\ Send([op |-> "mint", manager |-> desk.manager, oracle |-> First(desk.list),
                 expiry |-> desk.state.expiry, ranges |-> Strip, cost |-> Cost,
                 quoted |-> desk.state.quote])

\* deposit and the mint_range calls, priced by Predict when they run (external).
CanMint(tx) ==
  LET price == CeilDiv(PriceStripFromSvi(tx.ranges, Markets[world.market[tx.oracle]].above), Certain)
  IN  /\ ActiveOracle(tx.oracle) /\ tx.expiry = Expiry(tx.oracle)
      /\ world.purse >= tx.cost
      /\ world.managers[tx.manager].held + tx.cost >= price

Minted(tx) ==
  LET price == CeilDiv(PriceStripFromSvi(tx.ranges, Markets[world.market[tx.oracle]].above), Certain)
  IN  [world EXCEPT !.purse = @ - tx.cost, !.paid = @ + price, !.placed = @ + 1,
                    !.managers[tx.manager] = [held   |-> @.held + tx.cost - price,
                                              ranges |-> @.ranges \o tx.ranges]]

Land(k) ==
  /\ sent' = RemoveAt(sent, k)
  /\ IF sent[k].op = "create"
     THEN /\ world' = [world EXCEPT !.managers = Append(@, [held |-> 0, ranges |-> << >>])]
          /\ desk' = [desk EXCEPT !.last = "err"]
     ELSE /\ CanMint(sent[k])
          /\ world' = Minted(sent[k])
          /\ desk' = [desk EXCEPT !.last = "ok"]

Abort(k) ==
  /\ sent' = RemoveAt(sent, k)
  /\ desk' = [desk EXCEPT !.last = "err"]
  /\ UNCHANGED world

-----------------------------------------------------------------------------
HedgeInit ==
  /\ \E m \in [Oracles -> DOMAIN Markets] :
       world = [now |-> 0, market |-> m, managers |-> << >>, indexed |-> 0, purse |-> Purse,
                paid |-> 0, placed |-> 0]
  /\ desk = [list |-> << >>, state |-> NoState, q |-> 0, band |-> DefaultBand, manager |-> 0,
             ranges |-> << >>, balance |-> 0, last |-> "none"]
  /\ sent = << >>

HedgeNext ==
  \/ Time \/ Index
  \/ \E o \in Oracles, m \in DOMAIN Markets : QuoteOracle(o, m)
  \/ ReadOracles \/ ReadState \/ ReadManager \/ ReadPurse
  \/ \E b \in Bands : Slide(b)
  \/ PlaceStrip
  \/ \E k \in DOMAIN sent : Land(k) \/ Abort(k)

\* The list of oracles is read every 30 seconds.
HedgeFairness == WF_hedgeVars(ReadOracles)

HedgeSpec == HedgeInit /\ [][HedgeNext]_hedgeVars /\ HedgeFairness

-----------------------------------------------------------------------------
(* Properties.                                                             *)

HedgeTypeOK ==
  /\ world.purse \in Nat /\ world.paid \in Nat
  /\ \A i \in DOMAIN world.managers : world.managers[i].held \in Nat
  /\ world.indexed <= Len(world.managers)
  /\ desk.manager \in 0 .. Len(world.managers) /\ desk.q \in Nat
  /\ \A i \in DOMAIN desk.list : desk.list[i] \in Oracles

\* DUSDC is in the wallet, in a manager or paid: placing twice, a manager made twice and a
\* price that moved before the mint ran neither make nor lose any.
InManagers(ms) == SumOver(DOMAIN ms, [i \in DOMAIN ms |-> ms[i].held])
HedgeFundsConserved == world.purse + world.paid + InManagers(world.managers) = Purse

\* A strip in flight is of one oracle: the id, the expiry and the prices it was built
\* from belong together, though they come from two queries that are read at their own pace.
StripsNameOneOracle ==
  \A k \in DOMAIN sent :
    sent[k].op = "mint" => sent[k].oracle # 0 /\ sent[k].expiry = Expiry(sent[k].oracle)

\* The ranges of the strip shown cover the band from floor to top without gap or overlap,
\* for the revenue of the whole band, in at most twice the number of bins aimed at,
\* between the oracle's lowest strike and the spot price.
StripCoversTheBand ==
  LET s == Strip IN
  s # << >> =>
    LET spot == ShownMarket.spot IN
    /\ s[1].lower >= MinStrike /\ s[Len(s)].higher <= spot
    /\ s[1].lower = FloorRaw(spot, desk.band.hi, Tick, MinStrike)
    /\ s[Len(s)].higher = TopRaw(spot, desk.band.lo, Tick)
    /\ \A i \in DOMAIN s : s[i].lower < s[i].higher
    /\ \A i \in 2 .. Len(s) : s[i].lower = s[i - 1].higher
    /\ SumQty(s) = desk.q * (s[Len(s)].higher - s[1].lower)
    /\ Len(s) <= 2 * TargetBins

\* Between them the ranges cost no more than the one that pays most can pay, whatever
\* probabilities the surface implies, as long as they fall with the strike; and never less
\* than nothing, even where they do not.
PremiumIsBounded ==
  LET s == Strip IN
  s # << >> =>
    LET above == ShownMarket.above IN
    /\ Premium >= 0
    /\ (\A k \in DOMAIN above : k > 0 => above[k] <= above[k - 1]) =>
         Premium <= Certain * Max({s[i].qty : i \in DOMAIN s})

\* What the chart, the simulation and the ladder show of one strip is one payoff: a
\* settlement price is in one live rung or none, every point of the curve gives what that
\* rung pays less the premium and never more than the summary protects; above the band
\* revenue is at least the summary's floor; no quantile falls by more than the premium.
ViewsShowOnePayoff ==
  LET s == Strip IN
  s # << >> =>
    LET premium == CeilDiv(Premium, Certain)
        spot    == ShownMarket.spot
        curve   == BuildPayoffCurve(s, desk.q, premium, spot, Permille, 1, 12)
        summary == SummarizeHedge(s, desk.q, premium)
        sim     == SimulateHedgePnl(s, desk.q, premium, [i \in DOMAIN curve |-> curve[i].price])
    IN  /\ \A i \in DOMAIN curve :
             LET p == curve[i]  rungs == Rungs(s, p.price)  marker == SpotIndex(s, p.price)
                 live == {j \in DOMAIN rungs : rungs[j].live}
             IN  /\ Cardinality(live) <= 1
                 /\ p.hedged - p.unhedged + premium =
                      SumOver(live, [j \in live |-> rungs[j].qty])
                 /\ p.hedged - p.unhedged + premium <= summary.maxProtected
                 /\ p.price >= summary.top => p.hedged >= summary.flooredRevenue
                 /\ \A j \in DOMAIN rungs :
                      j >= marker <=> rungs[j].higher <= p.price
        /\ sim.hedgedP05 >= sim.unhedgedP05 - premium
        /\ sim.hedgedP50 >= sim.unhedgedP50 - premium
        /\ sim.hedgedP95 >= sim.unhedgedP95 - premium

\* An oracle that has expired leaves the page: it does not stay the one hedged against.
ExpiredOraclesLeave ==
  \A o \in Oracles : []<>~(First(desk.list) = o /\ ~ActiveOracle(o))

\* Funds are conserved, a strip names the oracle it was priced on and covers the band
\* without gap or overlap at a bounded premium, and every view shows the same payoff.
HedgeInv ==
  /\ HedgeTypeOK /\ HedgeFundsConserved
  /\ StripsNameOneOracle /\ StripCoversTheBand /\ PremiumIsBounded /\ ViewsShowOnePayoff

-----------------------------------------------------------------------------
(* The inductive invariant.                                                *)

\* Strikes are prices every surface knows: those of a strip are not above the spot price
\* it was built for.
HedgeRange == [lower : Nat, higher : Nat, qty : Nat]
Priceable(strip) ==
  /\ strip \in Seq(HedgeRange)
  /\ \E m \in DOMAIN Markets :
       \A i \in DOMAIN strip : /\ strip[i].lower <= Markets[m].spot
                              /\ strip[i].higher <= Markets[m].spot

WorldInv ==
  /\ world \in [now : Nat, market : [Oracles -> DOMAIN Markets],
                managers : Seq([held : Nat, ranges : Seq(HedgeRange)]), indexed : Nat,
                purse : Nat, paid : Nat, placed : Nat]
  /\ world.indexed <= Len(world.managers)

\* What the page shows of an oracle is of the first one of its list, and the manager it
\* uses exists.
ShownInv ==
  /\ desk \in [list : Seq(Oracles),
               state : [id : Oracles, expiry : Nat, quote : DOMAIN Markets] \cup {NoState},
               q : Nat, band : Bands, manager : Nat, ranges : Seq(HedgeRange),
               balance : Nat, last : {"none", "ok", "err"}]
  /\ desk.manager <= Len(world.managers)
  /\ desk.state # NoState =>
       desk.state.id = First(desk.list) /\ desk.state.expiry = Expiry(desk.state.id)

\* A mint in flight names an oracle with its expiry, a manager that exists and strikes
\* that can be priced.
MintTx ==
  [op : {"mint"}, manager : Nat \ {0}, oracle : Oracles, expiry : Nat,
   ranges : Seq(HedgeRange), cost : Nat, quoted : DOMAIN Markets]
SentInv ==
  /\ sent \in Seq([op : {"create"}] \cup MintTx)
  /\ \A k \in DOMAIN sent :
       sent[k].op = "mint" =>
         /\ sent[k].manager <= Len(world.managers)
         /\ sent[k].expiry = Expiry(sent[k].oracle)
         /\ Priceable(sent[k].ranges)

HedgeDeskInv == WorldInv /\ ShownInv /\ SentInv /\ HedgeFundsConserved

=============================================================================
