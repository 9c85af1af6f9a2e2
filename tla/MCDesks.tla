------------------------------ MODULE MCDesks ------------------------------
(***************************************************************************)
(* The pages on which a wallet signs and the page waits for the end of     *)
(* what it sent: the OTC desk, the hedge desk, the rewards page and the    *)
(* DeepBook panel, for TLC.  `route` is the page the browser opened; only  *)
(* it and what it talks to take steps.  The pages share no state.          *)
(***************************************************************************)
EXTENDS Otc, HedgeDesk, RewardsPage, DeepBookPanel

CONSTANTS miner, broker, hs, dusdc

VARIABLE route

\* One tab of each party of the escrow.
MCTabs == {"miner", "broker"}
MCWalletOf == [t \in MCTabs |-> IF t = "miner" THEN miner ELSE broker]
MCHolding == [p \in Parties |-> IF p = miner THEN 1 ELSE 0]
\* "1" and "0.5".
MCTypedSell == {[n |-> 1, d |-> 0, exp |-> FALSE], [n |-> 5, d |-> 1, exp |-> FALSE]}
\* "0.105" and "1e0".
MCTypedPrice == {[n |-> 105, d |-> 3, exp |-> FALSE], [n |-> 1, d |-> 0, exp |-> TRUE]}

\* Two shapes of the chance to end above a price, and bands: a narrow one, a wide one that
\* reaches below the lowest strike, and an empty one.
Falling == [k \in 0 .. 60 |-> IF k < 40 THEN 10 ELSE IF k < 52 THEN (54 - k) \div 2 + 1 ELSE 0]
Bent == [k \in 0 .. 60 |-> IF k < 44 THEN 6 ELSE IF k < 47 THEN 9 ELSE IF k < 50 THEN 4 ELSE 1]
MCOracles == 1 .. 2
MCMarkets == <<[spot |-> 53, above |-> Falling], [spot |-> 50, above |-> Bent]>>
MCBands == {[lo |-> 2, hi |-> 8], [lo |-> 4, hi |-> 31], [lo |-> 9, hi |-> 8]}
MCDefault == [lo |-> 2, hi |-> 8]
MCSuggested == [lo |-> 4, hi |-> 31]

vars == <<otcVars, hedgeVars, rewardsVars, panelVars, route>>

NotOtc == UNCHANGED <<hedgeVars, rewardsVars, panelVars, route>>
NotHedge == UNCHANGED <<otcVars, rewardsVars, panelVars, route>>
NotRewards == UNCHANGED <<otcVars, hedgeVars, panelVars, route>>
NotPanel == UNCHANGED <<otcVars, hedgeVars, rewardsVars, route>>

Init ==
  /\ route \in {"otc", "hedge", "rewards", "deepbook"}
  /\ OtcInit /\ HedgeInit /\ RewardsInit /\ PanelInit
  /\ route # "hedge" => world.market = [o \in Oracles |-> 1]

Next ==
  \/ route = "otc" /\ OtcNext /\ NotOtc
  \/ route = "hedge" /\ HedgeNext /\ NotHedge
  \/ route = "rewards" /\ RewardsNext /\ NotRewards
  \/ route = "deepbook" /\ PanelNext /\ NotPanel

\* The pages' own fairness conditions.  A page that is not open owes nothing, so a
\* condition of one page and a condition of another are one condition of the site.
Fairness ==
  /\ WF_vars(\/ route = "otc" /\ Poll("miner") /\ NotOtc
             \/ route = "hedge" /\ ReadOracles /\ NotHedge
             \/ route = "rewards" /\ ReadFunded /\ NotRewards)
  /\ WF_vars(\/ route = "otc" /\ Poll("broker") /\ NotOtc
             \/ route = "rewards" /\ ReadCreated /\ NotRewards)
  /\ WF_vars(\/ route = "otc" /\ wire # << >> /\ JobStep(1) /\ NotOtc
             \/ route = "rewards" /\ ReadHistories /\ NotRewards
             \/ route = "deepbook" /\ jobs # << >> /\ FailPanelJob(1) /\ NotPanel)
  /\ WF_vars(route = "rewards" /\ ReadRecords /\ NotRewards)
  /\ WF_vars(route = "rewards" /\ (Claimed \/ ClaimFailed) /\ NotRewards)

Spec == Init /\ [][Next]_vars /\ Fairness

\* Claims and DeepBook swaps name the objects of the wallet that signs them.
WalletObjectsInv == RewardsInv /\ PanelInv

\* No page stays busy or blind forever: a pending job, claim or swap ends, the end of
\* an escrow is noticed, a claimable record is offered, an expired oracle leaves.
RequestsEnd ==
  /\ EndIsNoticed /\ BusyEnds /\ ExpiredOraclesLeave
  /\ ClaimIsOffered /\ ClaimingEnds /\ PendingEnds

=============================================================================
