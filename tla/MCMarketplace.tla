--------------------------- MODULE MCMarketplace ---------------------------
(***************************************************************************)
(* The marketplace route and the simulated market of the tools route, for  *)
(* TLC.  A browser tab shows one of the four views; `route` is the one it  *)
(* shows, chosen at the start, and only that view and what it talks to     *)
(* take steps.  The views share no state, so nothing is lost.              *)
(***************************************************************************)
EXTENDS MarketPage, PrivateMarket, SlotViews, MarketSim

CONSTANTS you, maker, other, usdc, odd

VARIABLE route

\* The page's account comes with quote to spend, the maker with shares.
MCQuote == [a \in Accounts |-> IF a = you THEN 2 ELSE 0]
MCShares == [a \in Accounts |-> IF a = you THEN 0 ELSE 2]

MCDecimals == [c \in Coins |-> IF c = usdc THEN 2 ELSE 3]
\* "0.2".
MCTyped == {[n |-> 2, d |-> 1]}
MCPlacements ==
  LET O(b, kind, coin_, dynamic) ==
        [buyer |-> b, kind |-> kind, coin |-> coin_, dynamic |-> dynamic]
  IN  {O(you, "v1", odd, FALSE), O(you, "v2", usdc, TRUE)}

MCLabels == <<[form |-> "HS_000", slot |-> 1], [form |-> "HS000", slot |-> 11],
              [form |-> "other", slot |-> 2]>>

MCDecay == [b \in 0 .. Maturity |-> IF b = 0 THEN 0 ELSE 62 + 38 * (b \div Maturity)]

vars == <<marketPageVars, privateVars, slotVars, simVars, route>>

Init ==
  /\ route \in {"market", "private", "slots", "simulation"}
  /\ PageInit /\ PrivateInit /\ SlotsInit /\ SimInit

Next ==
  /\ \/ route = "market" /\ PageNext /\ UNCHANGED <<privateVars, slotVars, simVars>>
     \/ route = "private" /\ PrivateNext /\ UNCHANGED <<marketPageVars, slotVars, simVars>>
     \/ route = "slots" /\ SlotsNext /\ UNCHANGED <<marketPageVars, privateVars, simVars>>
     \/ route = "simulation" /\ SimNext /\ UNCHANGED <<marketPageVars, privateVars, slotVars>>
  /\ UNCHANGED route

Spec == Init /\ [][Next]_vars

\* A bound on the search: two transactions of the page are in flight at once only while
\* one of them is a swap and the epoch has not moved.
FewInFlight ==
  \/ Len(inflight) <= 1
  \/ market.epoch = 0 /\ \E k \in DOMAIN inflight : inflight[k].kind \in {"buy", "sell"}

\* What the slot cards and the simulated market display is consistent.
DisplaysInv == SlotsInv /\ SimInv

\* A step of the chain gives every party of an order what that party signed: a swap
\* stays within its legs and its makers get their price, a re-priced order has the
\* price typed, and a card that was just read names its buyer's newest template.
OrdersExecuteAsSigned ==
  /\ SwapsStayWithinTheirLegs /\ MakersGetTheirPrice
  /\ RepricesLandAsTyped /\ FreshTemplatesAreNewest

=============================================================================
