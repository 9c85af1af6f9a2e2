-------------------------------- MODULE Otc --------------------------------
(***************************************************************************)
(* The OTC desk: the escrow contract (contracts/sources/                   *)
(* m1n3_confidential_otc.move, with the faucet of dusdc.move) and the      *)
(* browser tabs that use it (web/app/otc/OtcShell.tsx, the components of   *)
(* web/components/otc, web/hooks/useOtcEscrow.ts, web/lib/otc-ticket.ts).  *)
(*                                                                         *)
(* A handler of a tab is a chain of awaits: it reads the wallet's coins,   *)
(* asks the wallet to sign, waits for the transaction.  Its job is at one  *)
(* of these stages while the other tabs, the chain and the poll move on.   *)
(***************************************************************************)
EXTENDS QuoteFormat, WorkSums, Sequences, SequencesExt

CONSTANTS
  Parties,       \* addresses
  Tabs,          \* browser tabs
  WalletOf,      \* the account each tab is connected to
  Shares,        \* HashShare coin types on offer
  Pay,           \* the coin type of DUSDC
  PayDecimals,   \* its decimals (6); a HashShare has none
  TypedSell, TypedPrice,  \* what a seller types: digits, places behind the point
  Holding,       \* HashShares of each type each party starts with
  FaucetAmount,
  MaxEscrows,    \* bound: escrows opened
  MaxMints,      \* bound: faucet calls
  MaxWire        \* bound: jobs at a time

Nobody == "nobody"
Typed == [n : Nat, d : Nat, exp : BOOLEAN]

ASSUME OtcAssumption ==
  /\ IsFiniteSet(Parties) /\ Nobody \notin Tabs
  /\ WalletOf \in [Tabs -> Parties] /\ Pay \notin Shares /\ Holding \in [Parties -> Nat]
  /\ TypedSell \subseteq Typed /\ TypedPrice \subseteq Typed
  /\ {PayDecimals, FaucetAmount, MaxEscrows, MaxMints, MaxWire} \subseteq Nat

Assets == Shares \cup {Pay}
NoEscrow == [id |-> 0]

VARIABLES
  chain,  \* purses, escrow objects by id, DUSDC minted, the event of each escrow's end
  tabs,   \* the page of each tab
  wire    \* jobs under way, in the order they began

otcVars == <<chain, tabs, wire>>

-----------------------------------------------------------------------------
(* The contract.                                                           *)

CanLock(c, who, a) ==
  /\ c.purse[who][a.asset] >= a.amount
  /\ a.amount > 0 /\ a.pay > 0

LockEscrow(c, who, a) ==
  LET e == [id |-> Len(c.opened) + 1, seller |-> who, buyer |-> a.buyer, asset |-> a.asset,
            amount |-> a.amount, pay |-> a.pay]
  IN  [c EXCEPT !.purse[who][a.asset] = @ - a.amount,
                !.opened = Append(@, e),
                !.ended = Append(@, "open")]

Open(c, id) == id \in DOMAIN c.opened /\ c.ended[id] = "open"

\* settle: the payment was split off the buyer's coins at exactly pay_amount.
CanSettle(c, who, e) ==
  /\ Open(c, e.id) /\ who = c.opened[e.id].buyer
  /\ c.purse[who][Pay] >= e.pay /\ e.pay >= c.opened[e.id].pay

\* Mutant: the payment goes back to the buyer as change.
SettleUnpaid(c, who, e) ==
  [c EXCEPT !.purse[who][c.opened[e.id].asset] = @ + c.opened[e.id].amount,
            !.ended[e.id] = "settled"]

Settle(c, who, e) ==
  LET o == c.opened[e.id]
      Paid(p) == (IF p = o.seller THEN o.pay ELSE 0) - (IF p = who THEN o.pay ELSE 0)
  IN  [c EXCEPT !.purse = [p \in Parties |-> [a \in Assets |->
                   c.purse[p][a] + (IF p = who /\ a = o.asset THEN o.amount ELSE 0)
                                 + (IF a = Pay THEN Paid(p) ELSE 0)]],
                !.ended[e.id] = "settled"]

CanCancelEscrow(c, who, e) == Open(c, e.id) /\ who = c.opened[e.id].seller

CancelEscrow(c, who, e) ==
  [c EXCEPT !.purse[who][c.opened[e.id].asset] = @ + c.opened[e.id].amount,
            !.ended[e.id] = "cancelled"]

Faucet(c, who) ==
  [c EXCEPT !.purse[who][Pay] = @ + FaucetAmount, !.minted = @ + FaucetAmount]

-----------------------------------------------------------------------------
(* A tab: OtcShell shows the receipt if there is one, the counter-sign     *)
(* page if the link decodes, the draft form otherwise.                     *)

\* A typed amount has a flag for exponent notation, which an input of type number lets
\* through and BigInt refuses.
\* parseAmount: digits behind the coin's decimals are cut off.
ParseAmount(s, decimals) ==
  IF s.exp THEN NoAmount
  ELSE [ok |-> TRUE, v |-> (s.n * Pow[decimals]) \div Pow[s.d]]

\* decodeOtcLink: a link that does not decode opens the draft form.
DecodeOtcLink(link) == IF link.v = 1 THEN link.id ELSE 0

Fresh(id) == [id |-> id, view |-> "loading", seen |-> NoEscrow, loadError |-> FALSE,
              busy |-> FALSE, error |-> FALSE, receipt |-> NoEscrow, share |-> NoEscrow]

\* Opening a link, or reloading, replaces the page; a request its handlers had handed to
\* the wallet goes on without anyone to report to, the rest of them ends.
Orphaned(t) ==
  LET Kept[k \in 0 .. Len(wire)] ==
        IF k = 0 THEN << >>
        ELSE IF wire[k].tab # t THEN Append(Kept[k - 1], wire[k])
        ELSE IF wire[k].stage = "sign" THEN Append(Kept[k - 1], [wire[k] EXCEPT !.tab = Nobody])
        ELSE Kept[k - 1]
  IN  Kept[Len(wire)]

OpenLink(t, link) ==
  /\ tabs' = [tabs EXCEPT ![t] = Fresh(DecodeOtcLink(link))]
  /\ wire' = Orphaned(t)
  /\ UNCHANGED chain

\* useEscrow: the object and its type arguments, or null once it is deleted.
Resolve(id) == IF Open(chain, id) THEN chain.opened[id] ELSE NoEscrow

\* Mutant: an escrow is taken for gone when it is not the account's.
PollHidesOthers(t) ==
  LET shown == Open(chain, tabs[t].id) /\ chain.opened[tabs[t].id].seller = WalletOf[t] IN
  /\ tabs[t].id # 0 /\ tabs[t].receipt = NoEscrow
  /\ tabs' = [tabs EXCEPT ![t].seen = Resolve(tabs[t].id), ![t].loadError = FALSE,
                          ![t].view = IF shown THEN "terms" ELSE "not found"]
  /\ UNCHANGED <<chain, wire>>

Poll(t) ==
  /\ tabs[t].id # 0 /\ tabs[t].receipt = NoEscrow
  /\ tabs' = [tabs EXCEPT ![t].seen = Resolve(tabs[t].id), ![t].loadError = FALSE,
                          ![t].view = IF Open(chain, tabs[t].id) THEN "terms" ELSE "not found"]
  /\ UNCHANGED <<chain, wire>>

\* A failed read keeps the data and shows the error instead of it.
PollFails(t) ==
  /\ tabs[t].id # 0 /\ tabs[t].receipt = NoEscrow
  /\ tabs' = [tabs EXCEPT ![t].loadError = TRUE]
  /\ UNCHANGED <<chain, wire>>

\* The terms are on the screen, with the buttons of the account's role.
ShowsTerms(t) ==
  /\ tabs[t].id # 0 /\ tabs[t].receipt = NoEscrow
  /\ tabs[t].view = "terms" /\ ~tabs[t].loadError

\* A handler sets busy, clears the error and runs to its first await.
Begin(t, op, stage, args) ==
  /\ ~tabs[t].busy /\ Len(wire) < MaxWire
  /\ tabs' = [tabs EXCEPT ![t].busy = TRUE, ![t].error = FALSE]
  /\ wire' = Append(wire, [tab |-> t, who |-> WalletOf[t], op |-> op, stage |-> stage,
                           args |-> args])
  /\ UNCHANGED chain

\* onLock; the button needs a well-formed buyer and positive amounts.
OnLock(t, asset, sell, price, buyer) ==
  LET amount == ParseAmount(sell, 0)  pay == ParseAmount(price, PayDecimals) IN
  /\ tabs[t].id = 0 /\ sell.n > 0 /\ price.n > 0
  /\ IF amount.ok /\ pay.ok
     THEN Begin(t, "lock", "coins", [id |-> 0, asset |-> asset, amount |-> amount.v,
                                     pay |-> pay.v, buyer |-> buyer, sell |-> sell,
                                     price |-> price])
     ELSE /\ ~tabs[t].busy
          /\ tabs' = [tabs EXCEPT ![t].error = TRUE]
          /\ UNCHANGED <<chain, wire>>

OnSettle(t) ==
  /\ ShowsTerms(t) /\ WalletOf[t] = tabs[t].seen.buyer
  /\ Begin(t, "settle", "coins", tabs[t].seen)

OnCancel(t) ==
  /\ ShowsTerms(t) /\ WalletOf[t] = tabs[t].seen.seller
  /\ Begin(t, "cancel", "sign", tabs[t].seen)

\* onFaucet, of the draft form and of the buyer's page.
OnFaucet(t) ==
  /\ \/ tabs[t].id = 0
     \/ ShowsTerms(t) /\ WalletOf[t] = tabs[t].seen.buyer
  /\ Begin(t, "faucet", "sign", NoEscrow)

-----------------------------------------------------------------------------
(* The stages of a job.                                                    *)

\* catch and finally.
FailJob(k) ==
  /\ wire' = RemoveAt(wire, k)
  /\ tabs' = IF wire[k].tab = Nobody THEN tabs
             ELSE [tabs EXCEPT ![wire[k].tab].error = TRUE, ![wire[k].tab].busy = FALSE]
  /\ UNCHANGED chain

\* getCoins, and the total of them against what the call needs.  Of no coins there is no
\* first one to split, even for an amount of zero.
ReadCoins(k) ==
  LET j     == wire[k]
      total == chain.purse[j.who][IF j.op = "lock" THEN j.args.asset ELSE Pay]
      need  == IF j.op = "lock" THEN j.args.amount ELSE j.args.pay
  IN  /\ j.stage = "coins"
      /\ IF total < need \/ total = 0 THEN FailJob(k)
         ELSE /\ wire' = [wire EXCEPT ![k].stage = "sign"]
              /\ UNCHANGED <<chain, tabs>>

CanRunJob(j) ==
  CASE j.op = "lock"   -> Len(chain.opened) < MaxEscrows /\ CanLock(chain, j.who, j.args)
    [] j.op = "settle" -> CanSettle(chain, j.who, j.args)
    [] j.op = "cancel" -> CanCancelEscrow(chain, j.who, j.args)
    [] j.op = "faucet" -> chain.minted < MaxMints * FaucetAmount

Effect(j) ==
  CASE j.op = "lock"   -> LockEscrow(chain, j.who, j.args)
    [] j.op = "settle" -> Settle(chain, j.who, j.args)
    [] j.op = "cancel" -> CancelEscrow(chain, j.who, j.args)
    [] j.op = "faucet" -> Faucet(chain, j.who)

\* The signed transaction takes effect; waitForTransaction has yet to return.
Execute(k) ==
  /\ wire[k].stage = "sign" /\ CanRunJob(wire[k])
  /\ chain' = Effect(wire[k])
  /\ wire' = IF wire[k].tab = Nobody THEN RemoveAt(wire, k)
             ELSE [wire EXCEPT ![k].stage = "wait",
                               ![k].args = IF wire[k].op = "lock"
                                           THEN [@ EXCEPT !.id = Len(chain.opened) + 1] ELSE @]
  /\ UNCHANGED tabs

\* The wallet refuses, the call aborts, or it took effect and waiting for it failed.
Lost(k) == wire[k].stage \in {"sign", "wait"} /\ FailJob(k)

\* The rest of the handler: the share link, the receipt with the escrow the click saw, or
\* the reload after a cancellation.
Done(k) ==
  LET j == wire[k] IN
  /\ j.stage = "wait"
  /\ tabs' = [tabs EXCEPT ![j.tab] =
       CASE j.op = "lock"   -> [@ EXCEPT !.busy = FALSE, !.share = j.args]
         [] j.op = "settle" -> [@ EXCEPT !.busy = FALSE, !.receipt = j.args]
         [] j.op = "cancel" -> Fresh(@.id)
         [] j.op = "faucet" -> [@ EXCEPT !.busy = FALSE]]
  /\ wire' = RemoveAt(wire, k)
  /\ UNCHANGED chain

-----------------------------------------------------------------------------
OtcInit ==
  /\ chain = [purse |-> [p \in Parties |-> [a \in Assets |-> IF a = Pay THEN 0 ELSE Holding[p]]],
              opened |-> << >>, ended |-> << >>, minted |-> 0]
  /\ tabs = [t \in Tabs |-> Fresh(0)]
  /\ wire = << >>

\* Links go to the counterparty, or are pasted wrong.
Links == [v : {1}, id : DOMAIN chain.opened] \cup {[v |-> 0, id |-> 0]}

TabStep(t) ==
  \/ \E link \in Links : OpenLink(t, link)
  \/ Poll(t) \/ PollFails(t)
  \/ \E a \in Shares, s \in TypedSell, p \in TypedPrice, b \in Parties : OnLock(t, a, s, p, b)
  \/ OnSettle(t) \/ OnCancel(t) \/ OnFaucet(t)

JobStep(k) == ReadCoins(k) \/ Execute(k) \/ Lost(k) \/ Done(k)

OtcNext == (\E t \in Tabs : TabStep(t)) \/ \E k \in DOMAIN wire : JobStep(k)

\* The poll runs on its timer, and the wallet and the node answer: with a result or with
\* an error.
OtcFairness ==
  /\ \A t \in Tabs : WF_otcVars(Poll(t))
  /\ WF_otcVars(wire # << >> /\ JobStep(1))

OtcSpec == OtcInit /\ [][OtcNext]_otcVars /\ OtcFairness

-----------------------------------------------------------------------------
(* Properties.                                                             *)

OtcTypeOK ==
  /\ \A p \in Parties, a \in Assets : chain.purse[p][a] \in Nat
  /\ \A i \in DOMAIN chain.opened : chain.opened[i].amount > 0 /\ chain.opened[i].pay > 0
  /\ DOMAIN chain.ended = DOMAIN chain.opened
  /\ \A t \in Tabs : /\ tabs[t].id \in 0 .. MaxEscrows /\ tabs[t].busy \in BOOLEAN

\* What the parties hold of a coin, and what the open escrows hold of it.
InPurses(c, a) == SumOver(Parties, [p \in Parties |-> c.purse[p][a]])
OpenOf(c, a) == {i \in DOMAIN c.opened : c.opened[i].asset = a /\ c.ended[i] = "open"}
InEscrows(c, a) == SumOver(OpenOf(c, a), [i \in OpenOf(c, a) |-> c.opened[i].amount])

\* Whatever is locked, settled, cancelled or refused half way, by however many tabs, the
\* HashShares held and locked and the DUSDC minted and held add up.
OtcFundsConserved ==
  /\ InPurses(chain, Pay) = chain.minted
  /\ \A a \in Shares : InPurses(chain, a) + InEscrows(chain, a) = SumOver(Parties, Holding)

\* An escrow ends once, and either its buyer has the deliverable and its seller the price,
\* or its seller has the deliverable back.
EscrowsEndForTheirParties ==
  [][\A i \in DOMAIN chain.opened :
       LET o == chain.opened[i]
           Gain(p, a) == chain'.purse[p][a] - chain.purse[p][a]
       IN  chain'.ended[i] # chain.ended[i] =>
             /\ chain.ended[i] = "open"
             /\ chain'.ended[i] = "settled" =>
                  /\ Gain(o.buyer, o.asset) = o.amount
                  /\ o.seller # o.buyer =>
                       Gain(o.seller, Pay) = o.pay /\ Gain(o.buyer, Pay) = 0 - o.pay
             /\ chain'.ended[i] = "cancelled" =>
                  /\ Gain(o.seller, o.asset) = o.amount
                  /\ \A p \in Parties : Gain(p, Pay) = 0]_otcVars

\* A receipt is shown to the buyer of a settled escrow and states its terms, however the
\* poll, a cancellation in another tab and a late answer interleave.
ReceiptsAreTrue ==
  \A t \in Tabs :
    tabs[t].receipt # NoEscrow =>
      LET i == tabs[t].receipt.id IN
      /\ i \in DOMAIN chain.opened /\ tabs[t].receipt = chain.opened[i]
      /\ chain.ended[i] = "settled" /\ chain.opened[i].buyer = WalletOf[t]

\* v is the number typed, to the last unit of the coin and never more.
CutOff(v, typed, decimals) ==
  /\ v * Pow[typed.d] <= typed.n * Pow[decimals]
  /\ typed.n * Pow[decimals] < (v + 1) * Pow[typed.d]

\* The share link of the form leads to an escrow of this seller, for the buyer given, with
\* the amounts typed: to the last unit of the coin, and never more.
ShareLinksMatchTheForm ==
  \A t \in Tabs :
    tabs[t].share # NoEscrow =>
      LET s == tabs[t].share  e == chain.opened[s.id]
      IN  /\ s.id \in DOMAIN chain.opened
          /\ e.seller = WalletOf[t] /\ e.buyer = s.buyer /\ e.asset = s.asset
          /\ CutOff(e.amount, s.sell, 0) /\ CutOff(e.pay, s.price, PayDecimals)

\* A page told that its escrow is not found is told so of an escrow that has ended.
NotFoundMeansEnded ==
  \A t \in Tabs :
    tabs[t].id # 0 /\ tabs[t].view = "not found" => chain.ended[tabs[t].id] # "open"

\* The poll takes the buttons of an escrow that has ended off the page: no page goes on
\* showing its terms forever.
EndIsNoticed ==
  \A t \in Tabs :
    []<>~(ShowsTerms(t) /\ ~Open(chain, tabs[t].id))

\* A handler always hands the form back: no answer of the wallet, the chain or the node
\* leaves a page busy forever.
BusyEnds == \A t \in Tabs : []<>~tabs[t].busy

\* Escrowed and held coins are conserved; a receipt, a share link or a "not found" on
\* a tab is true of the chain although answers get lost and polls lag.
OtcInv ==
  /\ OtcTypeOK /\ OtcFundsConserved
  /\ ReceiptsAreTrue /\ ShareLinksMatchTheForm /\ NotFoundMeansEnded

-----------------------------------------------------------------------------
(* The inductive invariant.                                                *)

Escrow ==
  [id : Nat, seller : Parties, buyer : Parties, asset : Shares, amount : Nat \ {0},
   pay : Nat \ {0}]
Form ==
  [id : Nat, asset : Shares, amount : Nat, pay : Nat, buyer : Parties, sell : TypedSell,
   price : TypedPrice]
Page ==
  [id : Nat, view : {"loading", "terms", "not found"}, seen : Escrow \cup {NoEscrow},
   loadError : BOOLEAN, busy : BOOLEAN, error : BOOLEAN, receipt : Escrow \cup {NoEscrow},
   share : Form \cup {NoEscrow}]
Job ==
  [tab : Tabs \cup {Nobody}, who : Parties, op : {"lock", "settle", "cancel", "faucet"},
   stage : {"coins", "sign", "wait"}, args : Escrow \cup Form \cup {NoEscrow}]

\* The contract numbers its escrows and keeps an end for each.
Contract ==
  [purse : [Parties -> [Assets -> Nat]], opened : Seq(Escrow),
   ended : Seq({"open", "settled", "cancelled"}), minted : Nat]
ContractOK(c) ==
  /\ c \in Contract
  /\ Len(c.ended) = Len(c.opened) /\ Len(c.opened) <= MaxEscrows
  /\ \A i \in DOMAIN c.opened : c.opened[i].id = i
ChainInv == ContractOK(chain)

\* A page is of an escrow that was opened, and the terms on it are that escrow's.
PagesInv ==
  /\ tabs \in [Tabs -> Page]
  /\ \A t \in Tabs :
       /\ tabs[t].id # 0 => tabs[t].id \in DOMAIN chain.opened
       /\ tabs[t].view = "terms" =>
            tabs[t].id \in DOMAIN chain.opened /\ tabs[t].seen = chain.opened[tabs[t].id]

\* The escrow that the form f of the account who asks for.
Opens(f, who) ==
  /\ f.id \in DOMAIN chain.opened
  /\ LET e == chain.opened[f.id]
     IN  /\ e.seller = who /\ e.buyer = f.buyer /\ e.asset = f.asset
         /\ e.amount = f.amount /\ e.pay = f.pay

\* What a handler carries over its awaits stays true of the chain: the amounts are the
\* ones typed, the terms those of an escrow; one that waits has had its effect.
Carries(j) ==
  /\ j.tab # Nobody => j.who = WalletOf[j.tab]
  /\ j.op = "lock" =>
       /\ j.args \in Form
       /\ CutOff(j.args.amount, j.args.sell, 0) /\ CutOff(j.args.pay, j.args.price, PayDecimals)
       /\ j.stage = "wait" => Opens(j.args, j.who)
  /\ j.op \in {"settle", "cancel"} =>
       j.args.id \in DOMAIN chain.opened /\ j.args = chain.opened[j.args.id]
  /\ j.op = "settle" =>
       /\ j.args.buyer = j.who
       /\ j.stage = "wait" => chain.ended[j.args.id] = "settled"
JobsInv == wire \in Seq({j \in Job : Carries(j)})

DeskInv ==
  /\ ChainInv /\ PagesInv /\ JobsInv /\ OtcFundsConserved
  /\ ReceiptsAreTrue /\ ShareLinksMatchTheForm /\ NotFoundMeansEnded

=============================================================================
