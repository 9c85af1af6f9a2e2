------------------------------ MODULE BuyerLane ------------------------------
(***************************************************************************)
(* The buyer lane of the pool contract: derived templates and the two      *)
(* kinds of hashpower orders, on top of the round pipeline they share      *)
(* miner statistics, dedup objects and block claims with.                  *)
(*                                                                         *)
(* A V1 order (HashpowerBuyOrder) is bound to one template, a V2 order     *)
(* (BuyerHashpowerOrder) to every template its buyer owns.  Modelled from  *)
(* contracts/sources/pool.move.                                            *)
(***************************************************************************)
EXTENDS Rounds, FiniteSetsExt

CONSTANTS
  Buyers,        \* addresses that register templates and place orders
  Prices,        \* values of price_per_difficulty
  Payments,      \* values of the coins orders are funded with
  Expiries,      \* values of expires_epoch; one past MaxEpoch stands for none
  U64Max,        \* the largest u64
  MaxOrders,     \* bound: orders placed in a behaviour
  MaxDerived,    \* bound: derived templates registered in a behaviour
  MaxEpoch,      \* bound: the Sui epoch
  MaxReceived    \* bound: what is paid into one order in a behaviour

ASSUME BuyerLaneAssumption ==
  /\ Prices \subseteq Nat /\ Payments \subseteq 0 .. U64Max /\ Expiries \subseteq Nat
  /\ U64Max \in Nat /\ MaxOrders \in Nat /\ MaxDerived \in Nat /\ MaxEpoch \in Nat
  /\ MaxReceived \in Nat

VARIABLES
  owners,        \* Template.owner, by template index
  derived,       \* frozen DerivedTemplates, in the order they were registered
  orders,        \* live orders of both kinds
  epoch,         \* tx_context::epoch
  placed,        \* history variable: the orders as they were placed
  fills,         \* history variable: the shares orders paid for
  received,      \* history variable: what went into the order with this id
  refunded       \* history variable: what its cancellation gave back

laneVars == <<derived, orders, epoch, placed, fills, received, refunded>>
buyerVars == <<vars, owners, laneVars>>

OrderIds == 1 .. MaxOrders

\* template_id of a V2 order.
AnyTemplate == 0

BuyerInit ==
  /\ Init
  /\ owners = << >> /\ derived = << >> /\ orders = {} /\ epoch = 0
  /\ placed = {} /\ fills = {}
  /\ received = [i \in OrderIds |-> 0]
  /\ refunded = [i \in OrderIds |-> 0]

\* A step of the round pipeline; the sender of register_template_public becomes the
\* owner of the new Template.
RoundStep ==
  /\ Next
  /\ IF templates' = templates
     THEN owners' = owners
     ELSE \E who \in Buyers : owners' = Append(owners, who)
  /\ UNCHANGED laneVars

\* The Sui epoch changes between transactions.
NextEpoch ==
  /\ epoch < MaxEpoch
  /\ epoch' = epoch + 1
  /\ UNCHANGED <<vars, owners, derived, orders, placed, fills, received, refunded>>

-----------------------------------------------------------------------------
(* Derived templates.                                                      *)

\* register_derived_template_public: the parent's header fields are inherited, its
\* outputs preserved (verify_derived_coinbase) and one appended, so the derived
\* template is a different coinbase with the parent's round and difficulties.
RegisterDerivedTemplate(t) ==
  /\ Len(derived) < MaxDerived
  /\ t \in 1 .. Len(templates)
  /\ derived' = Append(derived, [parent |-> t, round_id |-> templates[t].round_id,
                                 height |-> templates[t].height,
                                 min_difficulty |-> templates[t].min_difficulty,
                                 cached_network_difficulty |->
                                   templates[t].cached_network_difficulty])
  /\ UNCHANGED <<vars, owners, orders, epoch, placed, fills, received, refunded>>

-----------------------------------------------------------------------------
(* Orders.                                                                 *)

\* A new order; ids are fresh object ids.
Place(order, payment) ==
  LET id == Cardinality(placed) + 1
      o  == [order EXCEPT !.id = id, !.budget = payment]
  IN  /\ id \in OrderIds
      /\ orders' = orders \cup {o}
      /\ placed' = placed \cup {o}
      /\ received' = [received EXCEPT ![id] = payment]
      /\ UNCHANGED <<vars, owners, derived, epoch, fills, refunded>>

\* place_hashpower_order: only the owner of the template may bind an order to it.
PlaceHashpowerOrder(b, t, payment, price, expires, dynamic) ==
  /\ t \in 1 .. Len(templates) /\ owners[t] = b
  /\ price > 0
  /\ Place([id |-> 0, buyer |-> b, template_id |-> t, price_per_difficulty |-> price,
            budget |-> 0, expires_epoch |-> expires, is_dynamic |-> dynamic], payment)

\* place_buyer_order.
PlaceBuyerOrder(b, payment, price, expires, dynamic) ==
  /\ price > 0
  /\ Place([id |-> 0, buyer |-> b, template_id |-> AnyTemplate,
            price_per_difficulty |-> price, budget |-> 0,
            expires_epoch |-> expires, is_dynamic |-> dynamic], payment)

\* The asserts on a new price (the sender is the buyer).
MayReprice(o, price) == o.is_dynamic /\ price > 0

\* update_hashpower_order_price and update_buyer_order_price.
UpdateOrderPrice(o, price) ==
  /\ o \in orders
  /\ MayReprice(o, price)
  /\ orders' = (orders \ {o}) \cup {[o EXCEPT !.price_per_difficulty = price]}
  /\ UNCHANGED <<vars, owners, derived, epoch, placed, fills, received, refunded>>

\* Mutant: the payment replaces the budget.
ToppedUpReplaces(o, payment) == [o EXCEPT !.budget = payment]

\* balance::join, which aborts on overflow.
ToppedUp(o, payment) == [o EXCEPT !.budget = o.budget + payment]

\* top_up_hashpower_order and top_up_buyer_order: anyone may pay in.
TopUpOrder(o, payment) ==
  /\ o \in orders
  /\ o.budget + payment <= U64Max
  /\ received[o.id] + payment <= MaxReceived
  /\ orders' = (orders \ {o}) \cup {ToppedUp(o, payment)}
  /\ received' = [received EXCEPT ![o.id] = @ + payment]
  /\ UNCHANGED <<vars, owners, derived, epoch, placed, fills, refunded>>

\* cancel_hashpower_order and cancel_buyer_order: the buyer takes the whole budget back.
CancelOrder(o) ==
  /\ o \in orders
  /\ orders' = orders \ {o}
  /\ refunded' = [refunded EXCEPT ![o.id] = o.budget]
  /\ UNCHANGED <<vars, owners, derived, epoch, placed, fills, received>>

-----------------------------------------------------------------------------
(* Shares paid by an order.                                                *)

\* compute_payout: the product saturates at the largest u64.
ComputePayout(difficulty, price) ==
  IF difficulty * price > U64Max THEN U64Max ELSE difficulty * price

\* check_order_not_expired and check_buyer_order_not_expired.
NotExpired(o) == epoch <= o.expires_epoch

\* Mutant: the owner of the parent is not compared with the buyer.
MayPayForAnyone(o, t) == o.template_id \in {AnyTemplate, t}

\* The order pays for work on template t: a V1 order for the one it is bound to, a V2
\* order for any its buyer owns.
MayPayFor(o, t) ==
  IF o.template_id = AnyTemplate THEN owners[t] = o.buyer ELSE o.template_id = t

\* drain_order_budget and drain_buyer_order_budget: the whole payout or an abort.
DrainOrderBudget(o, amount) ==
  /\ o.budget >= amount
  /\ orders' = (orders \ {o}) \cup {[o EXCEPT !.budget = o.budget - amount]}

\* The transaction's payment: o pays miner m for the share with this hash, worked on
\* template t or on a template derived from it.
PayForShare(o, m, t, hash, difficulty) ==
  LET payout == ComputePayout(difficulty, o.price_per_difficulty)
  IN  /\ o \in orders
      /\ MayPayFor(o, t)
      /\ NotExpired(o)
      /\ DrainOrderBudget(o, payout)
      /\ fills' = fills \cup {[no |-> Cardinality(fills), order |-> o.id, miner |-> m,
                               template |-> t, hash |-> hash,
                               difficulty |-> difficulty, payout |-> payout]}
      /\ UNCHANGED <<owners, derived, epoch, placed, received, refunded>>

\* submit_share_for_pay and submit_share_for_buyer_pay: validate_share_against_template
\* and maybe_freeze_block_claim do what submit_share does, without a receipt.
SubmitShareForPay(o, m, t, n, x, d) ==
  /\ SubmitShare(m, t, n, x, d, FALSE)
  /\ PayForShare(o, m, t, ShareHash(t, n), HashDifficulty[n])

\* The indices of derived templates follow those of templates in a share hash.
DerivedHash(i, n) == ShareHash(MaxTemplates + i, n)

\* record_share as validate_share_against_derived calls it: with the round of the
\* MinerRoundStats itself, so that only owner and height are compared.
DerivedStatsAccept(x, m, dt) == x.miner = m /\ dt.height >= x.min_height

\* submit_share_for_pay_derived and submit_share_for_buyer_pay_derived: the dedup object
\* is the one of the derived template's round; a block claim carries round 0.
SubmitShareForPayDerived(o, m, i, n, x, d) ==
  LET dt         == derived[i]
      difficulty == HashDifficulty[n]
      hash       == DerivedHash(i, n)
      isBlock    == difficulty >= dt.cached_network_difficulty
  IN  /\ m \in registered
      /\ d \in dedups /\ d.miner = m /\ d.round_id = dt.round_id
      /\ difficulty >= dt.min_difficulty
      /\ hash \notin d.hashes
      /\ x \in mrs /\ DerivedStatsAccept(x, m, dt)
      /\ x.work + difficulty <= MaxWork
      /\ dedups' = (dedups \ {d}) \cup {CheckAndRecord(d, hash)}
      /\ mrs' = (mrs \ {x}) \cup {RecordShare(x, difficulty, dt.height)}
      /\ minerStats' = [minerStats EXCEPT
           ![m] = [total_shares |-> @.total_shares + 1,
                   blocks_found |-> @.blocks_found + (IF isBlock THEN 1 ELSE 0)]]
      /\ claims' = IF isBlock
                   THEN claims \cup {[round_id |-> 0, height |-> dt.height,
                                      block_finder |-> m, share_hash |-> hash]}
                   ELSE claims
      /\ UNCHANGED <<pool, templates, now, registered, roundRegistry, dedupRegistry,
                     drained, closeVars>>
      /\ PayForShare(o, m, dt.parent, hash, difficulty)

-----------------------------------------------------------------------------
BuyerNext ==
  \/ RoundStep
  \/ NextEpoch
  \/ \E t \in 1 .. Len(templates) : RegisterDerivedTemplate(t)
  \/ \E b \in Buyers, t \in 1 .. Len(templates), c \in Payments, p \in Prices,
        e \in Expiries, dyn \in BOOLEAN : PlaceHashpowerOrder(b, t, c, p, e, dyn)
  \/ \E b \in Buyers, c \in Payments, p \in Prices, e \in Expiries, dyn \in BOOLEAN :
       PlaceBuyerOrder(b, c, p, e, dyn)
  \/ \E o \in orders, p \in Prices : UpdateOrderPrice(o, p)
  \/ \E o \in orders, c \in Payments : TopUpOrder(o, c)
  \/ \E o \in orders : CancelOrder(o)
  \/ \E o \in orders, m \in Miners, t \in 1 .. Len(templates), n \in Nonces :
       \E x \in mrs, d \in dedups : SubmitShareForPay(o, m, t, n, x, d)
  \/ \E o \in orders, m \in Miners, i \in 1 .. Len(derived), n \in Nonces :
       \E x \in mrs, d \in dedups : SubmitShareForPayDerived(o, m, i, n, x, d)

BuyerSpec == BuyerInit /\ [][BuyerNext]_buyerVars

-----------------------------------------------------------------------------
(* Properties.                                                             *)

\* The Move structs of the lane.
DerivedType == [parent: Nat, round_id: Nat, height: Nat, min_difficulty: Nat,
                cached_network_difficulty: Nat]
OrderType == [id: Nat, buyer: Buyers, template_id: Nat, price_per_difficulty: Nat \ {0},
              budget: 0 .. U64Max, expires_epoch: Nat, is_dynamic: BOOLEAN]

\* Type invariant: budgets stay u64 values, prices stay positive.
BuyerTypeOK ==
  /\ TypeOK
  /\ owners \in Seq(Buyers) /\ Len(owners) = Len(templates)
  /\ derived \in Seq(DerivedType)
  /\ orders \subseteq OrderType /\ placed \subseteq OrderType
  /\ epoch \in Nat

\* What the order with this id paid, and what is left in it.
PaidBy(id) == SumOver({f \in fills : f.order = id},
                      [f \in {g \in fills : g.order = id} |-> f.payout])
LeftIn(id) == IF \E o \in orders : o.id = id
              THEN (CHOOSE o \in orders : o.id = id).budget ELSE 0

\* Every unit paid into an order is still in it, was paid for one recorded share, or went
\* back to the buyer, through re-pricing, top-ups, a budget that runs out and cancellation.
OrderFundsConserved ==
  \A id \in OrderIds : received[id] = LeftIn(id) + PaidBy(id) + refunded[id]

\* Unless its owner drained a dedup object, a miner is paid at most once for a share, by
\* whatever order, V1 or V2, and whether it was worked on directly or on a derived template.
ASharePaysOnce ==
  \A f, g \in fills : f.miner = g.miner /\ f.hash = g.hash
                      /\ (\A r \in Rounds : <<f.miner, r>> \notin drained) => f = g

\* An order pays only for work on templates of its buyer, whoever submits which template,
\* derived template and parent; an order that is not dynamic pays every share at the price
\* it was placed with.
OrdersPayAsPlaced ==
  \A f \in fills : \E o \in placed :
    /\ o.id = f.order
    /\ owners[f.template] = o.buyer
    /\ ~o.is_dynamic =>
         f.payout = Min({U64Max, f.difficulty * o.price_per_difficulty})

\* The buyer lane keeps its own books and those of the rounds below it: records have
\* their types, every unit paid into an order is in its budget, with a miner or back
\* with its buyer, and the invariant of the round pipeline survives derived templates.
BuyerInv == BuyerTypeOK /\ OrderFundsConserved /\ RoundsInv

\* Supporting facts of the inductive invariant.  Templates stay within their bounds and a
\* derived template knows its parent; a (miner, round) key has one dedup object.
TemplatesInv ==
  /\ pool.current_round \in Rounds
  /\ Len(templates) <= MaxTemplates
  /\ \A t \in 1 .. Len(templates) : templates[t].round_id \in Rounds
  /\ \A i \in 1 .. Len(derived) : derived[i].parent \in 1 .. Len(templates)
                                /\ derived[i].round_id \in Rounds
OneDedupPerKey ==
  /\ \A d, e \in dedups : Key(d) = Key(e) => d = e
  /\ \A d \in dedups : Key(d) \in dedupRegistry

\* The round whose dedup object a share hash is entered in.
HashRound(h) == IF h[1] <= MaxTemplates THEN templates[h[1]].round_id
                                        ELSE derived[h[1] - MaxTemplates].round_id

\* A share an order paid for stays in its dedup object until the owner drains that.
FillsAreRecorded ==
  \A f \in fills :
    /\ f.template \in 1 .. Len(templates)
    /\ f.hash[1] \in Nat
    /\ IF f.hash[1] <= MaxTemplates THEN f.hash[1] \in 1 .. Len(templates)
                                    ELSE f.hash[1] - MaxTemplates \in 1 .. Len(derived)
    /\ \/ <<f.miner, HashRound(f.hash)>> \in drained
       \/ \E d \in dedups : Key(d) = <<f.miner, HashRound(f.hash)>> /\ f.hash \in d.hashes

\* Order ids count the orders placed; a V1 order was bound by the owner of its template.
PlacedInv ==
  /\ IsFiniteSet(placed)
  /\ \A o \in placed : o.id \in 1 .. Cardinality(placed)
  /\ \A o \in placed : o.template_id # AnyTemplate =>
       /\ o.template_id \in 1 .. Len(templates)
       /\ owners[o.template_id] = o.buyer

\* A live order is one that was placed, not refunded yet, with the terms of its placement.
OrdersInv ==
  /\ \A o, p \in orders : o.id = p.id => o = p
  /\ \A o \in orders :
       /\ o.id \in OrderIds
       /\ refunded[o.id] = 0
       /\ \E p \in placed : /\ p.id = o.id /\ p.buyer = o.buyer
                            /\ p.template_id = o.template_id
                            /\ p.is_dynamic = o.is_dynamic
                            /\ p.is_dynamic \/ p.price_per_difficulty = o.price_per_difficulty

\* Fills are numbered and belong to placed orders; money moves only under a used id.
FundsInv ==
  /\ IsFiniteSet(fills)
  /\ \A f \in fills : /\ f.no \in Nat /\ f.no < Cardinality(fills)
                       /\ f.payout \in Nat
                       /\ f.order \in 1 .. Cardinality(placed)
  /\ received \in [OrderIds -> Nat] /\ refunded \in [OrderIds -> Nat]
  /\ \A id \in OrderIds : id > Cardinality(placed) => received[id] = 0 /\ refunded[id] = 0

\* The inductive invariant of the lane.
LaneInv ==
  /\ BuyerInv
  /\ TemplatesInv /\ OneDedupPerKey /\ FillsAreRecorded
  /\ PlacedInv /\ OrdersInv /\ FundsInv

=============================================================================
