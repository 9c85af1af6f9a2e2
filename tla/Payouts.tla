------------------------------ MODULE Payouts -------------------------------
(***************************************************************************)
(* How a block reward reaches the miners: the deposit record and its way   *)
(* through the Hashi bridge (hashi_pool.move), the vault the bridge mints  *)
(* into (hashi_vault.move), the reward batch that work records are claimed *)
(* against (hashi_rewards.move), and the HashShare redemption that can take *)
(* the same deposit instead (hash_share.move, hash_share_registry.move).   *)
(*                                                                         *)
(* The round pipeline appears as the ledger it implements (RoundLedger):   *)
(* entries are the MinerWorkRecords, closed rounds the RoundHistories.     *)
(***************************************************************************)
EXTENDS RoundLedger, Sequences

CONSTANTS
  Amounts,      \* amount_sats a caller of record_block_found may name
  Caps,         \* TreasuryCaps that can be registered as HashShare slots
  ShareDifficulties, \* difficulties of the shares that are minted
  BundleFactor, \* BUNDLE_FACTOR
  ClaimWindow,  \* TRUSTLESS_CLAIM_WINDOW_MS and REDEMPTION_WINDOW_MS
  CapHolderFollowsHashi, \* whether the holder of PoolAdminCap reports what Hashi did
                \* (the contract takes its word)
  MaxSupply,    \* bound: HashShares of one cap
  MaxGift,      \* bound: hBTC sent to the vault by anyone else
  MaxTime       \* bound: the clock

ASSUME PayoutsAssumption ==
  /\ Amounts \subseteq Nat
  /\ ShareDifficulties \subseteq Nat
  /\ BundleFactor \in Nat \ {0}
  /\ CapHolderFollowsHashi \in BOOLEAN
  /\ ClaimWindow \in Nat /\ MaxSupply \in Nat /\ MaxGift \in Nat /\ MaxTime \in Nat

VARIABLES
  now,          \* the Clock object
  config,       \* HashiPoolConfig counters
  records,      \* BlockDepositRecords, one per key of deposit_index
  accumulated,  \* hBTC credited to the vault's address and not yet claimed
  minted,       \* rounds whose deposit Hashi has confirmed and minted
  vault,        \* HashiVault, its hBTC side
  registry,     \* HashiRewardRegistry
  batches,      \* HashiRewardBatches
  spent,        \* work records consumed by claim_reward
  slots,        \* HashShareRegistry: the FIFO and the bound rounds
  supply,       \* total_supply of each cap's coin
  redemptions,  \* Redemption pools
  inflow        \* history variable: hBTC that ever entered the system

depositVars == <<config, records, minted>>
vaultVars == <<accumulated, vault, inflow>>
batchVars == <<registry, batches, spent>>
shareVars == <<slots, supply, redemptions>>
vars == <<ledgerVars, now, depositVars, vaultVars, batchVars, shareVars>>

Init ==
  /\ LedgerInit
  /\ now = 0
  /\ config = [total_deposits |-> 0, total_sats_confirmed |-> 0, pending_sats |-> 0]
  /\ records = {} /\ minted = {}
  /\ accumulated = 0 /\ inflow = 0
  /\ vault = [hbtc |-> 0, total_received_hbtc |-> 0, total_withdrawn_hbtc |-> 0]
  /\ registry = [total_batches |-> 0, total_sats_distributed |-> 0,
                 total_sats_expired |-> 0]
  /\ batches = {} /\ spent = {}
  /\ slots = [available_slots |-> << >>, registered |-> {}, rounds |-> {}]
  /\ supply = [c \in Caps |-> 0]
  /\ redemptions = {}

\* The round pipeline runs on.
RoundStep ==
  /\ LedgerNext
  /\ UNCHANGED <<now, depositVars, vaultVars, batchVars, shareVars>>

Tick ==
  /\ now < MaxTime
  /\ now' = now + 1
  /\ UNCHANGED <<ledgerVars, depositVars, vaultVars, batchVars, shareVars>>

-----------------------------------------------------------------------------
(* The deposit pipeline.                                                   *)

Update(S, x, y) == (S \ {x}) \cup {y}

\* table::add on deposit_index aborts on a key that exists.
RoundUnrecorded(r) == \A rec \in records : rec.round_id # r

\* record_block_found: anyone who holds a BlockFoundClaim of round r (the current
\* round or an earlier one) names the amount; one record per round.
RecordBlockFound(r, amount) ==
  /\ r <= current
  /\ RoundUnrecorded(r)
  /\ records' = records \cup {[round_id |-> r, amount_sats |-> amount,
                               status |-> "UNREGISTERED", funded |-> FALSE]}
  /\ config' = [config EXCEPT !.total_deposits = @ + 1]
  /\ UNCHANGED <<ledgerVars, now, minted, vaultVars, batchVars, shareVars>>

\* The record moves from one of the statuses in from to the status to.
Advance(rec, from, to) ==
  /\ rec \in records
  /\ rec.status \in from
  /\ records' = Update(records, rec, [rec EXCEPT !.status = to])
  /\ UNCHANGED <<ledgerVars, now, minted, vaultVars, batchVars, shareVars>>

\* register_with_hashi.
RegisterWithHashi(rec) == Advance(rec, {"UNREGISTERED"}, "REGISTERED") /\ UNCHANGED config

\* mark_hashi_approved.
MarkHashiApproved(rec) == Advance(rec, {"REGISTERED"}, "APPROVED") /\ UNCHANGED config

\* Hashi's confirm_deposit, once per deposit: the amount is credited to the vault's
\* address in the funds accumulator.  The pool is not told.
HashiConfirmDeposit(rec) ==
  /\ rec \in records
  /\ rec.status \in {"REGISTERED", "APPROVED"}
  /\ rec.round_id \notin minted
  /\ minted' = minted \cup {rec.round_id}
  /\ accumulated' = accumulated + rec.amount_sats
  /\ inflow' = inflow + rec.amount_sats
  /\ UNCHANGED <<ledgerVars, now, config, records, vault, batchVars, shareVars>>

\* mark_hashi_confirmed: to be called after confirm_deposit succeeded.
MarkHashiConfirmed(rec) ==
  /\ CapHolderFollowsHashi => rec.round_id \in minted
  /\ Advance(rec, {"APPROVED"}, "CONFIRMED")
  /\ config' = [config EXCEPT
                  !.total_sats_confirmed = config.total_sats_confirmed + rec.amount_sats,
                  !.pending_sats = config.pending_sats + rec.amount_sats]

\* mark_hashi_failed: to be called when Hashi rejected the deposit.
MarkHashiFailed(rec) ==
  /\ CapHolderFollowsHashi => rec.round_id \notin minted
  /\ Advance(rec, {"REGISTERED", "APPROVED"}, "FAILED")
  /\ UNCHANGED config

\* clear_pending_sats: saturating, any amount.
ClearPendingSats(amount) ==
  /\ config' = [config EXCEPT !.pending_sats = IF amount >= @ THEN 0 ELSE @ - amount]
  /\ UNCHANGED <<ledgerVars, now, records, minted, vaultVars, batchVars, shareVars>>

-----------------------------------------------------------------------------
(* The vault.                                                              *)

\* The vault after amount joined its balance.
Joined(amount) ==
  [vault EXCEPT !.hbtc = vault.hbtc + amount,
                !.total_received_hbtc = vault.total_received_hbtc + amount]

\* Mutant: everything the vault holds leaves, whatever the deposit was.
TakeAll(amount) ==
  [vault EXCEPT !.hbtc = 0, !.total_withdrawn_hbtc = vault.total_withdrawn_hbtc + vault.hbtc]

\* take_exact_hbtc: the vault after exactly amount left.
TakeExact(amount) ==
  [vault EXCEPT !.hbtc = vault.hbtc - amount,
                !.total_withdrawn_hbtc = vault.total_withdrawn_hbtc + amount]

\* claim_accumulated_hbtc: anyone pulls credited funds into the vault.
ClaimAccumulatedHbtc(amount) ==
  /\ amount <= accumulated
  /\ accumulated' = accumulated - amount
  /\ vault' = Joined(amount)
  /\ UNCHANGED <<ledgerVars, now, depositVars, inflow, batchVars, shareVars>>

\* receive_hbtc: a coin somebody sent to the vault's address.
ReceiveHbtc(amount) ==
  /\ inflow + amount <= MaxGift
  /\ vault' = Joined(amount)
  /\ inflow' = inflow + amount
  /\ UNCHANGED <<ledgerVars, now, depositVars, accumulated, batchVars, shareVars>>

-----------------------------------------------------------------------------
(* Funding a deposit.                                                      *)

\* Mutant: the one-shot lock is missing.
FundableTwice(rec, h) ==
  /\ rec.round_id = h.round_id
  /\ rec.status = "CONFIRMED"
  /\ rec.amount_sats > 0 /\ vault.hbtc >= rec.amount_sats

\* What both funding paths assert of the record, the history and the vault.
Fundable(rec, h) ==
  /\ rec.round_id = h.round_id
  /\ rec.status = "CONFIRMED"
  /\ rec.amount_sats > 0 /\ vault.hbtc >= rec.amount_sats
  /\ ~rec.funded

\* mark_funded.
Funded(rec) == [rec EXCEPT !.funded = TRUE]

\* open_and_fund_round_batch.
OpenAndFundRoundBatch(rec, h) ==
  /\ rec \in records /\ h \in closed
  /\ Fundable(rec, h)
  /\ vault' = TakeExact(rec.amount_sats)
  /\ batches' = batches \cup
       {[round_id |-> h.round_id, total_sats |-> rec.amount_sats,
         claimed_sats |-> 0, balance |-> vault.hbtc - vault'.hbtc,
         status |-> "FUNDED", claim_deadline_ms |-> now + ClaimWindow]}
  /\ registry' = [registry EXCEPT !.total_batches = @ + 1]
  /\ records' = Update(records, rec, Funded(rec))
  /\ UNCHANGED <<ledgerVars, now, config, minted, accumulated, inflow, spent, shareVars>>

\* Mutant: a claim is rounded up.
RewardRoundedUp(e, b, h) ==
  (e.net_work * b.total_sats + h.total_work - 1) \div h.total_work

\* The proportional amount, rounded down.
Reward(e, b, h) == (e.net_work * b.total_sats) \div h.total_work

\* Mutant: completion is not written to the registry.
BookedOnlyOnExpiry(b) == registry

\* The registry after batch b completed.
BookedOnCompletion(b) ==
  [registry EXCEPT
     !.total_sats_distributed = registry.total_sats_distributed + b.claimed_sats]

\* claim_reward: the work record is consumed by value.
ClaimReward(b, e, h) ==
  LET amount == Reward(e, b, h)
      paid   == [b EXCEPT !.claimed_sats = b.claimed_sats + amount,
                          !.balance = b.balance - amount]
      done   == paid.balance = 0
  IN  /\ b \in batches /\ e \in entries \ spent /\ h \in closed
      /\ b.status = "FUNDED"
      /\ now < b.claim_deadline_ms
      /\ e.round_id = b.round_id /\ h.round_id = e.round_id
      /\ h.total_work > 0
      /\ amount <= b.balance
      /\ spent' = spent \cup {e}
      /\ batches' = Update(batches, b,
                      IF done THEN [paid EXCEPT !.status = "COMPLETED"] ELSE paid)
      /\ registry' = IF done THEN BookedOnCompletion(paid) ELSE registry
      /\ UNCHANGED <<ledgerVars, now, depositVars, vaultVars, shareVars>>

\* Mutant: the balance is credited to the vault and left in the batch.
ExpiredKeepsBalance(b) == [b EXCEPT !.status = "EXPIRED"]

\* The batch after its residual was split off.
Expired(b) == [b EXCEPT !.status = "EXPIRED", !.balance = 0]

\* Mutant: the status is not looked at.
RecyclableInAnyStatus(b) == now >= b.claim_deadline_ms

\* The asserts of recycle_expired_to_vault.
Recyclable(b) == b.status = "FUNDED" /\ now >= b.claim_deadline_ms

\* recycle_expired_to_vault.
RecycleExpiredToVault(b) ==
  /\ b \in batches
  /\ Recyclable(b)
  /\ vault' = Joined(b.balance)
  /\ batches' = Update(batches, b, Expired(b))
  /\ registry' = [registry EXCEPT
       !.total_sats_distributed = registry.total_sats_distributed + b.claimed_sats,
       !.total_sats_expired = registry.total_sats_expired + b.balance]
  /\ UNCHANGED <<ledgerVars, now, depositVars, accumulated, inflow, spent, shareVars>>

-----------------------------------------------------------------------------
(* HashShares.                                                             *)

\* register_slot's dedup key.
CapUnregistered(c) == c \notin slots.registered

\* register_slot: a cap joins the FIFO, once.
RegisterSlot(c) ==
  /\ CapUnregistered(c)
  /\ slots' = [slots EXCEPT !.available_slots = Append(@, c),
                            !.registered = @ \cup {c}]
  /\ UNCHANGED <<ledgerVars, now, depositVars, vaultVars, batchVars, supply, redemptions>>

\* bind_slot_to_round: the head of the FIFO, for any round that is not bound yet.
BindSlotToRound(r) ==
  /\ \A b \in slots.rounds : b.round_id # r
  /\ slots.available_slots # << >>
  /\ slots' = [slots EXCEPT
       !.available_slots = Tail(@),
       !.rounds = @ \cup {[round_id |-> r, cap_id |-> Head(slots.available_slots)]}]
  /\ UNCHANGED <<ledgerVars, now, depositVars, vaultVars, batchVars, supply, redemptions>>

\* assert_cap_matches_round.
CapMatchesRound(r, c) == [round_id |-> r, cap_id |-> c] \in slots.rounds

\* mint_share for a share of round r (the sold work is in Rounds); the protocol fee
\* is part of the same supply.
MintShare(r, c, difficulty) ==
  /\ r <= current
  /\ CapMatchesRound(r, c)
  /\ supply[c] + difficulty \div BundleFactor <= MaxSupply
  /\ supply' = [supply EXCEPT ![c] = @ + difficulty \div BundleFactor]
  /\ UNCHANGED <<ledgerVars, now, depositVars, vaultVars, batchVars, slots, redemptions>>

\* open_redemption: the same deposit, the same lock, against the coin's supply.
OpenRedemption(rec, h, c) ==
  /\ rec \in records /\ h \in closed
  /\ Fundable(rec, h)
  /\ CapMatchesRound(h.round_id, c)
  /\ supply[c] > 0
  /\ vault' = TakeExact(rec.amount_sats)
  /\ redemptions' = redemptions \cup
       {[round_id |-> h.round_id, cap_id |-> c, supply_at_open |-> supply[c],
         total_sats |-> rec.amount_sats, outstanding_supply |-> supply[c],
         paid_sats |-> 0, balance |-> vault.hbtc - vault'.hbtc,
         deadline_ms |-> now + ClaimWindow, is_expired |-> FALSE]}
  /\ records' = Update(records, rec, Funded(rec))
  /\ UNCHANGED <<ledgerVars, now, config, minted, accumulated, inflow, batchVars,
                 slots, supply>>

\* Mutant: the payout is rounded up.
RedeemRoundedUp(x, units) ==
  (units * x.total_sats + x.supply_at_open - 1) \div x.supply_at_open

\* The proportional payout at the ratio fixed on open, rounded down.
RedeemPayout(x, units) == (units * x.total_sats) \div x.supply_at_open

\* redeem: a holder burns units of the coin.
Redeem(x, units) ==
  LET payout == RedeemPayout(x, units)
  IN  /\ x \in redemptions
      /\ ~x.is_expired /\ now < x.deadline_ms
      /\ units > 0 /\ units <= supply[x.cap_id]
      /\ units <= x.outstanding_supply
      /\ payout <= x.balance
      /\ supply' = [supply EXCEPT ![x.cap_id] = @ - units]
      /\ redemptions' = Update(redemptions, x,
           [x EXCEPT !.outstanding_supply = x.outstanding_supply - units,
                     !.paid_sats = x.paid_sats + payout,
                     !.balance = x.balance - payout])
      /\ UNCHANGED <<ledgerVars, now, depositVars, vaultVars, batchVars, slots>>

\* recycle_expired_redemption.
RecycleExpiredRedemption(x) ==
  /\ x \in redemptions
  /\ ~x.is_expired /\ now >= x.deadline_ms
  /\ vault' = Joined(x.balance)
  /\ redemptions' = Update(redemptions, x, [x EXCEPT !.balance = 0, !.is_expired = TRUE])
  /\ UNCHANGED <<ledgerVars, now, depositVars, accumulated, inflow, batchVars, slots,
                 supply>>

-----------------------------------------------------------------------------
Next ==
  \/ RoundStep
  \/ Tick
  \/ \E r \in 0 .. MaxRound, a \in Amounts : RecordBlockFound(r, a)
  \/ \E rec \in records : \/ RegisterWithHashi(rec)
                          \/ MarkHashiApproved(rec)
                          \/ HashiConfirmDeposit(rec)
                          \/ MarkHashiConfirmed(rec)
                          \/ MarkHashiFailed(rec)
  \/ \E a \in Amounts : \/ ClearPendingSats(a)
                        \/ ClaimAccumulatedHbtc(a)
                        \/ ReceiveHbtc(a)
  \/ \E rec \in records, h \in closed : OpenAndFundRoundBatch(rec, h)
  \/ \E b \in batches, e \in entries, h \in closed : ClaimReward(b, e, h)
  \/ \E b \in batches : RecycleExpiredToVault(b)
  \/ \E c \in Caps : RegisterSlot(c)
  \/ \E r \in 0 .. MaxRound : BindSlotToRound(r)
  \/ \E r \in 0 .. MaxRound, c \in Caps, d \in ShareDifficulties : MintShare(r, c, d)
  \/ \E rec \in records, h \in closed, c \in Caps : OpenRedemption(rec, h, c)
  \/ \E x \in redemptions, units \in 1 .. MaxSupply : Redeem(x, units)
  \/ \E x \in redemptions : RecycleExpiredRedemption(x)

Spec == Init /\ [][Next]_vars

-----------------------------------------------------------------------------
(* Properties.                                                             *)

RecordType == [round_id: Nat, amount_sats: Nat, funded: BOOLEAN,
               status: {"UNREGISTERED", "REGISTERED", "APPROVED", "CONFIRMED", "FAILED"}]
VaultType == [hbtc: Nat, total_received_hbtc: Nat, total_withdrawn_hbtc: Nat]
ConfigType == [total_deposits: Nat, total_sats_confirmed: Nat, pending_sats: Nat]
RegistryType == [total_batches: Nat, total_sats_distributed: Nat, total_sats_expired: Nat]
BatchType == [round_id: Nat, total_sats: Nat \ {0}, claimed_sats: Nat, balance: Nat,
              status: {"FUNDED", "COMPLETED", "EXPIRED"}, claim_deadline_ms: Nat]
RedemptionType == [round_id: Nat, cap_id: Caps, supply_at_open: Nat \ {0},
                   total_sats: Nat \ {0}, outstanding_supply: Nat, paid_sats: Nat,
                   balance: Nat, deadline_ms: Nat, is_expired: BOOLEAN]

\* Type invariant: counters and balances are natural numbers (no u64 subtraction goes
\* below zero), and no batch or redemption is opened empty.
PayoutsTypeOK ==
  /\ now \in Nat /\ accumulated \in Nat /\ inflow \in Nat
  /\ config \in ConfigType
  /\ records \subseteq RecordType
  /\ minted \subseteq Nat
  /\ vault \in VaultType
  /\ registry \in RegistryType
  /\ batches \subseteq BatchType
  /\ spent \subseteq entries
  /\ supply \in [Caps -> Nat]
  /\ redemptions \subseteq RedemptionType

Total(S, f(_)) == SumOver(S, [x \in S |-> f(x)])

\* No satoshi is made or lost: what entered is still credited, in the vault, in a batch
\* or in a redemption, or was paid; and the vault's lifetime counters agree with its
\* balance.
SatsConserved ==
  LET held(x) == x.balance
      claimed(b) == b.claimed_sats
      redeemed(x) == x.paid_sats
  IN  /\ inflow = accumulated + vault.hbtc + Total(batches, held) + Total(batches, claimed)
                  + Total(redemptions, held) + Total(redemptions, redeemed)
      /\ vault.total_received_hbtc = vault.hbtc + vault.total_withdrawn_hbtc

\* A deposit pays out once, by one route, exactly its amount: a round has at most one
\* record, at most one of a batch and a redemption, and that one was opened from the
\* round's confirmed and locked record.
OnePayoutPerDeposit ==
  /\ \A r, s \in records : r.round_id = s.round_id => r = s
  /\ \A o, p \in batches \cup redemptions : o.round_id = p.round_id => o = p
  /\ \A o \in batches \cup redemptions :
       \E r \in records : /\ r.round_id = o.round_id
                          /\ r.status = "CONFIRMED" /\ r.funded
                          /\ r.amount_sats = o.total_sats
  /\ \A r \in records : r.funded => \E o \in batches \cup redemptions : o.round_id = r.round_id

\* Every confirmed deposit that has not been funded can be, in whatever order rounds
\* are funded and recycled: the vault and its uncollected credit hold its amount.
DepositsAreBacked ==
  LET unfunded == {r \in records : r.status = "CONFIRMED" /\ ~r.funded}
      amount(r) == r.amount_sats
  IN  vault.hbtc + accumulated >= Total(unfunded, amount)

\* A batch can pay every work record of its round, whoever claims first: what is owed
\* to the unspent records never exceeds its balance, so balance::split never aborts.
ClaimsAreCovered ==
  \A b \in batches, h \in closed :
    b.status = "FUNDED" /\ h.round_id = b.round_id /\ h.total_work > 0 =>
      LET unspent == {e \in entries \ spent : e.round_id = b.round_id}
          owed(e) == Reward(e, b, h)
      IN  Total(unspent, owed) <= b.balance

\* A redemption pays at least the ratio fixed when it was opened to everything that is
\* still outstanding, however the burns were split.
RedemptionsAreCovered ==
  \A x \in redemptions :
    /\ x.outstanding_supply <= x.supply_at_open
    /\ x.is_expired \/ RedeemPayout(x, x.outstanding_supply) <= x.balance

\* The registry's totals are those of its batches: opened, paid by a batch that completed
\* or expired, and returned by one that expired.
RegistryAddsUp ==
  LET settled == {b \in batches : b.status # "FUNDED"}
      expired == {b \in batches : b.status = "EXPIRED"}
      claimed(b) == b.claimed_sats
      returned(b) == b.total_sats - b.claimed_sats
  IN  /\ registry.total_batches = Cardinality(batches)
      /\ registry.total_sats_distributed = Total(settled, claimed)
      /\ registry.total_sats_expired = Total(expired, returned)

\* A HashShare coin stands for one round: no cap is bound twice, nor waits in the FIFO
\* after it was bound.
CapsAreExclusive ==
  /\ \A a, b \in slots.rounds : a.cap_id = b.cap_id \/ a.round_id = b.round_id => a = b
  /\ \A i, j \in DOMAIN slots.available_slots :
       slots.available_slots[i] = slots.available_slots[j] => i = j
  /\ \A b \in slots.rounds, i \in DOMAIN slots.available_slots :
       slots.available_slots[i] # b.cap_id

-----------------------------------------------------------------------------
(* Supporting facts: the rest of the inductive invariant.                  *)

\* Payouts are those of closed rounds, and a batch's balance is what it has not paid,
\* until the rest is recycled.
BooksInv ==
  /\ IsFiniteSet(records) /\ IsFiniteSet(batches) /\ IsFiniteSet(redemptions)
  /\ \A o \in batches \cup redemptions : \E h \in closed : h.round_id = o.round_id
  /\ \A b \in batches :
       /\ b.claimed_sats <= b.total_sats
       /\ IF b.status = "EXPIRED" THEN b.balance = 0
                                  ELSE b.claimed_sats + b.balance = b.total_sats

\* Every cap in the FIFO or bound to a round was registered.
SlotsInv ==
  /\ slots \in [available_slots: Seq(Caps), registered: SUBSET Caps,
                rounds: SUBSET [round_id: Nat, cap_id: Caps]]
  /\ \A i \in DOMAIN slots.available_slots : slots.available_slots[i] \in slots.registered
  /\ \A b \in slots.rounds : b.cap_id \in slots.registered

\* What Hashi minted belongs to a record, and what no payout took of it is still there.
MintedIsBacked ==
  LET unpaid == {r \in records : r.round_id \in minted /\ ~r.funded}
      amount(r) == r.amount_sats
  IN  /\ \A r \in records : r.status = "CONFIRMED" => r.round_id \in minted
      /\ \A m \in minted : \E r \in records : r.round_id = m
      /\ vault.hbtc + accumulated >= Total(unpaid, amount)

-----------------------------------------------------------------------------
(* Action properties.                                                      *)

\* What is settled stays settled: a batch that completed or expired and a redemption
\* that expired never change again, and a confirmed record keeps its amount and its lock.
SettledIsFinal ==
  [][/\ \A b \in batches : b.status # "FUNDED" => b \in batches'
     /\ \A x \in redemptions : x.is_expired => x \in redemptions'
     /\ \A r \in records : r.status = "CONFIRMED" => r \in records' \/ Funded(r) \in records']_vars

\* The books are well formed: every record has its type, the registry's totals are those
\* of its batches, and a cap serves one round at most.
PayoutsInv == PayoutsTypeOK /\ RegistryAddsUp /\ CapsAreExclusive

=============================================================================
