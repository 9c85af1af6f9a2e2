--------------------------- MODULE PayoutsProofs ----------------------------
(* Theorems about the payout contracts, for every value of the constants. *)
EXTENDS Payouts, WorkSumsProofs, TLAPS

-----------------------------------------------------------------------------
(* The ledger.                                                             *)

\* An empty ledger keeps its promises.
LEMMA LedgerInvInit == LedgerInit => LedgerInv
<1> SUFFICES ASSUME LedgerInit PROVE LedgerInv
  OBVIOUS
<1>1. IsFiniteSet(entries)
  BY FS_EmptySet DEF LedgerInit
<1>2. open \in BOOLEAN
  BY Zenon DEF LedgerInit
<1>3. current \in Nat /\ entries = {} /\ closed = {}
  BY DEF LedgerInit
<1> QED
  BY <1>1, <1>2, <1>3 DEF LedgerInv

\* A step of the ledger keeps them: entries go to the current round, which is not closed,
\* and the round that closes gets the sum of its entries.
LEMMA LedgerInvStep == LedgerInv /\ [LedgerNext]_ledgerVars => LedgerInv'
<1> SUFFICES ASSUME LedgerInv, [LedgerNext]_ledgerVars PROVE LedgerInv'
  OBVIOUS
<1>1. CASE OpenRound
  BY <1>1 DEF OpenRound, LedgerInv, EnteredWork, EntriesOf
<1>2. ASSUME NEW m \in Miners, NEW w \in Works, Credit(m, w)
      PROVE  LedgerInv'
  <2> DEFINE e == [round_id |-> current, miner |-> m, net_work |-> w]
  <2>1. e \in EntryType /\ entries' = entries \cup {e} /\ UNCHANGED <<current, open, closed>>
    BY <1>2 DEF Credit, EntryType, LedgerInv
  <2>2. IsFiniteSet(entries')
    BY <2>1, FS_AddElement DEF LedgerInv
  <2>3. \A h \in closed : EntriesOf(h.round_id)' = EntriesOf(h.round_id)
    <3>1. \A h \in closed : h.round_id # e.round_id
      BY DEF LedgerInv, ClosedType
    <3> QED
      BY <2>1, <3>1 DEF EntriesOf
  <2>4. \A h \in closed : EnteredWork(h.round_id)' = EnteredWork(h.round_id)
    BY <2>3 DEF EnteredWork
  <2> QED
    BY <2>1, <2>2, <2>4 DEF LedgerInv
<1>3. CASE CloseRound
  <2> DEFINE c == [round_id |-> current, total_work |-> EnteredWork(current)]
  <2>1. /\ closed' = closed \cup {c} /\ current' = current + 1 /\ open' = FALSE
        /\ UNCHANGED entries
    BY <1>3 DEF CloseRound
  <2>2. EnteredWork(current) \in Nat
    <3> DEFINE S == EntriesOf(current)
               f == [e \in S |-> e.net_work]
    <3>1. IsFiniteSet(S)
      BY FS_Subset DEF EntriesOf, LedgerInv
    <3>2. \A e \in S : f[e] \in Nat
      BY LedgerAssumption DEF EntriesOf, LedgerInv, EntryType
    <3> QED
      BY <3>1, <3>2, UnitsFinite DEF EnteredWork
  <2>3. c \in ClosedType /\ c.round_id = current /\ c.total_work = EnteredWork(c.round_id)
    BY <2>2 DEF ClosedType, LedgerInv
  <2>4. \A h \in closed \cup {c} : EnteredWork(h.round_id)' = EnteredWork(h.round_id)
    BY <2>1 DEF EnteredWork, EntriesOf
  <2> HIDE DEF c
  <2>5. \A h \in closed : h.round_id \in Nat /\ h.round_id < current
    BY DEF LedgerInv, ClosedType
  <2>6. \A g, h \in closed' : g.round_id = h.round_id => g = h
    BY <2>1, <2>3, <2>5 DEF LedgerInv
  <2>7. \A h \in closed' : h.round_id < current' /\ h.total_work = EnteredWork(h.round_id)'
    BY <2>1, <2>3, <2>4, <2>5 DEF LedgerInv
  <2>8. /\ current' \in Nat
        /\ entries' \subseteq EntryType /\ IsFiniteSet(entries')
        /\ closed' \subseteq ClosedType
    BY <2>1, <2>3 DEF LedgerInv
  <2>9. open' \in BOOLEAN
    BY <2>1, Zenon
  <2> QED
    BY <2>6, <2>7, <2>8, <2>9 DEF LedgerInv
<1>4. CASE UNCHANGED ledgerVars
  BY <1>4 DEF ledgerVars, LedgerInv, EnteredWork, EntriesOf
<1> QED
  BY <1>1, <1>2, <1>3, <1>4 DEF LedgerNext

-----------------------------------------------------------------------------
(* Type correctness.                                                       *)

\* The contracts start with empty books.
LEMMA TypeInit == Init => PayoutsTypeOK
<1> SUFFICES ASSUME Init PROVE PayoutsTypeOK
  OBVIOUS
<1> USE DEF Init
<1>1. config \in ConfigType
  BY DEF ConfigType
<1>2. vault \in VaultType
  BY DEF VaultType
<1>3. registry \in RegistryType
  BY DEF RegistryType
<1>4. now \in Nat /\ accumulated \in Nat /\ inflow \in Nat /\ supply \in [Caps -> Nat]
  OBVIOUS
<1>5. records = {} /\ minted = {} /\ batches = {} /\ spent = {} /\ redemptions = {}
  OBVIOUS
<1> QED
  BY <1>1, <1>2, <1>3, <1>4, <1>5 DEF PayoutsTypeOK

\* What a claim pays is a natural number, however little work the record stands for.
LEMMA RewardType ==
  ASSUME LedgerInv, PayoutsTypeOK, NEW e \in entries, NEW b \in batches, NEW h \in closed,
         h.total_work > 0
  PROVE  /\ Reward(e, b, h) \in Nat
         /\ h.total_work * Reward(e, b, h) <= e.net_work * b.total_sats
<1> DEFINE n == e.net_work * b.total_sats    W == h.total_work
<1>1. e.net_work \in Nat /\ b.total_sats \in Nat /\ h.total_work \in Nat
  BY LedgerAssumption DEF LedgerInv, PayoutsTypeOK, EntryType, BatchType, ClosedType
<1>2. n \in Nat
  BY <1>1, ProductType
<1> HIDE DEF n
<1>3. n \div W \in Nat /\ W * (n \div W) <= n
  BY <1>1, <1>2, DivFacts
<1> QED
  BY <1>3 DEF Reward, n

\* So is what a redemption pays.
LEMMA RedeemPayoutType ==
  ASSUME NEW x \in RedemptionType, NEW units \in Nat
  PROVE  RedeemPayout(x, units) \in Nat
<1> DEFINE n == units * x.total_sats
<1>1. x.total_sats \in Nat /\ x.supply_at_open \in Nat /\ x.supply_at_open > 0
  BY DEF RedemptionType
<1>2. n \in Nat
  BY <1>1, ProductType
<1> HIDE DEF n
<1>3. n \div x.supply_at_open \in Nat
  BY <1>1, <1>2, DivFacts
<1> QED
  BY <1>3 DEF RedeemPayout, n

\* The pieces an action builds its new objects from.
LEMMA JoinedType ==
  ASSUME PayoutsTypeOK, NEW n \in Nat
  PROVE  /\ Joined(n) \in VaultType
         /\ Joined(n).hbtc = vault.hbtc + n
         /\ Joined(n).total_received_hbtc = vault.total_received_hbtc + n
         /\ Joined(n).total_withdrawn_hbtc = vault.total_withdrawn_hbtc
<1> DEFINE a == vault.hbtc + n
           b == vault.total_received_hbtc + n
<1>1. vault \in VaultType
  BY DEF PayoutsTypeOK
<1>2. a \in Nat /\ b \in Nat
  BY <1>1 DEF VaultType
<1>3. Joined(n) = [vault EXCEPT !.hbtc = a, !.total_received_hbtc = b]
  BY DEF Joined
<1> HIDE DEF a, b
<1>4. /\ Joined(n) \in VaultType /\ Joined(n).hbtc = a
      /\ Joined(n).total_received_hbtc = b
      /\ Joined(n).total_withdrawn_hbtc = vault.total_withdrawn_hbtc
  BY <1>1, <1>2, <1>3 DEF VaultType
<1> QED
  BY <1>4 DEF a, b

LEMMA TakeExactType ==
  ASSUME PayoutsTypeOK, NEW n \in Nat, n <= vault.hbtc
  PROVE  /\ TakeExact(n) \in VaultType
         /\ TakeExact(n).hbtc = vault.hbtc - n
         /\ TakeExact(n).total_received_hbtc = vault.total_received_hbtc
         /\ TakeExact(n).total_withdrawn_hbtc = vault.total_withdrawn_hbtc + n
         /\ vault.hbtc - TakeExact(n).hbtc = n
<1> DEFINE a == vault.hbtc - n
           b == vault.total_withdrawn_hbtc + n
<1>1. vault \in VaultType
  BY DEF PayoutsTypeOK
<1>2. a \in Nat /\ b \in Nat /\ vault.hbtc - a = n
  BY <1>1 DEF VaultType
<1>3. TakeExact(n) = [vault EXCEPT !.hbtc = a, !.total_withdrawn_hbtc = b]
  BY DEF TakeExact
<1> HIDE DEF a, b
<1>4. /\ TakeExact(n) \in VaultType /\ TakeExact(n).hbtc = a
      /\ TakeExact(n).total_received_hbtc = vault.total_received_hbtc
      /\ TakeExact(n).total_withdrawn_hbtc = b
  BY <1>1, <1>2, <1>3 DEF VaultType
<1> QED
  BY <1>2, <1>4 DEF a, b

\* Funding: the deposit leaves the vault for an object that holds exactly its amount, and
\* the record is locked.
LEMMA FundEffect ==
  ASSUME PayoutsTypeOK, NEW rec \in records, NEW h \in closed, Fundable(rec, h),
         vault' = TakeExact(rec.amount_sats), records' = Update(records, rec, Funded(rec))
  PROVE  /\ rec \in RecordType /\ rec.amount_sats \in Nat \ {0}
         /\ rec.amount_sats <= vault.hbtc
         /\ vault' \in VaultType /\ vault.hbtc - vault'.hbtc = rec.amount_sats
         /\ Funded(rec) \in RecordType
         /\ Funded(rec).round_id = rec.round_id /\ Funded(rec).amount_sats = rec.amount_sats
         /\ Funded(rec).status = rec.status /\ Funded(rec).funded
         /\ records' \subseteq RecordType
<1>1. /\ rec \in RecordType /\ rec.amount_sats \in Nat \ {0}
      /\ rec.amount_sats <= vault.hbtc
  BY DEF PayoutsTypeOK, RecordType, VaultType, Fundable
<1>2. vault' \in VaultType /\ vault.hbtc - vault'.hbtc = rec.amount_sats
  BY <1>1, TakeExactType
<1>3. /\ Funded(rec) \in RecordType
      /\ Funded(rec).round_id = rec.round_id /\ Funded(rec).amount_sats = rec.amount_sats
      /\ Funded(rec).status = rec.status /\ Funded(rec).funded
  BY <1>1 DEF Funded, RecordType
<1>4. records' \subseteq RecordType
  BY <1>3 DEF Update, PayoutsTypeOK
<1> QED
  BY <1>1, <1>2, <1>3, <1>4

\* The registry with d more distributed and x more expired.
Booked(d, x) == [total_batches |-> registry.total_batches,
                 total_sats_distributed |-> registry.total_sats_distributed + d,
                 total_sats_expired |-> registry.total_sats_expired + x]

\* claim_reward moves the reward from the batch's balance to its claimed total, and
\* completes a batch whose balance is used up.
LEMMA ClaimEffect ==
  ASSUME LedgerInv, PayoutsTypeOK, NEW b \in batches, NEW e \in entries, NEW h \in closed,
         ClaimReward(b, e, h)
  PROVE  \E y \in BatchType :
           LET a == Reward(e, b, h) IN
           /\ a \in Nat /\ a <= b.balance
           /\ batches' = (batches \ {b}) \cup {y}
           /\ y.round_id = b.round_id /\ y.total_sats = b.total_sats
           /\ y.claimed_sats = b.claimed_sats + a /\ y.balance = b.balance - a
           /\ \/ y.status = "FUNDED" /\ registry' = registry
              \/ y.status = "COMPLETED" /\ registry' = Booked(y.claimed_sats, 0)
<1> DEFINE a == Reward(e, b, h)
           c == b.claimed_sats + a
           l == b.balance - a
           paid == [b EXCEPT !.claimed_sats = c, !.balance = l]
           y == IF paid.balance = 0 THEN [paid EXCEPT !.status = "COMPLETED"] ELSE paid
<1>1. b \in BatchType /\ registry \in RegistryType
  BY DEF PayoutsTypeOK
<1>2. a \in Nat /\ a <= b.balance
  BY RewardType DEF ClaimReward
<1>3. c \in Nat /\ l \in Nat
  BY <1>1, <1>2 DEF BatchType
<1>4. /\ batches' = (batches \ {b}) \cup {y}
      /\ registry' = IF paid.balance = 0 THEN BookedOnCompletion(paid) ELSE registry
      /\ b.status = "FUNDED"
  BY DEF ClaimReward, Update
<1> HIDE DEF a, c, l
<1>5. /\ paid \in BatchType /\ paid.round_id = b.round_id /\ paid.total_sats = b.total_sats
      /\ paid.claimed_sats = c /\ paid.balance = l /\ paid.status = "FUNDED"
  BY <1>1, <1>3, <1>4 DEF BatchType
<1>6. BookedOnCompletion(paid) = Booked(paid.claimed_sats, 0)
  <2>1. paid.claimed_sats \in Nat
    BY <1>3, <1>5
  <2> HIDE DEF paid
  <2> QED
    BY <1>1, <2>1 DEF BookedOnCompletion, Booked, RegistryType
<1>7. CASE paid.balance = 0
  <2>1. y = [paid EXCEPT !.status = "COMPLETED"] /\ registry' = Booked(paid.claimed_sats, 0)
    BY <1>4, <1>6, <1>7
  <2> HIDE DEF paid, y
  <2>2. /\ y \in BatchType /\ y.round_id = b.round_id /\ y.total_sats = b.total_sats
        /\ y.claimed_sats = c /\ y.balance = l /\ y.status = "COMPLETED"
    BY <1>5, <2>1 DEF BatchType
  <2> QED
    BY <1>2, <1>4, <1>5, <2>1, <2>2 DEF a, c, l
<1>8. CASE paid.balance # 0
  <2>1. y = paid /\ registry' = registry
    BY <1>4, <1>8
  <2> HIDE DEF paid, y
  <2> QED
    BY <1>2, <1>4, <1>5, <2>1 DEF a, c, l
<1> QED
  BY <1>7, <1>8

\* recycle_expired_to_vault returns the rest of a batch to the vault.
LEMMA RecycleEffect ==
  ASSUME PayoutsTypeOK, NEW b \in batches, RecycleExpiredToVault(b)
  PROVE  \E y \in BatchType :
           /\ batches' = (batches \ {b}) \cup {y}
           /\ y.round_id = b.round_id /\ y.total_sats = b.total_sats
           /\ y.claimed_sats = b.claimed_sats /\ y.balance = 0 /\ y.status = "EXPIRED"
           /\ b.status = "FUNDED" /\ b.balance \in Nat
           /\ registry' = Booked(b.claimed_sats, b.balance)
           /\ vault' = Joined(b.balance)
<1>1. b \in BatchType /\ registry \in RegistryType
  BY DEF PayoutsTypeOK
<1>2. /\ Expired(b) \in BatchType /\ Expired(b).round_id = b.round_id
      /\ Expired(b).total_sats = b.total_sats /\ Expired(b).claimed_sats = b.claimed_sats
      /\ Expired(b).balance = 0 /\ Expired(b).status = "EXPIRED"
  BY <1>1 DEF Expired, BatchType
<1>3. b.balance \in Nat /\ b.claimed_sats \in Nat
  BY <1>1 DEF BatchType
<1>4. /\ batches' = (batches \ {b}) \cup {Expired(b)}
      /\ b.status = "FUNDED" /\ vault' = Joined(b.balance)
      /\ registry' = [registry EXCEPT
           !.total_sats_distributed = registry.total_sats_distributed + b.claimed_sats,
           !.total_sats_expired = registry.total_sats_expired + b.balance]
  BY DEF RecycleExpiredToVault, Recyclable, Update
<1>5. registry' = Booked(b.claimed_sats, b.balance)
  BY <1>1, <1>4 DEF Booked, RegistryType
<1> QED
  BY <1>2, <1>3, <1>4, <1>5

\* open_and_fund_round_batch opens a batch with the amount of the deposit.
LEMMA OpenBatchEffect ==
  ASSUME PayoutsTypeOK, NEW rec \in records, NEW h \in closed, OpenAndFundRoundBatch(rec, h)
  PROVE  \E y \in BatchType :
           /\ batches' = batches \cup {y}
           /\ y.round_id = rec.round_id /\ y.total_sats = rec.amount_sats
           /\ y.claimed_sats = 0 /\ y.balance = rec.amount_sats /\ y.status = "FUNDED"
<1> DEFINE y == [round_id |-> h.round_id, total_sats |-> rec.amount_sats,
                 claimed_sats |-> 0, balance |-> vault.hbtc - vault'.hbtc,
                 status |-> "FUNDED", claim_deadline_ms |-> now + ClaimWindow]
<1>1. /\ Fundable(rec, h) /\ vault' = TakeExact(rec.amount_sats)
      /\ records' = Update(records, rec, Funded(rec)) /\ batches' = batches \cup {y}
  BY DEF OpenAndFundRoundBatch
<1>2. /\ rec \in RecordType /\ rec.amount_sats \in Nat \ {0}
      /\ vault.hbtc - vault'.hbtc = rec.amount_sats
  BY <1>1, FundEffect
<1>3. h.round_id = rec.round_id /\ rec.round_id \in Nat
  BY <1>1, <1>2 DEF Fundable, RecordType
<1>4. now + ClaimWindow \in Nat
  BY PayoutsAssumption DEF PayoutsTypeOK
<1>5. y \in BatchType
  BY <1>2, <1>3, <1>4 DEF BatchType
<1> QED
  BY <1>1, <1>2, <1>3, <1>5

\* open_redemption opens a pool with the amount of the deposit, for the supply there is.
LEMMA OpenRedemptionEffect ==
  ASSUME PayoutsTypeOK, NEW rec \in records, NEW h \in closed, NEW c \in Caps,
         OpenRedemption(rec, h, c)
  PROVE  \E y \in RedemptionType :
           /\ redemptions' = redemptions \cup {y}
           /\ y.round_id = rec.round_id /\ y.total_sats = rec.amount_sats
           /\ y.paid_sats = 0 /\ y.balance = rec.amount_sats /\ ~y.is_expired
           /\ y.outstanding_supply = y.supply_at_open
<1> DEFINE y == [round_id |-> h.round_id, cap_id |-> c, supply_at_open |-> supply[c],
                 total_sats |-> rec.amount_sats, outstanding_supply |-> supply[c],
                 paid_sats |-> 0, balance |-> vault.hbtc - vault'.hbtc,
                 deadline_ms |-> now + ClaimWindow, is_expired |-> FALSE]
<1>1. /\ Fundable(rec, h) /\ vault' = TakeExact(rec.amount_sats) /\ supply[c] > 0
      /\ records' = Update(records, rec, Funded(rec)) /\ redemptions' = redemptions \cup {y}
  BY DEF OpenRedemption
<1>2. /\ rec \in RecordType /\ rec.amount_sats \in Nat \ {0}
      /\ vault.hbtc - vault'.hbtc = rec.amount_sats
  BY <1>1, FundEffect
<1>3. h.round_id = rec.round_id /\ rec.round_id \in Nat
  BY <1>1, <1>2 DEF Fundable, RecordType
<1>4. now + ClaimWindow \in Nat /\ supply[c] \in Nat \ {0}
  BY <1>1, PayoutsAssumption DEF PayoutsTypeOK
<1>5. y \in RedemptionType
  BY <1>2, <1>3, <1>4 DEF RedemptionType
<1> QED
  BY <1>1, <1>2, <1>3, <1>5

\* redeem burns units and pays their share of the pool, rounded down.
LEMMA RedeemEffect ==
  ASSUME PayoutsTypeOK, NEW x \in redemptions, NEW units \in 1 .. MaxSupply, Redeem(x, units)
  PROVE  \E y \in RedemptionType :
           LET a == RedeemPayout(x, units) IN
           /\ a \in Nat /\ a <= x.balance /\ units <= x.outstanding_supply
           /\ redemptions' = (redemptions \ {x}) \cup {y}
           /\ y.round_id = x.round_id /\ y.total_sats = x.total_sats
           /\ y.supply_at_open = x.supply_at_open
           /\ y.outstanding_supply = x.outstanding_supply - units
           /\ y.paid_sats = x.paid_sats + a /\ y.balance = x.balance - a
           /\ ~x.is_expired /\ y.is_expired = x.is_expired
           /\ supply' \in [Caps -> Nat]
<1> DEFINE a == RedeemPayout(x, units)
           o == x.outstanding_supply - units
           p == x.paid_sats + a
           l == x.balance - a
           y == [x EXCEPT !.outstanding_supply = o, !.paid_sats = p, !.balance = l]
<1>1. x \in RedemptionType /\ units \in Nat
  BY PayoutsAssumption DEF PayoutsTypeOK
<1>2. a \in Nat /\ a <= x.balance /\ units <= x.outstanding_supply
  BY <1>1, RedeemPayoutType DEF Redeem
<1>3. o \in Nat /\ p \in Nat /\ l \in Nat
  BY <1>1, <1>2 DEF RedemptionType
<1>4. redemptions' = (redemptions \ {x}) \cup {y} /\ ~x.is_expired
  BY DEF Redeem, Update
<1>5. supply' \in [Caps -> Nat]
  <2>1. supply' = [supply EXCEPT ![x.cap_id] = supply[x.cap_id] - units]
    BY DEF Redeem
  <2>2. units <= supply[x.cap_id] /\ x.cap_id \in Caps
    BY <1>1 DEF Redeem, RedemptionType
  <2> QED
    BY <1>1, <2>1, <2>2 DEF PayoutsTypeOK
<1> HIDE DEF a, o, p, l
<1>6. /\ y \in RedemptionType /\ y.round_id = x.round_id /\ y.total_sats = x.total_sats
      /\ y.supply_at_open = x.supply_at_open /\ y.outstanding_supply = o
      /\ y.paid_sats = p /\ y.balance = l /\ y.is_expired = x.is_expired
  BY <1>1, <1>3 DEF RedemptionType
<1> QED
  BY <1>2, <1>4, <1>5, <1>6 DEF a, o, p, l

\* recycle_expired_redemption returns the rest of a pool to the vault.
LEMMA RecycleRedemptionEffect ==
  ASSUME PayoutsTypeOK, NEW x \in redemptions, RecycleExpiredRedemption(x)
  PROVE  \E y \in RedemptionType :
           /\ redemptions' = (redemptions \ {x}) \cup {y}
           /\ y.round_id = x.round_id /\ y.total_sats = x.total_sats
           /\ y.supply_at_open = x.supply_at_open
           /\ y.outstanding_supply = x.outstanding_supply
           /\ y.paid_sats = x.paid_sats /\ y.balance = 0 /\ y.is_expired
           /\ ~x.is_expired /\ x.balance \in Nat
           /\ vault' = Joined(x.balance)
<1> DEFINE y == [x EXCEPT !.balance = 0, !.is_expired = TRUE]
<1>1. x \in RedemptionType
  BY DEF PayoutsTypeOK
<1>2. /\ redemptions' = (redemptions \ {x}) \cup {y} /\ ~x.is_expired
      /\ vault' = Joined(x.balance)
  BY DEF RecycleExpiredRedemption, Update
<1>3. /\ y \in RedemptionType /\ y.round_id = x.round_id /\ y.total_sats = x.total_sats
      /\ y.supply_at_open = x.supply_at_open
      /\ y.outstanding_supply = x.outstanding_supply
      /\ y.paid_sats = x.paid_sats /\ y.balance = 0 /\ y.is_expired
      /\ x.balance \in Nat
  BY <1>1 DEF RedemptionType
<1> QED
  BY <1>2, <1>3

\* The steps of a record through the bridge change its status, never that of a confirmed
\* record, and nothing that has been paid.
LEMMA StatusEffect ==
  ASSUME PayoutsTypeOK, NEW rec \in records,
         \/ RegisterWithHashi(rec) \/ MarkHashiApproved(rec)
         \/ MarkHashiConfirmed(rec) \/ MarkHashiFailed(rec)
  PROVE  \E y \in RecordType :
           /\ records' = (records \ {rec}) \cup {y}
           /\ y.round_id = rec.round_id /\ y.amount_sats = rec.amount_sats
           /\ (y.funded <=> rec.funded) /\ rec.status # "CONFIRMED"
           /\ CapHolderFollowsHashi /\ y.status = "CONFIRMED" => y.round_id \in minted
           /\ config' \in ConfigType
           /\ UNCHANGED <<ledgerVars, now, minted, vaultVars, batchVars, shareVars>>
<1>1. rec \in RecordType /\ config \in ConfigType
  BY DEF PayoutsTypeOK
<1>2. ASSUME NEW from, NEW to \in {"REGISTERED", "APPROVED", "CONFIRMED", "FAILED"},
             Advance(rec, from, to), "CONFIRMED" \notin from, config' \in ConfigType,
             CapHolderFollowsHashi /\ to = "CONFIRMED" => rec.round_id \in minted
      PROVE  \E y \in RecordType :
           /\ records' = (records \ {rec}) \cup {y}
           /\ y.round_id = rec.round_id /\ y.amount_sats = rec.amount_sats
           /\ (y.funded <=> rec.funded) /\ rec.status # "CONFIRMED"
           /\ CapHolderFollowsHashi /\ y.status = "CONFIRMED" => y.round_id \in minted
           /\ config' \in ConfigType
           /\ UNCHANGED <<ledgerVars, now, minted, vaultVars, batchVars, shareVars>>
  <2> DEFINE y == [rec EXCEPT !.status = to]
  <2>1. /\ records' = (records \ {rec}) \cup {y} /\ rec.status # "CONFIRMED"
        /\ UNCHANGED <<ledgerVars, now, minted, vaultVars, batchVars, shareVars>>
    BY <1>2 DEF Advance, Update
  <2>2. /\ y \in RecordType /\ y.round_id = rec.round_id /\ y.amount_sats = rec.amount_sats
        /\ y.status = to
    BY <1>1, <1>2 DEF RecordType
  <2>3. y.funded <=> rec.funded
    BY <1>1 DEF RecordType
  <2> HIDE DEF y
  <2>4. CapHolderFollowsHashi /\ y.status = "CONFIRMED" => y.round_id \in minted
    BY <1>2, <2>2
  <2> QED
    BY <1>2, <2>1, <2>2, <2>3, <2>4
<1>3. CASE RegisterWithHashi(rec)
  <2>1. Advance(rec, {"UNREGISTERED"}, "REGISTERED") /\ config' = config
    BY <1>3 DEF RegisterWithHashi
  <2> QED
    BY <1>1, <1>2, <2>1
<1>4. CASE MarkHashiApproved(rec)
  <2>1. Advance(rec, {"REGISTERED"}, "APPROVED") /\ config' = config
    BY <1>4 DEF MarkHashiApproved
  <2> QED
    BY <1>1, <1>2, <2>1
<1>5. CASE MarkHashiConfirmed(rec)
  <2>1. /\ Advance(rec, {"APPROVED"}, "CONFIRMED")
        /\ CapHolderFollowsHashi => rec.round_id \in minted
    BY <1>5 DEF MarkHashiConfirmed
  <2>2. config' \in ConfigType
    <3> DEFINE s == config.total_sats_confirmed + rec.amount_sats
               p == config.pending_sats + rec.amount_sats
    <3>1. s \in Nat /\ p \in Nat
      BY <1>1 DEF RecordType, ConfigType
    <3>2. config' = [config EXCEPT !.total_sats_confirmed = s, !.pending_sats = p]
      BY <1>5 DEF MarkHashiConfirmed
    <3> HIDE DEF s, p
    <3> QED
      BY <1>1, <3>1, <3>2 DEF ConfigType
  <2> QED
    BY <1>2, <2>1, <2>2
<1>6. CASE MarkHashiFailed(rec)
  <2>1. Advance(rec, {"REGISTERED", "APPROVED"}, "FAILED") /\ config' = config
    BY <1>6 DEF MarkHashiFailed
  <2> QED
    BY <1>1, <1>2, <2>1
<1> QED
  BY <1>3, <1>4, <1>5, <1>6

\* The steps that leave the records, the batches, the redemptions, the registry and the
\* vault alone.
LEMMA SideStepsFrame ==
  ASSUME \/ RoundStep
         \/ Tick
         \/ \E a \in Amounts : ClearPendingSats(a)
         \/ \E c \in Caps : RegisterSlot(c)
         \/ \E r \in 0 .. MaxRound : BindSlotToRound(r)
         \/ \E r \in 0 .. MaxRound, c \in Caps, d \in ShareDifficulties : MintShare(r, c, d)
         \/ UNCHANGED vars
  PROVE  UNCHANGED <<records, minted, vaultVars, batchVars, redemptions>>
BY DEF RoundStep, Tick, ClearPendingSats, RegisterSlot, BindSlotToRound, MintShare, vars,
       depositVars, vaultVars, batchVars, shareVars

\* Every step keeps the types, given that the ledger keeps its promises.
LEMMA TypeStep == LedgerInv /\ PayoutsTypeOK /\ [Next]_vars => PayoutsTypeOK'
<1> SUFFICES ASSUME LedgerInv, PayoutsTypeOK, [Next]_vars PROVE PayoutsTypeOK'
  OBVIOUS
<1> USE DEF depositVars, vaultVars, batchVars, shareVars
<1>1. CASE RoundStep
  <2>1. entries \subseteq entries'
    BY <1>1 DEF RoundStep, LedgerNext, OpenRound, Credit, CloseRound
  <2>2. UNCHANGED <<now, depositVars, vaultVars, batchVars, shareVars>>
    BY <1>1 DEF RoundStep
  <2> QED
    BY <2>1, <2>2 DEF PayoutsTypeOK
<1>2. CASE Tick
  BY <1>2 DEF Tick, PayoutsTypeOK, ledgerVars
<1>3. ASSUME NEW r \in 0 .. MaxRound, NEW a \in Amounts, RecordBlockFound(r, a)
      PROVE  PayoutsTypeOK'
  <2> DEFINE rec == [round_id |-> r, amount_sats |-> a, status |-> "UNREGISTERED",
                     funded |-> FALSE]
  <2>1. rec \in RecordType
    BY LedgerAssumption, PayoutsAssumption DEF RecordType
  <2>2. records' \subseteq RecordType
    BY <1>3, <2>1 DEF RecordBlockFound, PayoutsTypeOK
  <2>3. config' \in ConfigType
    BY <1>3 DEF RecordBlockFound, PayoutsTypeOK, ConfigType
  <2>4. UNCHANGED <<ledgerVars, now, minted, vaultVars, batchVars, shareVars>>
    BY <1>3 DEF RecordBlockFound
  <2> QED
    BY <2>2, <2>3, <2>4 DEF PayoutsTypeOK, ledgerVars
<1>4. ASSUME NEW rec \in records,
             \/ RegisterWithHashi(rec) \/ MarkHashiApproved(rec)
             \/ MarkHashiConfirmed(rec) \/ MarkHashiFailed(rec)
      PROVE  PayoutsTypeOK'
  <2>1. /\ records' \subseteq RecordType /\ config' \in ConfigType
        /\ UNCHANGED <<ledgerVars, now, minted, vaultVars, batchVars, shareVars>>
    BY <1>4, StatusEffect DEF PayoutsTypeOK
  <2> QED
    BY <2>1 DEF PayoutsTypeOK, ledgerVars
<1>5. ASSUME NEW rec \in records, HashiConfirmDeposit(rec) PROVE PayoutsTypeOK'
  <2>1. rec.amount_sats \in Nat /\ rec.round_id \in Nat
    BY DEF PayoutsTypeOK, RecordType
  <2>2. accumulated' \in Nat /\ inflow' \in Nat /\ minted' \subseteq Nat
    <3>1. /\ accumulated' = accumulated + rec.amount_sats
          /\ inflow' = inflow + rec.amount_sats /\ minted' = minted \cup {rec.round_id}
      BY <1>5 DEF HashiConfirmDeposit
    <3>2. accumulated \in Nat /\ inflow \in Nat /\ minted \subseteq Nat
      BY DEF PayoutsTypeOK
    <3>3. minted' \subseteq Nat
      BY <2>1, <3>1, <3>2
    <3> QED
      BY <2>1, <3>1, <3>2, <3>3
  <2>3. UNCHANGED <<ledgerVars, now, config, records, vault, batchVars, shareVars>>
    BY <1>5 DEF HashiConfirmDeposit
  <2> QED
    BY <2>2, <2>3 DEF PayoutsTypeOK, ledgerVars
<1>6. ASSUME NEW a \in Amounts, ClearPendingSats(a) PROVE PayoutsTypeOK'
  <2> DEFINE p == IF a >= config.pending_sats THEN 0 ELSE config.pending_sats - a
  <2>1. p \in Nat /\ config' = [config EXCEPT !.pending_sats = p]
    BY <1>6, PayoutsAssumption DEF ClearPendingSats, PayoutsTypeOK, ConfigType
  <2> HIDE DEF p
  <2>2. config' \in ConfigType
    BY <2>1 DEF PayoutsTypeOK, ConfigType
  <2> QED
    BY <1>6, <2>2 DEF ClearPendingSats, PayoutsTypeOK, ledgerVars
<1>7. ASSUME NEW a \in Amounts, ClaimAccumulatedHbtc(a) PROVE PayoutsTypeOK'
  <2>1. vault' \in VaultType /\ accumulated' \in Nat
    BY <1>7, JoinedType, PayoutsAssumption DEF ClaimAccumulatedHbtc, PayoutsTypeOK
  <2> QED
    BY <1>7, <2>1 DEF ClaimAccumulatedHbtc, PayoutsTypeOK, ledgerVars
<1>8. ASSUME NEW a \in Amounts, ReceiveHbtc(a) PROVE PayoutsTypeOK'
  <2>1. vault' \in VaultType /\ inflow' \in Nat
    BY <1>8, JoinedType, PayoutsAssumption DEF ReceiveHbtc, PayoutsTypeOK
  <2> QED
    BY <1>8, <2>1 DEF ReceiveHbtc, PayoutsTypeOK, ledgerVars
<1>9. ASSUME NEW rec \in records, NEW h \in closed, OpenAndFundRoundBatch(rec, h)
      PROVE  PayoutsTypeOK'
  <2>1. vault' \in VaultType /\ records' \subseteq RecordType
    BY <1>9, FundEffect DEF OpenAndFundRoundBatch
  <2>2. batches' \subseteq BatchType
    BY <1>9, OpenBatchEffect DEF PayoutsTypeOK
  <2>3. registry' \in RegistryType
    BY <1>9 DEF OpenAndFundRoundBatch, PayoutsTypeOK, RegistryType
  <2> QED
    BY <1>9, <2>1, <2>2, <2>3 DEF OpenAndFundRoundBatch, PayoutsTypeOK, ledgerVars
<1>10. ASSUME NEW b \in batches, NEW e \in entries, NEW h \in closed, ClaimReward(b, e, h)
       PROVE  PayoutsTypeOK'
  <2>1. PICK y \in BatchType :
          /\ batches' = (batches \ {b}) \cup {y}
          /\ registry' = registry \/ registry' = Booked(y.claimed_sats, 0)
    BY <1>10, ClaimEffect
  <2>2. registry' \in RegistryType
    BY <2>1 DEF Booked, PayoutsTypeOK, RegistryType, BatchType
  <2>3. /\ spent' = spent \cup {e}
        /\ UNCHANGED <<ledgerVars, now, depositVars, vaultVars, shareVars>>
    BY <1>10 DEF ClaimReward
  <2> QED
    BY <2>1, <2>2, <2>3 DEF PayoutsTypeOK, ledgerVars
<1>11. ASSUME NEW b \in batches, RecycleExpiredToVault(b) PROVE PayoutsTypeOK'
  <2>1. PICK y \in BatchType :
          /\ batches' = (batches \ {b}) \cup {y} /\ b.balance \in Nat
          /\ registry' = Booked(b.claimed_sats, b.balance) /\ vault' = Joined(b.balance)
    BY <1>11, RecycleEffect
  <2>2. vault' \in VaultType
    BY <2>1, JoinedType
  <2>3. registry' \in RegistryType
    BY <2>1 DEF Booked, PayoutsTypeOK, RegistryType, BatchType
  <2> QED
    BY <1>11, <2>1, <2>2, <2>3 DEF RecycleExpiredToVault, PayoutsTypeOK, ledgerVars
<1>12. ASSUME NEW c \in Caps, RegisterSlot(c) PROVE PayoutsTypeOK'
  BY <1>12 DEF RegisterSlot, PayoutsTypeOK, ledgerVars
<1>13. ASSUME NEW r \in 0 .. MaxRound, BindSlotToRound(r) PROVE PayoutsTypeOK'
  BY <1>13 DEF BindSlotToRound, PayoutsTypeOK, ledgerVars
<1>14. ASSUME NEW r \in 0 .. MaxRound, NEW c \in Caps, NEW d \in ShareDifficulties,
              MintShare(r, c, d)
       PROVE  PayoutsTypeOK'
  <2> DEFINE u == d \div BundleFactor
  <2>1. u \in Nat
    BY DivFacts, PayoutsAssumption
  <2> HIDE DEF u
  <2>2. supply' \in [Caps -> Nat]
    BY <1>14, <2>1 DEF MintShare, PayoutsTypeOK, u
  <2> QED
    BY <1>14, <2>2 DEF MintShare, PayoutsTypeOK, ledgerVars
<1>15. ASSUME NEW rec \in records, NEW h \in closed, NEW c \in Caps,
              OpenRedemption(rec, h, c)
       PROVE  PayoutsTypeOK'
  <2>1. vault' \in VaultType /\ records' \subseteq RecordType
    BY <1>15, FundEffect DEF OpenRedemption
  <2>2. redemptions' \subseteq RedemptionType
    BY <1>15, OpenRedemptionEffect DEF PayoutsTypeOK
  <2> QED
    BY <1>15, <2>1, <2>2 DEF OpenRedemption, PayoutsTypeOK, ledgerVars
<1>16. ASSUME NEW x \in redemptions, NEW units \in 1 .. MaxSupply, Redeem(x, units)
       PROVE  PayoutsTypeOK'
  <2>1. redemptions' \subseteq RedemptionType /\ supply' \in [Caps -> Nat]
    BY <1>16, RedeemEffect DEF PayoutsTypeOK
  <2> QED
    BY <1>16, <2>1 DEF Redeem, PayoutsTypeOK, ledgerVars
<1>17. ASSUME NEW x \in redemptions, RecycleExpiredRedemption(x) PROVE PayoutsTypeOK'
  <2>1. /\ redemptions' \subseteq RedemptionType
        /\ x.balance \in Nat /\ vault' = Joined(x.balance)
    BY <1>17, RecycleRedemptionEffect DEF PayoutsTypeOK
  <2>2. vault' \in VaultType
    BY <2>1, JoinedType
  <2> QED
    BY <1>17, <2>1, <2>2 DEF RecycleExpiredRedemption, PayoutsTypeOK, ledgerVars
<1>18. CASE UNCHANGED vars
  BY <1>18 DEF vars, PayoutsTypeOK, ledgerVars
<1> QED
  BY <1>1, <1>2, <1>3, <1>4, <1>5, <1>6, <1>7, <1>8, <1>9, <1>10, <1>11, <1>12, <1>13,
     <1>14, <1>15, <1>16, <1>17, <1>18 DEF Next

-----------------------------------------------------------------------------
(* A deposit pays out once.                                                *)

\* What OnePayoutPerDeposit says of records R and payouts P.
PaidOnce(R, P) ==
  /\ \A r, s \in R : r.round_id = s.round_id => r = s
  /\ \A o, p \in P : o.round_id = p.round_id => o = p
  /\ \A o \in P : \E r \in R : /\ r.round_id = o.round_id
                               /\ r.status = "CONFIRMED" /\ r.funded
                               /\ r.amount_sats = o.total_sats
  /\ \A r \in R : r.funded => \E o \in P : o.round_id = r.round_id

LEMMA PaidOnceIsInvariant == OnePayoutPerDeposit <=> PaidOnce(records, batches \cup redemptions)
BY DEF OnePayoutPerDeposit, PaidOnce

\* A new record for a round that has none.
LEMMA PaidOnceRecorded ==
  ASSUME NEW R, NEW P, PaidOnce(R, P), NEW y, ~y.funded, \A r \in R : r.round_id # y.round_id
  PROVE  PaidOnce(R \cup {y}, P)
BY DEF PaidOnce

\* A record that was not confirmed changes its status.
LEMMA PaidOnceAdvanced ==
  ASSUME NEW R, NEW P, PaidOnce(R, P), NEW x \in R, x.status # "CONFIRMED",
         NEW y, y.round_id = x.round_id, y.funded <=> x.funded
  PROVE  PaidOnce((R \ {x}) \cup {y}, P)
BY DEF PaidOnce

\* A confirmed record that was not funded is, and pays o.
LEMMA PaidOnceFunded ==
  ASSUME NEW R, NEW P, PaidOnce(R, P), NEW x \in R, ~x.funded,
         NEW y, y.round_id = x.round_id, y.amount_sats = x.amount_sats,
         y.status = "CONFIRMED", y.funded,
         NEW o, o.round_id = x.round_id, o.total_sats = x.amount_sats
  PROVE  PaidOnce((R \ {x}) \cup {y}, P \cup {o}) /\ \A p \in P : p.round_id # x.round_id
<1>1. \A p \in P : p.round_id # x.round_id
  BY DEF PaidOnce
<1> QED
  BY <1>1 DEF PaidOnce

\* A payout changes and keeps its round and its amount.
LEMMA PaidOnceServed ==
  ASSUME NEW R, NEW P, PaidOnce(R, P), NEW x \in P,
         NEW y, y.round_id = x.round_id, y.total_sats = x.total_sats
  PROVE  PaidOnce(R, (P \ {x}) \cup {y})
BY DEF PaidOnce

\* A batch is not a redemption.
LEMMA BatchesAreNotRedemptions ==
  ASSUME PayoutsTypeOK PROVE batches \cap redemptions = {}
<1> SUFFICES ASSUME NEW o \in batches, o \in redemptions PROVE FALSE
  OBVIOUS
<1>1. o \in BatchType /\ o \in RedemptionType
  BY DEF PayoutsTypeOK
<1>2. "cap_id" \notin DOMAIN o
  BY <1>1 DEF BatchType
<1>3. "cap_id" \in DOMAIN o
  BY <1>1 DEF RedemptionType
<1> QED
  BY <1>2, <1>3

\* Every step keeps it: only record_block_found makes a record, for a round without one,
\* and only the two funding paths make a payout, of a confirmed record they then lock.
LEMMA PaidOnceStep ==
  LedgerInv /\ PayoutsTypeOK /\ OnePayoutPerDeposit /\ [Next]_vars => OnePayoutPerDeposit'
<1> SUFFICES ASSUME LedgerInv, PayoutsTypeOK, OnePayoutPerDeposit, [Next]_vars
             PROVE  PaidOnce(records', batches' \cup redemptions')
  BY DEF OnePayoutPerDeposit, PaidOnce
<1> USE DEF depositVars, vaultVars, batchVars, shareVars
<1> DEFINE P == batches \cup redemptions
<1>0. PaidOnce(records, P)
  BY PaidOnceIsInvariant
<1>1. CASE \/ RoundStep \/ Tick
           \/ \E a \in Amounts : ClearPendingSats(a)
           \/ \E c \in Caps : RegisterSlot(c)
           \/ \E r \in 0 .. MaxRound : BindSlotToRound(r)
           \/ \E r \in 0 .. MaxRound, c \in Caps, d \in ShareDifficulties : MintShare(r, c, d)
           \/ UNCHANGED vars
  BY <1>0, <1>1, SideStepsFrame
<1>2. CASE \/ \E rec \in records : HashiConfirmDeposit(rec)
           \/ \E a \in Amounts : ClaimAccumulatedHbtc(a) \/ ReceiveHbtc(a)
  <2>1. UNCHANGED <<records, batches, redemptions>>
    BY <1>2 DEF HashiConfirmDeposit, ClaimAccumulatedHbtc, ReceiveHbtc
  <2> QED
    BY <1>0, <2>1
<1>3. ASSUME NEW r \in 0 .. MaxRound, NEW a \in Amounts, RecordBlockFound(r, a)
      PROVE  PaidOnce(records', batches' \cup redemptions')
  <2> DEFINE y == [round_id |-> r, amount_sats |-> a, status |-> "UNREGISTERED",
                   funded |-> FALSE]
  <2>1. /\ records' = records \cup {y} /\ UNCHANGED <<batches, redemptions>>
        /\ \A s \in records : s.round_id # r
    BY <1>3 DEF RecordBlockFound, RoundUnrecorded
  <2>2. ~y.funded /\ y.round_id = r
    OBVIOUS
  <2> HIDE DEF y
  <2> QED
    BY <1>0, <2>1, <2>2, PaidOnceRecorded
<1>4. ASSUME NEW rec \in records,
             \/ RegisterWithHashi(rec) \/ MarkHashiApproved(rec)
             \/ MarkHashiConfirmed(rec) \/ MarkHashiFailed(rec)
      PROVE  PaidOnce(records', batches' \cup redemptions')
  <2>1. PICK y \in RecordType :
          /\ records' = (records \ {rec}) \cup {y} /\ y.round_id = rec.round_id
          /\ (y.funded <=> rec.funded) /\ rec.status # "CONFIRMED"
          /\ UNCHANGED <<ledgerVars, now, minted, vaultVars, batchVars, shareVars>>
    BY <1>4, StatusEffect
  <2> QED
    BY <1>0, <2>1, PaidOnceAdvanced
<1>5. ASSUME NEW rec \in records, NEW h \in closed, Fundable(rec, h), NEW o,
             o.round_id = rec.round_id, o.total_sats = rec.amount_sats,
             vault' = TakeExact(rec.amount_sats),
             records' = Update(records, rec, Funded(rec)),
             batches' \cup redemptions' = P \cup {o}
      PROVE  PaidOnce(records', batches' \cup redemptions')
  <2>1. /\ Funded(rec).round_id = rec.round_id /\ Funded(rec).amount_sats = rec.amount_sats
        /\ Funded(rec).status = "CONFIRMED" /\ Funded(rec).funded
    BY <1>5, FundEffect DEF Fundable
  <2>2. ~rec.funded
    BY <1>5 DEF Fundable
  <2>3. PaidOnce((records \ {rec}) \cup {Funded(rec)}, P \cup {o})
    BY <1>0, <1>5, <2>1, <2>2, PaidOnceFunded
  <2> QED
    BY <1>5, <2>3 DEF Update
<1>6. ASSUME NEW rec \in records, NEW h \in closed, OpenAndFundRoundBatch(rec, h)
      PROVE  PaidOnce(records', batches' \cup redemptions')
  <2>1. /\ Fundable(rec, h) /\ vault' = TakeExact(rec.amount_sats)
        /\ records' = Update(records, rec, Funded(rec)) /\ redemptions' = redemptions
    BY <1>6 DEF OpenAndFundRoundBatch
  <2>2. PICK y \in BatchType : /\ batches' = batches \cup {y}
                               /\ y.round_id = rec.round_id /\ y.total_sats = rec.amount_sats
    BY <1>6, OpenBatchEffect
  <2>3. batches' \cup redemptions' = P \cup {y}
    BY <2>1, <2>2
  <2> QED
    BY <1>5, <2>1, <2>2, <2>3
<1>7. ASSUME NEW rec \in records, NEW h \in closed, NEW c \in Caps, OpenRedemption(rec, h, c)
      PROVE  PaidOnce(records', batches' \cup redemptions')
  <2>1. /\ Fundable(rec, h) /\ vault' = TakeExact(rec.amount_sats)
        /\ records' = Update(records, rec, Funded(rec)) /\ batches' = batches
    BY <1>7 DEF OpenRedemption
  <2>2. PICK y \in RedemptionType :
          /\ redemptions' = redemptions \cup {y}
          /\ y.round_id = rec.round_id /\ y.total_sats = rec.amount_sats
    BY <1>7, OpenRedemptionEffect
  <2>3. batches' \cup redemptions' = P \cup {y}
    BY <2>1, <2>2
  <2> QED
    BY <1>5, <2>1, <2>2, <2>3
<1>8. ASSUME NEW b \in batches,
             \/ \E e \in entries, h \in closed : ClaimReward(b, e, h)
             \/ RecycleExpiredToVault(b)
      PROVE  PaidOnce(records', batches' \cup redemptions')
  <2>1. PICK y \in BatchType : /\ batches' = (batches \ {b}) \cup {y}
                               /\ y.round_id = b.round_id /\ y.total_sats = b.total_sats
    <3>1. ASSUME NEW e \in entries, NEW h \in closed, ClaimReward(b, e, h)
          PROVE  \E y \in BatchType : /\ batches' = (batches \ {b}) \cup {y}
                               /\ y.round_id = b.round_id /\ y.total_sats = b.total_sats
      BY <3>1, ClaimEffect
    <3> QED
      BY <1>8, <3>1, RecycleEffect
  <2>2. UNCHANGED <<records, redemptions>>
    BY <1>8 DEF ClaimReward, RecycleExpiredToVault
  <2>3. batches' \cup redemptions' = (P \ {b}) \cup {y}
    BY <2>1, <2>2, BatchesAreNotRedemptions
  <2> QED
    BY <1>0, <2>1, <2>2, <2>3, PaidOnceServed
<1>9. ASSUME NEW x \in redemptions,
             \/ \E units \in 1 .. MaxSupply : Redeem(x, units)
             \/ RecycleExpiredRedemption(x)
      PROVE  PaidOnce(records', batches' \cup redemptions')
  <2>1. PICK y \in RedemptionType : /\ redemptions' = (redemptions \ {x}) \cup {y}
                                    /\ y.round_id = x.round_id /\ y.total_sats = x.total_sats
    <3>1. ASSUME NEW units \in 1 .. MaxSupply, Redeem(x, units)
          PROVE  \E y \in RedemptionType :
                    /\ redemptions' = (redemptions \ {x}) \cup {y}
                    /\ y.round_id = x.round_id /\ y.total_sats = x.total_sats
      BY <3>1, RedeemEffect
    <3> QED
      BY <1>9, <3>1, RecycleRedemptionEffect
  <2>2. UNCHANGED <<records, batches>>
    BY <1>9 DEF Redeem, RecycleExpiredRedemption
  <2>3. batches' \cup redemptions' = (P \ {x}) \cup {y}
    BY <2>1, <2>2, BatchesAreNotRedemptions
  <2> QED
    BY <1>0, <2>1, <2>2, <2>3, PaidOnceServed
<1> QED
  BY <1>1, <1>2, <1>3, <1>4, <1>6, <1>7, <1>8, <1>9 DEF Next

-----------------------------------------------------------------------------
(* The books.                                                              *)

\* What the proofs below stand on.
CoreInv == LedgerInv /\ PayoutsTypeOK /\ OnePayoutPerDeposit /\ BooksInv

\* Replacing an element keeps a set finite.
LEMMA ReplaceFinite ==
  ASSUME NEW S, IsFiniteSet(S), NEW x, NEW y PROVE IsFiniteSet((S \ {x}) \cup {y})
<1>1. IsFiniteSet(S \ {x})
  BY FS_Subset
<1> QED
  BY <1>1, FS_AddElement

\* A claim or a recycling replaces a funded batch of a round by another of that round;
\* no other batch of the round exists.
LEMMA BatchServed ==
  ASSUME CoreInv, NEW b \in batches,
         \/ \E e \in entries, h \in closed : ClaimReward(b, e, h)
         \/ RecycleExpiredToVault(b)
  PROVE  \E y \in BatchType :
           /\ batches' = (batches \ {b}) \cup {y}
           /\ y \notin batches \ {b} /\ (y.status # "FUNDED" => y \notin batches)
           /\ y.round_id = b.round_id /\ y.total_sats = b.total_sats
           /\ b.status = "FUNDED" /\ b.claimed_sats + b.balance = b.total_sats
           /\ \/ /\ y.claimed_sats + y.balance = y.total_sats
                 /\ y.claimed_sats + y.balance = b.claimed_sats + b.balance
                 /\ UNCHANGED vault
                 /\ \/ y.status = "FUNDED" /\ registry' = registry
                    \/ y.status = "COMPLETED" /\ registry' = Booked(y.claimed_sats, 0)
              \/ /\ y.claimed_sats = b.claimed_sats /\ y.balance = 0 /\ y.status = "EXPIRED"
                 /\ registry' = Booked(y.claimed_sats, b.balance)
                 /\ vault' = Joined(b.balance)
           /\ UNCHANGED <<ledgerVars, records, minted, redemptions, accumulated, inflow>>
<1> USE DEF depositVars, vaultVars, batchVars, shareVars
<1>1. b \in BatchType /\ (b.status = "FUNDED" => b.claimed_sats + b.balance = b.total_sats)
  BY DEF CoreInv, BooksInv, PayoutsTypeOK
<1>2. \A y : y \in batches /\ y.round_id = b.round_id => y = b
  BY DEF CoreInv, OnePayoutPerDeposit
<1>3. ASSUME NEW e \in entries, NEW h \in closed, ClaimReward(b, e, h)
      PROVE  \E y \in BatchType :
               /\ batches' = (batches \ {b}) \cup {y}
               /\ y.round_id = b.round_id /\ y.total_sats = b.total_sats
               /\ b.status = "FUNDED"
               /\ y.claimed_sats + y.balance = y.total_sats
               /\ y.claimed_sats + y.balance = b.claimed_sats + b.balance
               /\ \/ y.status = "FUNDED" /\ registry' = registry
                  \/ y.status = "COMPLETED" /\ registry' = Booked(y.claimed_sats, 0)
               /\ UNCHANGED <<ledgerVars, records, minted, redemptions, accumulated, inflow,
                              vault>>
  <2>1. PICK y \in BatchType :
           LET a == Reward(e, b, h) IN
           /\ a \in Nat /\ a <= b.balance
           /\ batches' = (batches \ {b}) \cup {y}
           /\ y.round_id = b.round_id /\ y.total_sats = b.total_sats
           /\ y.claimed_sats = b.claimed_sats + a /\ y.balance = b.balance - a
           /\ \/ y.status = "FUNDED" /\ registry' = registry
              \/ y.status = "COMPLETED" /\ registry' = Booked(y.claimed_sats, 0)
    BY <1>3, ClaimEffect DEF CoreInv
  <2>2. /\ b.status = "FUNDED"
        /\ UNCHANGED <<ledgerVars, records, minted, redemptions, accumulated, inflow, vault>>
    BY <1>3 DEF ClaimReward
  <2>3. y.claimed_sats + y.balance = b.claimed_sats + b.balance
    BY <1>1, <2>1 DEF BatchType
  <2> QED
    BY <1>1, <2>1, <2>2, <2>3
<1>4. CASE RecycleExpiredToVault(b)
  <2>1. PICK y \in BatchType :
           /\ batches' = (batches \ {b}) \cup {y}
           /\ y.round_id = b.round_id /\ y.total_sats = b.total_sats
           /\ y.claimed_sats = b.claimed_sats /\ y.balance = 0 /\ y.status = "EXPIRED"
           /\ b.status = "FUNDED" /\ b.balance \in Nat
           /\ registry' = Booked(b.claimed_sats, b.balance)
           /\ vault' = Joined(b.balance)
    BY <1>4, RecycleEffect DEF CoreInv
  <2>2. UNCHANGED <<ledgerVars, records, minted, redemptions, accumulated, inflow>>
    BY <1>4 DEF RecycleExpiredToVault
  <2>3. y \notin batches \ {b} /\ (y.status # "FUNDED" => y \notin batches)
    BY <1>2, <2>1
  <2> QED
    BY <1>1, <2>1, <2>2, <2>3
<1>5. CASE \E e \in entries, h \in closed : ClaimReward(b, e, h)
  <2>1. PICK y \in BatchType :
               /\ batches' = (batches \ {b}) \cup {y}
               /\ y.round_id = b.round_id /\ y.total_sats = b.total_sats
               /\ b.status = "FUNDED"
               /\ y.claimed_sats + y.balance = y.total_sats
               /\ y.claimed_sats + y.balance = b.claimed_sats + b.balance
               /\ \/ y.status = "FUNDED" /\ registry' = registry
                  \/ y.status = "COMPLETED" /\ registry' = Booked(y.claimed_sats, 0)
               /\ UNCHANGED <<ledgerVars, records, minted, redemptions, accumulated, inflow,
                              vault>>
    BY <1>3, <1>5
  <2>2. y \notin batches \ {b} /\ (y.status # "FUNDED" => y \notin batches)
    BY <1>2, <2>1
  <2> QED
    BY <1>1, <2>1, <2>2
<1> QED
  BY <1>4, <1>5

\* The same for a redemption.
LEMMA RedemptionServed ==
  ASSUME CoreInv, NEW x \in redemptions,
         \/ \E units \in 1 .. MaxSupply : Redeem(x, units)
         \/ RecycleExpiredRedemption(x)
  PROVE  \E y \in RedemptionType :
           /\ redemptions' = (redemptions \ {x}) \cup {y} /\ y \notin redemptions \ {x}
           /\ y.round_id = x.round_id /\ y.total_sats = x.total_sats
           /\ \/ y.paid_sats + y.balance = x.paid_sats + x.balance /\ UNCHANGED vault
              \/ /\ y.paid_sats = x.paid_sats /\ y.balance = 0
                 /\ vault' = Joined(x.balance)
           /\ UNCHANGED <<ledgerVars, records, minted, batches, registry, accumulated, inflow>>
<1> USE DEF depositVars, vaultVars, batchVars, shareVars
<1>1. x \in RedemptionType
  BY DEF CoreInv, PayoutsTypeOK
<1>2. \A y : y \in redemptions /\ y.round_id = x.round_id => y = x
  BY DEF CoreInv, OnePayoutPerDeposit
<1>3. UNCHANGED <<ledgerVars, records, minted, batches, registry, accumulated, inflow>>
  BY DEF Redeem, RecycleExpiredRedemption
<1>4. CASE RecycleExpiredRedemption(x)
  <2>1. PICK y \in RedemptionType :
           /\ redemptions' = (redemptions \ {x}) \cup {y}
           /\ y.round_id = x.round_id /\ y.total_sats = x.total_sats
           /\ y.paid_sats = x.paid_sats /\ y.balance = 0
           /\ vault' = Joined(x.balance)
    BY <1>4, RecycleRedemptionEffect DEF CoreInv
  <2> QED
    BY <1>2, <1>3, <2>1
<1>5. ASSUME NEW units \in 1 .. MaxSupply, Redeem(x, units)
      PROVE  \E y \in RedemptionType :
           /\ redemptions' = (redemptions \ {x}) \cup {y}
           /\ y.round_id = x.round_id /\ y.total_sats = x.total_sats
           /\ y.paid_sats + y.balance = x.paid_sats + x.balance /\ UNCHANGED vault
  <2>1. PICK y \in RedemptionType :
           LET a == RedeemPayout(x, units) IN
           /\ a \in Nat /\ a <= x.balance
           /\ redemptions' = (redemptions \ {x}) \cup {y}
           /\ y.round_id = x.round_id /\ y.total_sats = x.total_sats
           /\ y.paid_sats = x.paid_sats + a /\ y.balance = x.balance - a
    BY <1>5, RedeemEffect DEF CoreInv
  <2>2. y.paid_sats + y.balance = x.paid_sats + x.balance
    BY <1>1, <2>1 DEF RedemptionType
  <2>3. UNCHANGED vault
    BY <1>5 DEF Redeem
  <2> QED
    BY <2>1, <2>2, <2>3
<1>6. CASE \E units \in 1 .. MaxSupply : Redeem(x, units)
  <2>1. PICK y \in RedemptionType :
           /\ redemptions' = (redemptions \ {x}) \cup {y}
           /\ y.round_id = x.round_id /\ y.total_sats = x.total_sats
           /\ y.paid_sats + y.balance = x.paid_sats + x.balance /\ UNCHANGED vault
    BY <1>5, <1>6
  <2> QED
    BY <1>2, <1>3, <2>1
<1> QED
  BY <1>4, <1>6

\* A funding path locks the record and makes the only payout of its round, which holds
\* what the vault gave.
LEMMA DepositFunded ==
  ASSUME CoreInv, NEW rec \in records, NEW h \in closed,
         \/ OpenAndFundRoundBatch(rec, h)
         \/ \E c \in Caps : OpenRedemption(rec, h, c)
  PROVE  /\ h.round_id = rec.round_id /\ rec.status = "CONFIRMED" /\ ~rec.funded
         /\ rec \in RecordType /\ rec.amount_sats <= vault.hbtc
         /\ records' = (records \ {rec}) \cup {Funded(rec)}
         /\ Funded(rec) \in RecordType /\ Funded(rec).funded
         /\ Funded(rec).round_id = rec.round_id /\ Funded(rec).amount_sats = rec.amount_sats
         /\ Funded(rec).status = "CONFIRMED"
         /\ vault' = TakeExact(rec.amount_sats)
         /\ UNCHANGED <<ledgerVars, minted, accumulated, inflow, spent>>
         /\ \/ /\ redemptions' = redemptions
               /\ registry' = [registry EXCEPT !.total_batches = @ + 1]
               /\ \E y \in BatchType :
                    /\ batches' = batches \cup {y} /\ y \notin batches
                    /\ y.round_id = rec.round_id /\ y.total_sats = rec.amount_sats
                    /\ y.claimed_sats = 0 /\ y.balance = rec.amount_sats /\ y.status = "FUNDED"
            \/ /\ UNCHANGED <<batches, registry>>
               /\ \E y \in RedemptionType :
                    /\ redemptions' = redemptions \cup {y} /\ y \notin redemptions
                    /\ y.round_id = rec.round_id /\ y.total_sats = rec.amount_sats
                    /\ y.paid_sats = 0 /\ y.balance = rec.amount_sats /\ ~y.is_expired
                    /\ y.outstanding_supply = y.supply_at_open
<1> USE DEF depositVars, vaultVars, batchVars, shareVars
<1>1. /\ Fundable(rec, h) /\ vault' = TakeExact(rec.amount_sats)
      /\ records' = Update(records, rec, Funded(rec))
      /\ UNCHANGED <<ledgerVars, minted, accumulated, inflow, spent>>
  BY DEF OpenAndFundRoundBatch, OpenRedemption
<1>2. h.round_id = rec.round_id /\ rec.status = "CONFIRMED" /\ ~rec.funded
  BY <1>1 DEF Fundable
<1>3. /\ rec \in RecordType /\ rec.amount_sats <= vault.hbtc
      /\ Funded(rec) \in RecordType /\ Funded(rec).funded
      /\ Funded(rec).round_id = rec.round_id /\ Funded(rec).amount_sats = rec.amount_sats
      /\ Funded(rec).status = "CONFIRMED"
  BY <1>1, <1>2, FundEffect DEF CoreInv
<1>4. \A o \in batches \cup redemptions : o.round_id # rec.round_id
  BY <1>2 DEF CoreInv, OnePayoutPerDeposit
<1>5. CASE OpenAndFundRoundBatch(rec, h)
  <2>1. redemptions' = redemptions /\ registry' = [registry EXCEPT !.total_batches = @ + 1]
    BY <1>5 DEF OpenAndFundRoundBatch
  <2>2. PICK y \in BatchType :
           /\ batches' = batches \cup {y}
           /\ y.round_id = rec.round_id /\ y.total_sats = rec.amount_sats
           /\ y.claimed_sats = 0 /\ y.balance = rec.amount_sats /\ y.status = "FUNDED"
    BY <1>5, OpenBatchEffect DEF CoreInv
  <2>3. y \notin batches
    BY <1>4, <2>2
  <2> QED
    BY <1>1, <1>2, <1>3, <2>1, <2>2, <2>3 DEF Update
<1>6. ASSUME NEW c \in Caps, OpenRedemption(rec, h, c)
      PROVE  /\ UNCHANGED <<batches, registry>>
             /\ \E y \in RedemptionType :
                  /\ redemptions' = redemptions \cup {y} /\ y \notin redemptions
                  /\ y.round_id = rec.round_id /\ y.total_sats = rec.amount_sats
                  /\ y.paid_sats = 0 /\ y.balance = rec.amount_sats /\ ~y.is_expired
                  /\ y.outstanding_supply = y.supply_at_open
  <2>1. UNCHANGED <<batches, registry>>
    BY <1>6 DEF OpenRedemption
  <2>2. PICK y \in RedemptionType :
           /\ redemptions' = redemptions \cup {y}
           /\ y.round_id = rec.round_id /\ y.total_sats = rec.amount_sats
           /\ y.paid_sats = 0 /\ y.balance = rec.amount_sats /\ ~y.is_expired
           /\ y.outstanding_supply = y.supply_at_open
    BY <1>6, OpenRedemptionEffect DEF CoreInv
  <2>3. y \notin redemptions
    BY <1>4, <2>2
  <2> QED
    BY <2>1, <2>2, <2>3
<1>7. CASE \E c \in Caps : OpenRedemption(rec, h, c)
  BY <1>1, <1>2, <1>3, <1>6, <1>7 DEF Update
<1> QED
  BY <1>5, <1>7

\* Every step of the contracts is a step of the round pipeline or leaves it alone.
LEMMA LedgerFrame == [Next]_vars => [LedgerNext]_ledgerVars
<1> SUFFICES ASSUME [Next]_vars PROVE LedgerNext \/ UNCHANGED ledgerVars
  OBVIOUS
<1>1. CASE \/ RoundStep \/ Tick
           \/ \E r \in 0 .. MaxRound, a \in Amounts : RecordBlockFound(r, a)
           \/ UNCHANGED vars
  BY <1>1 DEF RoundStep, Tick, RecordBlockFound, vars
<1>2. ASSUME NEW rec \in records,
             \/ RegisterWithHashi(rec) \/ MarkHashiApproved(rec) \/ HashiConfirmDeposit(rec)
             \/ MarkHashiConfirmed(rec) \/ MarkHashiFailed(rec)
      PROVE  UNCHANGED ledgerVars
  BY <1>2 DEF RegisterWithHashi, MarkHashiApproved, HashiConfirmDeposit,
              MarkHashiConfirmed, MarkHashiFailed, Advance
<1>3. ASSUME NEW a \in Amounts,
             ClearPendingSats(a) \/ ClaimAccumulatedHbtc(a) \/ ReceiveHbtc(a)
      PROVE  UNCHANGED ledgerVars
  BY <1>3 DEF ClearPendingSats, ClaimAccumulatedHbtc, ReceiveHbtc
<1>4. ASSUME NEW h \in closed,
             \/ \E rec \in records : OpenAndFundRoundBatch(rec, h)
             \/ \E rec \in records, c \in Caps : OpenRedemption(rec, h, c)
             \/ \E b \in batches, e \in entries : ClaimReward(b, e, h)
      PROVE  UNCHANGED ledgerVars
  BY <1>4 DEF OpenAndFundRoundBatch, OpenRedemption, ClaimReward
<1>5. CASE \/ \E b \in batches : RecycleExpiredToVault(b)
           \/ \E x \in redemptions, units \in 1 .. MaxSupply : Redeem(x, units)
           \/ \E x \in redemptions : RecycleExpiredRedemption(x)
  BY <1>5 DEF RecycleExpiredToVault, Redeem, RecycleExpiredRedemption
<1>6. CASE \/ \E c \in Caps : RegisterSlot(c)
           \/ \E r \in 0 .. MaxRound : BindSlotToRound(r)
           \/ \E r \in 0 .. MaxRound, c \in Caps, d \in ShareDifficulties : MintShare(r, c, d)
  BY <1>6 DEF RegisterSlot, BindSlotToRound, MintShare
<1> QED
  BY <1>1, <1>2, <1>3, <1>4, <1>5, <1>6 DEF Next

\* Every step keeps the books.
LEMMA BooksStep == CoreInv /\ [Next]_vars => BooksInv'
<1> SUFFICES ASSUME CoreInv, [Next]_vars PROVE BooksInv'
  OBVIOUS
<1> USE DEF depositVars, vaultVars, batchVars, shareVars
<1> DEFINE Sound(b) == /\ b.claimed_sats <= b.total_sats
                       /\ IF b.status = "EXPIRED" THEN b.balance = 0
                                                  ELSE b.claimed_sats + b.balance = b.total_sats
<1>0. /\ IsFiniteSet(records) /\ IsFiniteSet(batches) /\ IsFiniteSet(redemptions)
      /\ \A o \in batches \cup redemptions : \E h \in closed : h.round_id = o.round_id
      /\ \A b \in batches : Sound(b)
  BY DEF CoreInv, BooksInv
<1>a. ASSUME IsFiniteSet(records'), IsFiniteSet(batches'), IsFiniteSet(redemptions'),
             \A o \in batches' \cup redemptions' : \E h \in closed' : h.round_id = o.round_id,
             \A b \in batches' : Sound(b)
      PROVE  BooksInv'
  BY <1>a DEF BooksInv
<1>b. closed \subseteq closed'
  BY LedgerFrame DEF ledgerVars, LedgerNext, OpenRound, Credit, CloseRound
<1> HIDE DEF Sound
<1>1. CASE UNCHANGED <<records, batches, redemptions>>
  BY <1>0, <1>1, <1>a, <1>b
<1>2. ASSUME IsFiniteSet(records'), UNCHANGED <<batches, redemptions>> PROVE BooksInv'
  BY <1>0, <1>2, <1>a, <1>b
<1>3. ASSUME NEW r \in 0 .. MaxRound, NEW a \in Amounts, RecordBlockFound(r, a) PROVE BooksInv'
  <2>1. IsFiniteSet(records')
    BY <1>0, <1>3, FS_AddElement DEF RecordBlockFound
  <2>2. UNCHANGED <<batches, redemptions>>
    BY <1>3 DEF RecordBlockFound
  <2> QED
    BY <1>2, <2>1, <2>2
<1>4. ASSUME NEW rec \in records,
             \/ RegisterWithHashi(rec) \/ MarkHashiApproved(rec)
             \/ MarkHashiConfirmed(rec) \/ MarkHashiFailed(rec)
      PROVE  BooksInv'
  <2>1. PICK y \in RecordType :
          /\ records' = (records \ {rec}) \cup {y}
          /\ UNCHANGED <<ledgerVars, now, minted, vaultVars, batchVars, shareVars>>
    BY <1>4, StatusEffect DEF CoreInv
  <2>2. IsFiniteSet(records')
    BY <1>0, <2>1, ReplaceFinite
  <2> QED
    BY <1>2, <2>1, <2>2
<1>5. ASSUME NEW rec \in records, NEW h \in closed,
             \/ OpenAndFundRoundBatch(rec, h)
             \/ \E c \in Caps : OpenRedemption(rec, h, c)
      PROVE  BooksInv'
  <2>1. /\ h.round_id = rec.round_id /\ rec \in RecordType
        /\ records' = (records \ {rec}) \cup {Funded(rec)}
        /\ \/ /\ redemptions' = redemptions
              /\ \E y \in BatchType :
                   /\ batches' = batches \cup {y}
                   /\ y.round_id = rec.round_id /\ y.total_sats = rec.amount_sats
                   /\ y.claimed_sats = 0 /\ y.balance = rec.amount_sats /\ y.status = "FUNDED"
           \/ /\ batches' = batches
              /\ \E y \in RedemptionType :
                   redemptions' = redemptions \cup {y} /\ y.round_id = rec.round_id
    BY <1>5, DepositFunded
  <2>2. IsFiniteSet(records')
    BY <1>0, <2>1, ReplaceFinite
  <2>3. ASSUME redemptions' = redemptions, NEW y \in BatchType, batches' = batches \cup {y},
               y.round_id = rec.round_id, y.total_sats = rec.amount_sats,
               y.claimed_sats = 0, y.balance = rec.amount_sats, y.status = "FUNDED"
        PROVE  BooksInv'
    <3>1. IsFiniteSet(batches')
      BY <1>0, <2>3, FS_AddElement
    <3>2. Sound(y)
      BY <2>3 DEF Sound, BatchType
    <3>3. \A o \in batches' \cup redemptions' : \E g \in closed' : g.round_id = o.round_id
      BY <1>0, <1>b, <2>1, <2>3
    <3>4. \A z \in batches' : Sound(z)
      BY <1>0, <2>3, <3>2
    <3> QED
      BY <1>0, <1>a, <2>2, <2>3, <3>1, <3>3, <3>4
  <2>4. ASSUME batches' = batches, NEW y, redemptions' = redemptions \cup {y},
               y.round_id = rec.round_id
        PROVE  BooksInv'
    <3>1. IsFiniteSet(redemptions')
      BY <1>0, <2>4, FS_AddElement
    <3>2. \A o \in batches' \cup redemptions' : \E g \in closed' : g.round_id = o.round_id
      BY <1>0, <1>b, <2>1, <2>4
    <3> QED
      BY <1>0, <1>a, <2>2, <2>4, <3>1, <3>2
  <2> QED
    BY <2>1, <2>3, <2>4
<1>6. ASSUME NEW b \in batches,
             \/ \E e \in entries, h \in closed : ClaimReward(b, e, h)
             \/ RecycleExpiredToVault(b)
      PROVE  BooksInv'
  <2>1. PICK y \in BatchType :
           /\ batches' = (batches \ {b}) \cup {y}
           /\ y.round_id = b.round_id /\ y.total_sats = b.total_sats
           /\ b.status = "FUNDED" /\ b.claimed_sats + b.balance = b.total_sats
           /\ \/ /\ y.claimed_sats + y.balance = y.total_sats
                 /\ y.status = "FUNDED" \/ y.status = "COMPLETED"
              \/ y.claimed_sats = b.claimed_sats /\ y.balance = 0 /\ y.status = "EXPIRED"
           /\ UNCHANGED <<records, redemptions>>
    BY <1>6, BatchServed
  <2>2. b \in BatchType
    BY DEF CoreInv, PayoutsTypeOK
  <2>3. Sound(y)
    BY <2>1, <2>2 DEF Sound, BatchType
  <2>4. IsFiniteSet(batches')
    BY <1>0, <2>1, ReplaceFinite
  <2>5. \A o \in batches' \cup redemptions' : \E g \in closed' : g.round_id = o.round_id
    BY <1>0, <1>b, <2>1
  <2>6. \A z \in batches' : Sound(z)
    BY <1>0, <2>1, <2>3
  <2> QED
    BY <1>0, <1>a, <2>1, <2>4, <2>5, <2>6
<1>7. ASSUME NEW x \in redemptions,
             \/ \E units \in 1 .. MaxSupply : Redeem(x, units)
             \/ RecycleExpiredRedemption(x)
      PROVE  BooksInv'
  <2>1. PICK y \in RedemptionType :
           /\ redemptions' = (redemptions \ {x}) \cup {y}
           /\ y.round_id = x.round_id /\ UNCHANGED <<records, batches>>
    BY <1>7, RedemptionServed
  <2>2. IsFiniteSet(redemptions')
    BY <1>0, <2>1, ReplaceFinite
  <2>3. \A o \in batches' \cup redemptions' : \E g \in closed' : g.round_id = o.round_id
    BY <1>0, <1>b, <2>1
  <2> QED
    BY <1>0, <1>a, <2>1, <2>2, <2>3
<1>8. CASE \/ RoundStep \/ Tick
           \/ \E a \in Amounts : ClearPendingSats(a)
           \/ \E c \in Caps : RegisterSlot(c)
           \/ \E r \in 0 .. MaxRound : BindSlotToRound(r)
           \/ \E r \in 0 .. MaxRound, c \in Caps, d \in ShareDifficulties : MintShare(r, c, d)
           \/ UNCHANGED vars
  BY <1>1, <1>8, SideStepsFrame
<1>9. CASE \/ \E rec \in records : HashiConfirmDeposit(rec)
           \/ \E a \in Amounts : ClaimAccumulatedHbtc(a) \/ ReceiveHbtc(a)
  BY <1>1, <1>9 DEF HashiConfirmDeposit, ClaimAccumulatedHbtc, ReceiveHbtc
<1> QED
  BY <1>3, <1>4, <1>5, <1>6, <1>7, <1>8, <1>9 DEF Next

LEMMA CoreInit == Init => CoreInv
<1> SUFFICES ASSUME Init PROVE CoreInv
  OBVIOUS
<1>1. LedgerInv
  BY LedgerInvInit DEF Init
<1>2. records = {} /\ batches = {} /\ redemptions = {}
  BY DEF Init
<1>3. OnePayoutPerDeposit
  BY <1>2 DEF OnePayoutPerDeposit
<1>4. BooksInv
  BY <1>2, FS_EmptySet DEF BooksInv
<1> QED
  BY <1>1, <1>3, <1>4, TypeInit DEF CoreInv

LEMMA CoreStep == CoreInv /\ [Next]_vars => CoreInv'
<1> SUFFICES ASSUME CoreInv, [Next]_vars PROVE CoreInv'
  OBVIOUS
<1>1. LedgerInv'
  BY LedgerFrame, LedgerInvStep DEF CoreInv
<1>2. PayoutsTypeOK' /\ OnePayoutPerDeposit'
  BY TypeStep, PaidOnceStep DEF CoreInv
<1>3. BooksInv'
  BY BooksStep
<1> QED
  BY <1>1, <1>2, <1>3 DEF CoreInv

\* The core of the inductive invariant holds throughout.
LEMMA CoreInvariant == Spec => []CoreInv
<1>1. Init => CoreInv
  BY CoreInit
<1>2. CoreInv /\ [Next]_vars => CoreInv'
  BY CoreStep
<1> QED
  BY <1>1, <1>2, PTL DEF Spec

\* A block reward leaves the vault once, by one of the two routes, and exactly as it was
\* confirmed: open_and_fund_round_batch and open_redemption share the lock of mark_funded,
\* and record_block_found makes one record per round.
THEOREM DepositsPayOnce == Spec => []OnePayoutPerDeposit
<1>1. CoreInv => OnePayoutPerDeposit
  BY DEF CoreInv
<1> QED
  BY <1>1, CoreInvariant, PTL

-----------------------------------------------------------------------------
(* Sums over the books.                                                    *)

\* Two sums change by what moves between them.
LEMMA Moved ==
  ASSUME NEW p \in Nat, NEW q \in Nat, NEW i \in Nat, NEW j \in Nat,
         NEW u \in Nat, NEW v \in Nat, NEW m \in Nat, NEW n \in Nat,
         i + u = p + m, j + v = q + n, n + m = v + u
  PROVE  i + j = p + q
OBVIOUS

\* The sums a batch or a redemption takes part in are natural numbers.
LEMMA BookSums ==
  ASSUME CoreInv
  PROVE  /\ FieldSum(batches, "balance") \in Nat /\ FieldSum(batches, "claimed_sats") \in Nat
         /\ FieldSum(redemptions, "balance") \in Nat
         /\ FieldSum(redemptions, "paid_sats") \in Nat
         /\ \A z \in batches : z.balance \in Nat /\ z.claimed_sats \in Nat
         /\ \A z \in redemptions : z.balance \in Nat /\ z.paid_sats \in Nat
         /\ accumulated \in Nat /\ inflow \in Nat /\ vault.hbtc \in Nat
         /\ vault.total_received_hbtc \in Nat /\ vault.total_withdrawn_hbtc \in Nat
<1>1. /\ \A z \in batches : z.balance \in Nat /\ z.claimed_sats \in Nat
      /\ \A z \in redemptions : z.balance \in Nat /\ z.paid_sats \in Nat
  BY DEF CoreInv, PayoutsTypeOK, BatchType, RedemptionType
<1>2. IsFiniteSet(batches) /\ IsFiniteSet(redemptions)
  BY DEF CoreInv, BooksInv
<1>3. /\ accumulated \in Nat /\ inflow \in Nat /\ vault.hbtc \in Nat
      /\ vault.total_received_hbtc \in Nat /\ vault.total_withdrawn_hbtc \in Nat
  BY DEF CoreInv, PayoutsTypeOK, VaultType
<1>4. FieldSum(batches, "balance") \in Nat /\ FieldSum(batches, "claimed_sats") \in Nat
  BY <1>1, <1>2, FieldSumType
<1>5. FieldSum(redemptions, "balance") \in Nat /\ FieldSum(redemptions, "paid_sats") \in Nat
  BY <1>1, <1>2, FieldSumType
<1> QED
  BY <1>1, <1>3, <1>4, <1>5

\* SatsConserved, in field sums.
LEMMA ConservedSums ==
  SatsConserved <=>
    /\ inflow = accumulated + vault.hbtc + FieldSum(batches, "balance")
                + FieldSum(batches, "claimed_sats") + FieldSum(redemptions, "balance")
                + FieldSum(redemptions, "paid_sats")
    /\ vault.total_received_hbtc = vault.hbtc + vault.total_withdrawn_hbtc
BY DEF SatsConserved, Total, FieldSum

\* Every step moves satoshis from one place to another.
LEMMA ConservedStep == CoreInv /\ SatsConserved /\ [Next]_vars => SatsConserved'
<1> SUFFICES ASSUME CoreInv, SatsConserved, [Next]_vars
             PROVE  SatsConserved'
  OBVIOUS
<1> USE DEF depositVars, vaultVars, batchVars, shareVars
<1> DEFINE held == FieldSum(batches, "balance")
           claimed == FieldSum(batches, "claimed_sats")
           pool == FieldSum(redemptions, "balance")
           paid == FieldSum(redemptions, "paid_sats")
           heldN == FieldSum(batches', "balance")
           claimedN == FieldSum(batches', "claimed_sats")
           poolN == FieldSum(redemptions', "balance")
           paidN == FieldSum(redemptions', "paid_sats")
<1>0. /\ inflow = accumulated + vault.hbtc + held + claimed + pool + paid
      /\ vault.total_received_hbtc = vault.hbtc + vault.total_withdrawn_hbtc
  BY ConservedSums
<1>b. /\ held \in Nat /\ claimed \in Nat /\ pool \in Nat /\ paid \in Nat
      /\ \A z \in batches : z.balance \in Nat /\ z.claimed_sats \in Nat
      /\ \A z \in redemptions : z.balance \in Nat /\ z.paid_sats \in Nat
      /\ accumulated \in Nat /\ inflow \in Nat /\ vault.hbtc \in Nat
      /\ vault.total_received_hbtc \in Nat /\ vault.total_withdrawn_hbtc \in Nat
  BY BookSums
<1>n. /\ held \in Nat /\ claimed \in Nat /\ pool \in Nat /\ paid \in Nat
      /\ accumulated \in Nat /\ inflow \in Nat /\ vault.hbtc \in Nat
      /\ vault.total_received_hbtc \in Nat /\ vault.total_withdrawn_hbtc \in Nat
  BY <1>b
<1>f. IsFiniteSet(batches) /\ IsFiniteSet(redemptions)
  BY DEF CoreInv, BooksInv
<1> HIDE DEF held, claimed, pool, paid, heldN, claimedN, poolN, paidN
<1>c. ASSUME inflow' = accumulated' + vault'.hbtc + heldN + claimedN + poolN + paidN,
             vault'.total_received_hbtc = vault'.hbtc + vault'.total_withdrawn_hbtc
      PROVE  SatsConserved'
  BY <1>c DEF heldN, claimedN, poolN, paidN, SatsConserved, Total, FieldSum
<1>d. UNCHANGED batches => heldN = held /\ claimedN = claimed
  BY DEF held, claimed, heldN, claimedN
<1>e. UNCHANGED redemptions => poolN = pool /\ paidN = paid
  BY DEF pool, paid, poolN, paidN
<1>t. PayoutsTypeOK
  BY DEF CoreInv
<1>1. CASE UNCHANGED <<vaultVars, batches, redemptions>>
  BY <1>0, <1>1, <1>c, <1>d, <1>e
<1>2. ASSUME NEW rec \in records, HashiConfirmDeposit(rec) PROVE SatsConserved'
  <2>1. /\ UNCHANGED <<batches, redemptions, vault>>
        /\ accumulated' = accumulated + rec.amount_sats /\ inflow' = inflow + rec.amount_sats
    BY <1>2 DEF HashiConfirmDeposit
  <2>2. rec.amount_sats \in Nat
    BY <1>t DEF PayoutsTypeOK, RecordType
  <2> QED
    BY <1>0, <1>b, <1>c, <1>d, <1>e, <2>1, <2>2
<1>3. ASSUME NEW a \in Amounts, ClaimAccumulatedHbtc(a) \/ ReceiveHbtc(a) PROVE SatsConserved'
  <2>1. a \in Nat
    BY PayoutsAssumption
  <2>2. /\ UNCHANGED <<batches, redemptions>> /\ vault' = Joined(a)
        /\ inflow' - accumulated' = inflow - accumulated + a
    BY <1>3, <1>b, <2>1 DEF ClaimAccumulatedHbtc, ReceiveHbtc
  <2>3. /\ vault'.hbtc = vault.hbtc + a
        /\ vault'.total_received_hbtc = vault.total_received_hbtc + a
        /\ vault'.total_withdrawn_hbtc = vault.total_withdrawn_hbtc
    BY <1>t, <2>1, <2>2, JoinedType
  <2>4. inflow' \in Nat /\ accumulated' \in Nat
    BY <1>3, <1>b, <2>1 DEF ClaimAccumulatedHbtc, ReceiveHbtc
  <2> QED
    BY <1>0, <1>b, <1>c, <1>d, <1>e, <2>1, <2>2, <2>3, <2>4
<1>4. ASSUME NEW rec \in records, NEW h \in closed,
             \/ OpenAndFundRoundBatch(rec, h)
             \/ \E c \in Caps : OpenRedemption(rec, h, c)
      PROVE  SatsConserved'
  <2> DEFINE a == rec.amount_sats
  <2>1. /\ rec \in RecordType /\ a <= vault.hbtc
        /\ vault' = TakeExact(a) /\ UNCHANGED <<accumulated, inflow>>
        /\ \/ /\ redemptions' = redemptions
              /\ \E y \in BatchType : /\ batches' = batches \cup {y} /\ y \notin batches
                                      /\ y.claimed_sats = 0 /\ y.balance = a
           \/ /\ batches' = batches
              /\ \E y \in RedemptionType :
                   /\ redemptions' = redemptions \cup {y} /\ y \notin redemptions
                   /\ y.paid_sats = 0 /\ y.balance = a
    BY <1>4, DepositFunded
  <2>2. a \in Nat
    BY <2>1 DEF RecordType
  <2> HIDE DEF a
  <2>3. /\ vault'.hbtc = vault.hbtc - a
        /\ vault'.total_received_hbtc = vault.total_received_hbtc
        /\ vault'.total_withdrawn_hbtc = vault.total_withdrawn_hbtc + a
    BY <1>t, <2>1, <2>2, TakeExactType
  <2>4. ASSUME redemptions' = redemptions, NEW y \in BatchType, batches' = batches \cup {y},
               y \notin batches, y.claimed_sats = 0, y.balance = a
        PROVE  heldN = held + a /\ claimedN = claimed
    <3>1. FieldSum(batches \cup {y}, "balance") = FieldSum(batches, "balance") + y.balance
      BY <1>b, <1>f, <2>2, <2>4, FieldSumInsert
    <3>2. FieldSum(batches \cup {y}, "claimed_sats")
            = FieldSum(batches, "claimed_sats") + y.claimed_sats
      BY <1>b, <1>f, <2>4, FieldSumInsert
    <3> QED
      BY <1>b, <2>4, <3>1, <3>2 DEF held, claimed, heldN, claimedN
  <2>5. ASSUME batches' = batches, NEW y \in RedemptionType,
               redemptions' = redemptions \cup {y}, y \notin redemptions,
               y.paid_sats = 0, y.balance = a
        PROVE  poolN = pool + a /\ paidN = paid
    <3>1. FieldSum(redemptions \cup {y}, "balance")
            = FieldSum(redemptions, "balance") + y.balance
      BY <1>b, <1>f, <2>2, <2>5, FieldSumInsert
    <3>2. FieldSum(redemptions \cup {y}, "paid_sats")
            = FieldSum(redemptions, "paid_sats") + y.paid_sats
      BY <1>b, <1>f, <2>5, FieldSumInsert
    <3> QED
      BY <1>b, <2>5, <3>1, <3>2 DEF pool, paid, poolN, paidN
  <2>7. heldN + poolN = held + pool + a /\ claimedN = claimed /\ paidN = paid
    BY <1>b, <1>d, <1>e, <2>1, <2>2, <2>4, <2>5
  <2>8. heldN \in Nat /\ poolN \in Nat
    BY <1>b, <1>d, <1>e, <2>1, <2>2, <2>4, <2>5
  <2>9. inflow' = accumulated' + vault'.hbtc + heldN + claimedN + poolN + paidN
    <3> DEFINE v == vault.hbtc    w == vault'.hbtc
    <3>1. /\ inflow = accumulated + v + held + claimed + pool + paid
          /\ v \in Nat /\ a <= v /\ w = v - a
          /\ inflow' = inflow /\ accumulated' = accumulated
      BY <1>0, <1>b, <2>1, <2>3
    <3> HIDE DEF v, w
    <3>2. inflow' = accumulated' + w + heldN + claimedN + poolN + paidN
      <4>1. heldN + poolN = held + pool + a /\ w + a = v /\ w \in Nat
        BY <2>2, <2>7, <3>1
      <4>2. w + heldN + poolN = v + held + pool
        BY <1>n, <2>2, <2>8, <3>1, <4>1
      <4> QED
        BY <1>n, <2>7, <2>8, <3>1, <4>1, <4>2
    <3> QED
      BY <3>2 DEF w
  <2>10. vault'.total_received_hbtc = vault'.hbtc + vault'.total_withdrawn_hbtc
    BY <1>0, <1>b, <2>2, <2>3
  <2> QED
    BY <1>c, <2>9, <2>10
<1>5. ASSUME NEW b \in batches,
             \/ \E e \in entries, h \in closed : ClaimReward(b, e, h)
             \/ RecycleExpiredToVault(b)
      PROVE  SatsConserved'
  <2>1. PICK y \in BatchType :
           /\ batches' = (batches \ {b}) \cup {y} /\ y \notin batches \ {b}
           /\ \/ y.claimed_sats + y.balance = b.claimed_sats + b.balance /\ UNCHANGED vault
              \/ /\ y.claimed_sats = b.claimed_sats /\ y.balance = 0
                 /\ vault' = Joined(b.balance)
           /\ UNCHANGED <<redemptions, accumulated, inflow>>
    BY <1>5, BatchServed
  <2>2. y.balance \in Nat /\ y.claimed_sats \in Nat
    BY DEF BatchType
  <2>3. heldN + b.balance = held + y.balance
    BY <1>b, <1>f, <2>1, <2>2, FieldSumReplace DEF held, heldN
  <2>4. claimedN + b.claimed_sats = claimed + y.claimed_sats
    BY <1>b, <1>f, <2>1, <2>2, FieldSumReplace DEF claimed, claimedN
  <2>5. heldN \in Nat /\ claimedN \in Nat
    BY <1>b, <1>f, <2>1, <2>2, FieldSumReplace DEF held, claimed, heldN, claimedN
  <2>6. CASE y.claimed_sats + y.balance = b.claimed_sats + b.balance /\ UNCHANGED vault
    BY <1>0, <1>b, <1>c, <1>e, <2>1, <2>2, <2>3, <2>4, <2>5, <2>6
  <2>7. CASE y.claimed_sats = b.claimed_sats /\ y.balance = 0 /\ vault' = Joined(b.balance)
    <3>1. /\ vault'.hbtc = vault.hbtc + b.balance
          /\ vault'.total_received_hbtc = vault.total_received_hbtc + b.balance
          /\ vault'.total_withdrawn_hbtc = vault.total_withdrawn_hbtc
      BY <1>b, <1>t, <2>7, JoinedType
    <3> QED
      BY <1>0, <1>b, <1>c, <1>e, <2>1, <2>2, <2>3, <2>4, <2>5, <2>7, <3>1
  <2> QED
    BY <2>1, <2>6, <2>7
<1>6. ASSUME NEW x \in redemptions,
             \/ \E units \in 1 .. MaxSupply : Redeem(x, units)
             \/ RecycleExpiredRedemption(x)
      PROVE  SatsConserved'
  <2>1. PICK y \in RedemptionType :
           /\ redemptions' = (redemptions \ {x}) \cup {y} /\ y \notin redemptions \ {x}
           /\ \/ y.paid_sats + y.balance = x.paid_sats + x.balance /\ UNCHANGED vault
              \/ /\ y.paid_sats = x.paid_sats /\ y.balance = 0
                 /\ vault' = Joined(x.balance)
           /\ UNCHANGED <<batches, accumulated, inflow>>
    BY <1>6, RedemptionServed
  <2>2. /\ y.balance \in Nat /\ y.paid_sats \in Nat
        /\ x.balance \in Nat /\ x.paid_sats \in Nat
    BY <1>b DEF RedemptionType
  <2>3. poolN + x.balance = pool + y.balance
    BY <1>b, <1>f, <2>1, <2>2, FieldSumReplace DEF pool, poolN
  <2>4. paidN + x.paid_sats = paid + y.paid_sats
    BY <1>b, <1>f, <2>1, <2>2, FieldSumReplace DEF paid, paidN
  <2>5. poolN \in Nat /\ paidN \in Nat
    BY <1>b, <1>f, <2>1, <2>2, FieldSumReplace DEF pool, paid, poolN, paidN
  <2>6. CASE y.paid_sats + y.balance = x.paid_sats + x.balance /\ UNCHANGED vault
    <3>1. poolN + paidN = pool + paid
      BY <1>n, <2>2, <2>3, <2>4, <2>5, <2>6, Moved
    <3>2. /\ inflow = accumulated + vault.hbtc + held + claimed + (pool + paid)
          /\ heldN + claimedN + poolN + paidN = held + claimed + (poolN + paidN)
          /\ inflow' = inflow /\ accumulated' = accumulated /\ vault' = vault
          /\ heldN = held /\ claimedN = claimed
      BY <1>0, <1>n, <1>d, <2>1, <2>5, <2>6
    <3>3. inflow' = accumulated' + vault'.hbtc + heldN + claimedN + poolN + paidN
      BY <1>n, <2>5, <3>1, <3>2
    <3> QED
      BY <1>0, <1>c, <2>6, <3>3
  <2>7. CASE y.paid_sats = x.paid_sats /\ y.balance = 0 /\ vault' = Joined(x.balance)
    <3>1. /\ vault'.hbtc = vault.hbtc + x.balance
          /\ vault'.total_received_hbtc = vault.total_received_hbtc + x.balance
          /\ vault'.total_withdrawn_hbtc = vault.total_withdrawn_hbtc
      BY <1>b, <1>t, <2>7, JoinedType
    <3> QED
      BY <1>0, <1>b, <1>c, <1>d, <2>1, <2>2, <2>3, <2>4, <2>5, <2>7, <3>1
  <2> QED
    BY <2>1, <2>6, <2>7
<1>7. CASE \/ RoundStep \/ Tick
           \/ \E a \in Amounts : ClearPendingSats(a)
           \/ \E c \in Caps : RegisterSlot(c)
           \/ \E r \in 0 .. MaxRound : BindSlotToRound(r)
           \/ \E r \in 0 .. MaxRound, c \in Caps, d \in ShareDifficulties : MintShare(r, c, d)
           \/ UNCHANGED vars
  BY <1>1, <1>7, SideStepsFrame
<1>8. ASSUME NEW rec \in records,
             \/ RegisterWithHashi(rec) \/ MarkHashiApproved(rec)
             \/ MarkHashiConfirmed(rec) \/ MarkHashiFailed(rec)
      PROVE  SatsConserved'
  BY <1>1, <1>8, <1>t, StatusEffect
<1>9. ASSUME NEW r \in 0 .. MaxRound, NEW a \in Amounts, RecordBlockFound(r, a)
      PROVE  SatsConserved'
  BY <1>1, <1>9 DEF RecordBlockFound
<1> QED
  BY <1>2, <1>3, <1>4, <1>5, <1>6, <1>7, <1>8, <1>9 DEF Next

\* No satoshi is made or lost between Hashi's credit, the vault, the batches, the
\* redemptions and the miners, whatever order claims, redemptions and recyclings happen in.
THEOREM SatoshisAreConserved == Spec => []SatsConserved
<1>1. Init => SatsConserved
  <2> SUFFICES ASSUME Init PROVE SatsConserved
    OBVIOUS
  <2>1. /\ batches = {} /\ redemptions = {} /\ inflow = 0 /\ accumulated = 0
        /\ vault.hbtc = 0 /\ vault.total_received_hbtc = 0 /\ vault.total_withdrawn_hbtc = 0
    BY DEF Init
  <2>2. \A k : FieldSum({}, k) = 0
    BY SumEmpty DEF FieldSum
  <2> QED
    BY <2>1, <2>2, ConservedSums
<1>2. CoreInv /\ SatsConserved /\ [Next]_vars => SatsConserved'
  BY ConservedStep
<1> QED
  BY <1>1, <1>2, CoreInvariant, PTL DEF Spec

-----------------------------------------------------------------------------
(* The reward registry.                                                    *)

Settled(B) == {b \in B : b.status # "FUNDED"}
Lapsed(B) == {b \in B : b.status = "EXPIRED"}
ReturnedSum(S) == SumOver(S, [b \in S |-> b.total_sats - b.claimed_sats])

\* RegistryAddsUp, in these sums.
LEMMA RegistrySums ==
  RegistryAddsUp <=>
    /\ registry.total_batches = Cardinality(batches)
    /\ registry.total_sats_distributed = FieldSum(Settled(batches), "claimed_sats")
    /\ registry.total_sats_expired = ReturnedSum(Lapsed(batches))
BY DEF RegistryAddsUp, Total, FieldSum, Settled, Lapsed, ReturnedSum

LEMMA ReturnedSumInsert ==
  ASSUME NEW S, IsFiniteSet(S), \A z \in S : z.total_sats - z.claimed_sats \in Nat,
         NEW y, y \notin S, y.total_sats - y.claimed_sats \in Nat
  PROVE  ReturnedSum(S \cup {y}) = ReturnedSum(S) + (y.total_sats - y.claimed_sats)
<1> DEFINE f == [b \in S |-> b.total_sats - b.claimed_sats]
           g == [b \in S \cup {y} |-> b.total_sats - b.claimed_sats]
<1>1. (\A z \in S : f[z] \in Nat /\ g[z] = f[z]) /\ g[y] \in Nat
  OBVIOUS
<1>2. g[y] = y.total_sats - y.claimed_sats
  OBVIOUS
<1> HIDE DEF f, g
<1>3. SumOver(S \cup {y}, g) = SumOver(S, f) + g[y]
  BY <1>1, SumInsert
<1> QED
  BY <1>2, <1>3 DEF ReturnedSum, f, g

\* Every step keeps the registry in line with its batches.
LEMMA RegistryStep == CoreInv /\ RegistryAddsUp /\ [Next]_vars => RegistryAddsUp'
<1> SUFFICES ASSUME CoreInv, RegistryAddsUp, [Next]_vars PROVE RegistryAddsUp'
  OBVIOUS
<1> USE DEF depositVars, vaultVars, batchVars, shareVars
<1>0. /\ registry.total_batches = Cardinality(batches)
      /\ registry.total_sats_distributed = FieldSum(Settled(batches), "claimed_sats")
      /\ registry.total_sats_expired = ReturnedSum(Lapsed(batches))
  BY RegistrySums
<1>a. ASSUME registry'.total_batches = Cardinality(batches'),
             registry'.total_sats_distributed = FieldSum(Settled(batches'), "claimed_sats"),
             registry'.total_sats_expired = ReturnedSum(Lapsed(batches'))
      PROVE  RegistryAddsUp'
  BY <1>a DEF RegistryAddsUp, Total, FieldSum, Settled, Lapsed, ReturnedSum
<1>t. PayoutsTypeOK /\ registry \in RegistryType
  BY DEF CoreInv, PayoutsTypeOK
<1>f. IsFiniteSet(batches) /\ IsFiniteSet(Settled(batches)) /\ IsFiniteSet(Lapsed(batches))
  BY FS_Subset DEF CoreInv, BooksInv, Settled, Lapsed
<1>n. \A b \in batches : b.claimed_sats \in Nat /\ b.total_sats - b.claimed_sats \in Nat
  BY <1>t DEF CoreInv, BooksInv, PayoutsTypeOK, BatchType
<1>1. CASE UNCHANGED <<registry, batches>>
  BY <1>0, <1>1, <1>a
<1>2. ASSUME NEW rec \in records, NEW h \in closed,
             \/ OpenAndFundRoundBatch(rec, h)
             \/ \E c \in Caps : OpenRedemption(rec, h, c)
      PROVE  RegistryAddsUp'
  <2>1. \/ /\ registry' = [registry EXCEPT !.total_batches = @ + 1]
           /\ \E y \in BatchType :
                batches' = batches \cup {y} /\ y \notin batches /\ y.status = "FUNDED"
        \/ UNCHANGED <<batches, registry>>
    BY <1>2, DepositFunded
  <2>2. ASSUME registry' = [registry EXCEPT !.total_batches = @ + 1], NEW y,
               batches' = batches \cup {y}, y \notin batches, y.status = "FUNDED"
        PROVE  RegistryAddsUp'
    <3>1. Cardinality(batches') = Cardinality(batches) + 1
      BY <1>f, <2>2, FS_AddElement
    <3>2. Settled(batches') = Settled(batches) /\ Lapsed(batches') = Lapsed(batches)
      BY <2>2 DEF Settled, Lapsed
    <3>3. /\ registry'.total_batches = registry.total_batches + 1
          /\ registry'.total_sats_distributed = registry.total_sats_distributed
          /\ registry'.total_sats_expired = registry.total_sats_expired
      BY <1>t, <2>2 DEF RegistryType
    <3> QED
      BY <1>0, <1>a, <3>1, <3>2, <3>3
  <2> QED
    BY <1>1, <2>1, <2>2
<1>3. ASSUME NEW b \in batches,
             \/ \E e \in entries, h \in closed : ClaimReward(b, e, h)
             \/ RecycleExpiredToVault(b)
      PROVE  RegistryAddsUp'
  <2>1. PICK y \in BatchType :
           /\ batches' = (batches \ {b}) \cup {y}
           /\ y \notin batches \ {b} /\ (y.status # "FUNDED" => y \notin batches)
           /\ y.total_sats = b.total_sats
           /\ b.status = "FUNDED" /\ b.claimed_sats + b.balance = b.total_sats
           /\ \/ y.status = "FUNDED" /\ registry' = registry
              \/ y.status = "COMPLETED" /\ registry' = Booked(y.claimed_sats, 0)
              \/ /\ y.claimed_sats = b.claimed_sats /\ y.status = "EXPIRED"
                 /\ registry' = Booked(y.claimed_sats, b.balance)
    BY <1>3, BatchServed
  <2>2. Cardinality(batches') = Cardinality(batches)
    <3>1. IsFiniteSet(batches \ {b}) /\ Cardinality(batches \ {b}) = Cardinality(batches) - 1
      BY <1>f, FS_RemoveElement
    <3>2. Cardinality((batches \ {b}) \cup {y}) = Cardinality(batches \ {b}) + 1
      BY <2>1, <3>1, FS_AddElement
    <3>3. Cardinality(batches) \in Nat
      BY <1>f, FS_CardinalityType
    <3> QED
      BY <2>1, <3>1, <3>2, <3>3
  <2>3. /\ y.claimed_sats \in Nat /\ b.balance \in Nat /\ b.claimed_sats \in Nat
        /\ b.total_sats \in Nat
    BY <1>t DEF BatchType, PayoutsTypeOK
  <2>4. FieldSum(Settled(batches), "claimed_sats") \in Nat
        /\ ReturnedSum(Lapsed(batches)) \in Nat
    BY <1>0, <1>t DEF RegistryType
  <2>5. CASE y.status = "FUNDED" /\ registry' = registry
    <3>1. Settled(batches') = Settled(batches) /\ Lapsed(batches') = Lapsed(batches)
      BY <2>1, <2>5 DEF Settled, Lapsed
    <3> QED
      BY <1>0, <1>a, <2>2, <2>5, <3>1
  <2>6. ASSUME y.status # "FUNDED"
        PROVE  FieldSum(Settled(batches'), "claimed_sats")
                 = FieldSum(Settled(batches), "claimed_sats") + y.claimed_sats
    <3>1. Settled(batches') = Settled(batches) \cup {y} /\ y \notin Settled(batches)
      BY <2>1, <2>6 DEF Settled
    <3>2. \A z \in Settled(batches) : z.claimed_sats \in Nat
      BY <1>n DEF Settled
    <3>3. FieldSum(Settled(batches) \cup {y}, "claimed_sats")
            = FieldSum(Settled(batches), "claimed_sats") + y.claimed_sats
      BY <1>f, <2>3, <3>1, <3>2, FieldSumInsert
    <3> QED
      BY <3>1, <3>3
  <2>7. CASE y.status = "COMPLETED" /\ registry' = Booked(y.claimed_sats, 0)
    <3>1. Lapsed(batches') = Lapsed(batches)
      BY <2>1, <2>7 DEF Lapsed
    <3>2. /\ registry'.total_batches = registry.total_batches
          /\ registry'.total_sats_distributed = registry.total_sats_distributed + y.claimed_sats
          /\ registry'.total_sats_expired = registry.total_sats_expired + 0
      BY <2>7 DEF Booked
    <3> QED
      BY <1>0, <1>a, <2>2, <2>4, <2>6, <2>7, <3>1, <3>2
  <2>8. CASE /\ y.claimed_sats = b.claimed_sats /\ y.status = "EXPIRED"
             /\ registry' = Booked(y.claimed_sats, b.balance)
    <3>1. Lapsed(batches') = Lapsed(batches) \cup {y} /\ y \notin Lapsed(batches)
      BY <2>1, <2>8 DEF Lapsed
    <3>2. y.total_sats - y.claimed_sats = b.balance
      BY <2>1, <2>3, <2>8
    <3>3. \A z \in Lapsed(batches) : z.total_sats - z.claimed_sats \in Nat
      BY <1>n DEF Lapsed
    <3>4. ReturnedSum(Lapsed(batches) \cup {y})
            = ReturnedSum(Lapsed(batches)) + (y.total_sats - y.claimed_sats)
      BY <1>f, <2>3, <3>1, <3>2, <3>3, ReturnedSumInsert
    <3>5. /\ registry'.total_batches = registry.total_batches
          /\ registry'.total_sats_distributed = registry.total_sats_distributed + y.claimed_sats
          /\ registry'.total_sats_expired = registry.total_sats_expired + b.balance
      BY <2>8 DEF Booked
    <3> QED
      BY <1>0, <1>a, <2>2, <2>6, <2>8, <3>1, <3>2, <3>4, <3>5
  <2> QED
    BY <2>1, <2>5, <2>7, <2>8
<1>4. CASE \/ RoundStep \/ Tick
           \/ \E a \in Amounts : ClearPendingSats(a)
           \/ \E c \in Caps : RegisterSlot(c)
           \/ \E r \in 0 .. MaxRound : BindSlotToRound(r)
           \/ \E r \in 0 .. MaxRound, c \in Caps, d \in ShareDifficulties : MintShare(r, c, d)
           \/ UNCHANGED vars
  BY <1>1, <1>4, SideStepsFrame
<1>5. ASSUME NEW rec \in records,
             \/ RegisterWithHashi(rec) \/ MarkHashiApproved(rec)
             \/ MarkHashiConfirmed(rec) \/ MarkHashiFailed(rec)
      PROVE  RegistryAddsUp'
  BY <1>1, <1>5, <1>t, StatusEffect
<1>6. CASE \/ \E r \in 0 .. MaxRound, a \in Amounts : RecordBlockFound(r, a)
           \/ \E rec \in records : HashiConfirmDeposit(rec)
           \/ \E a \in Amounts : ClaimAccumulatedHbtc(a) \/ ReceiveHbtc(a)
  BY <1>1, <1>6 DEF RecordBlockFound, HashiConfirmDeposit, ClaimAccumulatedHbtc, ReceiveHbtc
<1>7. ASSUME NEW x \in redemptions,
             \/ \E units \in 1 .. MaxSupply : Redeem(x, units)
             \/ RecycleExpiredRedemption(x)
      PROVE  RegistryAddsUp'
  BY <1>1, <1>7, RedemptionServed
<1> QED
  BY <1>2, <1>3, <1>4, <1>5, <1>6, <1>7 DEF Next

-----------------------------------------------------------------------------
(* HashShare slots.                                                        *)

\* A cap enters the FIFO once, when it is registered, and leaves it when it is bound.
LEMMA SlotsStep ==
  SlotsInv /\ CapsAreExclusive /\ [Next]_vars => SlotsInv' /\ CapsAreExclusive'
<1> SUFFICES ASSUME SlotsInv, CapsAreExclusive, [Next]_vars
             PROVE  SlotsInv' /\ CapsAreExclusive'
  OBVIOUS
<1> USE DEF depositVars, vaultVars, batchVars, shareVars
<1> DEFINE q == slots.available_slots
           K == [available_slots: Seq(Caps), registered: SUBSET Caps,
                 rounds: SUBSET [round_id: Nat, cap_id: Caps]]
<1>0. slots \in K /\ q \in Seq(Caps)
  BY DEF SlotsInv
<1>1. CASE UNCHANGED slots
  BY <1>1 DEF SlotsInv, CapsAreExclusive
<1>2. ASSUME NEW c \in Caps, RegisterSlot(c) PROVE SlotsInv' /\ CapsAreExclusive'
  <2> DEFINE s == slots.registered \cup {c}
             p == Append(q, c)
  <2>1. slots' = [slots EXCEPT !.available_slots = p, !.registered = s]
    BY <1>2 DEF RegisterSlot
  <2>2. c \notin slots.registered
    BY <1>2 DEF RegisterSlot, CapUnregistered
  <2>3. /\ p \in Seq(Caps) /\ DOMAIN q = 1 .. Len(q) /\ DOMAIN p = 1 .. Len(q) + 1
        /\ p[Len(q) + 1] = c /\ \A i \in 1 .. Len(q) : p[i] = q[i]
        /\ Len(q) \in Nat
    BY <1>0
  <2>4. \A i \in DOMAIN q : q[i] \in slots.registered
    BY DEF SlotsInv
  <2>5. s \in SUBSET Caps
    BY <1>0
  <2> HIDE DEF p, s, q
  <2>6. slots' \in K /\ slots'.available_slots = p /\ slots'.registered = s
        /\ slots'.rounds = slots.rounds
    BY <1>0, <2>1, <2>3, <2>5
  <2>7. \A i \in DOMAIN p : p[i] \in s
    BY <2>3, <2>4 DEF s
  <2>8. \A b \in slots.rounds : b.cap_id \in slots.registered
    BY DEF SlotsInv
  <2>9. \A b \in slots.rounds : b.cap_id \in s /\ b.cap_id # c
    BY <2>2, <2>8 DEF s
  <2>10. SlotsInv'
    BY <2>6, <2>7, <2>9 DEF SlotsInv
  <2>11. \A i, j \in DOMAIN q : q[i] = q[j] => i = j
    BY DEF CapsAreExclusive, q
  <2>12. \A i, j \in DOMAIN p : p[i] = p[j] => i = j
    BY <2>2, <2>3, <2>4, <2>11
  <2>13. \A b \in slots.rounds, i \in DOMAIN q : q[i] # b.cap_id
    BY DEF CapsAreExclusive, q
  <2>14. \A b \in slots.rounds, i \in DOMAIN p : p[i] # b.cap_id
    BY <2>3, <2>9, <2>13
  <2>15. \A a, b \in slots.rounds : a.cap_id = b.cap_id \/ a.round_id = b.round_id => a = b
    BY DEF CapsAreExclusive
  <2> QED
    BY <2>6, <2>10, <2>12, <2>14, <2>15 DEF CapsAreExclusive
<1>3. ASSUME NEW r \in 0 .. MaxRound, BindSlotToRound(r) PROVE SlotsInv' /\ CapsAreExclusive'
  <2> DEFINE n == [round_id |-> r, cap_id |-> Head(q)]
             p == Tail(q)
             R == slots.rounds \cup {n}
  <2>1. /\ slots' = [slots EXCEPT !.available_slots = p, !.rounds = R]
        /\ q # << >> /\ \A b \in slots.rounds : b.round_id # r
    BY <1>3 DEF BindSlotToRound
  <2>2. /\ p \in Seq(Caps) /\ DOMAIN q = 1 .. Len(q) /\ DOMAIN p = 1 .. Len(q) - 1
        /\ Head(q) = q[1] /\ Len(q) \in Nat \ {0} /\ q[1] \in Caps
        /\ \A i \in 1 .. Len(q) - 1 : p[i] = q[i + 1]
    BY <1>0, <2>1
  <2>3. \A i \in DOMAIN q : q[i] \in slots.registered
    BY DEF SlotsInv
  <2>4. \A b \in slots.rounds : b.cap_id \in slots.registered
    BY DEF SlotsInv
  <2>5. r \in Nat
    BY LedgerAssumption
  <2>6. n.round_id = r /\ n.cap_id = q[1] /\ n \in [round_id: Nat, cap_id: Caps]
    BY <2>2, <2>5
  <2> HIDE DEF p, q, n
  <2>7. R \in SUBSET [round_id: Nat, cap_id: Caps]
    BY <1>0, <2>6
  <2>8. \A b \in R : b.cap_id \in slots.registered
    BY <2>2, <2>3, <2>4, <2>6
  <2>9. \A i, j \in DOMAIN q : q[i] = q[j] => i = j
    BY DEF CapsAreExclusive, q
  <2>10. \A b \in slots.rounds, i \in DOMAIN q : q[i] # b.cap_id
    BY DEF CapsAreExclusive, q
  <2>11. \A a, b \in slots.rounds : a.cap_id = b.cap_id \/ a.round_id = b.round_id => a = b
    BY DEF CapsAreExclusive
  <2>12. \A b \in slots.rounds : b.cap_id # n.cap_id /\ b.round_id # n.round_id
    BY <2>1, <2>2, <2>6, <2>10
  <2>13. \A a, b \in R : a.cap_id = b.cap_id \/ a.round_id = b.round_id => a = b
    BY <2>11, <2>12
  <2>14. \A i \in DOMAIN p : i + 1 \in DOMAIN q /\ p[i] = q[i + 1] /\ i + 1 # 1 /\ i \in Nat
    BY <2>2
  <2>15. \A i \in DOMAIN p : p[i] \in slots.registered /\ p[i] # n.cap_id
    BY <2>2, <2>3, <2>6, <2>9, <2>14
  <2>16. \A i, j \in DOMAIN p : p[i] = p[j] => i = j
    BY <2>9, <2>14
  <2>17. \A b \in R, i \in DOMAIN p : p[i] # b.cap_id
    BY <2>10, <2>14, <2>15
  <2> HIDE DEF R
  <2>18. slots' \in K /\ slots'.available_slots = p /\ slots'.registered = slots.registered
        /\ slots'.rounds = R
    BY <1>0, <2>1, <2>2, <2>7
  <2>19. SlotsInv'
    BY <2>8, <2>15, <2>18 DEF SlotsInv
  <2> QED
    BY <2>13, <2>16, <2>17, <2>18, <2>19 DEF CapsAreExclusive
<1>4. CASE \/ RoundStep \/ Tick
           \/ \E r \in 0 .. MaxRound, a \in Amounts : RecordBlockFound(r, a)
           \/ \E r \in 0 .. MaxRound, c \in Caps, d \in ShareDifficulties : MintShare(r, c, d)
           \/ UNCHANGED vars
  BY <1>1, <1>4 DEF RoundStep, Tick, RecordBlockFound, MintShare, vars
<1>5. ASSUME NEW rec \in records,
             \/ RegisterWithHashi(rec) \/ MarkHashiApproved(rec) \/ HashiConfirmDeposit(rec)
             \/ MarkHashiConfirmed(rec) \/ MarkHashiFailed(rec)
      PROVE  UNCHANGED slots
  BY <1>5 DEF RegisterWithHashi, MarkHashiApproved, HashiConfirmDeposit,
              MarkHashiConfirmed, MarkHashiFailed, Advance
<1>6. ASSUME NEW a \in Amounts,
             ClearPendingSats(a) \/ ClaimAccumulatedHbtc(a) \/ ReceiveHbtc(a)
      PROVE  UNCHANGED slots
  BY <1>6 DEF ClearPendingSats, ClaimAccumulatedHbtc, ReceiveHbtc
<1>7. ASSUME NEW h \in closed,
             \/ \E rec \in records : OpenAndFundRoundBatch(rec, h)
             \/ \E rec \in records, c \in Caps : OpenRedemption(rec, h, c)
             \/ \E b \in batches, e \in entries : ClaimReward(b, e, h)
      PROVE  UNCHANGED slots
  BY <1>7 DEF OpenAndFundRoundBatch, OpenRedemption, ClaimReward
<1>8. CASE \/ \E b \in batches : RecycleExpiredToVault(b)
           \/ \E x \in redemptions, units \in 1 .. MaxSupply : Redeem(x, units)
           \/ \E x \in redemptions : RecycleExpiredRedemption(x)
  BY <1>1, <1>8 DEF RecycleExpiredToVault, Redeem, RecycleExpiredRedemption
<1> QED
  BY <1>1, <1>2, <1>3, <1>4, <1>5, <1>6, <1>7, <1>8 DEF Next

\* The payout contracts keep well-formed books: counters and balances never go below zero,
\* the registry's totals are those of its batches, and a HashShare cap serves one round.
THEOREM BooksAreKept == Spec => []PayoutsInv
<1> DEFINE I == RegistryAddsUp /\ SlotsInv /\ CapsAreExclusive
<1>1. Init => I
  <2> SUFFICES ASSUME Init PROVE I
    OBVIOUS
  <2>1. RegistryAddsUp
    <3>1. /\ batches = {} /\ registry.total_batches = 0
          /\ registry.total_sats_distributed = 0 /\ registry.total_sats_expired = 0
      BY DEF Init
    <3>2. Settled({}) = {} /\ Lapsed({}) = {}
      BY DEF Settled, Lapsed
    <3>3. FieldSum({}, "claimed_sats") = 0 /\ ReturnedSum({}) = 0 /\ Cardinality({}) = 0
      BY SumEmpty, FS_EmptySet DEF FieldSum, ReturnedSum
    <3> QED
      BY <3>1, <3>2, <3>3, RegistrySums
  <2>2. SlotsInv /\ CapsAreExclusive
    <3>1. slots = [available_slots |-> << >>, registered |-> {}, rounds |-> {}]
      BY DEF Init
    <3> QED
      BY <3>1 DEF SlotsInv, CapsAreExclusive
  <2> QED
    BY <2>1, <2>2
<1>2. CoreInv /\ I /\ [Next]_vars => I'
  BY RegistryStep, SlotsStep
<1>3. CoreInv /\ I => PayoutsInv
  BY DEF CoreInv, PayoutsInv
<1> HIDE DEF I
<1> QED
  BY <1>1, <1>2, <1>3, CoreInvariant, PTL DEF Spec

-----------------------------------------------------------------------------
(* Confirmed deposits are backed.                                          *)

LEMMA FieldSumRemove ==
  ASSUME NEW S, IsFiniteSet(S), NEW k, \A z \in S : z[k] \in Nat, NEW x \in S
  PROVE  /\ FieldSum(S \ {x}, k) \in Nat
         /\ FieldSum(S, k) = FieldSum(S \ {x}, k) + x[k]
<1> DEFINE R == S \ {x}
<1>1. S = R \cup {x} /\ x \notin R /\ x[k] \in Nat /\ \A z \in R : z[k] \in Nat
  OBVIOUS
<1>2. IsFiniteSet(R)
  BY FS_Subset
<1> HIDE DEF R
<1>3. FieldSum(R \cup {x}, k) = FieldSum(R, k) + x[k] /\ FieldSum(R, k) \in Nat
  BY <1>1, <1>2, FieldSumInsert, FieldSumType
<1> QED
  BY <1>1, <1>3 DEF R

LEMMA FieldSumSubset ==
  ASSUME NEW S, IsFiniteSet(S), NEW k, \A z \in S : z[k] \in Nat, NEW T \in SUBSET S
  PROVE  /\ FieldSum(T, k) \in Nat /\ FieldSum(S, k) \in Nat
         /\ FieldSum(T, k) <= FieldSum(S, k)
<1> DEFINE f == [x \in S |-> x[k]]
           g == [x \in T |-> x[k]]
<1>1. (\A z \in S : f[z] \in Nat) /\ \A z \in T : g[z] = f[z]
  OBVIOUS
<1> HIDE DEF f, g
<1>2. IsFiniteSet(Units(S, f))
  BY <1>1, UnitsFinite
<1>3. /\ SumOver(T, f) \in Nat /\ SumOver(S, f) \in Nat
      /\ SumOver(T, f) <= SumOver(S, f)
  BY <1>2, SumSubset
<1>4. SumOver(T, g) = SumOver(T, f)
  BY <1>1, SumExt
<1> QED
  BY <1>3, <1>4 DEF FieldSum, f, g

\* The records whose deposit was minted and not paid out.
Unpaid(R, m) == {r \in R : r.round_id \in m /\ ~r.funded}

LEMMA BackedSums ==
  MintedIsBacked <=>
    /\ \A r \in records : r.status = "CONFIRMED" => r.round_id \in minted
    /\ \A m \in minted : \E r \in records : r.round_id = m
    /\ vault.hbtc + accumulated >= FieldSum(Unpaid(records, minted), "amount_sats")
BY DEF MintedIsBacked, Total, FieldSum, Unpaid

\* A holder of the PoolAdminCap who reports what Hashi did keeps every confirmed deposit
\* backed: the bridge credits it before it is confirmed, and each payout takes its own.
LEMMA BackedStep ==
  CapHolderFollowsHashi /\ CoreInv /\ MintedIsBacked /\ [Next]_vars => MintedIsBacked'
<1> SUFFICES ASSUME CapHolderFollowsHashi, CoreInv, MintedIsBacked, [Next]_vars
             PROVE  MintedIsBacked'
  OBVIOUS
<1> USE DEF depositVars, vaultVars, batchVars, shareVars
<1> DEFINE U == Unpaid(records, minted)
           N == Unpaid(records', minted')
           owed == FieldSum(U, "amount_sats")
           owedN == FieldSum(N, "amount_sats")
<1>0. /\ \A r \in records : r.status = "CONFIRMED" => r.round_id \in minted
      /\ \A m \in minted : \E r \in records : r.round_id = m
      /\ vault.hbtc + accumulated >= owed
  BY BackedSums
<1>a. ASSUME \A r \in records' : r.status = "CONFIRMED" => r.round_id \in minted',
             \A m \in minted' : \E r \in records' : r.round_id = m,
             vault'.hbtc + accumulated' >= owedN
      PROVE  MintedIsBacked'
  BY <1>a DEF MintedIsBacked, Total, FieldSum, Unpaid
<1>t. PayoutsTypeOK
  BY DEF CoreInv
<1>n. accumulated \in Nat /\ vault.hbtc \in Nat
  BY BookSums
<1>f. IsFiniteSet(U) /\ \A r \in records : r.amount_sats \in Nat
  BY <1>t, FS_Subset DEF CoreInv, BooksInv, Unpaid, PayoutsTypeOK, RecordType
<1>g. \A r \in U : r \in records /\ r.amount_sats \in Nat
  BY <1>f DEF Unpaid
<1>o. owed \in Nat
  BY <1>f, <1>g, FieldSumType
<1>u. \A r, s \in records : r.round_id = s.round_id => r = s
  BY DEF CoreInv, OnePayoutPerDeposit
<1> HIDE DEF owed, owedN
<1>b. N = U => owedN = owed
  BY DEF owed, owedN
<1> HIDE DEF U, N
<1>1. ASSUME UNCHANGED <<records, minted>>, vault'.hbtc + accumulated' >= vault.hbtc + accumulated,
             vault'.hbtc \in Nat, accumulated' \in Nat
      PROVE  MintedIsBacked'
  <2>1. N = U
    BY <1>1 DEF U, N
  <2>2. vault'.hbtc + accumulated' >= owedN
    BY <1>0, <1>1, <1>b, <1>n, <1>o, <2>1
  <2> QED
    BY <1>0, <1>1, <1>a, <2>2
<1>2. ASSUME NEW r \in 0 .. MaxRound, NEW a \in Amounts, RecordBlockFound(r, a)
      PROVE  MintedIsBacked'
  <2> DEFINE y == [round_id |-> r, amount_sats |-> a, status |-> "UNREGISTERED",
                   funded |-> FALSE]
  <2>1. /\ records' = records \cup {y} /\ UNCHANGED <<minted, vault, accumulated>>
        /\ \A s \in records : s.round_id # r
    BY <1>2 DEF RecordBlockFound, RoundUnrecorded
  <2>2. y.round_id = r /\ y.status # "CONFIRMED"
    OBVIOUS
  <2> HIDE DEF y
  <2>3. r \notin minted
    BY <1>0, <2>1
  <2>4. N = U
    BY <2>1, <2>2, <2>3 DEF U, N, Unpaid
  <2>5. vault'.hbtc + accumulated' >= owedN
    BY <1>0, <1>b, <2>1, <2>4
  <2>6. \A s \in records' : s.status = "CONFIRMED" => s.round_id \in minted'
    BY <1>0, <2>1, <2>2
  <2>7. \A m \in minted' : \E s \in records' : s.round_id = m
    BY <1>0, <2>1
  <2> QED
    BY <1>a, <2>5, <2>6, <2>7
<1>3. ASSUME NEW rec \in records,
             \/ RegisterWithHashi(rec) \/ MarkHashiApproved(rec)
             \/ MarkHashiConfirmed(rec) \/ MarkHashiFailed(rec)
      PROVE  MintedIsBacked'
  <2>1. PICK y \in RecordType :
           /\ records' = (records \ {rec}) \cup {y}
           /\ y.round_id = rec.round_id /\ y.amount_sats = rec.amount_sats
           /\ (y.funded <=> rec.funded)
           /\ y.status = "CONFIRMED" => y.round_id \in minted
           /\ UNCHANGED <<minted, vault, accumulated>>
    BY <1>3, <1>t, StatusEffect
  <2>2. \A s \in records' : s.status = "CONFIRMED" => s.round_id \in minted'
    BY <1>0, <2>1
  <2>3. \A m \in minted' : \E s \in records' : s.round_id = m
    BY <1>0, <2>1
  <2>4. owedN = owed
    <3>1. CASE rec \in U
      <4>1. N = (U \ {rec}) \cup {y}
        BY <2>1, <3>1 DEF U, N, Unpaid
      <4>2. y \notin U \ {rec}
        BY <1>u, <2>1 DEF U, Unpaid
      <4>3. y.amount_sats \in Nat
        BY DEF RecordType
      <4>4. /\ FieldSum((U \ {rec}) \cup {y}, "amount_sats") \in Nat
            /\ FieldSum((U \ {rec}) \cup {y}, "amount_sats") + rec.amount_sats
                 = FieldSum(U, "amount_sats") + y.amount_sats
        BY <1>f, <1>g, <3>1, <4>2, <4>3, FieldSumReplace
      <4>5. owedN \in Nat /\ owedN + rec.amount_sats = owed + y.amount_sats
        BY <4>1, <4>4 DEF owed, owedN
      <4> QED
        BY <1>o, <2>1, <4>3, <4>5
    <3>2. CASE rec \notin U
      <4>1. N = U
        BY <2>1, <3>2 DEF U, N, Unpaid
      <4> QED
        BY <1>b, <4>1
    <3> QED
      BY <3>1, <3>2
  <2> QED
    BY <1>0, <1>a, <2>1, <2>2, <2>3, <2>4
<1>4. ASSUME NEW rec \in records, HashiConfirmDeposit(rec) PROVE MintedIsBacked'
  <2>1. /\ minted' = minted \cup {rec.round_id} /\ rec.round_id \notin minted
        /\ accumulated' = accumulated + rec.amount_sats /\ UNCHANGED <<records, vault>>
    BY <1>4 DEF HashiConfirmDeposit
  <2>2. owedN = owed \/ owedN = owed + rec.amount_sats
    <3>1. CASE rec.funded
      <4>1. N = U
        BY <1>u, <2>1, <3>1 DEF U, N, Unpaid
      <4> QED
        BY <1>b, <4>1
    <3>2. CASE ~rec.funded
      <4>1. N = U \cup {rec} /\ rec \notin U
        BY <1>u, <2>1, <3>2 DEF U, N, Unpaid
      <4>2. FieldSum(U \cup {rec}, "amount_sats")
              = FieldSum(U, "amount_sats") + rec.amount_sats
        BY <1>f, <1>g, <4>1, FieldSumInsert
      <4> QED
        BY <4>1, <4>2 DEF owed, owedN
    <3> QED
      BY <3>1, <3>2
  <2>3. vault'.hbtc + accumulated' >= owedN
    BY <1>0, <1>f, <1>n, <1>o, <2>1, <2>2
  <2>4. \A s \in records' : s.status = "CONFIRMED" => s.round_id \in minted'
    BY <1>0, <2>1
  <2>5. \A m \in minted' : \E s \in records' : s.round_id = m
    BY <1>0, <2>1
  <2> QED
    BY <1>a, <2>3, <2>4, <2>5
<1>5. ASSUME NEW a \in Amounts, ClaimAccumulatedHbtc(a) \/ ReceiveHbtc(a) PROVE MintedIsBacked'
  <2>1. a \in Nat
    BY PayoutsAssumption
  <2>2. UNCHANGED <<records, minted>> /\ vault' = Joined(a)
    BY <1>5 DEF ClaimAccumulatedHbtc, ReceiveHbtc
  <2>3. (accumulated' = accumulated - a /\ a <= accumulated) \/ accumulated' = accumulated
    BY <1>5 DEF ClaimAccumulatedHbtc, ReceiveHbtc
  <2>4. vault'.hbtc = vault.hbtc + a
    BY <1>t, <2>1, <2>2, JoinedType
  <2>5. /\ vault'.hbtc \in Nat /\ accumulated' \in Nat
        /\ vault'.hbtc + accumulated' >= vault.hbtc + accumulated
    BY <1>n, <2>1, <2>3, <2>4
  <2> QED
    BY <1>1, <2>2, <2>5
<1>6. ASSUME NEW rec \in records, NEW h \in closed,
             \/ OpenAndFundRoundBatch(rec, h)
             \/ \E c \in Caps : OpenRedemption(rec, h, c)
      PROVE  MintedIsBacked'
  <2>1. /\ rec.status = "CONFIRMED" /\ ~rec.funded
        /\ rec \in RecordType /\ rec.amount_sats <= vault.hbtc
        /\ records' = (records \ {rec}) \cup {Funded(rec)}
        /\ Funded(rec).funded /\ Funded(rec).round_id = rec.round_id
        /\ vault' = TakeExact(rec.amount_sats) /\ UNCHANGED <<minted, accumulated>>
    BY <1>6, DepositFunded
  <2>2. rec.amount_sats \in Nat
    BY <1>f
  <2>3. vault'.hbtc = vault.hbtc - rec.amount_sats
    BY <1>t, <2>1, <2>2, TakeExactType
  <2>4. rec \in U /\ N = U \ {rec}
    BY <1>0, <2>1 DEF U, N, Unpaid
  <2>5. FieldSum(U \ {rec}, "amount_sats") \in Nat
        /\ FieldSum(U, "amount_sats") = FieldSum(U \ {rec}, "amount_sats") + rec.amount_sats
    BY <1>f, <1>g, <2>4, FieldSumRemove
  <2>6. owedN \in Nat /\ owed = owedN + rec.amount_sats
    BY <2>4, <2>5 DEF owed, owedN
  <2>7. vault'.hbtc + accumulated' >= owedN
    BY <1>0, <1>n, <2>1, <2>2, <2>3, <2>6
  <2>8. \A s \in records' : s.status = "CONFIRMED" => s.round_id \in minted'
    BY <1>0, <2>1
  <2>9. \A m \in minted' : \E s \in records' : s.round_id = m
    BY <1>0, <2>1
  <2> QED
    BY <1>a, <2>7, <2>8, <2>9
<1>7. ASSUME NEW z, z \in batches \cup redemptions, UNCHANGED <<records, minted, accumulated>>,
             UNCHANGED vault \/ vault' = Joined(z.balance)
      PROVE  MintedIsBacked'
  <2>1. z.balance \in Nat
    BY <1>7, BookSums
  <2>2. vault' = Joined(z.balance) => vault'.hbtc = vault.hbtc + z.balance
    BY <1>t, <2>1, JoinedType
  <2> QED
    BY <1>1, <1>7, <1>n, <2>1, <2>2
<1>8. ASSUME NEW b \in batches,
             \/ \E e \in entries, h \in closed : ClaimReward(b, e, h)
             \/ RecycleExpiredToVault(b)
      PROVE  MintedIsBacked'
  <2>1. /\ UNCHANGED <<records, minted, accumulated>>
        /\ UNCHANGED vault \/ vault' = Joined(b.balance)
    BY <1>8, BatchServed
  <2> QED
    BY <1>7, <2>1
<1>9. ASSUME NEW x \in redemptions,
             \/ \E units \in 1 .. MaxSupply : Redeem(x, units)
             \/ RecycleExpiredRedemption(x)
      PROVE  MintedIsBacked'
  <2>1. /\ UNCHANGED <<records, minted, accumulated>>
        /\ UNCHANGED vault \/ vault' = Joined(x.balance)
    BY <1>9, RedemptionServed
  <2> QED
    BY <1>7, <2>1
<1>10. CASE \/ RoundStep \/ Tick
            \/ \E a \in Amounts : ClearPendingSats(a)
            \/ \E c \in Caps : RegisterSlot(c)
            \/ \E r \in 0 .. MaxRound : BindSlotToRound(r)
            \/ \E r \in 0 .. MaxRound, c \in Caps, d \in ShareDifficulties : MintShare(r, c, d)
            \/ UNCHANGED vars
  <2>1. UNCHANGED <<records, minted, vault, accumulated>>
    BY <1>10, SideStepsFrame
  <2> QED
    BY <1>1, <1>n, <2>1
<1> QED
  BY <1>2, <1>3, <1>4, <1>5, <1>6, <1>8, <1>9, <1>10 DEF Next

\* Every confirmed deposit can be funded, in whatever order rounds are funded and recycled,
\* as long as the holder of the PoolAdminCap marks a deposit confirmed only after Hashi
\* minted it (the contract itself takes the holder's word).
THEOREM ConfirmedDepositsAreBacked == CapHolderFollowsHashi => (Spec => []DepositsAreBacked)
<1> SUFFICES ASSUME CapHolderFollowsHashi PROVE Spec => []DepositsAreBacked
  OBVIOUS
<1>1. Init => MintedIsBacked
  <2> SUFFICES ASSUME Init PROVE MintedIsBacked
    OBVIOUS
  <2>1. /\ records = {} /\ minted = {} /\ vault.hbtc = 0 /\ accumulated = 0
    BY DEF Init
  <2>2. Unpaid({}, {}) = {} /\ FieldSum({}, "amount_sats") = 0
    BY SumEmpty DEF Unpaid, FieldSum
  <2> QED
    BY <2>1, <2>2, BackedSums
<1>2. CoreInv /\ MintedIsBacked /\ [Next]_vars => MintedIsBacked'
  BY BackedStep
<1>3. CoreInv /\ MintedIsBacked => DepositsAreBacked
  <2> SUFFICES ASSUME CoreInv, MintedIsBacked PROVE DepositsAreBacked
    OBVIOUS
  <2> DEFINE U == Unpaid(records, minted)
             T == {r \in records : r.status = "CONFIRMED" /\ ~r.funded}
  <2>1. T \subseteq U /\ U \subseteq records /\ vault.hbtc + accumulated >= FieldSum(U, "amount_sats")
    BY BackedSums DEF Unpaid
  <2>2. IsFiniteSet(U) /\ \A r \in U : r.amount_sats \in Nat
    BY <2>1, FS_Subset DEF CoreInv, BooksInv, PayoutsTypeOK, RecordType
  <2>3. accumulated \in Nat /\ vault.hbtc \in Nat
    BY BookSums
  <2> HIDE DEF U, T
  <2>4. /\ FieldSum(T, "amount_sats") \in Nat /\ FieldSum(U, "amount_sats") \in Nat
        /\ FieldSum(T, "amount_sats") <= FieldSum(U, "amount_sats")
    BY <2>1, <2>2, FieldSumSubset
  <2>5. vault.hbtc + accumulated >= FieldSum(T, "amount_sats")
    BY <2>1, <2>3, <2>4
  <2> QED
    BY <2>5 DEF DepositsAreBacked, Total, FieldSum, T
<1> QED
  BY <1>1, <1>2, <1>3, CoreInvariant, PTL DEF Spec

-----------------------------------------------------------------------------
(* A redemption covers what is outstanding.                                *)

\* Two burns pay at most what one burn of both would: rounding never favours a split.
LEMMA SplitBurns ==
  ASSUME NEW x \in RedemptionType, NEW o \in Nat, NEW u \in Nat, u <= o
  PROVE  /\ RedeemPayout(x, u) \in Nat /\ RedeemPayout(x, o - u) \in Nat
         /\ RedeemPayout(x, o - u) + RedeemPayout(x, u) <= RedeemPayout(x, o)
<1> DEFINE T == x.total_sats    s == x.supply_at_open    v == o - u
           i == v * T    j == u * T    m == o * T
<1>1. T \in Nat /\ s \in Nat /\ s > 0 /\ v \in Nat /\ o = v + u
  BY DEF RedemptionType
<1>2. RedeemPayout(x, v) = i \div s /\ RedeemPayout(x, u) = j \div s /\ RedeemPayout(x, o) = m \div s
  BY DEF RedeemPayout
<1> HIDE DEF T, s, v
<1>3. i \in Nat /\ j \in Nat /\ m = i + j
  BY <1>1
<1>4. RedeemPayout(x, u) \in Nat /\ RedeemPayout(x, v) \in Nat
  BY <1>1, RedeemPayoutType
<1> HIDE DEF i, j, m
<1>5. i \div s + j \div s <= (i + j) \div s
  BY <1>1, <1>3, DivSplit
<1> QED
  BY <1>2, <1>3, <1>4, <1>5 DEF v

\* What the invariant says of one redemption.
Covered(x) ==
  /\ x.outstanding_supply <= x.supply_at_open
  /\ x.is_expired \/ RedeemPayout(x, x.outstanding_supply) <= x.balance

\* Every step keeps the redemptions covered.
LEMMA CoveredStep == CoreInv /\ RedemptionsAreCovered /\ [Next]_vars => RedemptionsAreCovered'
<1> SUFFICES ASSUME CoreInv, \A x \in redemptions : Covered(x), [Next]_vars
             PROVE  \A x \in redemptions' : Covered(x)
  BY DEF RedemptionsAreCovered, Covered, RedeemPayout
<1> USE DEF depositVars, vaultVars, batchVars, shareVars
<1>t. PayoutsTypeOK
  BY DEF CoreInv
<1>1. CASE UNCHANGED redemptions
  BY <1>1
<1>2. ASSUME NEW rec \in records, NEW h \in closed,
             \/ OpenAndFundRoundBatch(rec, h)
             \/ \E c \in Caps : OpenRedemption(rec, h, c)
      PROVE  \A x \in redemptions' : Covered(x)
  <2>1. CASE redemptions' = redemptions
    BY <1>1, <2>1
  <2>2. ASSUME NEW y \in RedemptionType, redemptions' = redemptions \cup {y},
               y.total_sats = y.balance, y.outstanding_supply = y.supply_at_open
        PROVE  \A x \in redemptions' : Covered(x)
    <3> DEFINE T == y.total_sats    s == y.supply_at_open
    <3>1. T \in Nat /\ s \in Nat /\ s > 0
      BY DEF RedemptionType
    <3>2. RedeemPayout(y, y.outstanding_supply) = (s * T) \div s
      BY <2>2 DEF RedeemPayout
    <3>3. (s * T) \div s = T
      BY <3>1, DivWhole
    <3>4. RedeemPayout(y, y.outstanding_supply) = y.balance
      BY <2>2, <3>2, <3>3
    <3>5. y.outstanding_supply <= y.supply_at_open
      BY <2>2, <3>1
    <3>6. Covered(y)
      BY <3>1, <3>4, <3>5, <2>2 DEF Covered
    <3> QED
      BY <2>2, <3>6
  <2>3. \/ redemptions' = redemptions
        \/ \E y \in RedemptionType :
             /\ redemptions' = redemptions \cup {y}
             /\ y.total_sats = y.balance /\ y.outstanding_supply = y.supply_at_open
    BY <1>2, DepositFunded
  <2> QED
    BY <2>1, <2>2, <2>3
<1>3. ASSUME NEW x \in redemptions, NEW units \in 1 .. MaxSupply, Redeem(x, units)
      PROVE  \A z \in redemptions' : Covered(z)
  <2>1. PICK y \in RedemptionType :
           LET a == RedeemPayout(x, units) IN
           /\ a \in Nat /\ a <= x.balance /\ units <= x.outstanding_supply
           /\ redemptions' = (redemptions \ {x}) \cup {y}
           /\ y.total_sats = x.total_sats /\ y.supply_at_open = x.supply_at_open
           /\ y.outstanding_supply = x.outstanding_supply - units
           /\ y.balance = x.balance - a
           /\ ~x.is_expired
    BY <1>3, <1>t, RedeemEffect
  <2> DEFINE o == x.outstanding_supply    v == o - units
             a == RedeemPayout(x, units)    p == RedeemPayout(x, v)
  <2>2. /\ x \in RedemptionType /\ o \in Nat /\ x.supply_at_open \in Nat /\ x.balance \in Nat
        /\ units \in Nat
    BY <1>t, PayoutsAssumption DEF PayoutsTypeOK, RedemptionType
  <2>3. /\ o <= x.supply_at_open /\ RedeemPayout(x, o) <= x.balance /\ units <= o
        /\ y.outstanding_supply = v /\ y.balance = x.balance - a
    BY <2>1 DEF Covered
  <2>4. RedeemPayout(y, v) = p
    BY <2>1 DEF RedeemPayout
  <2> HIDE DEF o, v, a, p
  <2>5. a \in Nat /\ p \in Nat /\ p + a <= RedeemPayout(x, o) /\ RedeemPayout(x, o) \in Nat
    BY <2>2, <2>3, SplitBurns, RedeemPayoutType DEF a, p, v
  <2>6. p <= x.balance - a
    BY <2>2, <2>3, <2>5
  <2>7. v <= x.supply_at_open
    BY <2>2, <2>3 DEF v
  <2>8. Covered(y)
    BY <2>1, <2>3, <2>4, <2>6, <2>7 DEF Covered
  <2> QED
    BY <2>1, <2>8
<1>4. ASSUME NEW x \in redemptions, RecycleExpiredRedemption(x)
      PROVE  \A z \in redemptions' : Covered(z)
  <2>1. PICK y \in RedemptionType :
           /\ redemptions' = (redemptions \ {x}) \cup {y}
           /\ y.supply_at_open = x.supply_at_open
           /\ y.outstanding_supply = x.outstanding_supply /\ y.is_expired
    BY <1>4, <1>t, RecycleRedemptionEffect
  <2>2. Covered(y)
    BY <2>1 DEF Covered
  <2> QED
    BY <2>1, <2>2
<1>5. CASE \/ RoundStep \/ Tick
           \/ \E a \in Amounts : ClearPendingSats(a)
           \/ \E c \in Caps : RegisterSlot(c)
           \/ \E r \in 0 .. MaxRound : BindSlotToRound(r)
           \/ \E r \in 0 .. MaxRound, c \in Caps, d \in ShareDifficulties : MintShare(r, c, d)
           \/ UNCHANGED vars
  BY <1>1, <1>5, SideStepsFrame
<1>6. ASSUME NEW rec \in records,
             \/ RegisterWithHashi(rec) \/ MarkHashiApproved(rec)
             \/ MarkHashiConfirmed(rec) \/ MarkHashiFailed(rec)
      PROVE  UNCHANGED redemptions
  BY <1>6, <1>t, StatusEffect
<1>7. CASE \/ \E r \in 0 .. MaxRound, a \in Amounts : RecordBlockFound(r, a)
           \/ \E rec \in records : HashiConfirmDeposit(rec)
           \/ \E a \in Amounts : ClaimAccumulatedHbtc(a) \/ ReceiveHbtc(a)
  BY <1>1, <1>7 DEF RecordBlockFound, HashiConfirmDeposit, ClaimAccumulatedHbtc, ReceiveHbtc
<1>8. ASSUME NEW b \in batches,
             \/ \E e \in entries, h \in closed : ClaimReward(b, e, h)
             \/ RecycleExpiredToVault(b)
      PROVE  UNCHANGED redemptions
  BY <1>8, BatchServed
<1> QED
  BY <1>1, <1>2, <1>3, <1>4, <1>5, <1>6, <1>7, <1>8 DEF Next

\* However the burns of a HashShare coin are split and ordered, the pool can pay the rest
\* at the ratio that open_redemption fixed: redeem's balance::split never aborts.
THEOREM RedemptionsStayCovered == Spec => []RedemptionsAreCovered
<1>1. Init => RedemptionsAreCovered
  BY DEF Init, RedemptionsAreCovered
<1>2. CoreInv /\ RedemptionsAreCovered /\ [Next]_vars => RedemptionsAreCovered'
  BY CoveredStep
<1> QED
  BY <1>1, <1>2, CoreInvariant, PTL DEF Spec

-----------------------------------------------------------------------------
(* A batch covers the claims of its round.                                 *)

\* The entries of E in round r that s does not hold, and what batch b owes them.
UnspentOf(E, s, r) == {e \in E \ s : e.round_id = r}
Dues(Q, b, h) == SumOver(Q, [e \in Q |-> Reward(e, b, h)])

LEMMA ClaimSums ==
  ClaimsAreCovered <=>
    \A b \in batches, h \in closed :
      b.status = "FUNDED" /\ h.round_id = b.round_id /\ h.total_work > 0 =>
        Dues(UnspentOf(entries, spent, b.round_id), b, h) <= b.balance
BY DEF ClaimsAreCovered, Total, Dues, UnspentOf

\* The rewards of a whole closed round, each rounded down, add up to at most the batch:
\* they are in proportion to parts whose sum is the round's total work.
LEMMA RoundIsCovered ==
  ASSUME CoreInv, NEW b \in BatchType, NEW h \in closed,
         h.round_id = b.round_id, h.total_work > 0
  PROVE  Dues(UnspentOf(entries, spent, b.round_id), b, h) <= b.total_sats
<1> DEFINE S == EntriesOf(b.round_id)
           Q == UnspentOf(entries, spent, b.round_id)
           W == h.total_work
           T == b.total_sats
           w == [e \in S |-> e.net_work]
           r == [e \in S |-> Reward(e, b, h)]
           q == [e \in Q |-> Reward(e, b, h)]
<1>1. T \in Nat /\ W \in Nat /\ W > 0
  BY DEF BatchType, CoreInv, LedgerInv, ClosedType
<1>2. SumOver(S, w) = W
  BY DEF CoreInv, LedgerInv, EnteredWork
<1>3. IsFiniteSet(S) /\ Q \subseteq S /\ S \subseteq entries
  BY FS_Subset DEF CoreInv, LedgerInv, EntriesOf, UnspentOf
<1>4. \A e \in S : e.net_work \in Nat
  BY <1>3, LedgerAssumption DEF CoreInv, LedgerInv, EntryType
<1>5. \A e \in S : Reward(e, b, h) \in Nat /\ W * Reward(e, b, h) <= e.net_work * T
  <2> SUFFICES ASSUME NEW e \in S
               PROVE  Reward(e, b, h) \in Nat /\ W * Reward(e, b, h) <= e.net_work * T
    OBVIOUS
  <2> DEFINE n == e.net_work * T
  <2>1. n \in Nat /\ Reward(e, b, h) = n \div W
    BY <1>1, <1>4, ProductType DEF Reward
  <2> HIDE DEF n, W
  <2>2. n \div W \in Nat /\ W * (n \div W) <= n
    BY <1>1, <2>1, DivFacts
  <2> QED
    BY <2>1, <2>2 DEF n
<1>6. \A e \in S : w[e] \in Nat /\ r[e] \in Nat /\ W * r[e] <= w[e] * T
  BY <1>4, <1>5
<1>7. \A e \in Q : q[e] = r[e]
  BY <1>3
<1> HIDE DEF S, Q, W, T, w, r, q
<1>8. SumOver(S, r) \in Nat /\ SumOver(S, r) <= T
  BY <1>1, <1>2, <1>3, <1>6, SumProportion
<1>9. IsFiniteSet(Units(S, r))
  BY <1>3, <1>6, UnitsFinite
<1>10. SumOver(Q, r) \in Nat /\ SumOver(Q, r) <= SumOver(S, r)
  BY <1>3, <1>9, SumSubset
<1>11. SumOver(Q, q) = SumOver(Q, r)
  BY <1>7, SumExt
<1>12. SumOver(Q, q) <= T
  BY <1>1, <1>8, <1>10, <1>11
<1> QED
  BY <1>12 DEF Dues, Q, q, T

\* A claim takes its own reward out of what is owed, and nobody else's.
LEMMA ClaimTakesItsOwn ==
  ASSUME CoreInv, NEW b \in batches, NEW h \in closed, NEW e \in entries \ spent,
         e.round_id = b.round_id, h.total_work > 0,
         NEW y, y.total_sats = b.total_sats
  PROVE  LET Q == UnspentOf(entries, spent, b.round_id)
         IN  /\ Dues(Q \ {e}, y, h) \in Nat
             /\ Dues(Q, b, h) = Dues(Q \ {e}, y, h) + Reward(e, b, h)
<1> DEFINE Q == UnspentOf(entries, spent, b.round_id)
           f == [d \in Q |-> Reward(d, b, h)]
           g == [d \in Q \ {e} |-> Reward(d, y, h)]
<1>1. IsFiniteSet(Q) /\ e \in Q /\ Q \subseteq entries
  BY FS_Subset DEF CoreInv, LedgerInv, UnspentOf
<1>2. \A d \in Q : Reward(d, b, h) \in Nat
  BY <1>1, RewardType DEF CoreInv
<1>3. \A d : Reward(d, y, h) = Reward(d, b, h)
  BY DEF Reward
<1>4. (\A d \in Q : f[d] \in Nat) /\ (\A d \in Q \ {e} : g[d] = f[d]) /\ f[e] = Reward(e, b, h)
  BY <1>1, <1>2, <1>3
<1> HIDE DEF Q, f, g
<1>5. SumOver(Q \ {e}, g) \in Nat /\ SumOver(Q, f) = SumOver(Q \ {e}, g) + f[e]
  BY <1>1, <1>4, SumRemove
<1> QED
  BY <1>4, <1>5 DEF Dues, Q, f, g

\* Every step keeps the claims covered.
LEMMA ClaimsStep == CoreInv /\ ClaimsAreCovered /\ [Next]_vars => ClaimsAreCovered'
<1> SUFFICES ASSUME CoreInv, ClaimsAreCovered, [Next]_vars,
                    NEW b \in batches', NEW h \in closed',
                    b.status = "FUNDED", h.round_id = b.round_id, h.total_work > 0
             PROVE  Dues(UnspentOf(entries', spent', b.round_id), b, h) <= b.balance
  BY DEF ClaimsAreCovered, Total, Dues, UnspentOf, Reward
<1> USE DEF depositVars, vaultVars, batchVars, shareVars
<1>0. \A c \in batches, g \in closed :
        c.status = "FUNDED" /\ g.round_id = c.round_id /\ g.total_work > 0 =>
          Dues(UnspentOf(entries, spent, c.round_id), c, g) <= c.balance
  BY ClaimSums
<1>t. PayoutsTypeOK /\ LedgerInv
  BY DEF CoreInv
<1>1. CASE UNCHANGED <<ledgerVars, batches, spent>>
  BY <1>0, <1>1 DEF ledgerVars
<1>2. CASE RoundStep
  <2>1. UNCHANGED <<batches, spent>>
    BY <1>2 DEF RoundStep
  <2>2. PICK g \in closed : g.round_id = b.round_id
    BY <2>1 DEF CoreInv, BooksInv
  <2>3. g.round_id < current /\ current \in Nat /\ g.round_id \in Nat
    BY <1>t DEF LedgerInv, ClosedType
  <2>4. /\ closed' = closed \/ closed' = closed \cup {[round_id |-> current, total_work |-> EnteredWork(current)]}
        /\ entries' = entries \/ \E m \in Miners, w \in Works :
             entries' = entries \cup {[round_id |-> current, miner |-> m, net_work |-> w]}
    BY <1>2 DEF RoundStep, LedgerNext, OpenRound, Credit, CloseRound
  <2>5. h \in closed
    BY <2>2, <2>3, <2>4
  <2>6. UnspentOf(entries', spent, b.round_id) = UnspentOf(entries, spent, b.round_id)
    BY <2>2, <2>3, <2>4 DEF UnspentOf
  <2> QED
    BY <1>0, <2>1, <2>5, <2>6
<1>3. ASSUME NEW rec \in records, NEW g \in closed,
             \/ OpenAndFundRoundBatch(rec, g)
             \/ \E c \in Caps : OpenRedemption(rec, g, c)
      PROVE  Dues(UnspentOf(entries', spent', b.round_id), b, h) <= b.balance
  <2>1. /\ UNCHANGED <<ledgerVars, spent>>
        /\ \/ \E y \in BatchType : /\ batches' = batches \cup {y}
                                   /\ y.total_sats = y.balance
           \/ UNCHANGED batches
    BY <1>3, DepositFunded
  <2>2. CASE b \in batches
    BY <1>0, <2>1, <2>2 DEF ledgerVars
  <2>3. CASE b \in BatchType /\ b.total_sats = b.balance
    <3>1. h \in closed
      BY <2>1 DEF ledgerVars
    <3>2. Dues(UnspentOf(entries, spent, b.round_id), b, h) <= b.total_sats
      BY <2>3, <3>1, RoundIsCovered
    <3> QED
      BY <2>1, <2>3, <3>2 DEF ledgerVars
  <2> QED
    BY <2>1, <2>2, <2>3
<1>4. ASSUME NEW c \in batches, NEW e \in entries, NEW g \in closed, ClaimReward(c, e, g)
      PROVE  Dues(UnspentOf(entries', spent', b.round_id), b, h) <= b.balance
  <2>1. PICK y \in BatchType :
           LET a == Reward(e, c, g) IN
           /\ a \in Nat /\ a <= c.balance
           /\ batches' = (batches \ {c}) \cup {y}
           /\ y.round_id = c.round_id /\ y.total_sats = c.total_sats
           /\ y.balance = c.balance - a
    BY <1>4, <1>t, ClaimEffect
  <2>2. /\ spent' = spent \cup {e} /\ UNCHANGED ledgerVars /\ e \in entries \ spent
        /\ e.round_id = c.round_id /\ g.round_id = c.round_id /\ g.total_work > 0
        /\ c.status = "FUNDED"
    BY <1>4 DEF ClaimReward
  <2>3. entries' = entries /\ h \in closed
    BY <2>2 DEF ledgerVars
  <2>4. CASE b = y
    <3> DEFINE Q == UnspentOf(entries, spent, c.round_id)
    <3>1. h = g
      BY <1>t, <2>1, <2>2, <2>3, <2>4 DEF LedgerInv
    <3>2. UnspentOf(entries', spent', b.round_id) = Q \ {e}
      BY <2>1, <2>2, <2>3, <2>4 DEF UnspentOf
    <3>3. Dues(Q, c, g) <= c.balance
      BY <1>0, <2>2
    <3>4. /\ Dues(Q \ {e}, y, g) \in Nat
          /\ Dues(Q, c, g) = Dues(Q \ {e}, y, g) + Reward(e, c, g)
      BY <2>1, <2>2, ClaimTakesItsOwn
    <3>5. c.balance \in Nat
      BY <1>t DEF PayoutsTypeOK, BatchType
    <3> HIDE DEF Q
    <3>6. Dues(Q \ {e}, y, g) <= c.balance - Reward(e, c, g)
      BY <2>1, <3>3, <3>4, <3>5
    <3> QED
      BY <2>1, <2>4, <3>1, <3>2, <3>6
  <2>5. CASE b \in batches \ {c}
    <3>1. b.round_id # c.round_id
      BY <2>5 DEF CoreInv, OnePayoutPerDeposit
    <3>2. UnspentOf(entries', spent', b.round_id) = UnspentOf(entries, spent, b.round_id)
      BY <2>2, <2>3, <3>1 DEF UnspentOf
    <3> QED
      BY <1>0, <2>3, <2>5, <3>2
  <2> QED
    BY <2>1, <2>4, <2>5
<1>5. ASSUME NEW c \in batches, RecycleExpiredToVault(c)
      PROVE  Dues(UnspentOf(entries', spent', b.round_id), b, h) <= b.balance
  <2>1. PICK y \in BatchType : batches' = (batches \ {c}) \cup {y} /\ y.status = "EXPIRED"
    BY <1>5, <1>t, RecycleEffect
  <2>2. UNCHANGED <<ledgerVars, spent>>
    BY <1>5 DEF RecycleExpiredToVault
  <2>3. b \in batches
    BY <2>1
  <2> QED
    BY <1>0, <2>2, <2>3 DEF ledgerVars
<1>6. ASSUME \/ Tick
             \/ \E a \in Amounts : ClearPendingSats(a)
             \/ \E c \in Caps : RegisterSlot(c)
             \/ \E r \in 0 .. MaxRound : BindSlotToRound(r)
             \/ \E r \in 0 .. MaxRound, c \in Caps, d \in ShareDifficulties : MintShare(r, c, d)
             \/ UNCHANGED vars
      PROVE  UNCHANGED <<ledgerVars, batches, spent>>
  BY <1>6 DEF Tick, ClearPendingSats, RegisterSlot, BindSlotToRound, MintShare, vars
<1>7. ASSUME NEW rec \in records,
             \/ RegisterWithHashi(rec) \/ MarkHashiApproved(rec)
             \/ MarkHashiConfirmed(rec) \/ MarkHashiFailed(rec)
      PROVE  UNCHANGED <<ledgerVars, batches, spent>>
  BY <1>7, <1>t, StatusEffect
<1>8. ASSUME \/ \E r \in 0 .. MaxRound, a \in Amounts : RecordBlockFound(r, a)
             \/ \E rec \in records : HashiConfirmDeposit(rec)
             \/ \E a \in Amounts : ClaimAccumulatedHbtc(a) \/ ReceiveHbtc(a)
      PROVE  UNCHANGED <<ledgerVars, batches, spent>>
  BY <1>8 DEF RecordBlockFound, HashiConfirmDeposit, ClaimAccumulatedHbtc, ReceiveHbtc
<1>9. ASSUME NEW x \in redemptions,
             \/ \E units \in 1 .. MaxSupply : Redeem(x, units)
             \/ RecycleExpiredRedemption(x)
      PROVE  UNCHANGED <<ledgerVars, batches, spent>>
  BY <1>9 DEF Redeem, RecycleExpiredRedemption
<1> QED
  BY <1>1, <1>2, <1>3, <1>4, <1>5, <1>6, <1>7, <1>8, <1>9 DEF Next

\* A batch can pay every work record of its round that has not been claimed, whoever claims
\* first: claim_reward's balance::split never aborts.
THEOREM ClaimsStayCovered == Spec => []ClaimsAreCovered
<1>1. Init => ClaimsAreCovered
  BY DEF Init, ClaimsAreCovered
<1>2. CoreInv /\ ClaimsAreCovered /\ [Next]_vars => ClaimsAreCovered'
  BY ClaimsStep
<1> QED
  BY <1>1, <1>2, CoreInvariant, PTL DEF Spec

-----------------------------------------------------------------------------
(* What is settled stays settled.                                          *)

\* A batch that completed or expired and a redemption that expired never change again, and
\* a confirmed record keeps its amount and its lock, whatever is called afterwards.
THEOREM SettlementsAreFinal == Spec => SettledIsFinal
<1> DEFINE A == /\ \A b \in batches : b.status # "FUNDED" => b \in batches'
                /\ \A x \in redemptions : x.is_expired => x \in redemptions'
                /\ \A r \in records : r.status = "CONFIRMED" =>
                     r \in records' \/ Funded(r) \in records'
<1>1. CoreInv /\ [Next]_vars => [A]_vars
  <2> SUFFICES ASSUME CoreInv, [Next]_vars PROVE A
    OBVIOUS
  <2> USE DEF depositVars, vaultVars, batchVars, shareVars
  <2>t. PayoutsTypeOK
    BY DEF CoreInv
  <2>1. CASE UNCHANGED <<records, batches, redemptions>>
    BY <2>1
  <2>2. ASSUME NEW rec \in records,
               \/ RegisterWithHashi(rec) \/ MarkHashiApproved(rec)
               \/ MarkHashiConfirmed(rec) \/ MarkHashiFailed(rec)
        PROVE  A
    <3>1. PICK y \in RecordType :
            /\ records' = (records \ {rec}) \cup {y} /\ rec.status # "CONFIRMED"
            /\ UNCHANGED <<batches, redemptions>>
      BY <2>2, <2>t, StatusEffect
    <3> QED
      BY <3>1
  <2>3. ASSUME NEW rec \in records, NEW h \in closed,
               \/ OpenAndFundRoundBatch(rec, h)
               \/ \E c \in Caps : OpenRedemption(rec, h, c)
        PROVE  A
    <3>1. /\ records' = (records \ {rec}) \cup {Funded(rec)}
          /\ batches \subseteq batches' /\ redemptions \subseteq redemptions'
      BY <2>3, DepositFunded
    <3> QED
      BY <3>1
  <2>4. ASSUME NEW b \in batches,
               \/ \E e \in entries, h \in closed : ClaimReward(b, e, h)
               \/ RecycleExpiredToVault(b)
        PROVE  A
    <3>1. PICK y \in BatchType : /\ batches' = (batches \ {b}) \cup {y} /\ b.status = "FUNDED"
                                 /\ UNCHANGED <<records, redemptions>>
      BY <2>4, BatchServed
    <3> QED
      BY <3>1
  <2>5. ASSUME NEW x \in redemptions,
               \/ \E units \in 1 .. MaxSupply : Redeem(x, units)
               \/ RecycleExpiredRedemption(x)
        PROVE  A
    <3>1. PICK y \in RedemptionType : /\ redemptions' = (redemptions \ {x}) \cup {y}
                                      /\ UNCHANGED <<records, batches>>
      BY <2>5, RedemptionServed
    <3>2. ~x.is_expired
      BY <2>5 DEF Redeem, RecycleExpiredRedemption
    <3> QED
      BY <3>1, <3>2
  <2>6. CASE \/ RoundStep \/ Tick
             \/ \E a \in Amounts : ClearPendingSats(a)
             \/ \E c \in Caps : RegisterSlot(c)
             \/ \E r \in 0 .. MaxRound : BindSlotToRound(r)
             \/ \E r \in 0 .. MaxRound, c \in Caps, d \in ShareDifficulties : MintShare(r, c, d)
             \/ UNCHANGED vars
    BY <2>1, <2>6, SideStepsFrame
  <2>7. CASE \/ \E r \in 0 .. MaxRound, a \in Amounts : RecordBlockFound(r, a)
             \/ \E rec \in records : HashiConfirmDeposit(rec)
             \/ \E a \in Amounts : ClaimAccumulatedHbtc(a) \/ ReceiveHbtc(a)
    BY <2>7 DEF RecordBlockFound, HashiConfirmDeposit, ClaimAccumulatedHbtc, ReceiveHbtc
  <2> QED
    BY <2>2, <2>3, <2>4, <2>5, <2>6, <2>7 DEF Next
<1> QED
  BY <1>1, CoreInvariant, PTL DEF Spec, SettledIsFinal

=============================================================================
