-------------------------- MODULE BuyerLaneProofs --------------------------
(* Theorems about the buyer lane, for every value of the constants. *)
EXTENDS BuyerLane, RoundsProofs

-----------------------------------------------------------------------------
(* A share on a derived template, as the round pipeline sees it.           *)

\* What the round pipeline sees of it: one hash more in a dedup object of the miner, one
\* share more in a MinerRoundStats of the miner, whatever round either is of.
DerivedView(m, i, n, x, d, y, e) ==
  /\ mrs' = (mrs \ {x}) \cup {y} /\ Key(y) = Key(x) /\ y.work <= MaxWork
  /\ dedups' = (dedups \ {d}) \cup {e} /\ Key(e) = Key(d)
  /\ e.hashes = d.hashes \cup {DerivedHash(i, n)}
  /\ DerivedHash(i, n) \notin d.hashes
  /\ Key(d) = <<m, derived[i].round_id>>
  /\ minerStats' \in [Miners -> MinerStatsType]
  /\ claims' \subseteq ClaimType
  /\ UNCHANGED <<pool, templates, now, registered, roundRegistry, dedupRegistry,
                 drained, accumulators, workRecords, histories, owners, derived>>

\* That is all a share on a derived template does there.
LEMMA DerivedEffect ==
  ASSUME BuyerTypeOK,
         NEW o, NEW m \in Miners, NEW i \in 1 .. Len(derived), NEW n \in Nonces,
         NEW x \in mrs, NEW d \in dedups, SubmitShareForPayDerived(o, m, i, n, x, d)
  PROVE  \E y \in RoundStatsType, e \in DedupType :
           DerivedView(m, i, n, x, d, y, e)
<1> DEFINE D == derived[i]
           y == RecordShare(x, HashDifficulty[n], D.height)
           e == CheckAndRecord(d, DerivedHash(i, n))
<1>1. /\ D \in DerivedType
      /\ HashDifficulty[n] \in Nat
      /\ DerivedHash(i, n) \in Nat \X Nonces
      /\ x \in RoundStatsType /\ d \in DedupType
  BY RoundsAssumption DEF BuyerTypeOK, TypeOK, DerivedHash, ShareHash
<1>2. D.height \in Nat
  <2> HIDE DEF D
  <2> QED
    BY <1>1 DEF DerivedType
<1>3. y \in RoundStatsType /\ Key(y) = Key(x) /\ y.work = x.work + HashDifficulty[n]
  <2> DEFINE h == D.height
             diff == HashDifficulty[n]
             z == AfterShare(x, diff, h, FALSE)
  <2>1. z = y
    BY DEF AfterShare
  <2>2. h \in Nat /\ diff \in Nat
    BY <1>1, <1>2
  <2>3. /\ z \in RoundStatsType /\ z.miner = x.miner /\ z.round_id = x.round_id
        /\ z.work = x.work + diff
    <3> HIDE DEF h, diff
    <3> QED
      BY <1>1, <2>2, AfterShareEffect, Zenon
  <2> QED
    BY <2>1, <2>3 DEF Key
<1>4. e \in DedupType /\ Key(e) = Key(d) /\ e.hashes = d.hashes \cup {DerivedHash(i, n)}
  BY <1>1 DEF CheckAndRecord, DedupType, Key
<1>5. minerStats' \in [Miners -> MinerStatsType]
  BY DEF SubmitShareForPayDerived, BuyerTypeOK, TypeOK, MinerStatsType
<1>6. claims' \subseteq ClaimType
  <2>1. [round_id |-> 0, height |-> D.height, block_finder |-> m,
         share_hash |-> DerivedHash(i, n)] \in ClaimType
    BY <1>1, <1>2 DEF ClaimType
  <2> QED
    BY <2>1 DEF SubmitShareForPayDerived, BuyerTypeOK, TypeOK
<1>7. /\ mrs' = (mrs \ {x}) \cup {y} /\ dedups' = (dedups \ {d}) \cup {e}
      /\ x.work + HashDifficulty[n] <= MaxWork
      /\ DerivedHash(i, n) \notin d.hashes
      /\ d.miner = m /\ d.round_id = D.round_id
      /\ UNCHANGED <<pool, templates, now, registered, roundRegistry, dedupRegistry,
                     drained, accumulators, workRecords, histories, owners, derived>>
  BY DEF SubmitShareForPayDerived, PayForShare, closeVars
<1>8. Key(d) = <<m, D.round_id>>
  BY <1>7 DEF Key
<1> HIDE DEF y, e, D
<1>9. /\ mrs' = (mrs \ {x}) \cup {y} /\ Key(y) = Key(x) /\ y.work <= MaxWork
      /\ dedups' = (dedups \ {d}) \cup {e} /\ Key(e) = Key(d)
      /\ e.hashes = d.hashes \cup {DerivedHash(i, n)}
      /\ DerivedHash(i, n) \notin d.hashes
  BY <1>3, <1>4, <1>7
<1> QED
  BY <1>3, <1>4, <1>5, <1>6, <1>7, <1>8, <1>9 DEF D, DerivedView

\* It keeps the invariant of the round pipeline.
LEMMA DerivedRounds ==
  ASSUME RoundsInv, BuyerTypeOK,
         NEW o, NEW m \in Miners, NEW i \in 1 .. Len(derived), NEW n \in Nonces,
         NEW x \in mrs, NEW d \in dedups, SubmitShareForPayDerived(o, m, i, n, x, d)
  PROVE  RoundsInv'
<1>1. PICK y \in RoundStatsType, e \in DedupType :
           DerivedView(m, i, n, x, d, y, e)
  BY DerivedEffect, Zenon
<1>2. TypeOK'
  BY <1>1 DEF DerivedView, TypeOK, RoundsInv
<1>3. OneWorkRecordPerMinerRound' /\ KeysAreRegistered'
  BY <1>1 DEF DerivedView, RoundsInv, OneWorkRecordPerMinerRound, KeysAreRegistered, Key
<1>4. RoundsCloseInOrder' /\ RecordsBelongToRounds'
  BY <1>1 DEF DerivedView, RoundsInv, RoundsCloseInOrder, RecordsBelongToRounds
<1>5. WorkFits'
  BY <1>1 DEF DerivedView, RoundsInv, WorkFits
<1>6. WorkConserved'
  BY <1>1 DEF DerivedView, RoundsInv, WorkConserved, CreditedWork, RecordsOf
<1> QED
  BY <1>2, <1>3, <1>4, <1>5, <1>6 DEF RoundsInv

\* Every step of the lane is a step of the round pipeline, one that leaves it alone, or
\* a share on a derived template.
DerivedShare ==
  \E o \in orders, m \in Miners, i \in 1 .. Len(derived), n \in Nonces :
    \E x \in mrs, d \in dedups : SubmitShareForPayDerived(o, m, i, n, x, d)

LEMMA LaneCases ==
  ASSUME [BuyerNext]_buyerVars
  PROVE  [Next]_vars \/ DerivedShare
<1>1. CASE RoundStep
  BY <1>1 DEF RoundStep
<1>2. CASE NextEpoch \/ \E t \in 1 .. Len(templates) : RegisterDerivedTemplate(t)
  BY <1>2 DEF NextEpoch, RegisterDerivedTemplate
<1>3. CASE \/ \E b \in Buyers, t \in 1 .. Len(templates), c \in Payments, p \in Prices,
                 e \in Expiries, dyn \in BOOLEAN : PlaceHashpowerOrder(b, t, c, p, e, dyn)
           \/ \E b \in Buyers, c \in Payments, p \in Prices, e \in Expiries,
                 dyn \in BOOLEAN : PlaceBuyerOrder(b, c, p, e, dyn)
  <2>1. ASSUME NEW r, NEW c, Place(r, c) PROVE UNCHANGED vars
    BY <2>1 DEF Place
  <2> QED
    BY <1>3, <2>1, Zenon DEF PlaceHashpowerOrder, PlaceBuyerOrder
<1>4. CASE \/ \E o \in orders, p \in Prices : UpdateOrderPrice(o, p)
           \/ \E o \in orders, c \in Payments : TopUpOrder(o, c)
           \/ \E o \in orders : CancelOrder(o)
  BY <1>4 DEF UpdateOrderPrice, TopUpOrder, CancelOrder
<1>5. CASE \E o \in orders, m \in Miners, t \in 1 .. Len(templates), n \in Nonces :
             \E x \in mrs, d \in dedups : SubmitShareForPay(o, m, t, n, x, d)
  BY <1>5 DEF SubmitShareForPay, Next
<1>6. CASE UNCHANGED buyerVars
  BY <1>6 DEF buyerVars
<1> QED
  BY <1>1, <1>2, <1>3, <1>4, <1>5, <1>6, Zenon DEF BuyerNext, DerivedShare

\* So the invariant of the rounds survives the lane.
LEMMA LaneRounds ==
  ASSUME RoundsInv, BuyerTypeOK, [BuyerNext]_buyerVars
  PROVE  RoundsInv'
BY LaneCases, StepInv, DerivedRounds DEF DerivedShare

\* And so does the refinement of the ledger.
LEMMA LaneLedger ==
  ASSUME RoundsInv, [BuyerNext]_buyerVars
  PROVE  [Ledger!LedgerNext]_(Ledger!ledgerVars)
<1>1. CASE [Next]_vars
  BY <1>1, LedgerStep
<1>2. CASE DerivedShare
  BY <1>2 DEF DerivedShare, SubmitShareForPayDerived, closeVars, Ledger!ledgerVars
<1> QED
  BY <1>1, <1>2, LaneCases

-----------------------------------------------------------------------------
(* Templates, their owners and the templates derived from them.            *)

\* The round pipeline adds a template or leaves them alone.
LEMMA TemplatesStep ==
  ASSUME [Next]_vars
  PROVE  \/ templates' = templates
         \/ \E h \in Heights, nd \in NetworkDifficulties : RegisterTemplate(h, nd)
<1>1. CASE \/ UNCHANGED vars \/ Tick \/ ResetDifficulty
           \/ \E diff \in Difficulties : SetDifficulty(diff)
           \/ \E m \in Miners : RegisterMiner(m)
           \/ \E m \in Miners, r \in Rounds, h \in Heights : CreateRoundStats(m, r, h)
           \/ \E x \in mrs : CloseMinerRoundStats(x)
           \/ \E m \in Miners, r \in Rounds : CreateShareDedup(m, r)
           \/ \E d \in dedups : \E H \in SUBSET d.hashes : CloseShareDedup(d, H)
           \/ \E d \in dedups : DeleteShareDedup(d)
  BY <1>1 DEF vars, Tick, SetDifficulty, ResetDifficulty, RegisterMiner, CreateRoundStats,
              CloseMinerRoundStats, CreateShareDedup, CloseShareDedup, DeleteShareDedup
<1>2. ASSUME NEW m, NEW t, NEW n, NEW x, NEW d, NEW sell, SubmitShare(m, t, n, x, d, sell)
      PROVE  templates' = templates
  BY <1>2 DEF SubmitShare
<1>3. ASSUME NEW acc, NEW m, NEW batch, AccumulateMinerStats(acc, m, batch)
      PROVE  templates' = templates
  BY <1>3 DEF AccumulateMinerStats
<1>4. CASE \/ \E c \in claims : OpenRoundAccumulatorFromClaim(c)
           \/ \E acc \in accumulators : FinalizeRound(acc)
  BY <1>4 DEF OpenRoundAccumulatorFromClaim, FinalizeRound
<1> QED
  BY <1>1, <1>2, <1>3, <1>4, Zenon DEF Next

\* A new template is of the current round.
LEMMA RegisterEffect ==
  ASSUME TypeOK, NEW h \in Heights, NEW nd \in NetworkDifficulties, RegisterTemplate(h, nd)
  PROVE  /\ Len(templates) < MaxTemplates
         /\ Len(templates') = Len(templates) + 1
         /\ templates' # templates
         /\ \A t \in 1 .. Len(templates) : templates'[t] = templates[t]
         /\ templates'[Len(templates) + 1].round_id = pool.current_round
         /\ pool'.current_round = pool.current_round
<1> DEFINE T == [height |-> h, round_id |-> pool.current_round,
                 min_difficulty |-> pool.global_min_difficulty,
                 cached_network_difficulty |-> nd]
<1>1. templates' = Append(templates, T) /\ templates \in Seq(TemplateType)
  BY DEF RegisterTemplate, TypeOK
<1>2. Len(templates) < MaxTemplates /\ pool'.current_round = pool.current_round
  BY DEF RegisterTemplate, TypeOK, PoolType
<1>3. T.round_id = pool.current_round
  OBVIOUS
<1> HIDE DEF T
<1> QED
  BY <1>1, <1>2, <1>3

\* The current round stays within its bound.
LEMMA RoundBound ==
  ASSUME RoundsInv, [Next]_vars, pool.current_round \in Rounds
  PROVE  pool'.current_round \in Rounds
<1>0. TypeOK
  BY DEF RoundsInv
<1>1. CASE QuietStep
  BY <1>0, <1>1, QuietFrame DEF coreVars
<1>2. ASSUME NEW c \in claims, OpenRoundAccumulatorFromClaim(c)
      PROVE  pool'.current_round \in Rounds
  BY <1>0, <1>2 DEF OpenRoundAccumulatorFromClaim, TypeOK, PoolType
<1>3. ASSUME NEW acc \in accumulators, FinalizeRound(acc)
      PROVE  pool'.current_round \in Rounds
  <2>1. pool'.current_round = pool.current_round + 1 /\ pool.current_round < MaxRound
    BY <1>3, FinalizeEffect
  <2> QED
    BY <2>1, RoundsAssumption DEF Rounds
<1>4. CASE pool' = pool
  BY <1>4
<1>5. ASSUME \/ \E m \in Miners, r \in Rounds, h \in Heights : CreateRoundStats(m, r, h)
             \/ \E x \in mrs : CloseMinerRoundStats(x)
             \/ \E m \in Miners, t \in 1 .. Len(templates), n \in Nonces :
                  \E x \in mrs, d \in dedups, sell \in BOOLEAN :
                    SubmitShare(m, t, n, x, d, sell)
             \/ \E acc \in accumulators, m \in Miners :
                  \E batch \in SUBSET {x \in mrs : x.miner = m} :
                    AccumulateMinerStats(acc, m, batch)
      PROVE  pool' = pool
  BY <1>5 DEF CreateRoundStats, CloseMinerRoundStats, SubmitShare, AccumulateMinerStats
<1> QED
  BY <1>1, <1>2, <1>3, <1>4, <1>5, StepCases, Zenon

\* What the lane does to templates, owners and derived templates: one of each list may
\* grow by one element.
LEMMA ListsGrow ==
  ASSUME RoundsInv, BuyerTypeOK, TemplatesInv, [BuyerNext]_buyerVars
  PROVE  /\ Len(templates') \in Nat /\ Len(templates) <= Len(templates')
         /\ \A t \in 1 .. Len(templates) : /\ templates'[t] = templates[t]
                                           /\ owners'[t] = owners[t]
         /\ owners' \in Seq(Buyers) /\ Len(owners') = Len(templates')
         /\ Len(derived') \in Nat /\ Len(derived) <= Len(derived')
         /\ \A i \in 1 .. Len(derived) : derived'[i] = derived[i]
         /\ derived' \in Seq(DerivedType)
         /\ TemplatesInv'
<1>0. /\ TypeOK /\ templates \in Seq(TemplateType) /\ owners \in Seq(Buyers)
      /\ Len(owners) = Len(templates) /\ derived \in Seq(DerivedType)
      /\ Len(templates) \in Nat /\ Len(derived) \in Nat /\ MaxTemplates \in Nat
  BY RoundsAssumption DEF BuyerTypeOK, TypeOK
<1>1. CASE UNCHANGED <<templates, owners, derived>> /\ pool'.current_round \in Rounds
  BY <1>0, <1>1 DEF TemplatesInv, Rounds
<1>2. ASSUME RoundStep, templates' # templates
      PROVE  /\ Len(templates') \in Nat /\ Len(templates) <= Len(templates')
             /\ \A t \in 1 .. Len(templates) : /\ templates'[t] = templates[t]
                                               /\ owners'[t] = owners[t]
             /\ owners' \in Seq(Buyers) /\ Len(owners') = Len(templates')
             /\ derived' = derived
             /\ TemplatesInv'
  <2>1. PICK h \in Heights, nd \in NetworkDifficulties : RegisterTemplate(h, nd)
    BY <1>2, TemplatesStep DEF RoundStep
  <2>2. PICK who \in Buyers : owners' = Append(owners, who)
    BY <1>2 DEF RoundStep
  <2>3. owners' \in Seq(Buyers) /\ Len(owners') = Len(owners) + 1
        /\ \A t \in 1 .. Len(owners) : owners'[t] = owners[t]
    BY <1>0, <2>2
  <2>4. derived' = derived
    BY <1>2 DEF RoundStep, laneVars
  <2>5. /\ Len(templates) < MaxTemplates
        /\ Len(templates') = Len(templates) + 1
        /\ \A t \in 1 .. Len(templates) : templates'[t] = templates[t]
        /\ templates'[Len(templates) + 1].round_id = pool.current_round
        /\ pool'.current_round = pool.current_round
    BY <1>0, <2>1, RegisterEffect
  <2>6. TemplatesInv'
    <3>1. \A t \in 1 .. Len(templates') : t \in 1 .. Len(templates) \/ t = Len(templates) + 1
      BY <1>0, <2>5
    <3> QED
      BY <1>0, <2>4, <2>5, <3>1 DEF TemplatesInv, Rounds
  <2> QED
    BY <1>0, <2>3, <2>4, <2>5, <2>6
<1>3. ASSUME RoundStep
      PROVE  pool'.current_round \in Rounds
  BY <1>3, RoundBound DEF RoundStep, TemplatesInv
<1>4. CASE RoundStep
  <2>1. CASE templates' = templates
    BY <1>1, <1>3, <1>4, <2>1 DEF RoundStep, laneVars
  <2>2. CASE templates' # templates
    BY <1>0, <1>2, <1>4, <2>2
  <2> QED
    BY <2>1, <2>2
<1>5. ASSUME NEW t \in 1 .. Len(templates), RegisterDerivedTemplate(t)
      PROVE  /\ UNCHANGED <<templates, owners>>
             /\ Len(derived') \in Nat /\ Len(derived) <= Len(derived')
             /\ \A i \in 1 .. Len(derived) : derived'[i] = derived[i]
             /\ derived' \in Seq(DerivedType)
             /\ TemplatesInv'
  <2> DEFINE D == [parent |-> t, round_id |-> templates[t].round_id,
                   height |-> templates[t].height,
                   min_difficulty |-> templates[t].min_difficulty,
                   cached_network_difficulty |-> templates[t].cached_network_difficulty]
  <2>1. D \in DerivedType /\ D.parent = t /\ D.round_id = templates[t].round_id
    <3>1. templates[t] \in TemplateType /\ t \in Nat
      BY <1>0
    <3> QED
      BY <3>1 DEF DerivedType, TemplateType
  <2>2. derived' = Append(derived, D) /\ UNCHANGED <<templates, owners, pool>>
    BY <1>5 DEF RegisterDerivedTemplate, vars
  <2> HIDE DEF D
  <2>3. /\ derived' \in Seq(DerivedType) /\ Len(derived') = Len(derived) + 1
        /\ \A i \in 1 .. Len(derived) : derived'[i] = derived[i]
        /\ derived'[Len(derived) + 1] = D
    BY <1>0, <2>1, <2>2
  <2>4. \A i \in 1 .. Len(derived') : i \in 1 .. Len(derived) \/ i = Len(derived) + 1
    BY <1>0, <2>3
  <2>5. TemplatesInv'
    BY <1>0, <2>1, <2>2, <2>3, <2>4 DEF TemplatesInv, Rounds
  <2> QED
    BY <1>0, <2>2, <2>3, <2>5
<1>6. ASSUME \/ NextEpoch \/ DerivedShare \/ UNCHANGED buyerVars
             \/ \E o \in orders, p \in Prices : UpdateOrderPrice(o, p)
             \/ \E o \in orders, c \in Payments : TopUpOrder(o, c)
             \/ \E o \in orders : CancelOrder(o)
             \/ \E o \in orders, m \in Miners, t \in 1 .. Len(templates), n \in Nonces :
                  \E x \in mrs, d \in dedups : SubmitShareForPay(o, m, t, n, x, d)
      PROVE  UNCHANGED <<templates, owners, derived, pool>>
  <2>1. ASSUME NEW o, NEW m, NEW i, NEW n, NEW x, NEW d,
               SubmitShareForPayDerived(o, m, i, n, x, d)
        PROVE  UNCHANGED <<templates, owners, derived, pool>>
    BY <2>1 DEF SubmitShareForPayDerived, PayForShare
  <2>2. ASSUME NEW o, NEW m, NEW t, NEW n, NEW x, NEW d,
               SubmitShareForPay(o, m, t, n, x, d)
        PROVE  UNCHANGED <<templates, owners, derived, pool>>
    BY <2>2 DEF SubmitShareForPay, SubmitShare, PayForShare
  <2>3. ASSUME \/ NextEpoch \/ UNCHANGED buyerVars
               \/ \E o \in orders, p \in Prices : UpdateOrderPrice(o, p)
               \/ \E o \in orders, c \in Payments : TopUpOrder(o, c)
               \/ \E o \in orders : CancelOrder(o)
        PROVE  UNCHANGED <<templates, owners, derived, pool>>
    BY <2>3 DEF NextEpoch, UpdateOrderPrice, TopUpOrder, CancelOrder, vars, buyerVars,
                laneVars
  <2> QED
    BY <1>6, <2>1, <2>2, <2>3, Zenon DEF DerivedShare
<1>7. ASSUME NEW r, NEW c, Place(r, c)
      PROVE  UNCHANGED <<templates, owners, derived, pool>>
  BY <1>7 DEF Place, vars
<1>8. CASE UNCHANGED <<templates, owners, derived, pool>>
  BY <1>1, <1>8 DEF TemplatesInv
<1>9. CASE \E t \in 1 .. Len(templates) : RegisterDerivedTemplate(t)
  BY <1>0, <1>5, <1>9
<1>10. CASE \/ \E b \in Buyers, t \in 1 .. Len(templates), c \in Payments, p \in Prices,
                  e \in Expiries, dyn \in BOOLEAN : PlaceHashpowerOrder(b, t, c, p, e, dyn)
            \/ \E b \in Buyers, c \in Payments, p \in Prices, e \in Expiries,
                  dyn \in BOOLEAN : PlaceBuyerOrder(b, c, p, e, dyn)
  BY <1>7, <1>8, <1>10, Zenon DEF PlaceHashpowerOrder, PlaceBuyerOrder
<1>11. CASE \/ NextEpoch \/ DerivedShare \/ UNCHANGED buyerVars
            \/ \E o \in orders, p \in Prices : UpdateOrderPrice(o, p)
            \/ \E o \in orders, c \in Payments : TopUpOrder(o, c)
            \/ \E o \in orders : CancelOrder(o)
            \/ \E o \in orders, m \in Miners, t \in 1 .. Len(templates), n \in Nonces :
                 \E x \in mrs, d \in dedups : SubmitShareForPay(o, m, t, n, x, d)
  BY <1>6, <1>8, <1>11, Zenon
<1> QED
  BY <1>4, <1>9, <1>10, <1>11, Zenon DEF BuyerNext, DerivedShare

-----------------------------------------------------------------------------
(* What is left in an order and what it paid, as functions of plain sets.  *)

Left(S, id) == IF \E o \in S : o.id = id THEN (CHOOSE o \in S : o.id = id).budget ELSE 0
PaidSum(F, id) == SumOver({f \in F : f.order = id},
                          [f \in {g \in F : g.order = id} |-> f.payout])
OneOrderPerId(S) == \A o, p \in S : o.id = p.id => o = p

\* An order holds its budget.
LEMMA LeftOne ==
  ASSUME NEW S, OneOrderPerId(S), NEW o \in S
  PROVE  Left(S, o.id) = o.budget
<1>1. (CHOOSE p \in S : p.id = o.id) = o
  BY DEF OneOrderPerId
<1> QED
  BY <1>1 DEF Left

\* An id without an order holds nothing.
LEMMA LeftNone ==
  ASSUME NEW S, NEW id, \A o \in S : o.id # id
  PROVE  Left(S, id) = 0
BY DEF Left

\* What is left under an id depends on the orders with that id only.
LEMMA LeftSame ==
  ASSUME NEW S, NEW T, OneOrderPerId(S), OneOrderPerId(T), NEW id,
         \A o \in S : o.id = id => o \in T, \A o \in T : o.id = id => o \in S
  PROVE  Left(T, id) = Left(S, id)
<1>1. CASE \E o \in S : o.id = id
  <2>1. PICK o \in S : o.id = id
    BY <1>1
  <2>2. Left(S, o.id) = o.budget /\ Left(T, o.id) = o.budget
    BY <2>1, LeftOne
  <2> QED
    BY <2>1, <2>2
<1>2. CASE \A o \in S : o.id # id
  <2>1. \A o \in T : o.id # id
    BY <1>2
  <2> QED
    BY <1>2, <2>1, LeftNone
<1> QED
  BY <1>1, <1>2

\* What an order paid is a natural number.
LEMMA PaidType ==
  ASSUME NEW F, IsFiniteSet(F), \A f \in F : f.payout \in Nat, NEW id
  PROVE  PaidSum(F, id) \in Nat
<1> DEFINE S == {f \in F : f.order = id}
<1>1. IsFiniteSet(S) /\ \A f \in S : f.payout \in Nat
  BY FS_Subset
<1>2. FieldSum(S, "payout") \in Nat
  <2> HIDE DEF S
  <2> QED
    BY <1>1, FieldSumType
<1> QED
  BY <1>2 DEF PaidSum, FieldSum

\* A new fill adds its payout to what its order paid, and to nothing else.
LEMMA PaidInsert ==
  ASSUME NEW F, IsFiniteSet(F), \A f \in F : f.payout \in Nat, NEW y, y \notin F,
         y.payout \in Nat
  PROVE  /\ PaidSum(F \cup {y}, y.order) = PaidSum(F, y.order) + y.payout
         /\ \A id : PaidSum(F, id) \in Nat
         /\ \A id : id # y.order => PaidSum(F \cup {y}, id) = PaidSum(F, id)
<1>1. \A id : PaidSum(F, id) \in Nat
  BY PaidType
<1>2. PaidSum(F \cup {y}, y.order) = PaidSum(F, y.order) + y.payout
  <2> DEFINE S == {f \in F : f.order = y.order}
  <2>1. IsFiniteSet(S) /\ y \notin S /\ \A f \in S : f.payout \in Nat
    BY FS_Subset
  <2>2. {f \in F \cup {y} : f.order = y.order} = S \cup {y}
    OBVIOUS
  <2>3. FieldSum(S \cup {y}, "payout") = FieldSum(S, "payout") + y.payout
    <3> HIDE DEF S
    <3> QED
      BY <2>1, FieldSumInsert
  <2> QED
    BY <2>2, <2>3 DEF PaidSum, FieldSum
<1>3. ASSUME NEW id, id # y.order PROVE PaidSum(F \cup {y}, id) = PaidSum(F, id)
  <2>1. {f \in F \cup {y} : f.order = id} = {f \in F : f.order = id}
    BY <1>3
  <2> QED
    BY <2>1 DEF PaidSum
<1> QED
  BY <1>1, <1>2, <1>3

-----------------------------------------------------------------------------
(* The books of the orders.                                                *)

\* The part of the invariant that is about orders and money.
BooksOK ==
  /\ orders \subseteq OrderType /\ placed \subseteq OrderType
  /\ PlacedInv /\ OrdersInv /\ FundsInv
  /\ OrderFundsConserved /\ OrdersPayAsPlaced
  /\ \A f \in fills : f.template \in 1 .. Len(templates)

\* Lists only grow.
Grown ==
  /\ Len(templates) \in Nat /\ Len(templates') \in Nat /\ Len(templates) <= Len(templates')
  /\ \A t \in 1 .. Len(templates) : owners'[t] = owners[t]

\* The equation of one id.
Balanced(S, F, rec, ref, id) == rec[id] = Left(S, id) + PaidSum(F, id) + ref[id]

\* What conservation says, in those terms.
LEMMA ConservedForm ==
  /\ OrderFundsConserved <=> \A id \in OrderIds : Balanced(orders, fills, received, refunded, id)
  /\ OrderFundsConserved' <=>
       \A id \in OrderIds : Balanced(orders', fills', received', refunded', id)
BY DEF OrderFundsConserved, Balanced, LeftIn, PaidBy, Left, PaidSum, SumOver, Units, Block

\* Steps that touch no order, no fill and no money.
LEMMA BooksQuiet ==
  ASSUME BooksOK, Grown, UNCHANGED <<orders, placed, fills, received, refunded>>
  PROVE  BooksOK'
<1>1. PlacedInv' /\ (\A f \in fills' : f.template \in 1 .. Len(templates'))
  BY DEF BooksOK, Grown, PlacedInv
<1>2. OrdersInv' /\ FundsInv'
  BY DEF BooksOK, OrdersInv, FundsInv, OrderIds
<1>3. OrderFundsConserved'
  BY ConservedForm DEF BooksOK, OrderIds
<1>4. OrdersPayAsPlaced'
  BY DEF BooksOK, Grown, OrdersPayAsPlaced
<1> QED
  BY <1>1, <1>2, <1>3, <1>4 DEF BooksOK

\* A new order takes a fresh id, under which no money has moved.
LEMMA BooksPlace ==
  ASSUME BooksOK, Grown, NEW r \in OrderType, NEW c \in Payments, Place(r, c),
         templates' = templates, owners' = owners,
         r.template_id # AnyTemplate => /\ r.template_id \in 1 .. Len(templates)
                                        /\ owners[r.template_id] = r.buyer
  PROVE  BooksOK'
<1> DEFINE id == Cardinality(placed) + 1
           o == [r EXCEPT !.id = id, !.budget = c]
<1>0. /\ IsFiniteSet(placed) /\ Cardinality(placed) \in Nat /\ id \in Nat
      /\ c \in Nat /\ c \in 0 .. U64Max
  BY FS_CardinalityType, BuyerLaneAssumption DEF BooksOK, PlacedInv
<1>1. /\ id \in OrderIds /\ orders' = orders \cup {o} /\ placed' = placed \cup {o}
      /\ received' = [received EXCEPT ![id] = c]
      /\ UNCHANGED <<fills, refunded>>
  BY DEF Place
<1>2. /\ o \in OrderType /\ o.id = id /\ o.budget = c /\ o.buyer = r.buyer
      /\ o.template_id = r.template_id
  <2> HIDE DEF id
  <2> QED
    BY <1>0 DEF OrderType
<1>3. \A p \in placed : p.id # id
  BY <1>0 DEF BooksOK, PlacedInv
<1>4. o \notin placed /\ \A p \in orders : p.id # id
  <2> HIDE DEF o, id
  <2>1. \A p \in orders : \E q \in placed : q.id = p.id
    BY DEF BooksOK, OrdersInv
  <2> QED
    BY <1>2, <1>3, <2>1
<1> HIDE DEF o
<1>5. IsFiniteSet(placed') /\ Cardinality(placed') = id
  BY <1>0, <1>1, <1>4, FS_AddElement
<1>6. PlacedInv'
  <2>1. \A p \in placed' : p.id \in 1 .. Cardinality(placed')
    BY <1>0, <1>1, <1>2, <1>5 DEF BooksOK, PlacedInv
  <2> QED
    BY <1>1, <1>2, <1>5, <2>1 DEF BooksOK, PlacedInv
<1>7. refunded[id] = 0 /\ received[id] = 0 /\ \A f \in fills : f.order # id
  BY <1>0, <1>1 DEF BooksOK, FundsInv
<1>8. OrdersInv'
  <2>1. \A p, q \in orders' : p.id = q.id => p = q
    BY <1>1, <1>2, <1>4 DEF BooksOK, OrdersInv
  <2> QED
    BY <1>1, <1>2, <1>7, <2>1 DEF BooksOK, OrdersInv
<1>9. FundsInv'
  <2>1. received' \in [OrderIds -> Nat] /\ refunded' \in [OrderIds -> Nat]
    BY <1>0, <1>1 DEF BooksOK, FundsInv
  <2>2. \A i \in OrderIds : i > Cardinality(placed') => received'[i] = 0 /\ refunded'[i] = 0
    BY <1>0, <1>1, <1>5 DEF BooksOK, FundsInv, OrderIds
  <2>3. \A f \in fills' : /\ f.no \in Nat /\ f.no < Cardinality(fills')
                          /\ f.payout \in Nat
                          /\ f.order \in 1 .. Cardinality(placed')
    BY <1>0, <1>1, <1>5 DEF BooksOK, FundsInv
  <2> QED
    BY <1>1, <2>1, <2>2, <2>3 DEF BooksOK, FundsInv, OrderIds
<1>10. OrderFundsConserved'
  <2>0. OneOrderPerId(orders) /\ OneOrderPerId(orders')
    BY <1>8 DEF BooksOK, OrdersInv, OneOrderPerId
  <2>1. Balanced(orders', fills', received', refunded', id)
    <3>1. Left(orders', id) = c
      BY <1>1, <1>2, <2>0, LeftOne
    <3>2. PaidSum(fills', id) = 0
      <4>1. {f \in fills : f.order = id} = {}
        BY <1>7
      <4> QED
        BY <1>1, <4>1, SumEmpty DEF PaidSum
    <3>3. received'[id] = c /\ refunded'[id] = 0
      BY <1>1, <1>7 DEF BooksOK, FundsInv
    <3> HIDE DEF id
    <3> QED
      BY <1>0, <3>1, <3>2, <3>3 DEF Balanced
  <2>2. ASSUME NEW i \in OrderIds, i # id
        PROVE  Balanced(orders', fills', received', refunded', i)
    <3>1. Left(orders', i) = Left(orders, i)
      BY <1>1, <1>2, <2>0, <2>2, LeftSame
    <3>2. received'[i] = received[i] /\ refunded'[i] = refunded[i] /\ fills' = fills
      BY <1>1, <2>2 DEF BooksOK, FundsInv
    <3> QED
      BY <3>1, <3>2, ConservedForm DEF BooksOK, Balanced
  <2> QED
    BY <2>1, <2>2, ConservedForm
<1>11. OrdersPayAsPlaced'
  BY <1>1 DEF BooksOK, OrdersPayAsPlaced
<1> QED
  BY <1>1, <1>2, <1>6, <1>8, <1>9, <1>10, <1>11 DEF BooksOK

\* A live order is replaced by one with the same terms; what happens to its budget is
\* matched by what happens to the money paid in and paid out.
LEMMA BooksReplace ==
  ASSUME BooksOK, Grown, NEW o \in orders, NEW p \in OrderType,
         p.id = o.id, p.buyer = o.buyer, p.template_id = o.template_id,
         p.is_dynamic = o.is_dynamic,
         o.is_dynamic \/ p.price_per_difficulty = o.price_per_difficulty,
         orders' = (orders \ {o}) \cup {p}, UNCHANGED <<templates, owners, placed, refunded>>
  PROVE  /\ OrdersInv' /\ PlacedInv' /\ orders' \subseteq OrderType
         /\ OneOrderPerId(orders) /\ OneOrderPerId(orders')
         /\ Left(orders, o.id) = o.budget /\ Left(orders', o.id) = p.budget
         /\ \A i \in OrderIds : i # o.id => Left(orders', i) = Left(orders, i)
<1>1. \A q, s \in orders' : q.id = s.id => q = s
  BY DEF BooksOK, OrdersInv
<1>2. OrdersInv'
  <2>3. placed' = placed /\ refunded' = refunded
    OBVIOUS
  <2>1. ASSUME NEW q \in orders'
        PROVE  \E s \in placed' :
                 /\ s.id = q.id /\ s.buyer = q.buyer
                 /\ s.template_id = q.template_id
                 /\ s.is_dynamic = q.is_dynamic
                 /\ s.is_dynamic \/ s.price_per_difficulty = q.price_per_difficulty
    <3>1. CASE q = p
      <4>1. PICK s \in placed :
               /\ s.id = o.id /\ s.buyer = o.buyer /\ s.template_id = o.template_id
               /\ s.is_dynamic = o.is_dynamic
               /\ s.is_dynamic \/ s.price_per_difficulty = o.price_per_difficulty
        BY DEF BooksOK, OrdersInv
      <4>2. s.is_dynamic \/ s.price_per_difficulty = p.price_per_difficulty
        BY <4>1, Zenon
      <4> QED
        BY <2>3, <3>1, <4>1, <4>2, Zenon
    <3>2. CASE q # p
      BY <2>1, <2>3, <3>2 DEF BooksOK, OrdersInv
    <3> QED
      BY <3>1, <3>2
  <2>2. \A q \in orders' : q.id \in OrderIds /\ refunded[q.id] = 0
    BY DEF BooksOK, OrdersInv
  <2>5. \A q \in orders' : q.id \in OrderIds /\ refunded'[q.id] = 0
    BY <2>2, <2>3
  <2> QED
    BY <1>1, <2>1, <2>5, Zenon DEF OrdersInv, OrderIds
<1>3. PlacedInv' /\ orders' \subseteq OrderType
  BY DEF BooksOK, PlacedInv
<1>4. OneOrderPerId(orders) /\ OneOrderPerId(orders')
  BY <1>1 DEF BooksOK, OrdersInv, OneOrderPerId
<1>5. Left(orders, o.id) = o.budget /\ Left(orders', o.id) = p.budget
  <2>1. p \in orders'
    OBVIOUS
  <2> QED
    BY <1>4, <2>1, LeftOne
<1>6. ASSUME NEW i \in OrderIds, i # o.id PROVE Left(orders', i) = Left(orders, i)
  BY <1>4, <1>6, LeftSame
<1> QED
  BY <1>2, <1>3, <1>4, <1>5, <1>6

\* Re-pricing moves no money.
LEMMA BooksReprice ==
  ASSUME BooksOK, Grown, NEW o \in orders, NEW c \in Prices, UpdateOrderPrice(o, c)
  PROVE  BooksOK'
<1> DEFINE p == [o EXCEPT !.price_per_difficulty = c]
<1>1. /\ orders' = (orders \ {o}) \cup {p} /\ o.is_dynamic /\ c > 0
      /\ UNCHANGED <<templates, owners, placed, fills, received, refunded>>
  BY DEF UpdateOrderPrice, MayReprice, vars
<1>2. /\ p \in OrderType /\ p.id = o.id /\ p.buyer = o.buyer /\ p.template_id = o.template_id
      /\ p.is_dynamic = o.is_dynamic /\ p.budget = o.budget
  <2>1. o \in OrderType /\ c \in Nat \ {0}
    BY <1>1, BuyerLaneAssumption DEF BooksOK
  <2> QED
    BY <2>1 DEF OrderType
<1> HIDE DEF p
<1>3. /\ OrdersInv' /\ PlacedInv' /\ orders' \subseteq OrderType
      /\ Left(orders, o.id) = o.budget /\ Left(orders', o.id) = p.budget
      /\ \A i \in OrderIds : i # o.id => Left(orders', i) = Left(orders, i)
  BY <1>1, <1>2, BooksReplace
<1>4. OrderFundsConserved'
  <2>1. ASSUME NEW i \in OrderIds PROVE Left(orders', i) = Left(orders, i)
    BY <1>2, <1>3
  <2> QED
    BY <1>1, <2>1, ConservedForm DEF BooksOK, Balanced
<1>5. FundsInv' /\ OrdersPayAsPlaced'
  BY <1>1 DEF BooksOK, FundsInv, OrdersPayAsPlaced, OrderIds
<1> QED
  BY <1>1, <1>3, <1>4, <1>5 DEF BooksOK

\* A top-up raises the budget and what was paid in by the same amount.
LEMMA BooksTopUp ==
  ASSUME BooksOK, Grown, NEW o \in orders, NEW c \in Payments, TopUpOrder(o, c)
  PROVE  BooksOK'
<1> DEFINE b == o.budget + c
           p == [o EXCEPT !.budget = b]
<1>1. /\ orders' = (orders \ {o}) \cup {p} /\ b <= U64Max
      /\ received' = [received EXCEPT ![o.id] = received[o.id] + c]
      /\ UNCHANGED <<templates, owners, placed, fills, refunded>>
  BY DEF TopUpOrder, ToppedUp, vars
<1>0. o \in OrderType /\ o.budget \in Nat /\ c \in Nat /\ b \in Nat /\ o.id \in OrderIds
  BY BuyerLaneAssumption DEF BooksOK, OrderType, OrdersInv
<1>2. /\ p \in OrderType /\ p.id = o.id /\ p.buyer = o.buyer /\ p.template_id = o.template_id
      /\ p.is_dynamic = o.is_dynamic /\ p.price_per_difficulty = o.price_per_difficulty
      /\ p.budget = b
  <2>1. b \in 0 .. U64Max
    BY <1>0, <1>1, BuyerLaneAssumption
  <2> HIDE DEF b
  <2> QED
    BY <1>0, <2>1 DEF OrderType
<1> HIDE DEF p
<1>3. /\ OrdersInv' /\ PlacedInv' /\ orders' \subseteq OrderType
      /\ Left(orders, o.id) = o.budget /\ Left(orders', o.id) = p.budget
      /\ \A i \in OrderIds : i # o.id => Left(orders', i) = Left(orders, i)
  BY <1>1, <1>2, BooksReplace
<1>4. FundsInv'
  <2>1. received' \in [OrderIds -> Nat]
    BY <1>0, <1>1 DEF BooksOK, FundsInv
  <2>2. o.id <= Cardinality(placed)
    <3>1. PICK q \in placed : q.id = o.id
      BY DEF BooksOK, OrdersInv
    <3> QED
      BY <3>1 DEF BooksOK, PlacedInv
  <2>3. \A i \in OrderIds : i > Cardinality(placed) => received'[i] = 0
    <3>1. Cardinality(placed) \in Nat
      BY FS_CardinalityType DEF BooksOK, PlacedInv
    <3> QED
      BY <1>0, <1>1, <2>2, <3>1 DEF BooksOK, FundsInv, OrderIds
  <2> QED
    BY <1>1, <2>1, <2>3 DEF BooksOK, FundsInv, OrderIds
<1>5. OrderFundsConserved'
  <2>0. \A i \in OrderIds : PaidSum(fills, i) \in Nat /\ refunded[i] \in Nat /\ received[i] \in Nat
    BY PaidType DEF BooksOK, FundsInv
  <2>1. Balanced(orders', fills', received', refunded', o.id)
    <3>1. received'[o.id] = received[o.id] + c
      BY <1>0, <1>1 DEF BooksOK, FundsInv
    <3>2. received[o.id] = o.budget + PaidSum(fills, o.id) + refunded[o.id]
      BY <1>0, <1>3, ConservedForm DEF BooksOK, Balanced
    <3>3. Left(orders', o.id) = o.budget + c
      BY <1>2, <1>3
    <3>4. received[o.id] + c = (o.budget + c) + PaidSum(fills, o.id) + refunded[o.id]
      BY <1>0, <2>0, <3>2
    <3> QED
      BY <1>1, <3>1, <3>3, <3>4 DEF Balanced
  <2>2. ASSUME NEW i \in OrderIds, i # o.id
        PROVE  Balanced(orders', fills', received', refunded', i)
    <3>1. received'[i] = received[i]
      BY <1>1, <2>2 DEF BooksOK, FundsInv
    <3> QED
      BY <1>1, <1>3, <2>2, <3>1, ConservedForm DEF BooksOK, Balanced
  <2> QED
    BY <2>1, <2>2, ConservedForm
<1>6. OrdersPayAsPlaced'
  BY <1>1 DEF BooksOK, OrdersPayAsPlaced
<1> QED
  BY <1>1, <1>3, <1>4, <1>5, <1>6 DEF BooksOK

\* Cancellation hands the whole budget back.
LEMMA BooksCancel ==
  ASSUME BooksOK, Grown, NEW o \in orders, CancelOrder(o)
  PROVE  BooksOK'
<1>1. /\ orders' = orders \ {o} /\ refunded' = [refunded EXCEPT ![o.id] = o.budget]
      /\ UNCHANGED <<templates, owners, placed, fills, received>>
  BY DEF CancelOrder, vars
<1>0. /\ o \in OrderType /\ o.budget \in Nat /\ o.id \in OrderIds
      /\ refunded[o.id] = 0 /\ refunded \in [OrderIds -> Nat]
  BY DEF BooksOK, OrderType, OrdersInv, FundsInv
<1>2. \A q \in orders' : q \in orders /\ q.id # o.id
  BY <1>1 DEF BooksOK, OrdersInv
<1>3. OrdersInv'
  <2>1. \A q \in orders' : refunded'[q.id] = 0
    BY <1>0, <1>1, <1>2 DEF BooksOK, OrdersInv
  <2> QED
    BY <1>1, <1>2, <2>1 DEF BooksOK, OrdersInv, OrderIds
<1>4. PlacedInv' /\ orders' \subseteq OrderType /\ OrdersPayAsPlaced'
  BY <1>1 DEF BooksOK, PlacedInv, OrdersPayAsPlaced
<1>5. FundsInv'
  <2>1. refunded' \in [OrderIds -> Nat]
    BY <1>0, <1>1
  <2>2. o.id <= Cardinality(placed)
    <3>1. PICK q \in placed : q.id = o.id
      BY DEF BooksOK, OrdersInv
    <3> QED
      BY <3>1 DEF BooksOK, PlacedInv
  <2>3. \A i \in OrderIds : i > Cardinality(placed) => refunded'[i] = 0
    <3>1. Cardinality(placed) \in Nat
      BY FS_CardinalityType DEF BooksOK, PlacedInv
    <3> QED
      BY <1>0, <1>1, <2>2, <3>1 DEF BooksOK, FundsInv, OrderIds
  <2> QED
    BY <1>1, <2>1, <2>3 DEF BooksOK, FundsInv, OrderIds
<1>6. OrderFundsConserved'
  <2>0. OneOrderPerId(orders) /\ OneOrderPerId(orders')
    BY <1>2 DEF BooksOK, OrdersInv, OneOrderPerId
  <2>1. Balanced(orders', fills', received', refunded', o.id)
    <3>1. Left(orders, o.id) = o.budget /\ Left(orders', o.id) = 0
      BY <1>2, <2>0, LeftOne, LeftNone
    <3>2. received[o.id] = o.budget + PaidSum(fills, o.id)
      <4>1. received[o.id] = Left(orders, o.id) + PaidSum(fills, o.id) + refunded[o.id]
        BY <1>0, ConservedForm DEF BooksOK, Balanced
      <4>2. PaidSum(fills, o.id) \in Nat
        BY PaidType DEF BooksOK, FundsInv
      <4> QED
        BY <1>0, <3>1, <4>1, <4>2
    <3>3. refunded'[o.id] = o.budget
      BY <1>0, <1>1
    <3>4. PaidSum(fills, o.id) \in Nat
      BY PaidType DEF BooksOK, FundsInv
    <3>5. received[o.id] = 0 + PaidSum(fills, o.id) + o.budget
      BY <1>0, <3>2, <3>4
    <3> QED
      BY <1>1, <3>1, <3>3, <3>5 DEF Balanced
  <2>2. ASSUME NEW i \in OrderIds, i # o.id
        PROVE  Balanced(orders', fills', received', refunded', i)
    <3>1. refunded'[i] = refunded[i]
      BY <1>0, <1>1, <2>2
    <3>2. Left(orders', i) = Left(orders, i)
      BY <1>1, <2>0, <2>2, LeftSame
    <3> QED
      BY <1>1, <2>2, <3>1, <3>2, ConservedForm DEF BooksOK, Balanced
  <2> QED
    BY <2>1, <2>2, ConservedForm
<1> QED
  BY <1>1, <1>3, <1>4, <1>5, <1>6 DEF BooksOK

\* compute_payout is the product, saturated.
LEMMA PayoutIsMin ==
  ASSUME NEW d \in Nat, NEW p \in Nat
  PROVE  ComputePayout(d, p) \in Nat /\ ComputePayout(d, p) = Min({U64Max, d * p})
<1> DEFINE x == d * p
           c == IF x > U64Max THEN U64Max ELSE x
<1>1. x \in Nat /\ U64Max \in Nat
  BY ProductType, BuyerLaneAssumption
<1>2. ComputePayout(d, p) = c
  BY DEF ComputePayout
<1>3. c \in Nat /\ Min({U64Max, x}) = c
  <2> HIDE DEF x
  <2>1. c \in {U64Max, x} /\ c \in Nat /\ \A y \in {U64Max, x} : c <= y
    BY <1>1
  <2>2. \A z \in {U64Max, x} : (\A y \in {U64Max, x} : z <= y) => z = c
    BY <1>1
  <2> HIDE DEF c
  <2> QED
    BY <2>1, <2>2 DEF Min
<1> QED
  BY <1>2, <1>3

\* An order that pays: the payout leaves its budget and is entered as one new fill.
LEMMA BooksPay ==
  ASSUME BooksOK, Grown, NEW o \in orders, NEW m, NEW t \in 1 .. Len(templates), NEW hash,
         NEW diff \in Nat, PayForShare(o, m, t, hash, diff), templates' = templates
  PROVE  BooksOK'
<1> DEFINE pay == ComputePayout(diff, o.price_per_difficulty)
           b == o.budget - pay
           p == [o EXCEPT !.budget = b]
           y == [no |-> Cardinality(fills), order |-> o.id, miner |-> m, template |-> t,
                 hash |-> hash, difficulty |-> diff, payout |-> pay]
<1>0. /\ o \in OrderType /\ o.budget \in Nat /\ o.budget <= U64Max /\ o.id \in OrderIds
      /\ o.price_per_difficulty \in Nat
      /\ IsFiniteSet(fills) /\ Cardinality(fills) \in Nat
      /\ refunded \in [OrderIds -> Nat] /\ received \in [OrderIds -> Nat]
  BY BuyerLaneAssumption, FS_CardinalityType DEF BooksOK, OrderType, OrdersInv, FundsInv
<1>1. /\ orders' = (orders \ {o}) \cup {p} /\ o.budget >= pay /\ fills' = fills \cup {y}
      /\ MayPayFor(o, t)
      /\ UNCHANGED <<owners, placed, received, refunded>>
  BY DEF PayForShare, DrainOrderBudget
<1>2. pay \in Nat /\ pay = Min({U64Max, diff * o.price_per_difficulty})
  BY <1>0, PayoutIsMin
<1>3. /\ p \in OrderType /\ p.id = o.id /\ p.buyer = o.buyer /\ p.template_id = o.template_id
      /\ p.is_dynamic = o.is_dynamic /\ p.price_per_difficulty = o.price_per_difficulty
      /\ p.budget = b /\ b \in Nat /\ b + pay = o.budget
  <2> HIDE DEF pay
  <2>1. b \in 0 .. U64Max /\ b \in Nat /\ b + pay = o.budget
    <3>1. /\ pay \in Nat /\ o.budget >= pay /\ o.budget \in Nat /\ o.budget <= U64Max
          /\ U64Max \in Nat
      BY <1>0, <1>1, <1>2, BuyerLaneAssumption
    <3> QED
      BY <3>1
  <2> HIDE DEF b
  <2> QED
    BY <1>0, <2>1 DEF OrderType
<1>4. /\ y.no = Cardinality(fills) /\ y.order = o.id /\ y.miner = m /\ y.template = t
      /\ y.difficulty = diff /\ y.payout = pay
  <2> HIDE DEF pay
  <2> QED
    OBVIOUS
<1>5. y \notin fills
  <2> HIDE DEF y
  <2> QED
    BY <1>0, <1>4 DEF BooksOK, FundsInv
<1> HIDE DEF p, y, pay, b
<1>6. /\ OrdersInv' /\ PlacedInv' /\ orders' \subseteq OrderType
      /\ Left(orders, o.id) = o.budget /\ Left(orders', o.id) = p.budget
      /\ \A i \in OrderIds : i # o.id => Left(orders', i) = Left(orders, i)
  BY <1>1, <1>3, BooksReplace
<1>7. PICK q \in placed : /\ q.id = o.id /\ q.buyer = o.buyer
                          /\ q.template_id = o.template_id
                          /\ q.is_dynamic = o.is_dynamic
                          /\ (q.is_dynamic \/ q.price_per_difficulty = o.price_per_difficulty)
  BY DEF BooksOK, OrdersInv
<1>8. FundsInv'
  <2>1. IsFiniteSet(fills') /\ Cardinality(fills') = Cardinality(fills) + 1
    BY <1>0, <1>1, <1>5, FS_AddElement
  <2>2. \A f \in fills' : f.no \in Nat /\ f.no < Cardinality(fills') /\ f.payout \in Nat
    BY <1>0, <1>1, <1>2, <1>4, <2>1 DEF BooksOK, FundsInv
  <2>3. \A f \in fills' : f.order \in 1 .. Cardinality(placed')
    BY <1>1, <1>4, <1>7 DEF BooksOK, FundsInv, PlacedInv
  <2> QED
    BY <1>1, <2>1, <2>2, <2>3 DEF BooksOK, FundsInv, OrderIds
<1>9. OrderFundsConserved'
  <2>0. /\ PaidSum(fills', o.id) = PaidSum(fills, o.id) + pay
        /\ \A id : PaidSum(fills, id) \in Nat
        /\ \A id : id # o.id => PaidSum(fills', id) = PaidSum(fills, id)
    <3>1. \A f \in fills : f.payout \in Nat
      BY DEF BooksOK, FundsInv
    <3>2. y.payout \in Nat
      BY <1>2, <1>4
    <3>3. /\ PaidSum(fills \cup {y}, y.order) = PaidSum(fills, y.order) + y.payout
          /\ \A id : PaidSum(fills, id) \in Nat
          /\ \A id : id # y.order => PaidSum(fills \cup {y}, id) = PaidSum(fills, id)
      BY <1>0, <1>5, <3>1, <3>2, PaidInsert
    <3> QED
      BY <1>1, <1>4, <3>3
  <2>1. Balanced(orders', fills', received', refunded', o.id)
    <3>1. received[o.id] = o.budget + PaidSum(fills, o.id) + refunded[o.id]
      BY <1>0, <1>6, ConservedForm DEF BooksOK, Balanced
    <3>2. PaidSum(fills, o.id) \in Nat /\ refunded[o.id] \in Nat
      BY <1>0, <2>0
    <3>3. received[o.id] = b + (PaidSum(fills, o.id) + pay) + refunded[o.id]
      BY <1>2, <1>3, <3>1, <3>2
    <3> QED
      BY <1>1, <1>3, <1>6, <2>0, <3>3 DEF Balanced
  <2>2. ASSUME NEW i \in OrderIds, i # o.id
        PROVE  Balanced(orders', fills', received', refunded', i)
    <3>1. Left(orders', i) = Left(orders, i) /\ PaidSum(fills', i) = PaidSum(fills, i)
      BY <1>6, <2>0, <2>2
    <3> QED
      BY <1>1, <3>1, ConservedForm DEF BooksOK, Balanced
  <2> QED
    BY <2>1, <2>2, ConservedForm
<1>10. OrdersPayAsPlaced'
  <2>1. owners[t] = q.buyer
    <3>1. CASE o.template_id = AnyTemplate
      BY <1>1, <1>7, <3>1 DEF MayPayFor
    <3>2. CASE o.template_id # AnyTemplate
      <4>1. o.template_id = t
        BY <1>1, <3>2 DEF MayPayFor
      <4> QED
        BY <1>7, <3>2, <4>1 DEF BooksOK, PlacedInv
    <3> QED
      BY <3>1, <3>2
  <2>2. ~q.is_dynamic => pay = Min({U64Max, diff * q.price_per_difficulty})
    <3>1. CASE q.price_per_difficulty = o.price_per_difficulty
      BY <1>2, <3>1
    <3>2. CASE q.is_dynamic
      BY <3>2
    <3> QED
      BY <1>7, <3>1, <3>2, Zenon
  <2>3. \E s \in placed :
          /\ s.id = y.order
          /\ owners[y.template] = s.buyer
          /\ ~s.is_dynamic =>
               y.payout = Min({U64Max, y.difficulty * s.price_per_difficulty})
    BY <1>4, <1>7, <2>1, <2>2
  <2>4. placed' = placed /\ owners' = owners
    BY <1>1
  <2>5. OrdersPayAsPlaced
    BY DEF BooksOK
  <2>6. ASSUME NEW f \in fills'
        PROVE  \E s \in placed' :
                 /\ s.id = f.order
                 /\ owners'[f.template] = s.buyer
                 /\ ~s.is_dynamic =>
                      f.payout = Min({U64Max, f.difficulty * s.price_per_difficulty})
    <3>1. CASE f = y
      BY <2>3, <2>4, <3>1, Zenon
    <3>2. CASE f # y
      BY <1>1, <2>4, <2>5, <2>6, <3>2 DEF OrdersPayAsPlaced
    <3> QED
      BY <3>1, <3>2
  <2> QED
    BY <2>6, Zenon DEF OrdersPayAsPlaced
<1>11. \A f \in fills' : f.template \in 1 .. Len(templates')
  BY <1>1, <1>4 DEF BooksOK
<1>12. placed' \subseteq OrderType
  BY <1>1 DEF BooksOK
<1> QED
  BY <1>6, <1>8, <1>9, <1>10, <1>11, <1>12 DEF BooksOK

\* The terms of a new order fit their type, and a V1 order is bound by the owner.
LEMMA TermsType ==
  ASSUME BuyerTypeOK, NEW b \in Buyers, NEW k \in Nat, NEW q \in Prices, q > 0,
         NEW e \in Expiries, NEW dyn \in BOOLEAN
  PROVE  LET r == [id |-> 0, buyer |-> b, template_id |-> k, price_per_difficulty |-> q,
                   budget |-> 0, expires_epoch |-> e, is_dynamic |-> dyn]
         IN  r \in OrderType /\ r.buyer = b /\ r.template_id = k
<1>1. q \in Nat \ {0} /\ e \in Nat /\ 0 \in 0 .. U64Max
  BY BuyerLaneAssumption
<1> QED
  BY <1>1 DEF OrderType

\* The money part of the invariant is kept by every step.
LEMMA BooksStep ==
  ASSUME RoundsInv, BuyerTypeOK, TemplatesInv, BooksOK, [BuyerNext]_buyerVars
  PROVE  BooksOK'
<1>a. Len(templates) \in Nat
  BY DEF BuyerTypeOK, TypeOK
<1>0. Grown
  BY <1>a, ListsGrow DEF Grown
<1>1. CASE \/ RoundStep \/ NextEpoch \/ UNCHANGED buyerVars
           \/ \E t \in 1 .. Len(templates) : RegisterDerivedTemplate(t)
  <2>1. UNCHANGED <<orders, placed, fills, received, refunded>>
    BY <1>1 DEF RoundStep, NextEpoch, RegisterDerivedTemplate, buyerVars, laneVars
  <2> QED
    BY <1>0, <2>1, BooksQuiet
<1>2. ASSUME NEW b \in Buyers, NEW t \in 1 .. Len(templates), NEW c \in Payments,
             NEW p \in Prices, NEW e \in Expiries, NEW dyn \in BOOLEAN,
             PlaceHashpowerOrder(b, t, c, p, e, dyn)
      PROVE  BooksOK'
  <2> DEFINE r == [id |-> 0, buyer |-> b, template_id |-> t, price_per_difficulty |-> p,
                   budget |-> 0, expires_epoch |-> e, is_dynamic |-> dyn]
  <2>1. Place(r, c) /\ owners[t] = b /\ p > 0
    BY <1>2 DEF PlaceHashpowerOrder
  <2>2. r \in OrderType /\ r.buyer = b /\ r.template_id = t
    <3>1. t \in Nat
      BY <1>a
    <3> QED
      BY <2>1, <3>1, TermsType
  <2> HIDE DEF r
  <2>3. templates' = templates /\ owners' = owners
    BY <2>1 DEF Place, vars
  <2> QED
    BY <1>0, <2>1, <2>2, <2>3, BooksPlace
<1>3. ASSUME NEW b \in Buyers, NEW c \in Payments, NEW p \in Prices, NEW e \in Expiries,
             NEW dyn \in BOOLEAN, PlaceBuyerOrder(b, c, p, e, dyn)
      PROVE  BooksOK'
  <2> DEFINE r == [id |-> 0, buyer |-> b, template_id |-> AnyTemplate,
                   price_per_difficulty |-> p, budget |-> 0, expires_epoch |-> e,
                   is_dynamic |-> dyn]
  <2>1. Place(r, c) /\ p > 0
    BY <1>3 DEF PlaceBuyerOrder
  <2>2. r \in OrderType /\ r.template_id = AnyTemplate
    <3>1. AnyTemplate \in Nat
      BY DEF AnyTemplate
    <3> QED
      BY <2>1, <3>1, TermsType
  <2> HIDE DEF r
  <2>3. templates' = templates /\ owners' = owners
    BY <2>1 DEF Place, vars
  <2> QED
    BY <1>0, <2>1, <2>2, <2>3, BooksPlace
<1>4. CASE \/ \E o \in orders, p \in Prices : UpdateOrderPrice(o, p)
           \/ \E o \in orders, c \in Payments : TopUpOrder(o, c)
           \/ \E o \in orders : CancelOrder(o)
  BY <1>0, <1>4, BooksReprice, BooksTopUp, BooksCancel
<1>5. ASSUME NEW o \in orders, NEW m \in Miners, NEW t \in 1 .. Len(templates),
             NEW n \in Nonces, NEW x \in mrs, NEW d \in dedups,
             SubmitShareForPay(o, m, t, n, x, d)
      PROVE  BooksOK'
  <2>1. PayForShare(o, m, t, ShareHash(t, n), HashDifficulty[n]) /\ templates' = templates
    BY <1>5 DEF SubmitShareForPay, SubmitShare
  <2>2. HashDifficulty[n] \in Nat
    BY RoundsAssumption
  <2> QED
    BY <1>0, <2>1, <2>2, BooksPay
<1>6. ASSUME NEW o \in orders, NEW m \in Miners, NEW i \in 1 .. Len(derived),
             NEW n \in Nonces, NEW x \in mrs, NEW d \in dedups,
             SubmitShareForPayDerived(o, m, i, n, x, d)
      PROVE  BooksOK'
  <2>1. /\ PayForShare(o, m, derived[i].parent, DerivedHash(i, n), HashDifficulty[n])
        /\ templates' = templates
    BY <1>6 DEF SubmitShareForPayDerived
  <2>2. HashDifficulty[n] \in Nat /\ derived[i].parent \in 1 .. Len(templates)
    BY RoundsAssumption DEF TemplatesInv
  <2> QED
    BY <1>0, <2>1, <2>2, BooksPay
<1> QED
  BY <1>1, <1>2, <1>3, <1>4, <1>5, <1>6, Zenon DEF BuyerNext

-----------------------------------------------------------------------------
(* Shares that were paid for stay in the dedup objects.                    *)

\* What a step of the round pipeline does to the dedup objects of a key: they stay
\* unique, and hashes leave them only when the key is entered in drained.
LEMMA DedupsKeep ==
  ASSUME TypeOK, OneDedupPerKey, [Next]_vars
  PROVE  /\ OneDedupPerKey'
         /\ drained \subseteq drained'
         /\ \A d \in dedups : \A h \in d.hashes :
              \/ Key(d) \in drained'
              \/ \E e \in dedups' : Key(e) = Key(d) /\ h \in e.hashes
<1>a. \A d \in dedups : d \in DedupType
  BY DEF TypeOK
<1>1. CASE UNCHANGED <<dedups, dedupRegistry, drained>>
  BY <1>1 DEF OneDedupPerKey, Key
<1>2. ASSUME NEW m \in Miners, NEW r \in Rounds, CreateShareDedup(m, r)
      PROVE  /\ OneDedupPerKey' /\ dedups \subseteq dedups' /\ drained' = drained
  <2> DEFINE d == [round_id |-> r, miner |-> m, hashes |-> {}]
  <2>1. /\ <<m, r>> \notin dedupRegistry /\ dedupRegistry' = dedupRegistry \cup {<<m, r>>}
        /\ dedups' = dedups \cup {d} /\ drained' = drained
    BY <1>2 DEF CreateShareDedup
  <2>2. Key(d) = <<m, r>>
    BY DEF Key
  <2> HIDE DEF d
  <2> QED
    BY <2>1, <2>2 DEF OneDedupPerKey, Key
<1>3. ASSUME NEW d \in dedups, NEW H \in SUBSET d.hashes, CloseShareDedup(d, H)
      PROVE  /\ OneDedupPerKey' /\ drained \subseteq drained'
             /\ \A f \in dedups : \A h \in f.hashes :
                  \/ Key(f) \in drained'
                  \/ \E e \in dedups' : Key(e) = Key(f) /\ h \in e.hashes
  <2> DEFINE e == [d EXCEPT !.hashes = @ \ (d.hashes \cap H)]
  <2>1. /\ dedups' = (dedups \ {d}) \cup {e} /\ dedupRegistry' = dedupRegistry
        /\ drained' = IF d.hashes \cap H = {} THEN drained ELSE drained \cup {Key(d)}
    BY <1>3 DEF CloseShareDedup
  <2>2. Key(e) = Key(d) /\ e.hashes = d.hashes \ (d.hashes \cap H)
    BY <1>a DEF Key, DedupType
  <2> HIDE DEF e
  <2>3. OneDedupPerKey'
    BY <2>1, <2>2 DEF OneDedupPerKey, Key
  <2>4. \A h \in d.hashes : Key(d) \in drained' \/ h \in e.hashes
    BY <2>1, <2>2
  <2> QED
    BY <2>1, <2>2, <2>3, <2>4
<1>4. ASSUME NEW d \in dedups, DeleteShareDedup(d)
      PROVE  /\ OneDedupPerKey' /\ drained' = drained
             /\ \A f \in dedups : \A h \in f.hashes : f \in dedups'
  <2>1. /\ d.hashes = {} /\ dedups' = dedups \ {d}
        /\ UNCHANGED <<dedupRegistry, drained>>
    BY <1>4 DEF DeleteShareDedup
  <2> QED
    BY <2>1 DEF OneDedupPerKey, Key
<1>5. ASSUME NEW m, NEW t, NEW n \in Nonces, NEW x, NEW d \in dedups, NEW sell,
             SubmitShare(m, t, n, x, d, sell)
      PROVE  /\ OneDedupPerKey' /\ drained' = drained
             /\ \A f \in dedups : \A h \in f.hashes :
                  \E e \in dedups' : Key(e) = Key(f) /\ h \in e.hashes
  <2> DEFINE e == CheckAndRecord(d, ShareHash(t, n))
  <2>1. /\ dedups' = (dedups \ {d}) \cup {e} /\ dedupRegistry' = dedupRegistry
        /\ drained' = drained
    BY <1>5 DEF SubmitShare
  <2>2. Key(e) = Key(d) /\ e.hashes = d.hashes \cup {ShareHash(t, n)}
    BY <1>a DEF CheckAndRecord, DedupType, Key
  <2> HIDE DEF e
  <2> QED
    BY <2>1, <2>2 DEF OneDedupPerKey, Key
<1>6. ASSUME NEW acc, NEW m, NEW batch, AccumulateMinerStats(acc, m, batch)
      PROVE  UNCHANGED <<dedups, dedupRegistry, drained>>
  BY <1>6 DEF AccumulateMinerStats, dedupVars
<1>7. ASSUME \/ Tick \/ ResetDifficulty
             \/ \E h \in Heights, nd \in NetworkDifficulties : RegisterTemplate(h, nd)
             \/ \E diff \in Difficulties : SetDifficulty(diff)
             \/ \E m \in Miners : RegisterMiner(m)
             \/ \E m \in Miners, r \in Rounds, h \in Heights : CreateRoundStats(m, r, h)
             \/ \E x \in mrs : CloseMinerRoundStats(x)
             \/ \E c \in claims : OpenRoundAccumulatorFromClaim(c)
             \/ \E acc \in accumulators : FinalizeRound(acc)
             \/ UNCHANGED vars
      PROVE  UNCHANGED <<dedups, dedupRegistry, drained>>
  BY <1>7 DEF Tick, ResetDifficulty, RegisterTemplate, SetDifficulty, RegisterMiner,
              CreateRoundStats, CloseMinerRoundStats, OpenRoundAccumulatorFromClaim,
              FinalizeRound, vars, dedupVars
<1> QED
  BY <1>1, <1>2, <1>3, <1>4, <1>5, <1>6, <1>7, Zenon DEF Next

\* The same for every step of the lane.
LEMMA HashesKept ==
  ASSUME RoundsInv, BuyerTypeOK, OneDedupPerKey, [BuyerNext]_buyerVars
  PROVE  /\ OneDedupPerKey'
         /\ drained \subseteq drained'
         /\ \A d \in dedups : \A h \in d.hashes :
              \/ Key(d) \in drained'
              \/ \E e \in dedups' : Key(e) = Key(d) /\ h \in e.hashes
<1>1. CASE [Next]_vars
  BY <1>1, DedupsKeep DEF RoundsInv
<1>2. CASE DerivedShare
  <2>1. PICK o \in orders, m \in Miners, i \in 1 .. Len(derived), n \in Nonces :
          \E x \in mrs, d \in dedups : SubmitShareForPayDerived(o, m, i, n, x, d)
    BY <1>2, Zenon DEF DerivedShare
  <2>2. PICK x \in mrs, d \in dedups : SubmitShareForPayDerived(o, m, i, n, x, d)
    BY <2>1
  <2>3. PICK y \in RoundStatsType, e \in DedupType : DerivedView(m, i, n, x, d, y, e)
    BY <2>2, DerivedEffect, Zenon
  <2> QED
    BY <2>3 DEF DerivedView, OneDedupPerKey, Key
<1> QED
  BY <1>1, <1>2, LaneCases

\* A share that is paid for: its hash was not in the dedup object of its round before,
\* and is afterwards.
NewFill(y, d) ==
  /\ y.template \in 1 .. Len(templates)
  /\ y.hash[1] \in Nat
  /\ IF y.hash[1] <= MaxTemplates THEN y.hash[1] \in 1 .. Len(templates)
                                  ELSE y.hash[1] - MaxTemplates \in 1 .. Len(derived)
  /\ Key(d) = <<y.miner, HashRound(y.hash)>>
  /\ y.hash \notin d.hashes
  /\ \E e \in dedups' : Key(e) = Key(d) /\ y.hash \in e.hashes

LEMMA FillEffect ==
  ASSUME BuyerTypeOK, TemplatesInv, [BuyerNext]_buyerVars
  PROVE  \/ fills' = fills
         \/ \E y : \E d \in dedups : /\ fills' = fills \cup {y} /\ NewFill(y, d)
                                     /\ UNCHANGED <<templates, derived, drained>>
<1>0. /\ \A d \in dedups : d \in DedupType
      /\ Len(templates) \in Nat /\ Len(derived) \in Nat /\ MaxTemplates \in Nat
  BY RoundsAssumption DEF BuyerTypeOK, TypeOK
<1>1. ASSUME NEW o \in orders, NEW m \in Miners, NEW t \in 1 .. Len(templates),
             NEW n \in Nonces, NEW x \in mrs, NEW d \in dedups,
             SubmitShareForPay(o, m, t, n, x, d)
      PROVE  \E y : /\ fills' = fills \cup {y} /\ NewFill(y, d)
                    /\ UNCHANGED <<templates, derived, drained>>
  <2> DEFINE pay == ComputePayout(HashDifficulty[n], o.price_per_difficulty)
             y == [no |-> Cardinality(fills), order |-> o.id, miner |-> m, template |-> t,
                   hash |-> ShareHash(t, n), difficulty |-> HashDifficulty[n],
                   payout |-> pay]
             e == CheckAndRecord(d, ShareHash(t, n))
  <2>1. fills' = fills \cup {y} /\ UNCHANGED <<templates, derived, drained>>
    BY <1>1 DEF SubmitShareForPay, PayForShare, SubmitShare
  <2>2. /\ d.miner = m /\ d.round_id = templates[t].round_id /\ ShareHash(t, n) \notin d.hashes
        /\ e \in dedups'
    BY <1>1 DEF SubmitShareForPay, SubmitShare
  <2>3. Key(e) = Key(d) /\ e.hashes = d.hashes \cup {ShareHash(t, n)}
    BY <1>0 DEF CheckAndRecord, DedupType, Key
  <2>4. y.template = t /\ y.miner = m /\ y.hash = ShareHash(t, n)
    <3> HIDE DEF pay
    <3> QED
      OBVIOUS
  <2>5. ShareHash(t, n)[1] = t /\ t \in Nat /\ t <= MaxTemplates
    BY <1>0 DEF ShareHash, TemplatesInv
  <2> HIDE DEF y, e
  <2>6. Key(d) = <<y.miner, HashRound(y.hash)>>
    BY <2>2, <2>4, <2>5 DEF Key, HashRound
  <2>7. NewFill(y, d)
    BY <2>2, <2>3, <2>4, <2>5, <2>6 DEF NewFill
  <2> QED
    BY <2>1, <2>7
<1>2. ASSUME NEW o \in orders, NEW m \in Miners, NEW i \in 1 .. Len(derived),
             NEW n \in Nonces, NEW x \in mrs, NEW d \in dedups,
             SubmitShareForPayDerived(o, m, i, n, x, d)
      PROVE  \E y : /\ fills' = fills \cup {y} /\ NewFill(y, d)
                    /\ UNCHANGED <<templates, derived, drained>>
  <2> DEFINE pay == ComputePayout(HashDifficulty[n], o.price_per_difficulty)
             y == [no |-> Cardinality(fills), order |-> o.id, miner |-> m,
                   template |-> derived[i].parent,
                   hash |-> DerivedHash(i, n), difficulty |-> HashDifficulty[n],
                   payout |-> pay]
             e == CheckAndRecord(d, DerivedHash(i, n))
  <2>1. fills' = fills \cup {y} /\ UNCHANGED <<templates, derived, drained>>
    BY <1>2 DEF SubmitShareForPayDerived, PayForShare
  <2>2. /\ d.miner = m /\ d.round_id = derived[i].round_id
        /\ DerivedHash(i, n) \notin d.hashes /\ e \in dedups'
    BY <1>2 DEF SubmitShareForPayDerived
  <2>3. Key(e) = Key(d) /\ e.hashes = d.hashes \cup {DerivedHash(i, n)}
    BY <1>0 DEF CheckAndRecord, DedupType, Key
  <2>4. y.template = derived[i].parent /\ y.miner = m /\ y.hash = DerivedHash(i, n)
    <3> HIDE DEF pay
    <3> QED
      OBVIOUS
  <2>5. /\ DerivedHash(i, n)[1] = MaxTemplates + i /\ MaxTemplates + i \in Nat
        /\ ~(MaxTemplates + i <= MaxTemplates) /\ (MaxTemplates + i) - MaxTemplates = i
    BY <1>0 DEF DerivedHash, ShareHash
  <2>a. derived[i].parent \in 1 .. Len(templates)
    BY DEF TemplatesInv
  <2> HIDE DEF y, e
  <2>6. Key(d) = <<y.miner, HashRound(y.hash)>>
    BY <2>2, <2>4, <2>5 DEF Key, HashRound
  <2>7. NewFill(y, d)
    BY <2>2, <2>3, <2>4, <2>5, <2>6, <2>a DEF NewFill
  <2> QED
    BY <2>1, <2>7
<1>3. ASSUME \/ RoundStep \/ NextEpoch \/ UNCHANGED buyerVars
             \/ \E t \in 1 .. Len(templates) : RegisterDerivedTemplate(t)
             \/ \E o \in orders, p \in Prices : UpdateOrderPrice(o, p)
             \/ \E o \in orders, c \in Payments : TopUpOrder(o, c)
             \/ \E o \in orders : CancelOrder(o)
      PROVE  fills' = fills
  BY <1>3 DEF RoundStep, NextEpoch, RegisterDerivedTemplate, UpdateOrderPrice, TopUpOrder,
              CancelOrder, buyerVars, laneVars
<1>4. ASSUME NEW r, NEW c, Place(r, c)
      PROVE  fills' = fills
  BY <1>4 DEF Place
<1> QED
  BY <1>1, <1>2, <1>3, <1>4, Zenon DEF BuyerNext, PlaceHashpowerOrder, PlaceBuyerOrder

\* The round of a recorded hash never changes.
LEMMA HashRoundKept ==
  ASSUME RoundsInv, BuyerTypeOK, TemplatesInv, FillsAreRecorded, [BuyerNext]_buyerVars,
         NEW f \in fills
  PROVE  /\ HashRound(f.hash)' = HashRound(f.hash)
         /\ HashRound(f.hash) \in Rounds
         /\ IF f.hash[1] <= MaxTemplates THEN f.hash[1] \in 1 .. Len(templates')
                                         ELSE f.hash[1] - MaxTemplates \in 1 .. Len(derived')
<1>1. /\ Len(templates') \in Nat /\ Len(templates) <= Len(templates')
      /\ \A t \in 1 .. Len(templates) : templates'[t] = templates[t]
      /\ Len(derived') \in Nat /\ Len(derived) <= Len(derived')
      /\ \A i \in 1 .. Len(derived) : derived'[i] = derived[i]
  BY ListsGrow
<1>2. Len(templates) \in Nat /\ Len(derived) \in Nat
  BY DEF BuyerTypeOK, TypeOK
<1> DEFINE k == f.hash[1]
           j == k - MaxTemplates
<1>3. CASE k <= MaxTemplates
  <2>1. k \in 1 .. Len(templates)
    BY <1>3 DEF FillsAreRecorded
  <2>2. k \in 1 .. Len(templates') /\ templates'[k] = templates[k]
    <3> HIDE DEF k
    <3> QED
      BY <1>1, <1>2, <2>1
  <2>3. templates[k].round_id \in Rounds
    BY <2>1 DEF TemplatesInv
  <2> QED
    BY <1>3, <2>2, <2>3 DEF HashRound
<1>4. CASE ~(k <= MaxTemplates)
  <2>1. j \in 1 .. Len(derived)
    BY <1>4 DEF FillsAreRecorded
  <2>2. j \in 1 .. Len(derived') /\ derived'[j] = derived[j]
    <3> HIDE DEF j
    <3> QED
      BY <1>1, <1>2, <2>1
  <2>3. derived[j].round_id \in Rounds
    BY <2>1 DEF TemplatesInv
  <2> QED
    BY <1>4, <2>2, <2>3 DEF HashRound
<1> QED
  BY <1>3, <1>4

\* Paid shares stay recorded.
LEMMA FillsStep ==
  ASSUME RoundsInv, BuyerTypeOK, TemplatesInv, OneDedupPerKey, FillsAreRecorded,
         [BuyerNext]_buyerVars
  PROVE  FillsAreRecorded'
<1> DEFINE Rec(f) ==
      /\ f.template \in 1 .. Len(templates')
      /\ f.hash[1] \in Nat
      /\ IF f.hash[1] <= MaxTemplates THEN f.hash[1] \in 1 .. Len(templates')
                                      ELSE f.hash[1] - MaxTemplates \in 1 .. Len(derived')
      /\ \/ <<f.miner, HashRound(f.hash)'>> \in drained'
         \/ \E d \in dedups' : Key(d) = <<f.miner, HashRound(f.hash)'>> /\ f.hash \in d.hashes
<1>1. ASSUME NEW f \in fills PROVE Rec(f)
  <2>1. /\ HashRound(f.hash)' = HashRound(f.hash)
        /\ IF f.hash[1] <= MaxTemplates THEN f.hash[1] \in 1 .. Len(templates')
                                        ELSE f.hash[1] - MaxTemplates \in 1 .. Len(derived')
    BY <1>1, HashRoundKept
  <2>2. f.template \in 1 .. Len(templates')
    <3>1. Len(templates') \in Nat /\ Len(templates) <= Len(templates') /\ Len(templates) \in Nat
      BY ListsGrow DEF BuyerTypeOK, TypeOK
    <3>2. f.template \in 1 .. Len(templates)
      BY DEF FillsAreRecorded
    <3> QED
      BY <3>1, <3>2
  <2> DEFINE k == <<f.miner, HashRound(f.hash)>>
  <2>3. k \in drained' \/ \E d \in dedups' : Key(d) = k /\ f.hash \in d.hashes
    <3>1. CASE k \in drained
      BY <3>1, HashesKept
    <3>2. CASE \E d \in dedups : Key(d) = k /\ f.hash \in d.hashes
      BY <3>2, HashesKept
    <3> QED
      BY <3>1, <3>2 DEF FillsAreRecorded
  <2>4. f.hash[1] \in Nat
    BY DEF FillsAreRecorded
  <2> QED
    BY <2>1, <2>2, <2>3, <2>4
<1>2. ASSUME NEW y, NEW d \in dedups, fills' = fills \cup {y}, NewFill(y, d),
             UNCHANGED <<templates, derived, drained>>
      PROVE  Rec(y)
  <2>1. HashRound(y.hash)' = HashRound(y.hash)
    BY <1>2 DEF HashRound
  <2> QED
    BY <1>2, <2>1 DEF NewFill
<1>3. \A f \in fills' : Rec(f)
  <2> HIDE DEF Rec
  <2> QED
    BY <1>1, <1>2, FillEffect
<1> QED
  BY <1>3 DEF FillsAreRecorded, Key

\* A share is paid for once.
LEMMA PaysOnceStep ==
  ASSUME RoundsInv, BuyerTypeOK, TemplatesInv, OneDedupPerKey, FillsAreRecorded,
         ASharePaysOnce, [BuyerNext]_buyerVars
  PROVE  ASharePaysOnce'
<1>0. drained \subseteq drained'
  BY HashesKept
<1>1. CASE fills' = fills
  BY <1>0, <1>1 DEF ASharePaysOnce, Rounds
<1>2. ASSUME NEW y, NEW d \in dedups, fills' = fills \cup {y}, NewFill(y, d)
      PROVE  ASharePaysOnce'
  <2>1. ASSUME NEW f \in fills, f.miner = y.miner, f.hash = y.hash,
               \A r \in Rounds : <<f.miner, r>> \notin drained'
        PROVE  FALSE
    <3>1. HashRound(f.hash) \in Rounds
      BY <2>1, HashRoundKept
    <3>2. <<f.miner, HashRound(f.hash)>> \notin drained
      BY <1>0, <2>1, <3>1
    <3>3. PICK e \in dedups : Key(e) = <<f.miner, HashRound(f.hash)>> /\ f.hash \in e.hashes
      BY <3>2 DEF FillsAreRecorded
    <3>4. e = d
      BY <1>2, <2>1, <3>3 DEF OneDedupPerKey, NewFill
    <3> QED
      BY <1>2, <2>1, <3>3, <3>4 DEF NewFill
  <2>2. ASSUME NEW f \in fills', NEW g \in fills', f.miner = g.miner, f.hash = g.hash,
               \A r \in Rounds : <<f.miner, r>> \notin drained'
        PROVE  f = g
    <3>1. CASE f \in fills /\ g \in fills
      BY <1>0, <2>2, <3>1 DEF ASharePaysOnce
    <3>2. CASE f = y /\ g \in fills
      BY <2>1, <2>2, <3>2
    <3>3. CASE g = y /\ f \in fills
      BY <2>1, <2>2, <3>3
    <3> QED
      BY <1>2, <3>1, <3>2, <3>3
  <2> QED
    BY <2>2 DEF ASharePaysOnce, Rounds
<1> QED
  BY <1>1, <1>2, FillEffect

-----------------------------------------------------------------------------
(* The theorems.                                                           *)

\* The lane's objects stay well formed.
LEMMA LaneType ==
  ASSUME RoundsInv, BuyerTypeOK, TemplatesInv, BooksOK, [BuyerNext]_buyerVars
  PROVE  BuyerTypeOK'
<1>1. TypeOK'
  BY LaneRounds DEF RoundsInv
<1>2. /\ owners' \in Seq(Buyers) /\ Len(owners') = Len(templates')
      /\ derived' \in Seq(DerivedType)
  BY ListsGrow
<1>3. orders' \subseteq OrderType /\ placed' \subseteq OrderType
  BY BooksStep DEF BooksOK
<1>4. epoch' \in Nat
  <2>1. epoch' = epoch \/ epoch' = epoch + 1
    <3>1. ASSUME NEW r, NEW c, Place(r, c) PROVE epoch' = epoch
      BY <3>1 DEF Place
    <3>2. ASSUME NEW o, NEW m, NEW t, NEW h, NEW diff, PayForShare(o, m, t, h, diff)
          PROVE  epoch' = epoch
      BY <3>2 DEF PayForShare
    <3>3. CASE \/ RoundStep \/ UNCHANGED buyerVars
               \/ \E t \in 1 .. Len(templates) : RegisterDerivedTemplate(t)
               \/ \E o \in orders, p \in Prices : UpdateOrderPrice(o, p)
               \/ \E o \in orders, c \in Payments : TopUpOrder(o, c)
               \/ \E o \in orders : CancelOrder(o)
      BY <3>3 DEF RoundStep, RegisterDerivedTemplate, UpdateOrderPrice, TopUpOrder,
                  CancelOrder, buyerVars, laneVars
    <3>4. CASE NextEpoch
      BY <3>4 DEF NextEpoch
    <3>5. ASSUME NEW o, NEW m, NEW i, NEW n, NEW x, NEW d,
                 \/ SubmitShareForPay(o, m, i, n, x, d)
                 \/ SubmitShareForPayDerived(o, m, i, n, x, d)
          PROVE  epoch' = epoch
      BY <3>2, <3>5 DEF SubmitShareForPay, SubmitShareForPayDerived
    <3> QED
      BY <3>1, <3>3, <3>4, <3>5, Zenon DEF BuyerNext, PlaceHashpowerOrder, PlaceBuyerOrder
  <2> QED
    BY <2>1 DEF BuyerTypeOK
<1> QED
  BY <1>1, <1>2, <1>3, <1>4 DEF BuyerTypeOK

\* Everything the lane's theorems rest on.
WholeInv == LaneInv /\ OrdersPayAsPlaced /\ ASharePaysOnce

\* Initially nothing is placed or paid.
LEMMA LaneInit == BuyerInit => WholeInv
<1> SUFFICES ASSUME BuyerInit PROVE WholeInv
  OBVIOUS
<1> USE DEF BuyerInit
<1>1. RoundsInv /\ TypeOK
  BY InitInv DEF RoundsInv
<1>2. templates = << >> /\ pool.current_round = 0 /\ dedups = {}
  BY DEF Init
<1>3. BuyerTypeOK
  BY <1>1, <1>2 DEF BuyerTypeOK
<1>4. TemplatesInv /\ OneDedupPerKey /\ FillsAreRecorded
  BY <1>2, RoundsAssumption DEF TemplatesInv, OneDedupPerKey, FillsAreRecorded, Rounds
<1>5. IsFiniteSet({}) /\ Cardinality({}) = 0
  BY FS_EmptySet
<1>6. PlacedInv /\ OrdersInv /\ FundsInv
  BY <1>5 DEF PlacedInv, OrdersInv, FundsInv
<1>7. OrderFundsConserved
  <2>1. ASSUME NEW id \in OrderIds PROVE Balanced(orders, fills, received, refunded, id)
    <3>1. Left(orders, id) = 0
      BY LeftNone
    <3>2. PaidSum(fills, id) = 0
      <4>1. {f \in {} : f.order = id} = {}
        OBVIOUS
      <4> QED
        BY <4>1, SumEmpty DEF PaidSum
    <3> QED
      BY <3>1, <3>2 DEF Balanced
  <2> QED
    BY <2>1, ConservedForm
<1>8. OrdersPayAsPlaced /\ ASharePaysOnce
  BY DEF OrdersPayAsPlaced, ASharePaysOnce
<1> QED
  BY <1>1, <1>3, <1>4, <1>6, <1>7, <1>8 DEF WholeInv, LaneInv, BuyerInv

\* Every step of the lane keeps all of it.
LEMMA LaneStep == WholeInv /\ [BuyerNext]_buyerVars => WholeInv'
<1> SUFFICES ASSUME WholeInv, [BuyerNext]_buyerVars PROVE WholeInv'
  OBVIOUS
<1>1. /\ RoundsInv /\ BuyerTypeOK /\ TemplatesInv /\ OneDedupPerKey /\ FillsAreRecorded
      /\ ASharePaysOnce /\ BooksOK
  BY DEF WholeInv, LaneInv, BuyerInv, BooksOK, BuyerTypeOK, FillsAreRecorded
<1>2. RoundsInv' /\ BuyerTypeOK' /\ TemplatesInv' /\ BooksOK'
  BY <1>1, LaneRounds, LaneType, ListsGrow, BooksStep
<1>3. OneDedupPerKey' /\ FillsAreRecorded' /\ ASharePaysOnce'
  BY <1>1, HashesKept, FillsStep, PaysOnceStep
<1> QED
  BY <1>2, <1>3 DEF WholeInv, LaneInv, BuyerInv, BooksOK

LEMMA LaneInvariant == BuyerSpec => []WholeInv
<1> QED
  BY LaneInit, LaneStep, PTL DEF BuyerSpec

\* The books of the buyer lane: budgets, payouts and refunds of an order add up to what
\* was paid into it, through re-pricing, top-ups, exhaustion and cancellation, and the
\* round pipeline's invariant survives shares on derived templates.
THEOREM LaneBooksAreKept == BuyerSpec => []BuyerInv
<1>1. WholeInv => BuyerInv
  BY DEF WholeInv, LaneInv
<1> QED
  BY <1>1, LaneInvariant, PTL

\* No share is paid for twice, by whatever orders, directly or on a derived template,
\* unless its miner drained a dedup object: the check of the hash and its entry in the
\* dedup object are one transaction with the payment.
THEOREM SharesArePaidOnce == BuyerSpec => []ASharePaysOnce
<1>1. WholeInv => ASharePaysOnce
  BY DEF WholeInv
<1> QED
  BY <1>1, LaneInvariant, PTL

\* An order pays only for work on its buyer's templates and, unless it is dynamic, at the
\* price it was placed with, saturated at the largest u64.
THEOREM OrdersPayWhatTheyPromised == BuyerSpec => []OrdersPayAsPlaced
<1>1. WholeInv => OrdersPayAsPlaced
  BY DEF WholeInv
<1> QED
  BY <1>1, LaneInvariant, PTL

\* With the buyer lane on top, the round pipeline still implements the abstract ledger.
THEOREM LaneImplementsLedger == BuyerSpec => ImplementsLedger
<1>1. BuyerInit => Ledger!LedgerInit
  BY LedgerInitial DEF BuyerInit
<1>2. WholeInv /\ [BuyerNext]_buyerVars => [Ledger!LedgerNext]_(Ledger!ledgerVars)
  BY LaneLedger DEF WholeInv, LaneInv, BuyerInv
<1> QED
  BY <1>1, <1>2, LaneInvariant, PTL DEF BuyerSpec, ImplementsLedger, Ledger!LedgerSpec

=============================================================================
