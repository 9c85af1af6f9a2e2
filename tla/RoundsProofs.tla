---------------------------- MODULE RoundsProofs ----------------------------
(* Theorems about the round pipeline, for every value of the constants. *)
EXTENDS Rounds, WorkSumsProofs, TLAPS

-----------------------------------------------------------------------------
(* Type correctness.                                                       *)

\* Net work is a natural number, at most the work done.
LEMMA NetType ==
  ASSUME NEW x \in RoundStatsType
  PROVE  NetWork(x) \in Nat /\ NetShares(x) \in Nat /\ NetWork(x) <= x.work
BY DEF NetWork, NetShares, RoundStatsType

\* The sum of the values of at most one object is a natural number.
LEMMA SumAtMostOne ==
  ASSUME NEW S, NEW f, \A x, y \in S : x = y, \A x \in S : f[x] \in Nat
  PROVE  SumOver(S, f) \in Nat
<1>1. CASE S = {}
  BY <1>1, SumEmpty
<1>2. CASE S # {}
  <2>1. PICK x \in S : S = {x}
    BY <1>2
  <2> QED
    BY <2>1, SumSingleton
<1> QED
  BY <1>1, <1>2

\* In the initial state every object set is well formed.
LEMMA InitType == Init => TypeOK
<1> SUFFICES ASSUME Init PROVE TypeOK
  OBVIOUS
<1> USE RoundsAssumption DEF Init
<1>1. pool \in PoolType
  BY DEF PoolType
<1>2. minerStats \in [Miners -> MinerStatsType]
  BY DEF MinerStatsType
<1>3. templates \in Seq(TemplateType)
  OBVIOUS
<1> QED
  BY <1>1, <1>2, <1>3 DEF TypeOK

\* What a share does to its MinerRoundStats, sold or not.
LEMMA AfterShareEffect ==
  ASSUME NEW x \in RoundStatsType, NEW diff \in Nat, NEW height \in Nat,
         NEW sell \in BOOLEAN
  PROVE  LET y == AfterShare(x, diff, height, sell)
         IN  /\ y \in RoundStatsType
             /\ y.miner = x.miner /\ y.round_id = x.round_id
             /\ y.work = x.work + diff /\ y.shares = x.shares + 1
             /\ x.sold_work <= x.work => y.sold_work <= y.work
             /\ x.sold_shares <= x.shares => y.sold_shares <= y.shares
<1> DEFINE newWork == x.work + diff
           newShares == x.shares + 1
           newSold == x.sold_work + diff
           newSoldShares == x.sold_shares + 1
           kept == RecordShare(x, diff, height)
<1>1. /\ newWork \in Nat /\ newShares \in Nat /\ newSold \in Nat /\ newSoldShares \in Nat
      /\ x.sold_work \in Nat /\ x.sold_shares \in Nat
      /\ x.work \in Nat /\ x.shares \in Nat
  BY DEF RoundStatsType
<1>2. kept = [x EXCEPT !.work = newWork, !.shares = newShares, !.min_height = height]
  BY DEF RecordShare
<1>3. /\ kept \in RoundStatsType
      /\ kept.miner = x.miner /\ kept.round_id = x.round_id
      /\ kept.work = newWork /\ kept.shares = newShares
      /\ kept.sold_work = x.sold_work /\ kept.sold_shares = x.sold_shares
  <2> HIDE DEF newWork, newShares, kept
  <2> QED
    BY <1>1, <1>2 DEF RoundStatsType
<1>4. RecordSoldShare(kept, diff) =
        [kept EXCEPT !.sold_work = newSold, !.sold_shares = newSoldShares]
  <2> HIDE DEF kept
  <2> QED
    BY <1>3 DEF RecordSoldShare
<1>5. CASE sell
  <2>1. AfterShare(x, diff, height, sell) = RecordSoldShare(kept, diff)
    BY <1>5 DEF AfterShare
  <2> DEFINE y == AfterShare(x, diff, height, sell)
  <2>2. /\ y \in RoundStatsType
        /\ y.miner = kept.miner /\ y.round_id = kept.round_id
        /\ y.work = kept.work /\ y.shares = kept.shares
        /\ y.sold_work = newSold /\ y.sold_shares = newSoldShares
    <3> HIDE DEF y, kept, newSold, newSoldShares
    <3>1. y = [kept EXCEPT !.sold_work = newSold, !.sold_shares = newSoldShares]
      BY <1>4, <2>1 DEF y
    <3> QED
      BY <1>1, <1>3, <3>1 DEF RoundStatsType
  <2> QED
    BY <1>1, <1>3, <2>2
<1>6. CASE ~sell
  <2>1. AfterShare(x, diff, height, sell) = kept
    BY <1>6 DEF AfterShare
  <2> QED
    BY <1>1, <1>3, <2>1
<1> QED
  BY <1>5, <1>6

\* The height of the share's template becomes the floor.
LEMMA AfterShareHeight ==
  ASSUME NEW x \in RoundStatsType, NEW diff, NEW height, NEW sell \in BOOLEAN
  PROVE  AfterShare(x, diff, height, sell).min_height = height
<1> DEFINE kept == RecordShare(x, diff, height)
<1>1. kept.min_height = height /\ "min_height" \in DOMAIN kept
  BY DEF RecordShare, RoundStatsType
<1>2. RecordSoldShare(kept, diff).min_height = kept.min_height
  <2> HIDE DEF kept
  <2> QED
    BY <1>1 DEF RecordSoldShare
<1> QED
  BY <1>1, <1>2 DEF AfterShare

\* A share submission keeps the objects it touches well formed.
LEMMA SubmitType ==
  ASSUME TypeOK, NEW m \in Miners, NEW t \in 1 .. Len(templates), NEW n \in Nonces,
         NEW x \in mrs, NEW d \in dedups, NEW sell \in BOOLEAN,
             SubmitShare(m, t, n, x, d, sell)
  PROVE  TypeOK'
<1> DEFINE T == templates[t]
<1>1. /\ T \in TemplateType
      /\ HashDifficulty[n] \in Nat
      /\ ShareHash(t, n) \in Nat \X Nonces
  BY RoundsAssumption DEF TypeOK, ShareHash
<1>2. x \in RoundStatsType /\ d \in DedupType
  BY DEF TypeOK
<1>3. CheckAndRecord(d, ShareHash(t, n)) \in DedupType
  BY <1>1, <1>2 DEF CheckAndRecord, DedupType
<1>4. AfterShare(x, HashDifficulty[n], T.height, sell) \in RoundStatsType
  <2>1. T.height \in Nat
    <3> HIDE DEF T
    <3> QED
      BY <1>1 DEF TemplateType
  <2> QED
    BY <1>1, <1>2, <2>1, AfterShareEffect
<1>5. minerStats' \in [Miners -> MinerStatsType]
  BY DEF SubmitShare, TypeOK, MinerStatsType
<1>6. [round_id |-> T.round_id, height |-> T.height, block_finder |-> m,
       share_hash |-> ShareHash(t, n)] \in ClaimType
  BY <1>1 DEF ClaimType, TemplateType
<1>7. /\ dedups' \subseteq DedupType
      /\ mrs' \subseteq RoundStatsType
      /\ claims' \subseteq ClaimType
  BY <1>3, <1>4, <1>6 DEF SubmitShare, TypeOK
<1>8. UNCHANGED <<pool, templates, now, registered, roundRegistry, dedupRegistry,
                  drained, accumulators, workRecords, histories>>
  BY DEF SubmitShare, closeVars
<1> QED
  BY <1>5, <1>7, <1>8 DEF TypeOK

\* Accumulation adds at most one object's work, because a miner's MinerRoundStats
\* of one round is unique.
LEMMA CountedAtMostOne ==
  ASSUME TypeOK, OneWorkRecordPerMinerRound, NEW m \in Miners, NEW acc,
         NEW batch \in SUBSET {x \in mrs : x.miner = m}
  PROVE  /\ Counted(acc, batch) \subseteq RoundStatsType
         /\ \A x, y \in Counted(acc, batch) : x = y
BY DEF Counted, OneWorkRecordPerMinerRound, Key, TypeOK

\* So accumulation keeps the accumulator and the work records well formed.
LEMMA AccumulateType ==
  ASSUME TypeOK, OneWorkRecordPerMinerRound,
         NEW acc \in accumulators, NEW m \in Miners,
         NEW batch \in SUBSET {x \in mrs : x.miner = m},
         AccumulateMinerStats(acc, m, batch)
  PROVE  TypeOK'
<1> DEFINE C == Counted(acc, batch)
           W == SumOver(C, [x \in C |-> NetWork(x)])
           N == SumOver(C, [x \in C |-> NetShares(x)])
<1>1. C \subseteq RoundStatsType /\ \A x, y \in C : x = y
  BY CountedAtMostOne
<1>2. W \in Nat /\ N \in Nat
  <2> HIDE DEF C
  <2> QED
    BY <1>1, NetType, SumAtMostOne
<1>3. acc \in AccumulatorType
  BY DEF TypeOK
<1>4. AddTo(acc, C) \in AccumulatorType
  <2> DEFINE newWork == acc.total_work + W
             newShares == acc.total_shares + N
  <2>1. AddTo(acc, C) = [acc EXCEPT !.total_work = newWork, !.total_shares = newShares]
    BY DEF AddTo
  <2>2. newWork \in Nat /\ newShares \in Nat
    BY <1>2, <1>3 DEF AccumulatorType
  <2> HIDE DEF newWork, newShares
  <2> QED
    BY <1>3, <2>1, <2>2 DEF AccumulatorType
<1>5. accumulators' \subseteq AccumulatorType
  BY <1>4 DEF AccumulateMinerStats, TypeOK
<1>6. \A x \in Creditable(C) :
        [round_id |-> acc.round_id, miner |-> m, net_work |-> NetWork(x)] \in WorkRecordType
  <2>1. \A x \in Creditable(C) : NetWork(x) \in Nat \ {0}
    BY <1>1, NetType DEF Creditable
  <2>2. acc.round_id \in Nat
    BY <1>3 DEF AccumulatorType
  <2> QED
    BY <2>1, <2>2 DEF WorkRecordType
<1>7. workRecords' \subseteq WorkRecordType
  <2> HIDE DEF C
  <2>1. workRecords' = workRecords \cup
          {[round_id |-> acc.round_id, miner |-> m, net_work |-> NetWork(x)] :
             x \in Creditable(C)}
    BY DEF AccumulateMinerStats, C
  <2> QED
    BY <1>6, <2>1 DEF TypeOK
<1>8. mrs' \subseteq RoundStatsType
  BY DEF AccumulateMinerStats, TypeOK
<1>9. UNCHANGED <<pool, templates, now, registered, minerStats, roundRegistry,
                  dedupRegistry, dedups, drained, claims, histories>>
  BY DEF AccumulateMinerStats, dedupVars
<1> QED
  BY <1>5, <1>7, <1>8, <1>9 DEF TypeOK

\* Every step keeps the object sets well formed.
LEMMA StepType ==
  ASSUME TypeOK, OneWorkRecordPerMinerRound, [Next]_vars
  PROVE  TypeOK'
<1> USE RoundsAssumption
<1>1. CASE Tick
  BY <1>1 DEF Tick, TypeOK, minerVars, dedupVars, closeVars
<1>2. ASSUME NEW h \in Heights, NEW nd \in NetworkDifficulties, RegisterTemplate(h, nd)
      PROVE  TypeOK'
  <2>1. pool \in PoolType /\ templates \in Seq(TemplateType) /\ h \in Nat /\ nd \in Nat
    BY DEF TypeOK
  <2>2. pool' \in PoolType
    BY <1>2, <2>1 DEF RegisterTemplate, PoolType
  <2>3. [height |-> h, round_id |-> pool.current_round,
         min_difficulty |-> pool.global_min_difficulty,
         cached_network_difficulty |-> nd] \in TemplateType
    BY <2>1 DEF PoolType, TemplateType
  <2>4. templates' \in Seq(TemplateType)
    BY <1>2, <2>1, <2>3 DEF RegisterTemplate
  <2> QED
    BY <1>2, <2>2, <2>4 DEF RegisterTemplate, TypeOK, minerVars, dedupVars, closeVars
<1>3. ASSUME NEW diff \in Difficulties, SetDifficulty(diff)
      PROVE  TypeOK'
  <2>1. pool' \in PoolType
    BY <1>3 DEF SetDifficulty, TypeOK, PoolType
  <2> QED
    BY <1>3, <2>1 DEF SetDifficulty, TypeOK, minerVars, dedupVars, closeVars
<1>4. CASE ResetDifficulty
  <2>1. pool' \in PoolType
    BY <1>4 DEF ResetDifficulty, TypeOK, PoolType
  <2> QED
    BY <1>4, <2>1 DEF ResetDifficulty, TypeOK, minerVars, dedupVars, closeVars
<1>5. ASSUME NEW m \in Miners, RegisterMiner(m)
      PROVE  TypeOK'
  BY <1>5 DEF RegisterMiner, TypeOK, dedupVars, closeVars
<1>6. ASSUME NEW m \in Miners, NEW r \in Rounds, NEW h \in Heights,
             CreateRoundStats(m, r, h)
      PROVE  TypeOK'
  <2>1. [round_id |-> r, miner |-> m, work |-> 0, shares |-> 0, sold_work |-> 0,
         sold_shares |-> 0, min_height |-> h] \in RoundStatsType
    BY DEF RoundStatsType, Rounds
  <2>2. <<m, r>> \in Miners \X Nat
    BY DEF Rounds
  <2> QED
    BY <1>6, <2>1, <2>2 DEF CreateRoundStats, TypeOK, dedupVars, closeVars
<1>7. ASSUME NEW x \in mrs, CloseMinerRoundStats(x)
      PROVE  TypeOK'
  BY <1>7 DEF CloseMinerRoundStats, TypeOK, dedupVars, closeVars
<1>8. ASSUME NEW m \in Miners, NEW r \in Rounds, CreateShareDedup(m, r)
      PROVE  TypeOK'
  <2>1. [round_id |-> r, miner |-> m, hashes |-> {}] \in DedupType
    BY DEF DedupType, Rounds
  <2>2. <<m, r>> \in Miners \X Nat
    BY DEF Rounds
  <2> QED
    BY <1>8, <2>1, <2>2 DEF CreateShareDedup, TypeOK, minerVars, closeVars
<1>9. ASSUME NEW d \in dedups, NEW H \in SUBSET d.hashes, CloseShareDedup(d, H)
      PROVE  TypeOK'
  <2>1. d \in DedupType
    BY DEF TypeOK
  <2>2. [d EXCEPT !.hashes = @ \ (d.hashes \cap H)] \in DedupType
    BY <2>1 DEF DedupType
  <2>3. Key(d) \in Miners \X Nat
    BY <2>1 DEF DedupType, Key
  <2> QED
    BY <1>9, <2>2, <2>3 DEF CloseShareDedup, TypeOK, minerVars, closeVars
<1>10. ASSUME NEW d \in dedups, DeleteShareDedup(d)
       PROVE  TypeOK'
  BY <1>10 DEF DeleteShareDedup, TypeOK, minerVars, closeVars
<1>11. ASSUME NEW m \in Miners, NEW t \in 1 .. Len(templates), NEW n \in Nonces,
              NEW x \in mrs, NEW d \in dedups, NEW sell \in BOOLEAN,
             SubmitShare(m, t, n, x, d, sell)
       PROVE  TypeOK'
  BY <1>11, SubmitType
<1>12. ASSUME NEW c \in claims, OpenRoundAccumulatorFromClaim(c)
       PROVE  TypeOK'
  <2>1. c \in ClaimType /\ pool \in PoolType /\ now \in Nat
    BY DEF TypeOK
  <2>2. pool' \in PoolType
    BY <1>12, <2>1 DEF OpenRoundAccumulatorFromClaim, PoolType
  <2>3. [round_id |-> pool.current_round, total_work |-> 0, total_shares |-> 0,
         created_at_ms |-> now, block_finder |-> c.block_finder,
         block_found_height |-> c.height] \in AccumulatorType
    BY <2>1 DEF PoolType, ClaimType, AccumulatorType
  <2> QED
    BY <1>12, <2>2, <2>3 DEF OpenRoundAccumulatorFromClaim, TypeOK, minerVars, dedupVars
<1>13. ASSUME NEW acc \in accumulators, NEW m \in Miners,
              NEW batch \in SUBSET {x \in mrs : x.miner = m},
              AccumulateMinerStats(acc, m, batch)
       PROVE  TypeOK'
  BY <1>13, AccumulateType
<1>14. ASSUME NEW acc \in accumulators, FinalizeRound(acc)
       PROVE  TypeOK'
  <2>1. acc \in AccumulatorType /\ pool \in PoolType /\ now \in Nat
    BY DEF TypeOK
  <2>2. pool' \in PoolType
    <3> DEFINE newRound == pool.current_round + 1
               newBlocks == pool.total_blocks + 1
               newShares == pool.total_shares + acc.total_shares
    <3>1. newRound \in Nat /\ newBlocks \in Nat /\ newShares \in Nat
      BY <2>1 DEF PoolType, AccumulatorType
    <3>2. pool' = [pool EXCEPT !.accumulator_open = FALSE, !.current_round = newRound,
                               !.total_blocks = newBlocks, !.total_shares = newShares,
                               !.round_start_ms = now]
      BY <1>14 DEF FinalizeRound
    <3> HIDE DEF newRound, newBlocks, newShares
    <3> QED
      BY <2>1, <3>1, <3>2 DEF PoolType
  <2>3. [round_id |-> acc.round_id, total_work |-> acc.total_work,
         total_shares |-> acc.total_shares, block_finder |-> acc.block_finder,
         block_found_height |-> acc.block_found_height] \in HistoryType
    BY <2>1 DEF HistoryType, AccumulatorType
  <2> QED
    BY <1>14, <2>2, <2>3 DEF FinalizeRound, Destroyed, TypeOK, minerVars, dedupVars
<1>15. CASE UNCHANGED vars
  BY <1>15 DEF vars, TypeOK, minerVars, dedupVars, closeVars
<1> QED
  BY <1>1, <1>2, <1>3, <1>4, <1>5, <1>6, <1>7, <1>8, <1>9, <1>10, <1>11,
     <1>12, <1>13, <1>14, <1>15 DEF Next

-----------------------------------------------------------------------------
(* The inductive invariant.                                                *)

\* The steps that neither touch MinerRoundStats nor the close of a round.
QuietStep ==
  \/ Tick
  \/ \E h \in Heights, nd \in NetworkDifficulties : RegisterTemplate(h, nd)
  \/ \E diff \in Difficulties : SetDifficulty(diff)
  \/ ResetDifficulty
  \/ \E m \in Miners : RegisterMiner(m)
  \/ \E m \in Miners, r \in Rounds : CreateShareDedup(m, r)
  \/ \E d \in dedups : \E H \in SUBSET d.hashes : CloseShareDedup(d, H)
  \/ \E d \in dedups : DeleteShareDedup(d)
  \/ UNCHANGED vars

\* The parts of the state the invariant is about.
coreVars == <<pool.current_round, pool.accumulator_open, pool.total_blocks,
              roundRegistry, mrs, accumulators, workRecords, histories>>

\* Quiet steps leave them alone.
LEMMA QuietFrame ==
  ASSUME TypeOK, QuietStep
  PROVE  UNCHANGED coreVars
<1> USE DEF coreVars, TypeOK, PoolType, minerVars, dedupVars, closeVars
<1>1. CASE Tick
  BY <1>1 DEF Tick
<1>2. CASE \E h \in Heights, nd \in NetworkDifficulties : RegisterTemplate(h, nd)
  BY <1>2 DEF RegisterTemplate
<1>3. CASE \E diff \in Difficulties : SetDifficulty(diff)
  BY <1>3 DEF SetDifficulty
<1>4. CASE ResetDifficulty
  BY <1>4 DEF ResetDifficulty
<1>5. CASE \E m \in Miners : RegisterMiner(m)
  BY <1>5 DEF RegisterMiner
<1>6. CASE \E m \in Miners, r \in Rounds : CreateShareDedup(m, r)
  BY <1>6 DEF CreateShareDedup
<1>7. CASE \E d \in dedups : \E H \in SUBSET d.hashes : CloseShareDedup(d, H)
  BY <1>7 DEF CloseShareDedup
<1>8. CASE \E d \in dedups : DeleteShareDedup(d)
  BY <1>8 DEF DeleteShareDedup
<1>9. CASE UNCHANGED vars
  BY <1>9 DEF vars
<1> QED
  BY <1>1, <1>2, <1>3, <1>4, <1>5, <1>6, <1>7, <1>8, <1>9 DEF QuietStep

\* A step is quiet or one of the six that matter here.
LEMMA StepCases ==
  ASSUME [Next]_vars
  PROVE  \/ QuietStep
         \/ \E m \in Miners, r \in Rounds, h \in Heights : CreateRoundStats(m, r, h)
         \/ \E x \in mrs : CloseMinerRoundStats(x)
         \/ \E m \in Miners, t \in 1 .. Len(templates), n \in Nonces :
              \E x \in mrs, d \in dedups, sell \in BOOLEAN : SubmitShare(m, t, n, x, d, sell)
         \/ \E c \in claims : OpenRoundAccumulatorFromClaim(c)
         \/ \E acc \in accumulators, m \in Miners :
              \E batch \in SUBSET {x \in mrs : x.miner = m} :
                AccumulateMinerStats(acc, m, batch)
         \/ \E acc \in accumulators : FinalizeRound(acc)
BY Zenon DEF Next, QuietStep

\* The work of a round's records is a natural number, and a new record adds its work.
LEMMA CreditedType ==
  ASSUME TypeOK, RecordsBelongToRounds, NEW r
  PROVE  CreditedWork(r) \in Nat
<1> DEFINE S == RecordsOf(r)
           f == [w \in S |-> w.net_work]
<1>1. S \in SUBSET workRecords
  BY DEF RecordsOf
<1>2. IsFiniteSet(S)
  BY <1>1, FS_Subset DEF RecordsBelongToRounds
<1>3. \A w \in S : f[w] \in Nat
  BY <1>1 DEF TypeOK, WorkRecordType
<1> QED
  BY <1>2, <1>3, UnitsFinite DEF CreditedWork

LEMMA CreditedAdd ==
  ASSUME TypeOK, RecordsBelongToRounds, NEW w \in WorkRecordType, w \notin workRecords,
         workRecords' = workRecords \cup {w}
  PROVE  /\ CreditedWork(w.round_id)' = CreditedWork(w.round_id) + w.net_work
         /\ \A r : r # w.round_id => CreditedWork(r)' = CreditedWork(r)
<1>1. \A r : r # w.round_id => RecordsOf(r)' = RecordsOf(r)
  BY DEF RecordsOf
<1>2. \A r : r # w.round_id => CreditedWork(r)' = CreditedWork(r)
  BY <1>1 DEF CreditedWork
<1> DEFINE r == w.round_id
           S == RecordsOf(r)
           f == [v \in S |-> v.net_work]
           g == [v \in S \cup {w} |-> v.net_work]
<1>3. (RecordsOf(r))' = S \cup {w}
  BY DEF RecordsOf
<1>4. w \notin S /\ S \in SUBSET workRecords
  BY DEF RecordsOf
<1>5. IsFiniteSet(S)
  BY <1>4, FS_Subset DEF RecordsBelongToRounds
<1>6. \A v \in S : g[v] \in Nat /\ f[v] = g[v]
  BY <1>4 DEF TypeOK, WorkRecordType
<1>7. g[w] \in Nat /\ g[w] = w.net_work
  BY DEF WorkRecordType
<1>8. IsFiniteSet(Units(S, g))
  BY <1>5, <1>6, UnitsFinite
<1>9. SumOver(S \cup {w}, g) = SumOver(S, g) + w.net_work
  <2> HIDE DEF S, g, r
  <2>1. SumOver(S \cup {w}, g) = SumOver(S, g) + g[w]
    BY <1>4, <1>7, <1>8, SumAdd
  <2> QED
    BY <1>7, <2>1
<1>10. SumOver(S, g) = SumOver(S, f)
  BY <1>6, SumExt
<1>11. CreditedWork(r)' = SumOver(S \cup {w}, g)
  <2>1. CreditedWork(r)' = SumOver((RecordsOf(r))', [v \in (RecordsOf(r))' |-> v.net_work])
    BY DEF CreditedWork
  <2> QED
    BY <1>3, <2>1
<1>12. CreditedWork(r) = SumOver(S, f)
  BY DEF CreditedWork
<1> QED
  BY <1>2, <1>9, <1>10, <1>11, <1>12

\* The invariant holds initially.
LEMMA InitInv == Init => RoundsInv
<1> SUFFICES ASSUME Init PROVE RoundsInv
  OBVIOUS
<1>1. TypeOK
  BY InitType
<1>2. OneWorkRecordPerMinerRound /\ KeysAreRegistered /\ WorkFits
  BY DEF Init, OneWorkRecordPerMinerRound, KeysAreRegistered, WorkFits
<1>3. RoundsCloseInOrder
  BY DEF Init, RoundsCloseInOrder
<1>4. RecordsBelongToRounds
  BY FS_EmptySet DEF Init, RecordsBelongToRounds
<1>5. WorkConserved
  BY DEF Init, WorkConserved
<1> QED
  BY <1>1, <1>2, <1>3, <1>4, <1>5 DEF RoundsInv

\* Keys: a MinerRoundStats is created only under a fresh key, and a share keeps it.
LEMMA KeysStep ==
  ASSUME RoundsInv, [Next]_vars
  PROVE  OneWorkRecordPerMinerRound' /\ KeysAreRegistered'
<1> USE DEF OneWorkRecordPerMinerRound, KeysAreRegistered
<1>0. TypeOK /\ OneWorkRecordPerMinerRound /\ KeysAreRegistered
  BY DEF RoundsInv
<1>1. CASE QuietStep
  BY <1>0, <1>1, QuietFrame DEF coreVars, Key
<1>2. ASSUME NEW m \in Miners, NEW r \in Rounds, NEW h \in Heights,
             CreateRoundStats(m, r, h)
      PROVE  OneWorkRecordPerMinerRound' /\ KeysAreRegistered'
  BY <1>0, <1>2 DEF CreateRoundStats, StatsKeyFree, closeVars, Key
<1>3. ASSUME NEW x \in mrs, CloseMinerRoundStats(x)
      PROVE  OneWorkRecordPerMinerRound' /\ KeysAreRegistered'
  BY <1>0, <1>3 DEF CloseMinerRoundStats, closeVars, Key
<1>4. ASSUME NEW m \in Miners, NEW t \in 1 .. Len(templates), NEW n \in Nonces,
             NEW x \in mrs, NEW d \in dedups, NEW sell \in BOOLEAN,
             SubmitShare(m, t, n, x, d, sell)
      PROVE  OneWorkRecordPerMinerRound' /\ KeysAreRegistered'
  <2> DEFINE y == AfterShare(x, HashDifficulty[n], templates[t].height, sell)
  <2>0. x \in RoundStatsType /\ HashDifficulty[n] \in Nat /\ templates[t].height \in Nat
    <3>1. templates[t] \in TemplateType
      BY <1>0 DEF TypeOK
    <3> QED
      BY <1>0, <3>1, RoundsAssumption DEF TypeOK, TemplateType
  <2>1. Key(y) = Key(x)
    <3>1. y.miner = x.miner /\ y.round_id = x.round_id
      BY <2>0, AfterShareEffect, Zenon
    <3> QED
      BY <3>1 DEF Key
  <2>2. /\ mrs' = (mrs \ {x}) \cup {y}
        /\ UNCHANGED <<roundRegistry, workRecords>>
    BY <1>4 DEF SubmitShare, closeVars
  <2> HIDE DEF y
  <2> QED
    BY <1>0, <2>1, <2>2 DEF Key
<1>5. ASSUME NEW c \in claims, OpenRoundAccumulatorFromClaim(c)
      PROVE  OneWorkRecordPerMinerRound' /\ KeysAreRegistered'
  BY <1>0, <1>5 DEF OpenRoundAccumulatorFromClaim, minerVars, Key
<1>6. ASSUME NEW acc \in accumulators, NEW m \in Miners,
             NEW batch \in SUBSET {x \in mrs : x.miner = m},
             AccumulateMinerStats(acc, m, batch)
      PROVE  OneWorkRecordPerMinerRound' /\ KeysAreRegistered'
  <2> DEFINE C == Counted(acc, batch)
             New == {[round_id |-> acc.round_id, miner |-> m, net_work |-> NetWork(x)] :
                       x \in Creditable(C)}
  <2>1. /\ workRecords' = workRecords \cup New
        /\ mrs' = mrs \ batch
        /\ roundRegistry' = roundRegistry
    BY <1>6 DEF AccumulateMinerStats, Consumed
  <2>2. \A u \in New : \E x \in batch : Key(u) = Key(x)
    BY DEF Creditable, Counted, Key
  <2>3. \A u, w \in New : u = w
    BY <1>0, CountedAtMostOne DEF Creditable
  <2> HIDE DEF New
  <2> QED
    BY <1>0, <2>1, <2>2, <2>3
<1>7. ASSUME NEW acc \in accumulators, FinalizeRound(acc)
      PROVE  OneWorkRecordPerMinerRound' /\ KeysAreRegistered'
  BY <1>0, <1>7 DEF FinalizeRound, minerVars, Key
<1> QED
  BY <1>1, <1>2, <1>3, <1>4, <1>5, <1>6, <1>7, StepCases

\* What a step of the close pipeline does to the work records: nothing, or one new
\* record of the accumulator's round.
LEMMA AccumulateEffect ==
  ASSUME RoundsInv, NEW acc \in accumulators, NEW m \in Miners,
         NEW batch \in SUBSET {x \in mrs : x.miner = m},
         AccumulateMinerStats(acc, m, batch)
  PROVE  \E w \in 0 .. MaxWork :
           LET rec == [round_id |-> acc.round_id, miner |-> m, net_work |-> w]
           IN  /\ \E a \in AccumulatorType :
                    /\ accumulators' = (accumulators \ {acc}) \cup {a}
                    /\ a.round_id = acc.round_id
                    /\ a.total_work = acc.total_work + w
               /\ w = 0 => workRecords' = workRecords
               /\ w > 0 => /\ workRecords' = workRecords \cup {rec}
                           /\ rec \in WorkRecordType
                           /\ \A u \in workRecords : Key(u) # Key(rec)
<1> DEFINE C == Counted(acc, batch)
           F == [x \in C |-> NetWork(x)]
           G == [x \in C |-> NetShares(x)]
           Rec(x) == [round_id |-> acc.round_id, miner |-> m, net_work |-> NetWork(x)]
<1>0. TypeOK /\ OneWorkRecordPerMinerRound /\ KeysAreRegistered /\ WorkFits
  BY DEF RoundsInv
<1>1. C \subseteq RoundStatsType /\ \A x, y \in C : x = y
  BY <1>0, CountedAtMostOne
<1>2. C \subseteq mrs /\ \A x \in C : x.miner = m /\ x.round_id = acc.round_id
  BY DEF Counted
<1>3. acc \in AccumulatorType /\ MaxWork \in Nat
  BY <1>0, RoundsAssumption DEF TypeOK
<1>4. SumOver(C, F) \in Nat /\ SumOver(C, G) \in Nat
  <2> HIDE DEF C
  <2> QED
    BY <1>1, NetType, SumAtMostOne
<1>5. /\ accumulators' = (accumulators \ {acc}) \cup {AddTo(acc, C)}
      /\ workRecords' = workRecords \cup {Rec(x) : x \in Creditable(C)}
  BY DEF AccumulateMinerStats
<1>6. /\ AddTo(acc, C) \in AccumulatorType
      /\ AddTo(acc, C).round_id = acc.round_id
      /\ AddTo(acc, C).total_work = acc.total_work + SumOver(C, F)
  <2> DEFINE newWork == acc.total_work + SumOver(C, F)
             newShares == acc.total_shares + SumOver(C, G)
  <2>1. AddTo(acc, C) = [acc EXCEPT !.total_work = newWork, !.total_shares = newShares]
    BY DEF AddTo
  <2>2. newWork \in Nat /\ newShares \in Nat
    BY <1>3, <1>4 DEF AccumulatorType
  <2> HIDE DEF newWork, newShares
  <2>3. /\ AddTo(acc, C) \in AccumulatorType
        /\ AddTo(acc, C).round_id = acc.round_id
        /\ AddTo(acc, C).total_work = newWork
    BY <1>3, <2>1, <2>2 DEF AccumulatorType
  <2> QED
    BY <2>3 DEF newWork
<1>7. CASE C = {}
  <2>1. SumOver(C, F) = 0
    <3> HIDE DEF F
    <3> QED
      BY <1>7, SumEmpty
  <2>2. workRecords' = workRecords
    BY <1>5, <1>7 DEF Creditable
  <2>3. 0 \in 0 .. MaxWork
    BY <1>3
  <2> WITNESS 0 \in 0 .. MaxWork
  <2> QED
    BY <1>5, <1>6, <2>1, <2>2
<1>8. CASE C # {}
  <2>1. PICK x \in C : C = {x}
    BY <1>1, <1>8
  <2>2. SumOver(C, F) = NetWork(x)
    <3>1. F[x] = NetWork(x) /\ NetWork(x) \in Nat
      BY <1>1, NetType
    <3> HIDE DEF F
    <3> QED
      BY <2>1, <3>1, SumSingleton
  <2>3. NetWork(x) \in 0 .. MaxWork
    BY <1>0, <1>1, <1>2, <1>3, NetType DEF WorkFits, RoundStatsType
  <2>4. NetWork(x) = 0 => workRecords' = workRecords
    BY <1>5, <2>1 DEF Creditable
  <2>5. ASSUME NetWork(x) > 0
        PROVE  /\ workRecords' = workRecords \cup {Rec(x)}
               /\ Rec(x) \in WorkRecordType
               /\ \A u \in workRecords : Key(u) # Key(Rec(x))
    <3>1. Creditable(C) = {x}
      BY <2>1, <2>5 DEF Creditable
    <3>2. Rec(x) \in WorkRecordType
      BY <1>3, <2>3, <2>5 DEF WorkRecordType, AccumulatorType
    <3>3. Key(Rec(x)) = Key(x)
      BY <1>2 DEF Key
    <3>4. \A u \in workRecords : Key(u) # Key(x)
      BY <1>0, <1>2 DEF OneWorkRecordPerMinerRound
    <3>5. workRecords' = workRecords \cup {Rec(x)}
      BY <1>5, <3>1
    <3> QED
      BY <3>2, <3>3, <3>4, <3>5
  <2> WITNESS NetWork(x) \in 0 .. MaxWork
  <2> QED
    BY <1>5, <1>6, <2>2, <2>4, <2>5
<1> QED
  BY <1>7, <1>8

\* The steps that touch neither the Pool's round, nor accumulators, nor histories.
LEMMA StatsFrame ==
  ASSUME TypeOK,
         \/ \E m \in Miners, r \in Rounds, h \in Heights : CreateRoundStats(m, r, h)
         \/ \E x \in mrs : CloseMinerRoundStats(x)
         \/ \E m \in Miners, t \in 1 .. Len(templates), n \in Nonces :
              \E x \in mrs, d \in dedups, sell \in BOOLEAN : SubmitShare(m, t, n, x, d, sell)
  PROVE  UNCHANGED <<pool, accumulators, workRecords, histories>>
BY DEF CreateRoundStats, CloseMinerRoundStats, SubmitShare, closeVars

\* Opening: a new accumulator with nothing in it, for a round without records.
LEMMA OpenEffect ==
  ASSUME RoundsInv, NEW c \in claims, OpenRoundAccumulatorFromClaim(c)
  PROVE  /\ ~pool.accumulator_open /\ accumulators = {}
         /\ pool'.accumulator_open /\ pool'.current_round = pool.current_round
         /\ pool'.total_blocks = pool.total_blocks
         /\ \E a \in AccumulatorType : /\ accumulators' = {a}
                                        /\ a.round_id = pool.current_round
                                        /\ a.total_work = 0
         /\ UNCHANGED <<mrs, roundRegistry, workRecords, histories>>
<1>0. TypeOK /\ RoundsCloseInOrder
  BY DEF RoundsInv
<1>1. ~pool.accumulator_open /\ accumulators = {}
  BY <1>0 DEF OpenRoundAccumulatorFromClaim, MayOpen, RoundsCloseInOrder
<1>2. c \in ClaimType /\ pool \in PoolType /\ now \in Nat
  BY <1>0 DEF TypeOK
<1>3. /\ pool'.accumulator_open /\ pool'.current_round = pool.current_round
      /\ pool'.total_blocks = pool.total_blocks
  BY <1>2 DEF OpenRoundAccumulatorFromClaim, PoolType
<1> DEFINE a == [round_id |-> pool.current_round, total_work |-> 0, total_shares |-> 0,
                 created_at_ms |-> now, block_finder |-> c.block_finder,
                 block_found_height |-> c.height]
<1>4. a \in AccumulatorType /\ a.round_id = pool.current_round /\ a.total_work = 0
  BY <1>2 DEF PoolType, ClaimType, AccumulatorType
<1>5. accumulators' = {a}
  BY <1>1 DEF OpenRoundAccumulatorFromClaim
<1>6. UNCHANGED <<mrs, roundRegistry, workRecords, histories>>
  BY DEF OpenRoundAccumulatorFromClaim, minerVars
<1> QED
  BY <1>1, <1>3, <1>4, <1>5, <1>6

\* Finalising: the only accumulator becomes the history of the round that closes.
LEMMA FinalizeEffect ==
  ASSUME RoundsInv, NEW acc \in accumulators, FinalizeRound(acc)
  PROVE  /\ pool.accumulator_open /\ acc.round_id = pool.current_round
         /\ pool.current_round \in Nat /\ pool.current_round < MaxRound
         /\ ~pool'.accumulator_open
         /\ pool'.current_round = pool.current_round + 1
         /\ pool'.total_blocks = pool.total_blocks + 1
         /\ accumulators' = {}
         /\ \E h \in HistoryType : /\ histories' = histories \cup {h}
                                    /\ h.round_id = pool.current_round
                                    /\ h.total_work = acc.total_work
         /\ UNCHANGED <<mrs, roundRegistry, workRecords>>
<1>0. TypeOK /\ RoundsCloseInOrder
  BY DEF RoundsInv
<1>1. pool.accumulator_open /\ accumulators' = {}
  BY <1>0 DEF FinalizeRound, Destroyed, RoundsCloseInOrder
<1>2. acc \in AccumulatorType /\ pool \in PoolType
  BY <1>0 DEF TypeOK
<1>3. /\ ~pool'.accumulator_open
      /\ pool'.current_round = pool.current_round + 1
      /\ pool'.total_blocks = pool.total_blocks + 1
      /\ pool.current_round \in Nat
  BY <1>2 DEF FinalizeRound, PoolType
<1> DEFINE h == [round_id |-> acc.round_id, total_work |-> acc.total_work,
                 total_shares |-> acc.total_shares, block_finder |-> acc.block_finder,
                 block_found_height |-> acc.block_found_height]
<1>4. h \in HistoryType /\ h.round_id = acc.round_id /\ h.total_work = acc.total_work
  BY <1>2 DEF HistoryType, AccumulatorType
<1>5. /\ histories' = histories \cup {h}
      /\ acc.round_id = pool.current_round /\ pool.current_round < MaxRound
      /\ UNCHANGED <<mrs, roundRegistry, workRecords>>
  BY DEF FinalizeRound, minerVars
<1> QED
  BY <1>1, <1>3, <1>4, <1>5

\* Rounds keep closing in order.
LEMMA OrderStep ==
  ASSUME RoundsInv, [Next]_vars
  PROVE  RoundsCloseInOrder'
<1>0. TypeOK /\ RoundsCloseInOrder
  BY DEF RoundsInv
<1>t. pool.current_round \in Nat /\ pool.total_blocks \in Nat
  BY <1>0 DEF TypeOK, PoolType
<1>1. CASE QuietStep
  BY <1>0, <1>1, QuietFrame DEF coreVars, RoundsCloseInOrder
<1>2. CASE UNCHANGED <<pool, accumulators, workRecords, histories>>
  BY <1>0, <1>2 DEF RoundsCloseInOrder
<1>3. ASSUME NEW c \in claims, OpenRoundAccumulatorFromClaim(c)
      PROVE  RoundsCloseInOrder'
  BY <1>0, <1>3, OpenEffect DEF RoundsCloseInOrder
<1>4. ASSUME NEW acc \in accumulators, NEW m \in Miners,
             NEW batch \in SUBSET {x \in mrs : x.miner = m},
             AccumulateMinerStats(acc, m, batch)
      PROVE  RoundsCloseInOrder'
  <2>1. PICK a \in AccumulatorType :
          accumulators' = (accumulators \ {acc}) \cup {a} /\ a.round_id = acc.round_id
    BY <1>4, AccumulateEffect
  <2>2. accumulators = {acc} /\ acc.round_id = pool.current_round
    BY <1>0 DEF RoundsCloseInOrder
  <2>3. UNCHANGED <<pool, histories>>
    BY <1>4 DEF AccumulateMinerStats
  <2> QED
    BY <1>0, <2>1, <2>2, <2>3 DEF RoundsCloseInOrder
<1>5. ASSUME NEW acc \in accumulators, FinalizeRound(acc)
      PROVE  RoundsCloseInOrder'
  <2>1. PICK h \in HistoryType :
          histories' = histories \cup {h} /\ h.round_id = pool.current_round
    BY <1>5, FinalizeEffect
  <2>2. /\ ~pool'.accumulator_open /\ accumulators' = {}
        /\ pool'.current_round = pool.current_round + 1
        /\ pool'.total_blocks = pool.total_blocks + 1
    BY <1>5, FinalizeEffect
  <2>3. \A g \in histories : g.round_id \in 0 .. (pool.current_round - 1)
    BY <1>0 DEF RoundsCloseInOrder
  <2>4. {g.round_id : g \in histories'} = 0 .. (pool'.current_round - 1)
    <3>1. {g.round_id : g \in histories'}
            = {g.round_id : g \in histories} \cup {pool.current_round}
      BY <2>1
    <3>2. {g.round_id : g \in histories} = 0 .. (pool.current_round - 1)
      BY <1>0 DEF RoundsCloseInOrder
    <3>3. 0 .. (pool'.current_round - 1)
            = (0 .. (pool.current_round - 1)) \cup {pool.current_round}
      BY <1>t, <2>2
    <3> QED
      BY <3>1, <3>2, <3>3
  <2>5. \A g, k \in histories' : g.round_id = k.round_id => g = k
    BY <1>0, <1>t, <2>1, <2>3 DEF RoundsCloseInOrder
  <2>6. pool'.total_blocks = pool'.current_round
    BY <1>0, <1>t, <2>2 DEF RoundsCloseInOrder
  <2> QED
    BY <2>2, <2>4, <2>5, <2>6 DEF RoundsCloseInOrder
<1> QED
  BY <1>0, <1>1, <1>2, <1>3, <1>4, <1>5, StepCases, StatsFrame

\* Work records belong to closed rounds or the one being closed, and fit.
LEMMA RecordsStep ==
  ASSUME RoundsInv, [Next]_vars
  PROVE  RecordsBelongToRounds' /\ WorkFits'
<1>0. TypeOK /\ RoundsCloseInOrder /\ RecordsBelongToRounds /\ WorkFits
  BY DEF RoundsInv
<1>t. pool.current_round \in Nat /\ \A w \in workRecords : w.round_id \in Nat
  BY <1>0 DEF TypeOK, PoolType, WorkRecordType
<1> USE DEF RecordsBelongToRounds, WorkFits
<1>1. CASE QuietStep
  BY <1>0, <1>1, QuietFrame DEF coreVars
<1>2. ASSUME NEW m \in Miners, NEW r \in Rounds, NEW h \in Heights,
             CreateRoundStats(m, r, h)
      PROVE  RecordsBelongToRounds' /\ WorkFits'
  BY <1>0, <1>2, RoundsAssumption DEF CreateRoundStats, closeVars
<1>3. ASSUME NEW x \in mrs, CloseMinerRoundStats(x)
      PROVE  RecordsBelongToRounds' /\ WorkFits'
  BY <1>0, <1>3 DEF CloseMinerRoundStats, closeVars
<1>4. ASSUME NEW m \in Miners, NEW t \in 1 .. Len(templates), NEW n \in Nonces,
             NEW x \in mrs, NEW d \in dedups, NEW sell \in BOOLEAN,
             SubmitShare(m, t, n, x, d, sell)
      PROVE  RecordsBelongToRounds' /\ WorkFits'
  <2> DEFINE y == AfterShare(x, HashDifficulty[n], templates[t].height, sell)
  <2>0. x \in RoundStatsType /\ HashDifficulty[n] \in Nat /\ templates[t].height \in Nat
    <3>1. templates[t] \in TemplateType
      BY <1>0 DEF TypeOK
    <3> QED
      BY <1>0, <3>1, RoundsAssumption DEF TypeOK, TemplateType
  <2>1. y.work = x.work + HashDifficulty[n]
    BY <2>0, AfterShareEffect, Zenon
  <2>2. /\ mrs' = (mrs \ {x}) \cup {y}
        /\ x.work + HashDifficulty[n] <= MaxWork
        /\ UNCHANGED <<pool, workRecords>>
    BY <1>4 DEF SubmitShare, closeVars
  <2> HIDE DEF y
  <2> QED
    BY <1>0, <2>1, <2>2
<1>5. ASSUME NEW c \in claims, OpenRoundAccumulatorFromClaim(c)
      PROVE  RecordsBelongToRounds' /\ WorkFits'
  BY <1>0, <1>5, OpenEffect
<1>6. ASSUME NEW acc \in accumulators, NEW m \in Miners,
             NEW batch \in SUBSET {x \in mrs : x.miner = m},
             AccumulateMinerStats(acc, m, batch)
      PROVE  RecordsBelongToRounds' /\ WorkFits'
  <2>1. PICK w \in 0 .. MaxWork :
          LET rec == [round_id |-> acc.round_id, miner |-> m, net_work |-> w]
          IN  /\ w = 0 => workRecords' = workRecords
              /\ w > 0 => workRecords' = workRecords \cup {rec}
    BY <1>6, AccumulateEffect
  <2>2. mrs' \subseteq mrs /\ pool' = pool
    BY <1>6 DEF AccumulateMinerStats
  <2>3. acc.round_id = pool.current_round /\ pool.accumulator_open
    BY <1>0 DEF RoundsCloseInOrder
  <2>4. CASE w = 0
    BY <1>0, <2>1, <2>2, <2>4
  <2>5. CASE w > 0
    <3> DEFINE rec == [round_id |-> acc.round_id, miner |-> m, net_work |-> w]
    <3>1. workRecords' = workRecords \cup {rec}
      BY <2>1, <2>5
    <3>2. rec.round_id = acc.round_id /\ rec.net_work = w
      OBVIOUS
    <3>3. IsFiniteSet(workRecords')
      BY <1>0, <3>1, FS_AddElement
    <3>4. w <= MaxWork
      BY RoundsAssumption
    <3> HIDE DEF rec
    <3> QED
      BY <1>0, <2>2, <2>3, <3>1, <3>2, <3>3, <3>4
  <2> QED
    BY <2>4, <2>5
<1>7. ASSUME NEW acc \in accumulators, FinalizeRound(acc)
      PROVE  RecordsBelongToRounds' /\ WorkFits'
  <2>1. /\ pool'.current_round = pool.current_round + 1
        /\ UNCHANGED <<mrs, workRecords>>
    BY <1>7, FinalizeEffect
  <2> QED
    BY <1>0, <1>t, <2>1
<1> QED
  BY <1>1, <1>2, <1>3, <1>4, <1>5, <1>6, <1>7, StepCases

\* Every total stays the sum of its records.
LEMMA ConservedStep ==
  ASSUME RoundsInv, [Next]_vars
  PROVE  WorkConserved'
<1>0. /\ TypeOK /\ RoundsCloseInOrder /\ RecordsBelongToRounds /\ WorkConserved
      /\ OneWorkRecordPerMinerRound
  BY DEF RoundsInv
<1>t. pool.current_round \in Nat
  BY <1>0 DEF TypeOK, PoolType
<1>s. \A h \in histories : h.round_id \in 0 .. (pool.current_round - 1)
  BY <1>0 DEF RoundsCloseInOrder
<1>u. workRecords' = workRecords => \A r : CreditedWork(r)' = CreditedWork(r)
  <2> SUFFICES ASSUME workRecords' = workRecords, NEW r
               PROVE  CreditedWork(r)' = CreditedWork(r)
    OBVIOUS
  <2>1. RecordsOf(r)' = RecordsOf(r)
    BY DEF RecordsOf
  <2> QED
    BY <2>1 DEF CreditedWork
<1>1. CASE QuietStep
  BY <1>0, <1>1, <1>u, QuietFrame DEF coreVars, WorkConserved
<1>2. CASE UNCHANGED <<pool, accumulators, workRecords, histories>>
  BY <1>0, <1>2, <1>u DEF WorkConserved
<1>3. ASSUME NEW c \in claims, OpenRoundAccumulatorFromClaim(c)
      PROVE  WorkConserved'
  <2>1. PICK a \in AccumulatorType : /\ accumulators' = {a}
                                     /\ a.round_id = pool.current_round
                                     /\ a.total_work = 0
    BY <1>3, OpenEffect
  <2>2. ~pool.accumulator_open /\ UNCHANGED <<workRecords, histories>>
    BY <1>3, OpenEffect
  <2>3. CreditedWork(pool.current_round) = 0
    <3>1. RecordsOf(pool.current_round) = {}
      BY <1>0, <1>t, <2>2 DEF RecordsBelongToRounds, RecordsOf, TypeOK, WorkRecordType
    <3> QED
      BY <3>1, SumEmpty DEF CreditedWork
  <2> QED
    BY <1>0, <1>u, <2>1, <2>2, <2>3 DEF WorkConserved
<1>4. ASSUME NEW acc \in accumulators, NEW m \in Miners,
             NEW batch \in SUBSET {x \in mrs : x.miner = m},
             AccumulateMinerStats(acc, m, batch)
      PROVE  WorkConserved'
  <2>1. PICK w \in 0 .. MaxWork :
          LET rec == [round_id |-> acc.round_id, miner |-> m, net_work |-> w]
          IN  /\ \E a \in AccumulatorType :
                   /\ accumulators' = (accumulators \ {acc}) \cup {a}
                   /\ a.round_id = acc.round_id
                   /\ a.total_work = acc.total_work + w
              /\ w = 0 => workRecords' = workRecords
              /\ w > 0 => /\ workRecords' = workRecords \cup {rec}
                          /\ rec \in WorkRecordType
                          /\ \A u \in workRecords : Key(u) # Key(rec)
    BY <1>4, AccumulateEffect
  <2>2. PICK a \in AccumulatorType :
          /\ accumulators' = (accumulators \ {acc}) \cup {a}
          /\ a.round_id = acc.round_id
          /\ a.total_work = acc.total_work + w
    BY <2>1
  <2>3. /\ accumulators = {acc} /\ acc.round_id = pool.current_round
        /\ histories' = histories
        /\ acc.total_work = CreditedWork(acc.round_id)
        /\ acc.total_work \in Nat
    BY <1>0, <1>4 DEF RoundsCloseInOrder, AccumulateMinerStats, WorkConserved,
                      TypeOK, AccumulatorType
  <2>4. CASE w = 0
    <3>1. accumulators' = {a} /\ a.total_work = CreditedWork(a.round_id)
      BY <2>2, <2>3, <2>4
    <3>2. workRecords' = workRecords
      BY <2>1, <2>4
    <3> QED
      BY <1>0, <1>u, <2>3, <3>1, <3>2 DEF WorkConserved
  <2>5. CASE w > 0
    <3> DEFINE rec == [round_id |-> acc.round_id, miner |-> m, net_work |-> w]
    <3>1. /\ workRecords' = workRecords \cup {rec}
          /\ rec \in WorkRecordType
          /\ rec \notin workRecords
      BY <2>1, <2>5
    <3>2. rec.round_id = acc.round_id /\ rec.net_work = w
      OBVIOUS
    <3> HIDE DEF rec
    <3>3. /\ CreditedWork(rec.round_id)' = CreditedWork(rec.round_id) + rec.net_work
          /\ \A r : r # rec.round_id => CreditedWork(r)' = CreditedWork(r)
      BY <1>0, <3>1, CreditedAdd
    <3>4. accumulators' = {a}
      BY <2>2, <2>3
    <3>5. \A h \in histories : h.round_id # acc.round_id
      BY <1>s, <1>t, <2>3
    <3>6. CreditedWork(acc.round_id)' = CreditedWork(acc.round_id) + w
      BY <3>2, <3>3
    <3>7. \A h \in histories : CreditedWork(h.round_id)' = CreditedWork(h.round_id)
      BY <3>2, <3>3, <3>5
    <3>8. a.total_work = CreditedWork(a.round_id)'
      BY <2>2, <2>3, <3>6
    <3>9. \A h \in histories' : h.total_work = CreditedWork(h.round_id)'
      BY <1>0, <2>3, <3>7 DEF WorkConserved
    <3> QED
      BY <3>4, <3>8, <3>9 DEF WorkConserved
  <2> QED
    BY <2>4, <2>5
<1>5. ASSUME NEW acc \in accumulators, FinalizeRound(acc)
      PROVE  WorkConserved'
  <2>1. PICK h \in HistoryType : /\ histories' = histories \cup {h}
                                 /\ h.round_id = pool.current_round
                                 /\ h.total_work = acc.total_work
    BY <1>5, FinalizeEffect
  <2>2. /\ accumulators' = {} /\ workRecords' = workRecords
        /\ acc.round_id = pool.current_round
    BY <1>5, FinalizeEffect
  <2>3. h.total_work = CreditedWork(h.round_id)
    BY <1>0, <2>1, <2>2 DEF WorkConserved
  <2> QED
    BY <1>0, <1>u, <2>1, <2>2, <2>3 DEF WorkConserved
<1> QED
  BY <1>0, <1>1, <1>2, <1>3, <1>4, <1>5, StepCases, StatsFrame

\* RoundsInv is inductive.
LEMMA StepInv == RoundsInv /\ [Next]_vars => RoundsInv'
<1> SUFFICES ASSUME RoundsInv, [Next]_vars PROVE RoundsInv'
  OBVIOUS
<1>1. TypeOK'
  BY StepType DEF RoundsInv
<1>2. OneWorkRecordPerMinerRound' /\ KeysAreRegistered'
  BY KeysStep
<1>3. RoundsCloseInOrder'
  BY OrderStep
<1>4. RecordsBelongToRounds' /\ WorkFits'
  BY RecordsStep
<1>5. WorkConserved'
  BY ConservedStep
<1> QED
  BY <1>1, <1>2, <1>3, <1>4, <1>5 DEF RoundsInv

\* The inductive invariant holds in every reachable state.
THEOREM RoundsInvariant == Spec => []RoundsInv
<1>1. Init => RoundsInv
  BY InitInv
<1>2. RoundsInv /\ [Next]_vars => RoundsInv'
  BY StepInv
<1> QED
  BY <1>1, <1>2, PTL DEF Spec

\* Every object the round pipeline ever builds is a well-formed Move struct.
THEOREM RoundsTypeCorrect == Spec => []TypeOK
<1>1. RoundsInv => TypeOK
  BY DEF RoundsInv
<1> QED
  BY <1>1, RoundsInvariant, PTL

\* Each miner gets at most one work record for a round, for any number of miners and
\* rounds: create_round_stats' registry is enough, no "claimed" table is needed.
THEOREM WorkRecordsAreUnique == Spec => []OneWorkRecordPerMinerRound
<1>1. RoundsInv => OneWorkRecordPerMinerRound
  BY DEF RoundsInv
<1> QED
  BY <1>1, RoundsInvariant, PTL

\* The total_work a round closes with is exactly the sum of its miners' work records.
THEOREM WorkIsConserved == Spec => []WorkConserved
<1>1. RoundsInv => WorkConserved
  BY DEF RoundsInv
<1> QED
  BY <1>1, RoundsInvariant, PTL

\* Rounds close one after the other, each exactly once.
THEOREM RoundsAreOrdered == Spec => []RoundsCloseInOrder
<1>1. RoundsInv => RoundsCloseInOrder
  BY DEF RoundsInv
<1> QED
  BY <1>1, RoundsInvariant, PTL

\* Only a share that was just counted can be sold.
LEMMA SoldStep ==
  ASSUME RoundsInv, SoldWorkWasDone, [Next]_vars
  PROVE  SoldWorkWasDone'
<1>0. TypeOK
  BY DEF RoundsInv
<1> USE DEF SoldWorkWasDone
<1>1. CASE QuietStep
  BY <1>0, <1>1, QuietFrame DEF coreVars
<1>2. ASSUME NEW m \in Miners, NEW r \in Rounds, NEW h \in Heights,
             CreateRoundStats(m, r, h)
      PROVE  SoldWorkWasDone'
  BY <1>2 DEF CreateRoundStats
<1>3. ASSUME NEW x \in mrs, CloseMinerRoundStats(x)
      PROVE  SoldWorkWasDone'
  BY <1>3 DEF CloseMinerRoundStats
<1>4. ASSUME NEW m \in Miners, NEW t \in 1 .. Len(templates), NEW n \in Nonces,
             NEW x \in mrs, NEW d \in dedups, NEW sell \in BOOLEAN,
             SubmitShare(m, t, n, x, d, sell)
      PROVE  SoldWorkWasDone'
  <2> DEFINE y == AfterShare(x, HashDifficulty[n], templates[t].height, sell)
  <2>1. x \in RoundStatsType /\ HashDifficulty[n] \in Nat /\ templates[t].height \in Nat
    <3>1. templates[t] \in TemplateType
      BY <1>0 DEF TypeOK
    <3> QED
      BY <1>0, <3>1, RoundsAssumption DEF TypeOK, TemplateType
  <2>2. y.sold_work <= y.work /\ y.sold_shares <= y.shares
    BY <2>1, AfterShareEffect, Zenon
  <2>3. mrs' = (mrs \ {x}) \cup {y}
    BY <1>4 DEF SubmitShare
  <2> HIDE DEF y
  <2> QED
    BY <2>2, <2>3
<1>5. ASSUME NEW acc \in accumulators, NEW m \in Miners,
             NEW batch \in SUBSET {x \in mrs : x.miner = m},
             AccumulateMinerStats(acc, m, batch)
      PROVE  SoldWorkWasDone'
  BY <1>5 DEF AccumulateMinerStats
<1>6. ASSUME NEW c \in claims, OpenRoundAccumulatorFromClaim(c)
      PROVE  SoldWorkWasDone'
  BY <1>6 DEF OpenRoundAccumulatorFromClaim, minerVars
<1>7. ASSUME NEW acc \in accumulators, FinalizeRound(acc)
      PROVE  SoldWorkWasDone'
  BY <1>7 DEF FinalizeRound, minerVars
<1> QED
  BY <1>1, <1>2, <1>3, <1>4, <1>5, <1>6, <1>7, StepCases

\* What accumulate_miner_stats subtracts never exceeds what was mined.
THEOREM SoldWorkIsMinedWork == Spec => []SoldWorkWasDone
<1>1. Init => SoldWorkWasDone
  BY DEF Init, SoldWorkWasDone
<1>2. RoundsInv /\ SoldWorkWasDone /\ [Next]_vars => SoldWorkWasDone'
  BY SoldStep
<1> QED
  BY <1>1, <1>2, RoundsInvariant, PTL DEF Spec

-----------------------------------------------------------------------------
(* Where a closed round's block comes from.                                *)

\* Claims are frozen objects: a step only adds to them.
LEMMA ClaimsStay ==
  ASSUME [Next]_vars
  PROVE  claims \subseteq claims'
<1>1. CASE QuietStep
  BY <1>1 DEF QuietStep, vars, Tick, RegisterTemplate, SetDifficulty, ResetDifficulty,
              RegisterMiner, CreateShareDedup, CloseShareDedup, DeleteShareDedup
<1>2. ASSUME NEW m \in Miners, NEW t \in 1 .. Len(templates), NEW n \in Nonces,
             NEW x \in mrs, NEW d \in dedups, NEW sell \in BOOLEAN,
             SubmitShare(m, t, n, x, d, sell)
      PROVE  claims \subseteq claims'
  <2>1. \E c : claims' \in {claims, claims \cup {c}}
    BY <1>2, Zenon DEF SubmitShare
  <2> QED
    BY <2>1
<1>3. ASSUME NEW acc \in accumulators, NEW m \in Miners, NEW batch,
             AccumulateMinerStats(acc, m, batch)
      PROVE  claims \subseteq claims'
  BY <1>3 DEF AccumulateMinerStats
<1> QED
  BY <1>1, <1>2, <1>3, StepCases
     DEF CreateRoundStats, CloseMinerRoundStats, OpenRoundAccumulatorFromClaim, FinalizeRound

\* An accumulator is opened from a claim, keeps its finder and height while work is
\* added, and hands them to the history.
LEMMA BlockStep ==
  ASSUME RoundsInv, RoundsHaveTheirBlock, [Next]_vars
  PROVE  RoundsHaveTheirBlock'
<1> DEFINE Backed(o) == \E c \in claims : /\ c.round_id = o.round_id
                                          /\ c.block_finder = o.block_finder
                                          /\ c.height = o.block_found_height
<1>0. TypeOK /\ RoundsCloseInOrder
  BY DEF RoundsInv
<1>a. \A o \in accumulators \cup histories : Backed(o)
  BY DEF RoundsHaveTheirBlock
<1>b. claims \subseteq claims'
  BY ClaimsStay
<1>c. SUFFICES \A o \in accumulators' \cup histories' : Backed(o)
  BY <1>b DEF RoundsHaveTheirBlock
<1>1. CASE UNCHANGED <<accumulators, histories>>
  BY <1>1, <1>a
<1>2. ASSUME NEW c \in claims, OpenRoundAccumulatorFromClaim(c)
      PROVE  \A o \in accumulators' \cup histories' : Backed(o)
  <2> DEFINE a == [round_id |-> pool.current_round, total_work |-> 0, total_shares |-> 0,
                   created_at_ms |-> now, block_finder |-> c.block_finder,
                   block_found_height |-> c.height]
  <2>1. accumulators' = accumulators \cup {a} /\ histories' = histories
    BY <1>2 DEF OpenRoundAccumulatorFromClaim
  <2>2. c.round_id = pool.current_round
    BY <1>2 DEF OpenRoundAccumulatorFromClaim, MayOpen
  <2>3. Backed(a)
    BY <2>2
  <2> QED
    BY <1>a, <2>1, <2>3
<1>3. ASSUME NEW acc \in accumulators, NEW m \in Miners,
             NEW batch \in SUBSET {x \in mrs : x.miner = m},
             AccumulateMinerStats(acc, m, batch)
      PROVE  \A o \in accumulators' \cup histories' : Backed(o)
  <2> DEFINE b == AddTo(acc, Counted(acc, batch))
  <2>1. /\ accumulators' = (accumulators \ {acc}) \cup {b}
        /\ histories' = histories
    BY <1>3 DEF AccumulateMinerStats
  <2>2. acc \in AccumulatorType
    BY <1>0 DEF TypeOK
  <2>3. /\ b.round_id = acc.round_id /\ b.block_finder = acc.block_finder
        /\ b.block_found_height = acc.block_found_height
    BY <2>2 DEF AddTo, AccumulatorType
  <2> HIDE DEF b
  <2>4. Backed(b)
    BY <1>a, <2>3
  <2> QED
    BY <1>a, <2>1, <2>4
<1>4. ASSUME NEW acc \in accumulators, FinalizeRound(acc)
      PROVE  \A o \in accumulators' \cup histories' : Backed(o)
  <2> DEFINE h == [round_id |-> acc.round_id, total_work |-> acc.total_work,
                   total_shares |-> acc.total_shares, block_finder |-> acc.block_finder,
                   block_found_height |-> acc.block_found_height]
  <2>1. accumulators' \subseteq accumulators /\ histories' = histories \cup {h}
    BY <1>4 DEF FinalizeRound, Destroyed
  <2>2. Backed(h)
    BY <1>a
  <2> QED
    BY <1>a, <2>1, <2>2
<1>5. CASE QuietStep
  BY <1>0, <1>1, <1>5, QuietFrame DEF coreVars
<1> QED
  BY <1>0, <1>1, <1>2, <1>3, <1>4, <1>5, StepCases, StatsFrame

\* Every round is closed with a block that was found in it.
THEOREM RoundsCloseWithTheirBlock == Spec => []RoundsHaveTheirBlock
<1>1. Init => RoundsHaveTheirBlock
  BY DEF Init, RoundsHaveTheirBlock
<1>2. RoundsInv /\ RoundsHaveTheirBlock /\ [Next]_vars => RoundsHaveTheirBlock'
  BY BlockStep
<1> QED
  BY <1>1, <1>2, RoundsInvariant, PTL DEF Spec

-----------------------------------------------------------------------------
(* What a step may not do.                                                 *)

\* A closed round keeps its history, and gets no further work record.
LEMMA FrozenStep ==
  ASSUME RoundsInv, [Next]_vars, NEW h \in histories
  PROVE  h \in histories' /\ RecordsOf(h.round_id)' = RecordsOf(h.round_id)
<1>0. TypeOK /\ RoundsCloseInOrder
  BY DEF RoundsInv
<1>1. CASE UNCHANGED <<workRecords, histories>>
  BY <1>1 DEF RecordsOf
<1>2. ASSUME NEW c \in claims, OpenRoundAccumulatorFromClaim(c)
      PROVE  UNCHANGED <<workRecords, histories>>
  BY <1>2 DEF OpenRoundAccumulatorFromClaim
<1>3. ASSUME NEW acc \in accumulators, NEW m \in Miners,
             NEW batch \in SUBSET {x \in mrs : x.miner = m},
             AccumulateMinerStats(acc, m, batch)
      PROVE  h \in histories' /\ RecordsOf(h.round_id)' = RecordsOf(h.round_id)
  <2>1. acc.round_id = pool.current_round
    BY <1>0 DEF RoundsCloseInOrder
  <2>2. h.round_id \in 0 .. (pool.current_round - 1) /\ pool.current_round \in Nat
    BY <1>0 DEF RoundsCloseInOrder, TypeOK, PoolType
  <2>3. h.round_id # acc.round_id
    BY <2>1, <2>2
  <2> QED
    BY <1>3, <2>3 DEF AccumulateMinerStats, RecordsOf
<1>4. ASSUME NEW acc \in accumulators, FinalizeRound(acc)
      PROVE  h \in histories' /\ RecordsOf(h.round_id)' = RecordsOf(h.round_id)
  BY <1>4 DEF FinalizeRound, RecordsOf
<1>5. CASE QuietStep
  BY <1>0, <1>1, <1>5, QuietFrame DEF coreVars
<1> QED
  BY <1>0, <1>1, <1>2, <1>3, <1>4, <1>5, StepCases, StatsFrame

\* What a closed round owes is settled for good by finalize_round.
THEOREM ClosedRoundsStayFrozen == Spec => ClosedRoundsAreFrozen
<1> DEFINE A == \A h \in histories : /\ h \in histories'
                                     /\ RecordsOf(h.round_id)' = RecordsOf(h.round_id)
<1>1. RoundsInv /\ [Next]_vars => [A]_vars
  BY FrozenStep
<1> QED
  BY <1>1, RoundsInvariant, PTL DEF Spec, ClosedRoundsAreFrozen

\* A share moves its MinerRoundStats up, and no other step changes one.
LEMMA RatchetStep ==
  ASSUME RoundsInv, [Next]_vars, NEW x \in mrs, NEW y \in mrs', Key(x) = Key(y)
  PROVE  y.min_height >= x.min_height /\ y.work >= x.work /\ y.shares >= x.shares
<1>0. TypeOK /\ OneWorkRecordPerMinerRound /\ KeysAreRegistered
  BY DEF RoundsInv
<1>a. x \in RoundStatsType
  BY <1>0 DEF TypeOK
<1>b. /\ x.min_height \in Nat /\ x.work \in Nat /\ x.shares \in Nat
  BY <1>a DEF RoundStatsType
<1>1. CASE y \in mrs
  <2>1. x = y
    BY <1>0, <1>1 DEF OneWorkRecordPerMinerRound
  <2> QED
    BY <1>b, <2>1
<1>2. ASSUME NEW m \in Miners, NEW r \in Rounds, NEW h \in Heights,
             CreateRoundStats(m, r, h)
      PROVE  y \in mrs
  <2>1. <<m, r>> \notin roundRegistry /\ Key(y) \in roundRegistry
    BY <1>0, <1>2 DEF CreateRoundStats, StatsKeyFree, KeysAreRegistered
  <2> QED
    BY <1>2, <2>1 DEF CreateRoundStats, Key
<1>3. ASSUME NEW z \in mrs, CloseMinerRoundStats(z)
      PROVE  y \in mrs
  BY <1>3 DEF CloseMinerRoundStats
<1>4. ASSUME NEW m \in Miners, NEW t \in 1 .. Len(templates), NEW n \in Nonces,
             NEW z \in mrs, NEW d \in dedups, NEW sell \in BOOLEAN,
             SubmitShare(m, t, n, z, d, sell), y \notin mrs
      PROVE  y.min_height >= x.min_height /\ y.work >= x.work /\ y.shares >= x.shares
  <2> DEFINE diff == HashDifficulty[n]
             height == templates[t].height
             w == AfterShare(z, diff, height, sell)
  <2>1. z \in RoundStatsType /\ diff \in Nat /\ height \in Nat
    <3>1. templates[t] \in TemplateType
      BY <1>0 DEF TypeOK
    <3> QED
      BY <1>0, <3>1, RoundsAssumption DEF TypeOK, TemplateType
  <2>2. y = w
    BY <1>4 DEF SubmitShare
  <2> HIDE DEF diff, height
  <2>3. w.miner = z.miner /\ w.round_id = z.round_id
    BY <2>1, AfterShareEffect, Zenon
  <2>7. w.work = z.work + diff /\ w.shares = z.shares + 1
    BY <2>1, AfterShareEffect, Zenon
  <2>4. w.min_height = height
    BY <2>1, AfterShareHeight, Zenon
  <2>5. height >= z.min_height
    BY <1>4 DEF height, SubmitShare, StatsAccept
  <2> HIDE DEF w
  <2>6. z = x
    BY <1>0, <2>2, <2>3 DEF OneWorkRecordPerMinerRound, Key
  <2> QED
    BY <1>b, <2>1, <2>2, <2>4, <2>5, <2>6, <2>7
<1>5. ASSUME NEW acc \in accumulators, NEW m \in Miners,
             NEW batch \in SUBSET {z \in mrs : z.miner = m},
             AccumulateMinerStats(acc, m, batch)
      PROVE  y \in mrs
  BY <1>5 DEF AccumulateMinerStats
<1>6. ASSUME NEW c \in claims, OpenRoundAccumulatorFromClaim(c)
      PROVE  y \in mrs
  BY <1>6 DEF OpenRoundAccumulatorFromClaim, minerVars
<1>7. ASSUME NEW acc \in accumulators, FinalizeRound(acc)
      PROVE  y \in mrs
  BY <1>7 DEF FinalizeRound, minerVars
<1>8. CASE QuietStep
  BY <1>0, <1>1, <1>8, QuietFrame DEF coreVars
<1> QED
  BY <1>1, <1>2, <1>3, <1>4, <1>5, <1>6, <1>7, <1>8, StepCases

\* The height floor and the counters of a live MinerRoundStats never fall.
THEOREM RoundStatsNeverFall == Spec => RoundStatsRatchet
<1> DEFINE A == \A x \in mrs, y \in mrs' :
                  Key(x) = Key(y) => /\ y.min_height >= x.min_height
                                     /\ y.work >= x.work
                                     /\ y.shares >= x.shares
<1>1. RoundsInv /\ [Next]_vars => [A]_vars
  BY RatchetStep
<1> QED
  BY <1>1, RoundsInvariant, PTL DEF Spec, RoundStatsRatchet

-----------------------------------------------------------------------------
(* Statistics and dedup objects count the same shares.                     *)

\* The dedup objects and keys, and the statistics, that DedupInv is about.
LEMMA DedupFrame ==
  ASSUME DedupInv, mrs' \subseteq mrs,
         UNCHANGED <<dedups, dedupRegistry, drained, roundRegistry>>
  PROVE  DedupInv'
BY DEF DedupInv, Key

\* A share adds one hash to the dedup object and one to the counter of the same key.
LEMMA DedupSubmit ==
  ASSUME RoundsInv, DedupInv,
         NEW m \in Miners, NEW t \in 1 .. Len(templates), NEW n \in Nonces,
         NEW x \in mrs, NEW d \in dedups, NEW sell \in BOOLEAN,
         SubmitShare(m, t, n, x, d, sell)
  PROVE  DedupInv'
<1> DEFINE y == AfterShare(x, HashDifficulty[n], templates[t].height, sell)
           h == ShareHash(t, n)
           e == CheckAndRecord(d, h)
<1>0. TypeOK /\ OneWorkRecordPerMinerRound /\ KeysAreRegistered
  BY DEF RoundsInv
<1>1. x \in RoundStatsType /\ HashDifficulty[n] \in Nat /\ templates[t].height \in Nat
  <2>1. templates[t] \in TemplateType
    BY <1>0 DEF TypeOK
  <2> QED
    BY <1>0, <2>1, RoundsAssumption DEF TypeOK, TemplateType
<1>2. y.miner = x.miner /\ y.round_id = x.round_id
  BY <1>1, AfterShareEffect, Zenon
<1>3. y.shares = x.shares + 1
  BY <1>1, AfterShareEffect, Zenon
<1>4. Key(y) = Key(x)
  BY <1>2 DEF Key
<1>5. d \in DedupType
  BY <1>0 DEF TypeOK
<1>6. Key(e) = Key(d) /\ e.hashes = d.hashes \cup {h}
  BY <1>5 DEF CheckAndRecord, DedupType, Key
<1>7. Key(d) = Key(x) /\ h \notin d.hashes
  BY DEF SubmitShare, StatsAccept, Key
<1>8. /\ IsFiniteSet(e.hashes)
      /\ Cardinality(e.hashes) = Cardinality(d.hashes) + 1
  <2> HIDE DEF e, h
  <2>1. IsFiniteSet(d.hashes)
    BY DEF DedupInv
  <2> QED
    BY <1>6, <1>7, <2>1, FS_AddElement
<1>9. /\ dedups' = (dedups \ {d}) \cup {e}
      /\ mrs' = (mrs \ {x}) \cup {y}
      /\ UNCHANGED <<dedupRegistry, drained, roundRegistry>>
  BY DEF SubmitShare
<1> HIDE DEF y, h, e
<1>10. \A f, g \in dedups' : Key(f) = Key(g) => f = g
  BY <1>6, <1>9 DEF DedupInv
<1>11. \A f \in dedups' : Key(f) \in dedupRegistry' /\ IsFiniteSet(f.hashes)
  BY <1>6, <1>8, <1>9 DEF DedupInv
<1>12. \A f \in dedups' : Key(f) \in drained' \cup roundRegistry' \/ f.hashes = {}
  <2>1. Key(e) \in roundRegistry
    BY <1>0, <1>6, <1>7 DEF KeysAreRegistered
  <2> QED
    BY <1>9, <2>1 DEF DedupInv
<1>13. ASSUME NEW z \in mrs', Key(z) \notin drained'
       PROVE  /\ \A f \in dedups' : Key(f) = Key(z) => Cardinality(f.hashes) = z.shares
              /\ z.shares # 0 => \E f \in dedups' : Key(f) = Key(z)
  <2>1. CASE z = y
    <3>1. Cardinality(d.hashes) = x.shares
      BY <1>4, <1>7, <1>9, <1>13, <2>1 DEF DedupInv
    <3>2. Cardinality(e.hashes) = y.shares
      BY <1>3, <1>8, <3>1
    <3> QED
      BY <1>4, <1>6, <1>7, <1>9, <1>10, <2>1, <3>2
  <2>2. CASE z # y
    <3>1. z \in mrs /\ Key(z) # Key(x)
      BY <1>0, <1>9, <2>2 DEF OneWorkRecordPerMinerRound
    <3> QED
      BY <1>6, <1>7, <1>9, <1>13, <3>1 DEF DedupInv
  <2> QED
    BY <2>1, <2>2
<1> QED
  BY <1>10, <1>11, <1>12, <1>13 DEF DedupInv, Key

\* Every transaction keeps DedupInv.
LEMMA DedupStep ==
  ASSUME RoundsInv, DedupInv, [Next]_vars
  PROVE  DedupInv'
<1>0. TypeOK /\ KeysAreRegistered
  BY DEF RoundsInv
<1>a. \A d \in dedups : d \in DedupType
  BY <1>0 DEF TypeOK
<1>1. CASE mrs' \subseteq mrs /\ UNCHANGED <<dedups, dedupRegistry, drained, roundRegistry>>
  BY <1>1, DedupFrame
<1>2. ASSUME NEW m \in Miners, NEW r \in Rounds, NEW h \in Heights,
             CreateRoundStats(m, r, h)
      PROVE  DedupInv'
  <2> DEFINE x == [round_id |-> r, miner |-> m, work |-> 0, shares |-> 0,
                   sold_work |-> 0, sold_shares |-> 0, min_height |-> h]
  <2>1. /\ <<m, r>> \notin roundRegistry /\ roundRegistry' = roundRegistry \cup {<<m, r>>}
        /\ mrs' = mrs \cup {x} /\ UNCHANGED <<dedups, dedupRegistry, drained>>
    BY <1>2 DEF CreateRoundStats, StatsKeyFree, dedupVars
  <2>2. Key(x) = <<m, r>> /\ x.shares = 0
    BY DEF Key
  <2>3. \A d \in dedups : Key(d) = Key(x) /\ Key(x) \notin drained => d.hashes = {}
    BY <2>1, <2>2 DEF DedupInv
  <2>4. \A d \in dedups : Key(d) = Key(x) /\ Key(x) \notin drained =>
                            Cardinality(d.hashes) = x.shares
    BY <2>2, <2>3, FS_EmptySet
  <2> HIDE DEF x
  <2> QED
    BY <2>1, <2>2, <2>4 DEF DedupInv, Key
<1>3. ASSUME NEW m \in Miners, NEW r \in Rounds, CreateShareDedup(m, r)
      PROVE  DedupInv'
  <2> DEFINE d == [round_id |-> r, miner |-> m, hashes |-> {}]
  <2>1. /\ <<m, r>> \notin dedupRegistry /\ dedupRegistry' = dedupRegistry \cup {<<m, r>>}
        /\ dedups' = dedups \cup {d} /\ UNCHANGED <<mrs, roundRegistry, drained>>
    BY <1>3 DEF CreateShareDedup, minerVars
  <2>2. Key(d) = <<m, r>> /\ d.hashes = {} /\ IsFiniteSet({}) /\ Cardinality({}) = 0
    BY FS_EmptySet DEF Key
  <2>3. \A x \in mrs : Key(x) = <<m, r>> /\ Key(x) \notin drained => x.shares = 0
    BY <2>1 DEF DedupInv
  <2> HIDE DEF d
  <2>4. \A f, g \in dedups' : Key(f) = Key(g) => f = g
    BY <2>1, <2>2 DEF DedupInv
  <2>5. \A f \in dedups' : Key(f) \in dedupRegistry' /\ IsFiniteSet(f.hashes)
    BY <2>1, <2>2 DEF DedupInv
  <2>6. \A f \in dedups' : Key(f) \in drained' \cup roundRegistry' \/ f.hashes = {}
    BY <2>1, <2>2 DEF DedupInv
  <2>7. \A x \in mrs' : Key(x) \notin drained' =>
          /\ \A f \in dedups' : Key(f) = Key(x) => Cardinality(f.hashes) = x.shares
          /\ x.shares # 0 => \E f \in dedups' : Key(f) = Key(x)
    BY <2>1, <2>2, <2>3 DEF DedupInv
  <2> QED
    BY <2>4, <2>5, <2>6, <2>7 DEF DedupInv, Key
<1>4. ASSUME NEW d \in dedups, NEW H \in SUBSET d.hashes, CloseShareDedup(d, H)
      PROVE  DedupInv'
  <2> DEFINE e == [d EXCEPT !.hashes = @ \ (d.hashes \cap H)]
  <2>1. /\ dedups' = (dedups \ {d}) \cup {e}
        /\ drained' = IF d.hashes \cap H = {} THEN drained ELSE drained \cup {Key(d)}
        /\ UNCHANGED <<mrs, roundRegistry, dedupRegistry>>
    BY <1>4 DEF CloseShareDedup, minerVars
  <2>2. Key(e) = Key(d) /\ e.hashes = d.hashes \ (d.hashes \cap H)
    BY <1>a DEF Key, DedupType
  <2>3. CASE d.hashes \cap H = {}
    <3>1. e.hashes = d.hashes
      BY <2>2, <2>3
    <3> HIDE DEF e
    <3> QED
      BY <2>1, <2>2, <2>3, <3>1 DEF DedupInv, Key
  <2>4. CASE d.hashes \cap H # {}
    <3>1. IsFiniteSet(e.hashes)
      BY <2>2, FS_Subset DEF DedupInv
    <3>2. drained' = drained \cup {Key(d)}
      BY <2>1, <2>4
    <3> HIDE DEF e
    <3>3. \A f, g \in dedups' : Key(f) = Key(g) => f = g
      BY <2>1, <2>2 DEF DedupInv
    <3>4. \A f \in dedups' : Key(f) \in dedupRegistry' /\ IsFiniteSet(f.hashes)
      BY <2>1, <2>2, <3>1 DEF DedupInv
    <3>5. \A f \in dedups' : Key(f) \in drained' \cup roundRegistry' \/ f.hashes = {}
      BY <2>1, <2>2, <3>2 DEF DedupInv
    <3>6. \A x \in mrs' : Key(x) \notin drained' =>
            /\ \A f \in dedups' : Key(f) = Key(x) => Cardinality(f.hashes) = x.shares
            /\ x.shares # 0 => \E f \in dedups' : Key(f) = Key(x)
      BY <2>1, <2>2, <3>2 DEF DedupInv
    <3> QED
      BY <3>3, <3>4, <3>5, <3>6 DEF DedupInv, Key
  <2> QED
    BY <2>3, <2>4
<1>5. ASSUME NEW d \in dedups, DeleteShareDedup(d)
      PROVE  DedupInv'
  <2>1. /\ d.hashes = {} /\ dedups' = dedups \ {d}
        /\ UNCHANGED <<mrs, roundRegistry, dedupRegistry, drained>>
    BY <1>5 DEF DeleteShareDedup, minerVars
  <2>2. Cardinality(d.hashes) = 0
    BY <2>1, FS_EmptySet
  <2>3. \A x \in mrs : Key(x) = Key(d) /\ Key(x) \notin drained => x.shares = 0
    BY <2>2 DEF DedupInv
  <2> QED
    BY <2>1, <2>3 DEF DedupInv, Key
<1>6. ASSUME NEW m \in Miners, NEW t \in 1 .. Len(templates), NEW n \in Nonces,
             NEW x \in mrs, NEW d \in dedups, NEW sell \in BOOLEAN,
             SubmitShare(m, t, n, x, d, sell)
      PROVE  DedupInv'
  BY <1>6, DedupSubmit
<1>7. ASSUME NEW acc \in accumulators, NEW m \in Miners, NEW batch,
             AccumulateMinerStats(acc, m, batch)
      PROVE  DedupInv'
  BY <1>1, <1>7 DEF AccumulateMinerStats, dedupVars
<1>8. ASSUME \/ Tick \/ ResetDifficulty
             \/ \E h \in Heights, nd \in NetworkDifficulties : RegisterTemplate(h, nd)
             \/ \E diff \in Difficulties : SetDifficulty(diff)
             \/ \E m \in Miners : RegisterMiner(m)
             \/ \E x \in mrs : CloseMinerRoundStats(x)
             \/ \E c \in claims : OpenRoundAccumulatorFromClaim(c)
             \/ \E acc \in accumulators : FinalizeRound(acc)
             \/ UNCHANGED vars
      PROVE  DedupInv'
  BY <1>1, <1>8 DEF Tick, ResetDifficulty, RegisterTemplate, SetDifficulty, RegisterMiner,
                    CloseMinerRoundStats, OpenRoundAccumulatorFromClaim, FinalizeRound,
                    vars, minerVars, dedupVars
<1> QED
  BY <1>2, <1>3, <1>4, <1>5, <1>6, <1>7, <1>8, Zenon DEF Next

\* A MinerRoundStats counts exactly the hashes its ShareDedup holds, unless the owner
\* drained it.
THEOREM SharesAreDeduplicated == Spec => []SharesMatchDedup
<1>1. Init => DedupInv
  BY DEF Init, DedupInv
<1>2. RoundsInv /\ DedupInv /\ [Next]_vars => DedupInv'
  BY DedupStep
<1>3. DedupInv => SharesMatchDedup
  BY DEF DedupInv, SharesMatchDedup
<1> QED
  BY <1>1, <1>2, <1>3, RoundsInvariant, PTL DEF Spec

-----------------------------------------------------------------------------
(* Refinement of the ledger.                                               *)

\* A closed round as the ledger sees it.
Closed == {[round_id |-> h.round_id, total_work |-> h.total_work] : h \in histories}

\* The initial state is the empty ledger.
LEMMA LedgerInitial == Init => Ledger!LedgerInit
BY DEF Init, Ledger!LedgerInit

\* Every transaction is a step of the ledger or leaves it alone.
LEMMA LedgerStep ==
  RoundsInv /\ [Next]_vars => [Ledger!LedgerNext]_(Ledger!ledgerVars)
<1> SUFFICES ASSUME RoundsInv, [Next]_vars
             PROVE  [Ledger!LedgerNext]_(Ledger!ledgerVars)
  OBVIOUS
<1>0. /\ TypeOK /\ RoundsCloseInOrder /\ RecordsBelongToRounds /\ WorkConserved
  BY DEF RoundsInv
<1>1. CASE QuietStep
  BY <1>0, <1>1, QuietFrame DEF coreVars, Ledger!ledgerVars
<1>2. CASE UNCHANGED <<pool, accumulators, workRecords, histories>>
  BY <1>2 DEF Ledger!ledgerVars
<1>3. ASSUME NEW c \in claims, OpenRoundAccumulatorFromClaim(c)
      PROVE  Ledger!LedgerNext
  <2>1. Ledger!OpenRound
    BY <1>3, OpenEffect DEF Ledger!OpenRound
  <2> QED
    BY <2>1 DEF Ledger!LedgerNext
<1>4. ASSUME NEW acc \in accumulators, NEW m \in Miners,
             NEW batch \in SUBSET {x \in mrs : x.miner = m},
             AccumulateMinerStats(acc, m, batch)
      PROVE  [Ledger!LedgerNext]_(Ledger!ledgerVars)
  <2>1. PICK w \in 0 .. MaxWork :
          LET rec == [round_id |-> acc.round_id, miner |-> m, net_work |-> w]
          IN  /\ w = 0 => workRecords' = workRecords
              /\ w > 0 => /\ workRecords' = workRecords \cup {rec}
                          /\ \A u \in workRecords : Key(u) # Key(rec)
    BY <1>4, AccumulateEffect
  <2>2. acc.round_id = pool.current_round /\ pool.accumulator_open
    BY <1>0 DEF RoundsCloseInOrder
  <2>3. pool' = pool /\ histories' = histories
    BY <1>4 DEF AccumulateMinerStats
  <2>4. CASE w = 0
    BY <2>1, <2>3, <2>4 DEF Ledger!ledgerVars
  <2>5. CASE w > 0
    <3>1. w \in 1 .. MaxWork
      BY <2>5, RoundsAssumption
    <3>2. Ledger!Credit(m, w)
      BY <2>1, <2>2, <2>3, <2>5 DEF Ledger!Credit, Ledger!EntriesOf, Key
    <3> QED
      BY <3>1, <3>2 DEF Ledger!LedgerNext
  <2> QED
    BY <2>4, <2>5
<1>5. ASSUME NEW acc \in accumulators, FinalizeRound(acc)
      PROVE  Ledger!LedgerNext
  <2>1. PICK h \in HistoryType : /\ histories' = histories \cup {h}
                                 /\ h.round_id = pool.current_round
                                 /\ h.total_work = acc.total_work
    BY <1>5, FinalizeEffect
  <2>2. /\ pool.accumulator_open /\ acc.round_id = pool.current_round
        /\ pool.current_round < MaxRound
        /\ pool'.accumulator_open = FALSE
        /\ pool'.current_round = pool.current_round + 1
        /\ workRecords' = workRecords
    <3>1. pool'.accumulator_open \in BOOLEAN
      BY StepType, <1>0 DEF TypeOK, PoolType, RoundsInv
    <3> QED
      BY <1>5, <3>1, FinalizeEffect
  <2>3. acc.total_work = Ledger!EnteredWork(pool.current_round)
    <3>1. RecordsOf(pool.current_round) = Ledger!EntriesOf(pool.current_round)
      BY DEF RecordsOf, Ledger!EntriesOf
    <3>2. CreditedWork(pool.current_round) = Ledger!EnteredWork(pool.current_round)
      BY <3>1 DEF CreditedWork, Ledger!EnteredWork, SumOver, Units, Block,
                  Cardinality, Ledger!SumOver, Ledger!Units, Ledger!Block,
                  Ledger!Cardinality
    <3>3. acc.total_work = CreditedWork(acc.round_id)
      BY <1>0 DEF WorkConserved
    <3> QED
      BY <2>2, <3>2, <3>3
  <2>4. Closed' = Closed \cup {[round_id |-> pool.current_round,
                                total_work |-> Ledger!EnteredWork(pool.current_round)]}
    BY <2>1, <2>3 DEF Closed
  <2>5. Ledger!CloseRound
    BY <2>2, <2>4 DEF Ledger!CloseRound, Closed
  <2> QED
    BY <2>5 DEF Ledger!LedgerNext
<1> QED
  BY <1>0, <1>1, <1>2, <1>3, <1>4, <1>5, StepCases, StatsFrame

\* The round pipeline implements the abstract ledger.
THEOREM RoundsImplementLedger == Spec => ImplementsLedger
<1>1. Init => Ledger!LedgerInit
  BY LedgerInitial
<1>2. RoundsInv /\ [Next]_vars => [Ledger!LedgerNext]_(Ledger!ledgerVars)
  BY LedgerStep
<1> QED
  BY <1>1, <1>2, RoundsInvariant, PTL DEF Spec, ImplementsLedger, Ledger!LedgerSpec

=============================================================================
