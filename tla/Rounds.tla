------------------------------- MODULE Rounds -------------------------------
(***************************************************************************)
(* The round pipeline of the pool contract: templates, miner statistics,   *)
(* share deduplication, share submission, and the close of a round         *)
(* (open accumulator, accumulate, finalise).                               *)
(*                                                                         *)
(* Every Sui transaction is atomic, so every entry function is one action; *)
(* an assert is a conjunct of its guard.  Objects are records in a set per *)
(* Move struct; the fields no property distinguishes (byte strings, event  *)
(* payloads) are left out.  Modelled from contracts/sources/pool.move,     *)
(* miner.move and share_dedup.move.                                        *)
(***************************************************************************)
EXTENDS Naturals, FiniteSets, Sequences, WorkSums

CONSTANTS
  Miners,        \* addresses that mine
  Nonces,        \* the rolled fields of a share: (extranonce, ntime, nonce, version)
  HashDifficulty,\* difficulty_from_hash of the header a nonce yields
  Heights,       \* block heights templates are registered for
  NetworkDifficulties, \* values of nbits_to_difficulty(nbits)
  Difficulties,  \* values set_difficulty may be called with
  MinDifficulty, \* MIN_DIFFICULTY
  MaxDifficulty, \* MAX_DIFFICULTY
  Window,        \* ACCUMULATION_WINDOW_MS
  MaxRound,      \* bound: the last round id that is modelled
  MaxTemplates,  \* bound: templates registered in a behaviour
  MaxTime,       \* bound: the clock
  MaxWork        \* bound: the work one MinerRoundStats can hold (a u128 whose
                 \* overflow aborts the transaction)

ASSUME RoundsAssumption ==
  /\ IsFiniteSet(Miners)
  /\ HashDifficulty \in [Nonces -> Nat]
  /\ Heights \subseteq Nat
  /\ NetworkDifficulties \subseteq Nat
  /\ Difficulties \subseteq Nat
  /\ MinDifficulty \in Nat /\ MaxDifficulty \in Nat
  /\ Window \in Nat /\ MaxRound \in Nat /\ MaxTemplates \in Nat
  /\ MaxTime \in Nat /\ MaxWork \in Nat

VARIABLES
  pool,          \* the shared Pool object
  templates,     \* frozen Templates, in the order they were registered
  now,           \* the Clock object, in the unit of Window
  registered,    \* miners that own a MinerStats
  minerStats,    \* counters, summed over a miner's MinerStats objects
  roundRegistry, \* MinerRoundRegistry: (miner, round) keys ever created
  mrs,           \* live MinerRoundStats objects
  dedupRegistry, \* ShareDedupRegistry: (miner, round) keys ever created
  dedups,        \* live ShareDedup objects, with their hash fields
  claims,        \* frozen BlockFoundClaims
  accumulators,  \* live RoundAccumulators
  workRecords,   \* MinerWorkRecords ever created
  histories,     \* frozen RoundHistories
  drained        \* history variable: (miner, round) keys whose ShareDedup
                 \* had a hash removed by close_share_dedup

minerVars == <<registered, minerStats, roundRegistry, mrs>>
dedupVars == <<dedupRegistry, dedups, drained>>
closeVars == <<accumulators, workRecords, histories>>
vars == <<pool, templates, now, minerVars, dedupVars, claims, closeVars>>

Rounds == 0 .. MaxRound

Key(x) == <<x.miner, x.round_id>>

-----------------------------------------------------------------------------
\* The Pool as pool::init creates it; the registries are shared empty.
Init ==
  /\ pool = [total_blocks |-> 0, total_shares |-> 0, current_round |-> 0,
             round_start_ms |-> 0, global_min_difficulty |-> MinDifficulty,
             accumulator_open |-> FALSE, current_height |-> 0]
  /\ templates = << >>
  /\ now = 0
  /\ registered = {}
  /\ minerStats = [m \in Miners |-> [total_shares |-> 0, blocks_found |-> 0]]
  /\ roundRegistry = {} /\ mrs = {}
  /\ dedupRegistry = {} /\ dedups = {} /\ drained = {}
  /\ claims = {}
  /\ accumulators = {} /\ workRecords = {} /\ histories = {}

\* The Sui clock advances between transactions.
Tick ==
  /\ now < MaxTime
  /\ now' = now + 1
  /\ UNCHANGED <<pool, templates, minerVars, dedupVars, claims, closeVars>>

-----------------------------------------------------------------------------
(* Templates and difficulty.                                               *)

\* register_template and register_template_public: the height ratchet, then a
\* frozen Template that snapshots the round and the difficulty floor.
RegisterTemplate(height, netDifficulty) ==
  /\ Len(templates) < MaxTemplates
  /\ pool' = [pool EXCEPT !.current_height =
                IF height > @ THEN height ELSE @]
  /\ templates' = Append(templates,
       [height |-> height, round_id |-> pool.current_round,
        min_difficulty |-> pool.global_min_difficulty,
        cached_network_difficulty |-> netDifficulty])
  /\ UNCHANGED <<now, minerVars, dedupVars, claims, closeVars>>

\* set_difficulty: the cap holder moves the floor within its bounds.
SetDifficulty(diff) ==
  /\ diff >= MinDifficulty /\ diff <= MaxDifficulty
  /\ pool' = [pool EXCEPT !.global_min_difficulty = diff]
  /\ UNCHANGED <<templates, now, minerVars, dedupVars, claims, closeVars>>

\* reset_difficulty.
ResetDifficulty ==
  /\ pool' = [pool EXCEPT !.global_min_difficulty = MinDifficulty]
  /\ UNCHANGED <<templates, now, minerVars, dedupVars, claims, closeVars>>

-----------------------------------------------------------------------------
(* Owned objects of a miner.                                               *)

\* register_miner: a MinerStats with zero counters.  No code reads which of a
\* miner's MinerStats objects it is given, so a second one adds nothing.
RegisterMiner(m) ==
  /\ registered' = registered \cup {m}
  /\ UNCHANGED <<pool, templates, now, minerStats, roundRegistry, mrs,
                 dedupVars, claims, closeVars>>

\* Mutant: the registry is not consulted.
StatsKeyFreeUnchecked(m, r) == TRUE

\* The registry's check: the key was never created before.
StatsKeyFree(m, r) == <<m, r>> \notin roundRegistry

\* create_round_stats: at most once for a (miner, round), for any round id and
\* any floor the caller names.
CreateRoundStats(m, r, minHeight) ==
  /\ StatsKeyFree(m, r)
  /\ roundRegistry' = roundRegistry \cup {<<m, r>>}
  /\ mrs' = mrs \cup {[round_id |-> r, miner |-> m, work |-> 0, shares |-> 0,
                       sold_work |-> 0, sold_shares |-> 0,
                       min_height |-> minHeight]}
  /\ UNCHANGED <<pool, templates, now, registered, minerStats, dedupVars,
                 claims, closeVars>>

\* close_miner_round_stats: the owner deletes the object for its storage rent.
CloseMinerRoundStats(x) ==
  /\ x \in mrs
  /\ mrs' = mrs \ {x}
  /\ UNCHANGED <<pool, templates, now, registered, minerStats, roundRegistry,
                 dedupVars, claims, closeVars>>

\* create_share_dedup: at most once for a (miner, round).
CreateShareDedup(m, r) ==
  /\ <<m, r>> \notin dedupRegistry
  /\ dedupRegistry' = dedupRegistry \cup {<<m, r>>}
  /\ dedups' = dedups \cup {[round_id |-> r, miner |-> m, hashes |-> {}]}
  /\ UNCHANGED <<pool, templates, now, minerVars, drained, claims, closeVars>>

\* close_share_dedup: the owner removes any of the recorded hashes.
CloseShareDedup(d, hashesToRemove) ==
  /\ d \in dedups
  /\ LET removed == d.hashes \cap hashesToRemove
     IN  /\ dedups' = (dedups \ {d}) \cup
                        {[d EXCEPT !.hashes = @ \ removed]}
         /\ drained' = IF removed = {} THEN drained ELSE drained \cup {Key(d)}
  /\ UNCHANGED <<pool, templates, now, minerVars, dedupRegistry, claims,
                 closeVars>>

\* delete_share_dedup: only when no hash is left; the key stays registered.
DeleteShareDedup(d) ==
  /\ d \in dedups
  /\ d.hashes = {}
  /\ dedups' = dedups \ {d}
  /\ UNCHANGED <<pool, templates, now, minerVars, dedupRegistry, drained,
                 claims, closeVars>>

-----------------------------------------------------------------------------
(* Share submission.                                                       *)

\* The header hash commits to the template and to every rolled field, so the
\* pair identifies it (SHA256d is taken to be injective).
ShareHash(t, n) == <<t, n>>

\* Mutant: the hash is checked and never stored.
CheckWithoutRecord(d, hash) == d

\* check_and_record: the dedup object after the hash is added.
CheckAndRecord(d, hash) == [d EXCEPT !.hashes = @ \cup {hash}]

\* Mutant: no height ratchet.
StatsAcceptAnyHeight(x, m, template) ==
  x.round_id = template.round_id /\ x.miner = m

\* The asserts of record_share: the round, the owner and the height ratchet.
StatsAccept(x, m, template) ==
  /\ x.round_id = template.round_id
  /\ x.miner = m
  /\ template.height >= x.min_height

\* Mutant: the work of the last share replaces the sum.
RecordShareOverwrites(x, difficulty, height) ==
  [x EXCEPT !.work = difficulty, !.shares = x.shares + 1, !.min_height = height]

\* record_share on the MinerRoundStats.
RecordShare(x, difficulty, height) ==
  [x EXCEPT !.work = x.work + difficulty, !.shares = x.shares + 1,
            !.min_height = height]

\* record_sold_share, which mint_share calls: the work is marked as sold.
RecordSoldShare(x, difficulty) ==
  [x EXCEPT !.sold_work = x.sold_work + difficulty, !.sold_shares = x.sold_shares + 1]

\* The MinerRoundStats after a share whose ShareReceipt is sold or dropped.
AfterShare(x, difficulty, height, sell) ==
  IF sell THEN RecordSoldShare(RecordShare(x, difficulty, height), difficulty)
          ELSE RecordShare(x, difficulty, height)

\* submit_share: template t, rolled fields n, and the caller's own objects x
\* and d.  The pool itself is not read.  The ShareReceipt has no ability but drop,
\* so it is sold (hash_share::mint_share) in the same transaction or never.
SubmitShare(m, t, n, x, d, sell) ==
  LET template   == templates[t]
      difficulty == HashDifficulty[n]
      hash       == ShareHash(t, n)
      isBlock    == difficulty >= template.cached_network_difficulty
  IN  /\ m \in registered
      /\ d \in dedups /\ d.miner = m /\ d.round_id = template.round_id
      /\ difficulty >= template.min_difficulty
      /\ hash \notin d.hashes
      /\ x \in mrs /\ StatsAccept(x, m, template)
      /\ x.work + difficulty <= MaxWork
      /\ dedups' = (dedups \ {d}) \cup {CheckAndRecord(d, hash)}
      /\ mrs' = (mrs \ {x}) \cup 
                {AfterShare(x, difficulty, template.height, sell)}
      /\ minerStats' = [minerStats EXCEPT
           ![m] = [total_shares |-> @.total_shares + 1,
                   blocks_found |-> @.blocks_found + (IF isBlock THEN 1 ELSE 0)]]
      /\ claims' = IF isBlock
                   THEN claims \cup {[round_id |-> template.round_id,
                                      height |-> template.height,
                                      block_finder |-> m,
                                      share_hash |-> hash]}
                   ELSE claims
      /\ UNCHANGED <<pool, templates, now, registered, roundRegistry,
                     dedupRegistry, drained, closeVars>>

-----------------------------------------------------------------------------
(* Round close.                                                            *)

\* Mutants: accumulator_open is not looked at; any claim opens the current round.
MayOpenTwice(c) == c.round_id = pool.current_round
MayOpenStale(c) == ~pool.accumulator_open

\* A claim of the current round, and no accumulator live yet.
MayOpen(c) == c.round_id = pool.current_round /\ ~pool.accumulator_open

\* open_round_accumulator_from_claim: a stale claim aborts; a second call while
\* an accumulator is live returns without effect.
OpenRoundAccumulatorFromClaim(c) ==
  /\ c \in claims
  /\ MayOpen(c)
  /\ pool' = [pool EXCEPT !.accumulator_open = TRUE]
  /\ accumulators' = accumulators \cup
       {[round_id |-> pool.current_round, total_work |-> 0, total_shares |-> 0,
         created_at_ms |-> now, block_finder |-> c.block_finder,
         block_found_height |-> c.height]}
  /\ UNCHANGED <<templates, now, minerVars, dedupVars, claims, workRecords,
                 histories>>

\* Work and shares left after what the miner sold as HashShares.
NetWork(x) == IF x.sold_work >= x.work THEN 0 ELSE x.work - x.sold_work
NetShares(x) == IF x.sold_shares >= x.shares THEN 0 ELSE x.shares - x.sold_shares

\* The objects of the vector that belong to the accumulator's round.
Counted(acc, batch) == {x \in batch : x.round_id = acc.round_id}

\* Those with something left to claim get a MinerWorkRecord.
Creditable(counted) == {x \in counted : NetWork(x) > 0}

\* Mutant: the last batch replaces the total.
AddToOverwrites(acc, counted) ==
  [acc EXCEPT !.total_work = SumOver(counted, [x \in counted |-> NetWork(x)])]

\* The accumulator with the net work and shares of the counted objects added.
AddTo(acc, counted) ==
  [acc EXCEPT
     !.total_work = acc.total_work + SumOver(counted, [x \in counted |-> NetWork(x)]),
     !.total_shares = acc.total_shares + SumOver(counted, [x \in counted |-> NetShares(x)])]

\* Mutant: counted objects are handed back.
ConsumedOnlyStale(acc, batch) == batch \ Counted(acc, batch)

\* Every object of the vector is consumed, counted or not.
Consumed(acc, batch) == batch

\* accumulate_miner_stats: drains a vector of the caller's MinerRoundStats; the
\* ones of another round are deleted without credit.
AccumulateMinerStats(acc, m, batch) ==
  LET counted == Counted(acc, batch)
  IN  /\ acc \in accumulators
      /\ batch \subseteq {x \in mrs : x.miner = m}
      /\ accumulators' = (accumulators \ {acc}) \cup {AddTo(acc, counted)}
      /\ workRecords' = workRecords \cup
           {[round_id |-> acc.round_id, miner |-> m, net_work |-> NetWork(x)] :
              x \in Creditable(counted)}
      /\ mrs' = mrs \ Consumed(acc, batch)
      /\ UNCHANGED <<pool, templates, now, registered, minerStats,
                     roundRegistry, dedupVars, claims, histories>>

\* Mutant: the accumulator survives.
NotDestroyed(acc) == accumulators

\* finalize_round takes the accumulator by value and deletes it.
Destroyed(acc) == accumulators \ {acc}

\* finalize_round: after the window, the totals are frozen and the round advances.
FinalizeRound(acc) ==
  /\ acc \in accumulators
  /\ acc.round_id = pool.current_round
  /\ now >= acc.created_at_ms + Window
  /\ pool.current_round < MaxRound
  /\ pool' = [pool EXCEPT !.accumulator_open = FALSE,
                          !.current_round = pool.current_round + 1,
                          !.total_blocks = pool.total_blocks + 1,
                          !.total_shares = pool.total_shares + acc.total_shares,
                          !.round_start_ms = now]
  /\ accumulators' = Destroyed(acc)
  /\ histories' = histories \cup
       {[round_id |-> acc.round_id, total_work |-> acc.total_work,
         total_shares |-> acc.total_shares, block_finder |-> acc.block_finder,
         block_found_height |-> acc.block_found_height]}
  /\ UNCHANGED <<templates, now, minerVars, dedupVars, claims, workRecords>>

-----------------------------------------------------------------------------
Next ==
  \/ Tick
  \/ \E h \in Heights, nd \in NetworkDifficulties : RegisterTemplate(h, nd)
  \/ \E diff \in Difficulties : SetDifficulty(diff)
  \/ ResetDifficulty
  \/ \E m \in Miners : RegisterMiner(m)
  \/ \E m \in Miners, r \in Rounds, h \in Heights : CreateRoundStats(m, r, h)
  \/ \E x \in mrs : CloseMinerRoundStats(x)
  \/ \E m \in Miners, r \in Rounds : CreateShareDedup(m, r)
  \/ \E d \in dedups : \E H \in SUBSET d.hashes : CloseShareDedup(d, H)
  \/ \E d \in dedups : DeleteShareDedup(d)
  \/ \E m \in Miners, t \in 1 .. Len(templates), n \in Nonces :
       \E x \in mrs, d \in dedups, sell \in BOOLEAN : SubmitShare(m, t, n, x, d, sell)
  \/ \E c \in claims : OpenRoundAccumulatorFromClaim(c)
  \/ \E acc \in accumulators, m \in Miners :
       \E batch \in SUBSET {x \in mrs : x.miner = m} :
         AccumulateMinerStats(acc, m, batch)
  \/ \E acc \in accumulators : FinalizeRound(acc)

Spec == Init /\ [][Next]_vars

-----------------------------------------------------------------------------
(* Properties.                                                             *)

\* The Move structs, as far as they are modelled.
PoolType == [total_blocks: Nat, total_shares: Nat, current_round: Nat,
             round_start_ms: Nat, global_min_difficulty: Nat,
             accumulator_open: BOOLEAN, current_height: Nat]
TemplateType == [height: Nat, round_id: Nat, min_difficulty: Nat,
                 cached_network_difficulty: Nat]
MinerStatsType == [total_shares: Nat, blocks_found: Nat]
RoundStatsType == [round_id: Nat, miner: Miners, work: Nat, shares: Nat,
                   sold_work: Nat, sold_shares: Nat, min_height: Nat]
DedupType == [round_id: Nat, miner: Miners, hashes: SUBSET (Nat \X Nonces)]
ClaimType == [round_id: Nat, height: Nat, block_finder: Miners,
              share_hash: Nat \X Nonces]
AccumulatorType == [round_id: Nat, total_work: Nat, total_shares: Nat,
                    created_at_ms: Nat, block_finder: Miners,
                    block_found_height: Nat]
WorkRecordType == [round_id: Nat, miner: Miners, net_work: Nat \ {0}]
HistoryType == [round_id: Nat, total_work: Nat, total_shares: Nat,
                block_finder: Miners, block_found_height: Nat]

\* Type invariant: every object set holds well-formed Move structs; in particular
\* no MinerWorkRecord stands for zero work.
TypeOK ==
  /\ pool \in PoolType
  /\ templates \in Seq(TemplateType)
  /\ now \in Nat
  /\ registered \subseteq Miners
  /\ minerStats \in [Miners -> MinerStatsType]
  /\ roundRegistry \subseteq Miners \X Nat
  /\ mrs \subseteq RoundStatsType
  /\ dedupRegistry \subseteq Miners \X Nat
  /\ dedups \subseteq DedupType
  /\ drained \subseteq Miners \X Nat
  /\ claims \subseteq ClaimType
  /\ accumulators \subseteq AccumulatorType
  /\ workRecords \subseteq WorkRecordType
  /\ histories \subseteq HistoryType

\* The work records of round r.
RecordsOf(r) == {w \in workRecords : w.round_id = r}

\* The work those records stand for.
CreditedWork(r) == SumOver(RecordsOf(r), [w \in RecordsOf(r) |-> w.net_work])

\* A miner holds at most one MinerWorkRecord for a round, and none while a
\* MinerRoundStats of that round could still be accumulated: the guarantee
\* create_round_stats gives the reward path in place of a "claimed" table
\* (miner.move, doc of create_round_stats).
OneWorkRecordPerMinerRound ==
  /\ \A u, w \in workRecords : Key(u) = Key(w) => u = w
  /\ \A x, y \in mrs : Key(x) = Key(y) => x = y
  /\ \A x \in mrs, w \in workRecords : Key(x) # Key(w)

\* The denominator of every payout is the sum of its numerators: the total_work
\* of a live accumulator, and the one frozen in a RoundHistory, is exactly the
\* work of the MinerWorkRecords of its round, whatever order miners, the finaliser
\* and late submitters run in.
WorkConserved ==
  /\ \A a \in accumulators : a.total_work = CreditedWork(a.round_id)
  /\ \A h \in histories : h.total_work = CreditedWork(h.round_id)

\* accumulator_open is TRUE exactly while one accumulator lives, and that one is
\* for the current round; rounds close one after the other, once each, so that
\* total_blocks and total_shares count the frozen histories.
RoundsCloseInOrder ==
  /\ pool.accumulator_open <=> accumulators # {}
  /\ \A a, b \in accumulators : a = b
  /\ \A a \in accumulators : a.round_id = pool.current_round
  /\ {h.round_id : h \in histories} = 0 .. (pool.current_round - 1)
  /\ \A g, h \in histories : g.round_id = h.round_id => g = h
  /\ pool.total_blocks = pool.current_round

\* Supporting facts of the inductive invariant: keys of objects stay registered, work
\* records belong to closed rounds or to the round being closed, and fit their type.
KeysAreRegistered ==
  /\ \A x \in mrs : Key(x) \in roundRegistry
  /\ \A w \in workRecords : Key(w) \in roundRegistry
RecordsBelongToRounds ==
  /\ IsFiniteSet(workRecords)
  /\ \A w \in workRecords :
       \/ w.round_id < pool.current_round
       \/ w.round_id = pool.current_round /\ pool.accumulator_open
WorkFits ==
  /\ \A x \in mrs : x.work <= MaxWork
  /\ \A w \in workRecords : w.net_work <= MaxWork

\* The inductive invariant of the round pipeline.
RoundsInv ==
  /\ TypeOK
  /\ OneWorkRecordPerMinerRound
  /\ KeysAreRegistered
  /\ RoundsCloseInOrder
  /\ RecordsBelongToRounds
  /\ WorkFits
  /\ WorkConserved

\* What a round is closed with was found in that round: a claim of that round names
\* its block finder and height.
RoundsHaveTheirBlock ==
  \A o \in accumulators \cup histories :
    \E c \in claims : /\ c.round_id = o.round_id
                      /\ c.block_finder = o.block_finder
                      /\ c.height = o.block_found_height

\* Unless its owner drained hashes, a ShareDedup holds one hash for every share its
\* MinerRoundStats counts: no submission of the round escaped the dedup object, and
\* none was counted twice.
SharesMatchDedup ==
  \A x \in mrs : Key(x) \in drained
               \/ x.shares = 0
               \/ \E d \in dedups : /\ Key(d) = Key(x)
                                    /\ Cardinality(d.hashes) = x.shares

\* The inductive form: dedup objects are unique and finite, a key without statistics has
\* no hashes yet, and the counters agree wherever both objects exist.
DedupInv ==
  /\ \A d, e \in dedups : Key(d) = Key(e) => d = e
  /\ \A d \in dedups : Key(d) \in dedupRegistry /\ IsFiniteSet(d.hashes)
  /\ \A d \in dedups :
       Key(d) \in drained \cup roundRegistry \/ d.hashes = {}
  /\ \A x \in mrs : Key(x) \notin drained =>
       /\ \A d \in dedups : Key(d) = Key(x) => Cardinality(d.hashes) = x.shares
       /\ x.shares # 0 => \E d \in dedups : Key(d) = Key(x)

\* Sold work was done first: the saturating subtractions of accumulate_miner_stats never
\* clip, so what a miner is credited and what it sold add up to what it mined.
SoldWorkWasDone ==
  \A x \in mrs : x.sold_work <= x.work /\ x.sold_shares <= x.shares

\* Nothing that happens after finalize_round changes what a closed round owes: its
\* history stays and no work record is added to it.
ClosedRoundsAreFrozen ==
  [][\A h \in histories : /\ h \in histories'
                          /\ RecordsOf(h.round_id)' = RecordsOf(h.round_id)]_vars

\* The ratchet of miner.move: as long as a MinerRoundStats lives, its height floor never
\* falls and its work never shrinks, so a share for a superseded height is refused
\* once a newer one was accepted.
RoundStatsRatchet ==
  [][\A x \in mrs, y \in mrs' :
       Key(x) = Key(y) => /\ y.min_height >= x.min_height
                          /\ y.work >= x.work
                          /\ y.shares >= x.shares]_vars

\* What share_dedup.move says of a (miner, round) (lines 17-22): a share hash is
\* counted once, so a MinerRoundStats never counts more shares than its round has
\* distinct hashes.
NoHashCountsTwice ==
  \A x \in mrs :
    x.shares <= Cardinality({h \in (1 .. Len(templates)) \X Nonces :
                               templates[h[1]].round_id = x.round_id})

-----------------------------------------------------------------------------
(* The abstract ledger this module implements.                             *)

Ledger == INSTANCE RoundLedger WITH
  Works   <- 1 .. MaxWork,
  current <- pool.current_round,
  open    <- pool.accumulator_open,
  entries <- workRecords,
  closed  <- {[round_id |-> h.round_id, total_work |-> h.total_work] : h \in histories}

\* The round pipeline implements the ledger: every transaction opens the current
\* round, enters one miner's work once, closes the round with the exact sum of its
\* entries, or leaves all of that alone.
ImplementsLedger == Ledger!LedgerSpec

=============================================================================
