----------------------------- MODULE RewardsPage -----------------------------
(***************************************************************************)
(* Claiming on the rewards page: web/app/rewards/page.tsx with the hooks   *)
(* useHashiRewardBatches, useRoundHistories and useMinerWorkRecords.       *)
(*                                                                         *)
(* Each hook copies one page of the chain's events, newest first, on its   *)
(* own timer; a claim is built from whatever the copies hold at the click. *)
(* The batches come from two queries, one after the other.                 *)
(***************************************************************************)
EXTENDS Integers, Sequences, FiniteSets, SequencesExt

CONSTANTS
  LastRound,     \* bound: rounds closed
  FundedPage,    \* HashiBatchFunded events read (50)
  CreatedPage,   \* HashiBatchCreated events read (100)
  HistoryPage,   \* RoundClosed events read (100)
  ClaimWindow,   \* TRUSTLESS_CLAIM_WINDOW_MS
  LastTime       \* bound: the clock

ASSUME RewardsAssumption ==
  {LastRound, FundedPage, CreatedPage, HistoryPage, ClaimWindow, LastTime} \subseteq Nat

VARIABLES
  onchain,  \* rounds closed, batches, my records, my payouts, the clock
  shown,    \* the hooks' answers
  claim     \* the transaction behind the Claim button, and the card that reports on it

rewardsVars == <<onchain, shown, claim>>

RoundIds == 1 .. LastRound
Newest(s, n) == SubSeq(Reverse(s), 1, IF Len(s) < n THEN Len(s) ELSE n)

-----------------------------------------------------------------------------
(* The chain.  My account worked in every round.                           *)

CloseRound ==
  LET r == Len(onchain.closed) + 1 IN
  /\ r <= LastRound
  /\ onchain' = [onchain EXCEPT !.closed = Append(@, r), !.records = @ \cup {r}]
  /\ UNCHANGED <<shown, claim>>

Opened == {onchain.funded[i].round : i \in DOMAIN onchain.funded}

\* open_and_fund_round_batch: one batch per round, created and funded in one transaction.
FundBatch(r) ==
  /\ r \in Range(onchain.closed) \ Opened
  /\ onchain' = [onchain EXCEPT
       !.funded = Append(@, [round |-> r, deadline |-> onchain.now + ClaimWindow])]
  /\ UNCHANGED <<shown, claim>>

RewardsTick ==
  /\ onchain.now < LastTime
  /\ onchain' = [onchain EXCEPT !.now = @ + 1]
  /\ UNCHANGED <<shown, claim>>

\* claim_reward of batch b with my record of round r.
ClaimReward(c, b, r) ==
  IF /\ r \in c.records /\ b.round = r
     /\ c.now < b.deadline
  THEN [ok |-> TRUE, c |-> [c EXCEPT !.records = @ \ {r}, !.paid = Append(@, r)]]
  ELSE [ok |-> FALSE, c |-> c]

\* The same account claims from another window.
ClaimElsewhere(i) ==
  LET done == ClaimReward(onchain, onchain.funded[i], onchain.funded[i].round) IN
  /\ done.ok
  /\ onchain' = done.c
  /\ UNCHANGED <<shown, claim>>

-----------------------------------------------------------------------------
(* The hooks.                                                              *)

\* The first query of useHashiRewardBatches; its answer waits for the second.
ReadFunded ==
  /\ shown' = [shown EXCEPT !.reading = <<Newest(onchain.funded, FundedPage)>>]
  /\ UNCHANGED <<onchain, claim>>

\* Funded batches, then the created ones not among them, as pending.
Batches(funded, created) ==
  {[batch |-> b, status |-> "FUNDED"] : b \in Range(funded)}
    \cup {[batch |-> b, status |-> "PENDING"] : b \in Range(created) \ Range(funded)}

\* The second query, and the answer of the hook.
ReadCreated ==
  /\ shown.reading # << >>
  /\ shown' = [shown EXCEPT !.reading = << >>,
       !.batches = Batches(shown.reading[1], Newest(onchain.funded, CreatedPage))]
  /\ UNCHANGED <<onchain, claim>>

\* Mutant: the histories are read once.
ReadHistoriesOnce ==
  /\ shown.histories = {}
  /\ shown' = [shown EXCEPT !.histories = Range(Newest(onchain.closed, HistoryPage))]
  /\ UNCHANGED <<onchain, claim>>

\* useRoundHistories: the frozen object of every RoundClosed transaction of the page.
ReadHistories ==
  /\ shown' = [shown EXCEPT !.histories = Range(Newest(onchain.closed, HistoryPage))]
  /\ UNCHANGED <<onchain, claim>>

\* useMinerWorkRecords.
ReadRecords ==
  /\ shown' = [shown EXCEPT !.records = onchain.records]
  /\ UNCHANGED <<onchain, claim>>

-----------------------------------------------------------------------------
(* The rewards page.                                                       *)

FundedByRound(r) ==
  {e.batch : e \in {b \in shown.batches : b.status = "FUNDED" /\ b.batch.round = r}}

CanClaim(r) == r \in shown.records /\ FundedByRound(r) # {} /\ r \in shown.histories

\* The button is disabled while a claim is pending.
ClickClaim(r) ==
  /\ CanClaim(r) /\ ~claim.claiming
  /\ claim' = [claiming |-> TRUE, landed |-> FALSE, round |-> r, card |-> "none",
               batch |-> CHOOSE b \in FundedByRound(r) : TRUE]
  /\ UNCHANGED <<onchain, shown>>

\* The transaction executes, while the page still waits for the wallet's answer.
LandClaim ==
  LET done == ClaimReward(onchain, claim.batch, claim.round) IN
  /\ claim.claiming /\ ~claim.landed /\ done.ok
  /\ onchain' = done.c
  /\ claim' = [claim EXCEPT !.landed = TRUE]
  /\ UNCHANGED <<shown>>

\* The wallet's answer: the card shows it, and records and batches are read again.
Claimed ==
  /\ claim.claiming /\ claim.landed
  /\ claim' = [claim EXCEPT !.claiming = FALSE, !.card = "ok"]
  /\ UNCHANGED <<onchain, shown>>

\* The contract refuses, the user rejects, or the answer is lost: even after the
\* transaction has landed.
ClaimFailed ==
  /\ claim.claiming
  /\ claim' = [claim EXCEPT !.claiming = FALSE, !.card = "err"]
  /\ UNCHANGED <<onchain, shown>>

-----------------------------------------------------------------------------
NoBatch == [round |-> 0, deadline |-> 0]

RewardsInit ==
  /\ onchain = [closed |-> << >>, funded |-> << >>, records |-> {}, paid |-> << >>,
                now |-> 0]
  /\ shown = [reading |-> << >>, batches |-> {}, histories |-> {}, records |-> {}]
  /\ claim = [claiming |-> FALSE, landed |-> FALSE, round |-> 0, card |-> "none",
              batch |-> NoBatch]

RewardsNext ==
  \/ CloseRound \/ RewardsTick
  \/ \E r \in RoundIds : FundBatch(r)
  \/ \E i \in DOMAIN onchain.funded : ClaimElsewhere(i)
  \/ ReadFunded \/ ReadCreated \/ ReadHistories \/ ReadRecords
  \/ \E r \in RoundIds : ClickClaim(r)
  \/ LandClaim \/ Claimed \/ ClaimFailed

\* refetchInterval repeats every read while the page is open; the wallet's promise settles.
RewardsFairness ==
  /\ WF_rewardsVars(ReadFunded) /\ WF_rewardsVars(ReadCreated)
  /\ WF_rewardsVars(ReadHistories) /\ WF_rewardsVars(ReadRecords)
  /\ WF_rewardsVars(Claimed \/ ClaimFailed)

RewardsSpec == RewardsInit /\ [][RewardsNext]_rewardsVars /\ RewardsFairness

-----------------------------------------------------------------------------
(* Properties.                                                             *)

RewardsTypeOK ==
  /\ onchain.closed \in Seq(RoundIds) /\ onchain.records \subseteq RoundIds
  /\ Range(onchain.paid) \subseteq RoundIds /\ onchain.now \in 0 .. LastTime
  /\ Len(shown.reading) <= 1 /\ shown.histories \subseteq RoundIds
  /\ claim.card \in {"none", "ok", "err"} /\ claim.claiming \in BOOLEAN

\* A round pays my account once, from whichever window the claim comes and however often
\* a claim is retried after an answer was lost; and the card that reports a claim tells of
\* a round that was paid.
ReceiptsArePaidOnce ==
  /\ \A r \in RoundIds :
       Cardinality({i \in DOMAIN onchain.paid : onchain.paid[i] = r})
         + (IF r \in onchain.records THEN 1 ELSE 0)
         = (IF r \in Range(onchain.closed) THEN 1 ELSE 0)
  /\ claim.card = "ok" => claim.round \in Range(onchain.paid)

\* A claim built from stale copies fails for two reasons only: its deadline has passed, or
\* the record was used elsewhere.  The page never pairs a record with another round's
\* batch, nor offers one that the chain never funded.
ClaimsAreWellFormed ==
  claim.claiming /\ ~claim.landed =>
    \/ claim.round \notin onchain.records
    \/ onchain.now >= claim.batch.deadline
    \/ ClaimReward(onchain, claim.batch, claim.round).ok

\* Rounds whose batch and history are within the pages the hooks read.
InWindow(r) ==
  /\ \E b \in Range(Newest(onchain.funded, FundedPage)) : b.round = r
  /\ r \in Range(Newest(onchain.closed, HistoryPage))

\* What the batches hook shows is never ahead of the chain, and a batch within the newest
\* FundedPage is shown pending only when it was funded between the two queries: when the
\* shown copy holds the newest batch as funded, all of the window are.
PendingMeansOutOfWindow ==
  LET window == Range(Newest(onchain.funded, FundedPage)) IN
  /\ \A e \in shown.batches : e.batch \in Range(onchain.funded)
  /\ (\E e \in shown.batches :
        e.status = "FUNDED" /\ e.batch = onchain.funded[Len(onchain.funded)]) =>
       \A b \in window : [batch |-> b, status |-> "FUNDED"] \in shown.batches
                           /\ [batch |-> b, status |-> "PENDING"] \notin shown.batches

\* A record gets its Claim button, as long as its round stays within the pages read.
ClaimIsOffered ==
  \A r \in RoundIds :
    []<>(r \in onchain.records /\ InWindow(r) => CanClaim(r))

\* The button comes back: a claim does not stay pending forever.
ClaimingEnds == []<>~claim.claiming

\* A record is paid once, a claim names the batch of its round, and a batch shown as
\* pending is outside the pages that were read, or was funded between two of them.
RewardsInv ==
  RewardsTypeOK /\ ReceiptsArePaidOnce /\ ClaimsAreWellFormed /\ PendingMeansOutOfWindow

=============================================================================
