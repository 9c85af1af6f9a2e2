----------------------------- MODULE ShareFeed -----------------------------
(***************************************************************************)
(* The pool page's recent shares and the flow of work from miners to       *)
(* templates to node runners: fetchRecentShares of web/lib/sui-shares.ts,  *)
(* useRecentShares.ts, RecentShares.tsx and useMinerFlow.ts.               *)
(*                                                                         *)
(* Three event types, one per lane, are merged; a transaction stands for   *)
(* one row.  Shares and templates are read on separate timers.             *)
(***************************************************************************)
EXTENDS Integers, Sequences, FiniteSets, SequencesExt, FiniteSetsExt

CONSTANTS
  FeedTemplates, \* templates
  OwnerOf,       \* the registrar of a template
  ShareMiners,   \* miners
  ShareLanes,    \* "full", "buyer-v1", "buyer-v2"
  RecentLimit,   \* rows of the recent shares
  MaxFeed,       \* bound: share events
  MaxBatch       \* bound: share events of one transaction

ASSUME ShareFeedAssumption ==
  /\ OwnerOf \in [FeedTemplates -> Range(OwnerOf)] /\ "full" \in ShareLanes
  /\ {RecentLimit, MaxFeed, MaxBatch} \subseteq Nat \ {0}

VARIABLES
  mined,   \* templates registered
  shares,  \* share events, oldest first
  feed     \* the page's copies: recent shares, template ids

feedVars == <<mined, shares, feed>>

OfLane(lane) == SelectSeq(shares, LAMBDA s : s.lane = lane)

RegisterTemplateOf(id) ==
  /\ id \notin mined
  /\ mined' = mined \cup {id}
  /\ UNCHANGED <<shares, feed>>

\* One transaction submits n shares of a miner on a template; only the pool lane batches.
SubmitShares(lane, miner, id, n) ==
  LET tx == IF shares = << >> THEN 1 ELSE shares[Len(shares)].tx + 1
      share == [tx |-> tx, lane |-> lane, miner |-> miner, template |-> id]
  IN  /\ id \in mined /\ Len(shares) + n <= MaxFeed
      /\ lane = "full" \/ n = 1
      /\ shares' = shares \o [i \in 1 .. n |-> share]
      /\ UNCHANGED <<mined, feed>>

-----------------------------------------------------------------------------
(* fetchRecentShares.                                                      *)

\* The first event of a transaction stands for it.
Collect(merged, share) ==
  IF \E i \in DOMAIN merged : merged[i].tx = share.tx THEN merged ELSE Append(merged, share)

NewestFirst(a, b) == a.tx > b.tx

\* last: limit of every lane that answers, merged and cut to the limit.
RecentShares(answering) ==
  LET LastOf(lane) == LET s == OfLane(lane)
                      IN  SubSeq(s, Max({1, Len(s) - RecentLimit + 1}), Len(s))
      lanes == SetToSeq(answering)
      merged == FoldLeft(LAMBDA m, lane : FoldLeft(Collect, m, LastOf(lane)), << >>, lanes)
      sorted == SortSeq(merged, NewestFirst)
  IN  SubSeq(sorted, 1, Min({Len(sorted), RecentLimit}))

\* The three queries run in parallel; one that fails counts as empty.
ReadRecent(answering) ==
  /\ feed' = [feed EXCEPT !.recent = RecentShares(answering), !.complete = answering = ShareLanes]
  /\ UNCHANGED <<mined, shares>>

\* RecentShares: the lane counts in the corner of the list.
LaneCount(lanes) == Len(SelectSeq(feed.recent, LAMBDA s : s.lane \in lanes))

\* useMinerFlow: miner -> template -> owner.
MinerTemplateAgg(m, id) == Cardinality({i \in DOMAIN feed.recent :
                                          feed.recent[i].miner = m /\ feed.recent[i].template = id})
MinerLinks == {[source |-> p[1], target |-> p[2], value |-> MinerTemplateAgg(p[1], p[2])] :
                 p \in {q \in ShareMiners \X feed.templates : MinerTemplateAgg(q[1], q[2]) > 0}}

\* Template to owner, summed over the miners.
OwnerLinks ==
  {[source |-> id, target |-> OwnerOf[id],
    value |-> MapThenSumSet(LAMBDA l : l.value, {l \in MinerLinks : l.target = id})] :
     id \in {l.target : l \in MinerLinks}}

\* Shares of the miner's node, over all templates.
MinerTotalShares(m) == Cardinality({i \in DOMAIN feed.recent : feed.recent[i].miner = m})

-----------------------------------------------------------------------------
\* useTemplates' answer, read on its own timer.
ReadTemplates ==
  /\ feed' = [feed EXCEPT !.templates = mined]
  /\ UNCHANGED <<mined, shares>>

FeedInit ==
  /\ mined = {} /\ shares = << >>
  /\ feed = [recent |-> << >>, complete |-> FALSE, templates |-> {}]

FeedNext ==
  \/ \E id \in FeedTemplates : RegisterTemplateOf(id)
  \/ \E lane \in ShareLanes, m \in ShareMiners, id \in FeedTemplates, n \in 1 .. MaxBatch :
       SubmitShares(lane, m, id, n)
  \/ \E answering \in SUBSET ShareLanes : ReadRecent(answering)
  \/ ReadTemplates

FeedSpec == FeedInit /\ [][FeedNext]_feedVars

-----------------------------------------------------------------------------
(* Properties.                                                             *)

FeedTypeOK ==
  /\ mined \subseteq FeedTemplates /\ feed.templates \subseteq mined
  /\ Len(shares) <= MaxFeed /\ Len(feed.recent) <= RecentLimit
  /\ Range(feed.recent) \subseteq Range(shares)

\* Recent shares are one row per transaction, newest first; when every lane answered and
\* no transaction carried two events they are exactly the newest transactions; the lanes'
\* counts add up.
RecentSharesAreNewest ==
  LET shown == feed.recent
      txs == {shown[i].tx : i \in DOMAIN shown}
      all == {s.tx : s \in Range(shares)}
  IN  /\ \A i, j \in DOMAIN shown : i < j => shown[i].tx > shown[j].tx
      /\ LaneCount({"full"}) + LaneCount(ShareLanes \ {"full"}) = Len(shown)
      /\ feed.complete /\ Cardinality(all) = Len(shares) /\ txs # {} =>
           \A tx \in all : tx > Min(txs) => tx \in txs \/ tx > Max(txs)

\* In the flow of shares what enters a template leaves it, towards its owner, and no miner
\* sends more than it mined, though shares and templates were read at different times.
FlowIsConserved ==
  /\ \A id \in feed.templates :
       MapThenSumSet(LAMBDA l : l.value, {l \in MinerLinks : l.target = id})
         = MapThenSumSet(LAMBDA l : l.value, {l \in OwnerLinks : l.source = id})
  /\ \A m \in ShareMiners :
       MapThenSumSet(LAMBDA l : l.value, {l \in MinerLinks : l.source = m}) <= MinerTotalShares(m)

\* The feed holds the newest shares of the templates asked for, and the flow drawn
\* from it loses and invents none.
FeedInv == FeedTypeOK /\ RecentSharesAreNewest /\ FlowIsConserved

=============================================================================
