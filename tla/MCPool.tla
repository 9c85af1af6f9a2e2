------------------------------- MODULE MCPool -------------------------------
(***************************************************************************)
(* The reading pages of the site, for TLC: the template walk, the share    *)
(* feed, the tables of the pool and templates routes, the block lookup,    *)
(* a template's detail page, the tools' figures and the history chart.     *)
(* `route` is the page the browser opened; only it and what it reads take  *)
(* steps.  The pages share no state.                                       *)
(***************************************************************************)
EXTENDS Explorer, ShareFeed, PoolTables, BlockLookup, TemplateCodec, NetworkFigures, PriceHistory

CONSTANTS t1, t2, t3, t4, node1, node2

VARIABLE route

MCOwners == [a \in FeedTemplates |-> node1]

\* Four templates: branches shared, repeated and missing, equal heights and times.
MCTemplate ==
  t1 :> [owner |-> node1, height |-> 8, createdAtMs |-> 3, ntime |-> 5, shareCount |-> 0,
         merkleBranches |-> <<1, 2, 3>>] @@
  t2 :> [owner |-> node1, height |-> 9, createdAtMs |-> 2, ntime |-> 7, shareCount |-> 4,
         merkleBranches |-> <<1, 1>>] @@
  t3 :> [owner |-> node2, height |-> 8, createdAtMs |-> 1, ntime |-> 7, shareCount |-> 4,
         merkleBranches |-> << >>] @@
  t4 :> [owner |-> node2, height |-> 9, createdAtMs |-> 4, ntime |-> 6, shareCount |-> 1,
         merkleBranches |-> <<2, 4>>]
MCQueries == {{t1, t2, t3, t4}, {t1, t3}}

\* Heights, scripts and sizes around the boundaries of their encodings.
Script(prefix, len, suffix) == prefix \o [i \in 1 .. len |-> 5] \o suffix
Scripts == {Script(<<0, 20>>, 20, << >>), Script(<<81, 32>>, 32, << >>),
            Script(<<118, 169, 20>>, 20, <<136, 172>>), Script(<<1>>, 251, << >>),
            Script(<<1>>, 252, << >>), Script(<<106, 4, 67, 79, 82, 69>>, 0, << >>)}
CompactTargets == {[exp |-> e, mant |-> <<0, 255, 7>>] : e \in {3, 4, 29, 33}}
MCForms ==
  {[height |-> h, value |-> 312500000, script |-> s, commits |-> c, tag |-> g, txs |-> n,
    nbits |-> b, version |-> 536870912] :
     h \in {0, 127, 128, 255, 256, 32768, 840000, 8388608}, s \in Scripts, c \in BOOLEAN,
     g \in {<< >>, <<109, 49, 0>>}, n \in {0, 5, 7}, b \in {[exp |-> 29, mant |-> <<0, 255, 7>>]}}
  \cup
  {[height |-> 840000, value |-> 1, script |-> << >>, commits |-> TRUE, tag |-> << >>, txs |-> n,
    nbits |-> b, version |-> 1] : n \in 0 .. 8, b \in CompactTargets}

MCCurve == [b \in 0 .. Maturation |-> CASE b = 0 -> 0 [] b = 1 -> 38 [] b = 2 -> 62
                                        [] b = 3 -> 82 [] OTHER -> 100]
MCDiffChanges == {-1, 2}
MCBtcChanges == {-5, 3}
MCScenarioRows == {-1, 0, 2}

MCSpan == [r \in Ranges |-> IF r = "7d" THEN 1 ELSE 4]
MCWindow == [r \in Ranges |-> 4]
MCPriceAt == [t \in 0 .. MaxTime |-> 3 + ((t * t) % 7)]
MCRateAt == [t \in 0 .. MaxTime |-> IF t = 3 THEN 0 ELSE t + 2]

vars == <<explorerVars, feedVars, tableVars, lookupVars, codecVars, figureVars, historyVars, route>>

NotExplorer == UNCHANGED <<feedVars, tableVars, lookupVars, codecVars, figureVars, historyVars, route>>
NotFeed == UNCHANGED <<explorerVars, tableVars, lookupVars, codecVars, figureVars, historyVars, route>>
NotTables == UNCHANGED <<explorerVars, feedVars, lookupVars, codecVars, figureVars, historyVars, route>>
NotLookup == UNCHANGED <<explorerVars, feedVars, tableVars, codecVars, figureVars, historyVars, route>>
NotCodec == UNCHANGED <<explorerVars, feedVars, tableVars, lookupVars, figureVars, historyVars, route>>
NotFigures == UNCHANGED <<explorerVars, feedVars, tableVars, lookupVars, codecVars, historyVars, route>>
NotHistory == UNCHANGED <<explorerVars, feedVars, tableVars, lookupVars, codecVars, figureVars, route>>

\* A page that is not open has one initial state.
Init ==
  /\ route \in {"explorer", "feed", "tables", "block", "template", "tools", "stats"}
  /\ ExplorerInit /\ FeedInit /\ TablesInit /\ LookupInit /\ CodecInit /\ FiguresInit /\ HistoryInit
  /\ route # "tables" => place = "overview"
  /\ route # "block" => site = 1
  /\ route # "stats" => range = "7d"
  /\ route # "tools" =>
       /\ feeds = [btc |-> DefaultBtc - 1, sui |-> 2, diff |-> DefaultDiff + 1]
       /\ estimate = Null
       /\ revenue.price = 20 /\ revenue.holding = Maturation /\ revenue.apr = 5

Next ==
  \/ route = "explorer" /\ ExplorerNext /\ NotExplorer
  \/ route = "feed" /\ FeedNext /\ NotFeed
  \/ route = "tables" /\ TablesNext /\ NotTables
  \/ route = "block" /\ LookupNext /\ NotLookup
  \/ route = "template" /\ CodecNext /\ NotCodec
  \/ route = "tools" /\ FiguresNext /\ NotFigures
  \/ route = "stats" /\ HistoryNext /\ NotHistory

\* The fairness of the template walk and of the block lookup; a page that is not open
\* owes nothing.
Fairness ==
  /\ WF_vars(\/ /\ route = "explorer"
                /\ ReadSharePage \/ ReadRegPage \/ EventsFail
                /\ NotExplorer
             \/ /\ route = "block"
                /\ MetaArrives(0) \/ ChunkArrives(0) \/ LookupFails(0)
                /\ NotLookup)
  /\ WF_vars(\/ /\ route = "explorer"
                /\ ReadObjectPage \/ FinishFetch \/ ObjectsFail
                /\ NotExplorer
             \/ /\ route = "block"
                /\ MetaArrives(1) \/ ChunkArrives(1) \/ LookupFails(1)
                /\ NotLookup)
  /\ \A h \in BlockHeights \ {0, 1} :
       WF_vars(route = "block" /\ (MetaArrives(h) \/ ChunkArrives(h) \/ LookupFails(h)) /\ NotLookup)

Spec == Init /\ [][Next]_vars /\ Fairness

\* What the pages list of the chain's templates and shares is complete and adds up,
\* although both grow while it is read.
PoolListsInv == ExplorerInv /\ FeedInv /\ TablesInv

\* The block and template pages read stored bytes and files as they were written.
StoredDataInv == LookupInv /\ CodecInv

\* The tools' figures and the history chart follow from one answer and one range.
FiguresAndChartsInv == FiguresInv /\ HistoryInv

\* Every walk and every lookup ends.
ReadsEnd == FetchEnds /\ LookupEnds

=============================================================================
