----------------------------- MODULE PoolTables -----------------------------
(***************************************************************************)
(* What the pool and template pages make of the template list: the tabs of *)
(* web/app/m1/page.tsx, PoolOverviewTab.tsx, FeaturedTemplate.tsx,         *)
(* TemplateTable.tsx, SankeyDiagram.tsx, CompareTab.tsx and                *)
(* TemplateCompare.tsx.                                                    *)
(*                                                                         *)
(* The list is polled under the reader's feet: what is open, expanded,     *)
(* filtered and selected was chosen against an earlier list.  A part that  *)
(* leaves the page forgets its state.                                      *)
(***************************************************************************)
EXTENDS Integers, Sequences, FiniteSets, SequencesExt, FiniteSetsExt

CONSTANTS
  Ids,           \* templates
  Template,      \* their fields: owner, height, createdAtMs, ntime, shareCount, merkleBranches
  Queries,       \* filter texts, each by the templates it matches
  Columns,       \* columns that can be hidden
  DefaultVisible,\* DEFAULT_VISIBLE
  MaxMerkleCols, \* MAX_MERKLE_COLS
  TraySlots,     \* squares of the featured template's tray
  FlowBranches,  \* branches of a template in the flow diagram
  MaxPicked,     \* templates that can be compared
  TableWindow    \* ACTIVE_TEMPLATE_WINDOW

ASSUME PoolTablesAssumption ==
  /\ DefaultVisible \subseteq Columns /\ Queries \subseteq SUBSET Ids /\ Ids \in Queries
  /\ {MaxMerkleCols, TraySlots, FlowBranches, MaxPicked, TableWindow} \subseteq Nat \ {0}

VARIABLES
  place,     \* page and tab
  listing,   \* the templates of the last answer, and whether there was one
  overview,  \* open parts of the overview
  table,     \* the template table's state
  picked     \* CompareTab: selectedIds

tableVars == <<place, listing, overview, table, picked>>

SortKeys == {"height", "createdAtMs", "ntime", "shareCount"}

\* The order useTemplates hands out: active ones first, by height, by registration.
ListOrder(ids) ==
  LET Active(id) == Cardinality({o \in ids : Template[o].createdAtMs > Template[id].createdAtMs})
                      < TableWindow
      Before(a, b) ==
        \/ Active(a) /\ ~Active(b)
        \/ Active(a) = Active(b) /\
             \/ Template[a].height > Template[b].height
             \/ Template[a].height = Template[b].height /\
                  Template[a].createdAtMs > Template[b].createdAtMs
  IN  SetToSortSeq(ids, Before)

-----------------------------------------------------------------------------
(* Pages and tabs.                                                         *)

ClosedOverview == [hero |-> FALSE, more |-> FALSE, flow |-> FALSE, minerFlow |-> FALSE]
FreshTable == [key |-> "createdAtMs", dir |-> "desc", query |-> Ids, cols |-> DefaultVisible,
               menu |-> FALSE, expanded |-> {}]

\* useTabParam and the links between pages; the tab that is left is unmounted.
GoTo(target) ==
  /\ target # place
  /\ place' = target
  /\ overview' = ClosedOverview /\ table' = FreshTable /\ picked' = {}
  /\ UNCHANGED listing

OnOverview == place = "overview" /\ listing.loaded
Latest == ListOrder(listing.ids)[1]
HasLatest == OnOverview /\ listing.ids # {}
TableIsOpen == HasLatest /\ overview.more

\* A poll's answer.  With no template left the featured one and the table leave the page.
Refetched(ids) ==
  /\ listing' = [ids |-> ids, loaded |-> TRUE]
  /\ overview' = IF ids = {} THEN [overview EXCEPT !.hero = FALSE] ELSE overview
  /\ table' = IF ids = {} THEN FreshTable ELSE table
  /\ UNCHANGED <<place, picked>>

\* More templates; or none at all, when a page of the walk failed.
Poll(ids) ==
  /\ ids = {} \/ listing.ids \subseteq ids
  /\ Refetched(ids)

ToggleHero ==
  /\ HasLatest
  /\ overview' = [overview EXCEPT !.hero = ~@]
  /\ UNCHANGED <<place, listing, table, picked>>

\* Closing the list of all templates unmounts its table.
ToggleMore ==
  /\ HasLatest
  /\ overview' = [overview EXCEPT !.more = ~@]
  /\ table' = FreshTable
  /\ UNCHANGED <<place, listing, picked>>

ToggleFlow(part) ==
  /\ IF part = "flow" THEN OnOverview ELSE place = "overview"
  /\ overview' = [overview EXCEPT ![part] = ~@]
  /\ UNCHANGED <<place, listing, table, picked>>

\* The featured template's tray: its first branches, and empty slots to fill it.
Tray ==
  LET branches == Template[Latest].merkleBranches
  IN  [shown |-> SubSeq(branches, 1, Min({TraySlots, Len(branches)})),
       empty |-> Max({0, TraySlots - Len(branches)})]

-----------------------------------------------------------------------------
(* TemplateTable.                                                          *)

\* excludeId and the filter.
Filtered == {id \in listing.ids \ {Latest} : id \in table.query}

\* The rows: a stable sort of the listed templates by one of their fields.
Sorted ==
  LET kept == Filtered
      rows == SelectSeq(ListOrder(listing.ids), LAMBDA id : id \in kept)
      Value(id) == Template[id][table.key]
      Before(a, b) == IF table.dir = "asc" THEN Value(a) < Value(b) ELSE Value(a) > Value(b)
  IN  SortSeq(rows, Before)

MaxBranches ==
  Min({MaxMerkleCols, Max({0} \cup {Len(Template[id].merkleBranches) : id \in Filtered})})

\* Cells of the header row, and the width of the rows that span the table.
HeadCells == Cardinality(table.cols \ {"merkle"}) + 1
               + (IF "merkle" \in table.cols THEN MaxBranches ELSE 0)
TotalCols == Cardinality(table.cols \ {"merkle"}) + 1
               + (IF "merkle" \in table.cols THEN Max({MaxBranches, 1}) ELSE 0)

NoBranch == 0

\* The merkle cells of a row: one per column, a dash where the template has no branch.
MerkleCells(id) ==
  LET branches == Template[id].merkleBranches
  IN  [i \in 1 .. MaxBranches |-> IF i <= Len(branches) THEN branches[i] ELSE NoBranch]
RowCells(id) == Cardinality(table.cols \ {"merkle"}) + 1
                  + (IF "merkle" \in table.cols THEN Len(MerkleCells(id)) ELSE 0)

ToggleSort(key) ==
  /\ TableIsOpen
  /\ table' = IF table.key = key
                THEN [table EXCEPT !.dir = IF @ = "asc" THEN "desc" ELSE "asc"]
                ELSE [table EXCEPT !.key = key, !.dir = "desc"]
  /\ UNCHANGED <<place, listing, overview, picked>>

ToggleMenu ==
  /\ TableIsOpen
  /\ table' = [table EXCEPT !.menu = ~@]
  /\ UNCHANGED <<place, listing, overview, picked>>

ToggleCol(col) ==
  /\ TableIsOpen /\ table.menu
  /\ table' = [table EXCEPT !.cols = IF col \in @ THEN @ \ {col} ELSE @ \cup {col}]
  /\ UNCHANGED <<place, listing, overview, picked>>

SetFilter(query) ==
  /\ TableIsOpen
  /\ table' = [table EXCEPT !.query = query]
  /\ UNCHANGED <<place, listing, overview, picked>>

\* One row at most is expanded; a click on it folds it.
ToggleRow(id) ==
  /\ TableIsOpen /\ id \in Filtered
  /\ table' = [table EXCEPT !.expanded = IF @ = {id} THEN {} ELSE {id}]
  /\ UNCHANGED <<place, listing, overview, picked>>

-----------------------------------------------------------------------------
(* SankeyDiagram: owner -> template -> branch.  Values are scaled by Scale  *)
(* so that a template's share of each branch is a whole number.            *)

Scale == 60
FirstBranches(id) ==
  LET b == Template[id].merkleBranches IN SubSeq(b, 1, Min({FlowBranches, Len(b)}))
FlowValue(id) == Scale * Max({Template[id].shareCount, 1})
PerBranch(id) == Max({FlowValue(id) \div Max({Len(FirstBranches(id)), 1}), Scale \div 10})

\* Links of a template to its branches; a branch met twice adds to its link.
BranchLinks(id) ==
  [b \in Range(FirstBranches(id)) |->
     PerBranch(id) * Cardinality({i \in DOMAIN FirstBranches(id) : FirstBranches(id)[i] = b})]

OwnerTotal(owner) ==
  MapThenSumSet(LAMBDA id : Template[id].shareCount,
                {id \in listing.ids : Template[id].owner = owner})

-----------------------------------------------------------------------------
(* CompareTab and TemplateCompare.                                         *)

ToggleTemplate(id) ==
  /\ place = "templates" /\ id \in listing.ids
  /\ id \in picked \/ Cardinality(picked) < MaxPicked
  /\ picked' = IF id \in picked THEN picked \ {id} ELSE picked \cup {id}
  /\ UNCHANGED <<place, listing, overview, table>>

\* Ids picked from an earlier list are kept, and compared when they are listed again.
SelectedTemplates == picked \cap listing.ids
Compares == place = "templates" /\ Cardinality(SelectedTemplates) >= 2

BranchesOf(id) == Range(Template[id].merkleBranches)
AllBranches == UNION {BranchesOf(id) : id \in SelectedTemplates}
Having(branch) == {id \in SelectedTemplates : branch \in BranchesOf(id)}

Shared == {b \in AllBranches : Having(b) = SelectedTemplates}
Partial == {b \in AllBranches : Cardinality(Having(b)) > 1 /\ Having(b) # SelectedTemplates}
Unique(id) == {b \in AllBranches : Having(b) = {id}}
UniqueCount == MapThenSumSet(LAMBDA id : Cardinality(Unique(id)), SelectedTemplates)

\* CompareRow: a field is marked when some value differs from the first.
MarkedField(field) ==
  LET shown == SelectSeq(ListOrder(listing.ids), LAMBDA id : id \in picked)
  IN  \E i \in DOMAIN shown : Template[shown[i]][field] # Template[shown[1]][field]

-----------------------------------------------------------------------------
TablesInit ==
  /\ place \in {"overview", "miners", "timing", "templates"}
  /\ listing = [ids |-> {}, loaded |-> FALSE]
  /\ overview = ClosedOverview /\ table = FreshTable /\ picked = {}

TablesNext ==
  \/ \E target \in {"overview", "miners", "timing", "templates"} : GoTo(target)
  \/ \E ids \in SUBSET Ids : Poll(ids)
  \/ ToggleHero \/ ToggleMore \/ \E part \in {"flow", "minerFlow"} : ToggleFlow(part)
  \/ \E key \in SortKeys : ToggleSort(key)
  \/ ToggleMenu \/ \E col \in Columns : ToggleCol(col)
  \/ \E query \in Queries : SetFilter(query)
  \/ \E id \in Ids : ToggleRow(id)
  \/ \E id \in Ids : ToggleTemplate(id)

TablesSpec == TablesInit /\ [][TablesNext]_tableVars

-----------------------------------------------------------------------------
(* Properties.                                                             *)

TablesTypeOK ==
  /\ place \in {"overview", "miners", "timing", "templates"}
  /\ listing.ids \subseteq Ids /\ (listing.ids # {} => listing.loaded)
  /\ picked \subseteq Ids /\ Cardinality(picked) <= MaxPicked
  /\ table.key \in SortKeys /\ table.cols \subseteq Columns /\ Cardinality(table.expanded) <= 1
  /\ ~TableIsOpen => table = FreshTable
  /\ overview.hero => HasLatest

\* Whatever was featured, filtered or expanded when the list changed: every listed template
\* the filter lets through is on the overview once, as the featured one or as one row, and
\* a template whose detail is unfolded is never both.
EveryTemplateOnce ==
  TableIsOpen =>
    LET rows == Sorted    featured == Latest    tray == Tray IN
    /\ Range(rows) \cup {featured} = (listing.ids \cap table.query) \cup {featured}
    /\ Len(rows) = Cardinality(Range(rows)) /\ featured \notin Range(rows)
    /\ tray.empty + Len(tray.shown) = TraySlots

\* The rows are in the order the marked heading asks for, every row has a cell under every
\* heading, and some row fills the last merkle column.
TableIsSquare ==
  TableIsOpen =>
    LET rows == Sorted    heads == HeadCells    last == MaxBranches IN
    /\ \A i, j \in DOMAIN rows : i < j =>
         LET a == Template[rows[i]][table.key]    b == Template[rows[j]][table.key]
         IN  IF table.dir = "asc" THEN a <= b ELSE a >= b
    /\ \A i \in DOMAIN rows : RowCells(rows[i]) = heads
    /\ last > 0 =>
         /\ TotalCols = heads
         /\ \E i \in DOMAIN rows : MerkleCells(rows[i])[last] # NoBranch

\* What flows into a template of the diagram flows out of it to its branches, and an owner
\* sends at least the shares of its templates.
TemplateFlowIsConserved ==
  /\ \A id \in listing.ids : Template[id].merkleBranches # << >> =>
       FlowValue(id) = MapThenSumSet(LAMBDA b : BranchLinks(id)[b], DOMAIN BranchLinks(id))
  /\ \A owner \in {Template[id].owner : id \in listing.ids} :
       Scale * OwnerTotal(owner)
         <= MapThenSumSet(LAMBDA id : FlowValue(id), {id \in listing.ids : Template[id].owner = owner})

\* Every branch of the compared templates is counted once: shared by all, by some, or one
\* template's own; and fields are marked exactly when the templates differ in them.
ComparisonAddsUp ==
  Compares =>
    /\ Cardinality(Shared) + Cardinality(Partial) + UniqueCount = Cardinality(AllBranches)
    /\ \A field \in {"height", "shareCount", "owner"} :
         MarkedField(field) <=> Cardinality({Template[id][field] : id \in SelectedTemplates}) > 1

\* Whatever is sorted, searched, picked or polled, the tables show every template once
\* and in square rows, and the flow and the comparison add up.
TablesInv ==
  /\ TablesTypeOK /\ EveryTemplateOnce /\ TableIsSquare
  /\ TemplateFlowIsConserved /\ ComparisonAddsUp

=============================================================================
