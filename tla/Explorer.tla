------------------------------ MODULE Explorer ------------------------------
(***************************************************************************)
(* The pool page's templates: fetchActiveTemplates of                      *)
(* web/lib/sui-queries.ts, and useTemplates.ts.                            *)
(*                                                                         *)
(* The template list is put together from three paged queries, one request *)
(* at a time, while templates and shares keep arriving: events of shares   *)
(* and of registrations, oldest first and up to a cap, then the template   *)
(* objects by address, without one.                                        *)
(***************************************************************************)
EXTENDS Integers, Sequences, FiniteSets, SequencesExt, FiniteSetsExt

CONSTANTS
  Addresses,     \* addresses template objects may get
  Heights,       \* block heights of templates
  PageSize,      \* EVENT_PAGE_SIZE, and first: 50 of the objects
  MaxPages,      \* MAX_PAGES
  ActiveWindow,  \* ACTIVE_TEMPLATE_WINDOW
  MaxPoolShares  \* bound: share events

ASSUME ExplorerAssumption ==
  /\ Addresses \subseteq Nat /\ Heights \subseteq Nat
  /\ {PageSize, MaxPages, ActiveWindow, MaxPoolShares} \subseteq Nat \ {0}

VARIABLES
  pool,    \* registered templates and share events, oldest first
  walk,    \* fetchActiveTemplates under way
  dash     \* what the page shows

explorerVars == <<pool, walk, dash>>

Registered == {pool.templates[i].id : i \in DOMAIN pool.templates}

-----------------------------------------------------------------------------
(* The chain.                                                              *)

Register(id, height) ==
  /\ id \in Addresses \ Registered
  /\ pool' = [pool EXCEPT !.templates =
                Append(@, [id |-> id, height |-> height, at |-> Len(@) + 1])]
  /\ UNCHANGED <<walk, dash>>

\* A share on a template, each in a transaction of its own.
SubmitShare(id) ==
  /\ id \in Registered /\ Len(pool.shares) < MaxPoolShares
  /\ pool' = [pool EXCEPT !.shares = Append(@, [tx |-> Len(@) + 1, template |-> id])]
  /\ UNCHANGED <<walk, dash>>

-----------------------------------------------------------------------------
(* fetchActiveTemplates.                                                   *)

NoInfo == [a \in Addresses |-> [count |-> 0, last |-> 0]]
NoWalk == [stage |-> "idle", pages |-> 0, cursor |-> 0, infoDone |-> FALSE,
           info |-> NoInfo, regPages |-> 0, regCursor |-> 0, regDone |-> FALSE,
           regs |-> {}, after |-> -1, found |-> {}, since |-> 0]

StartFetch ==
  /\ walk.stage = "idle"
  /\ walk' = [NoWalk EXCEPT !.stage = "events", !.since = Len(pool.templates)]
  /\ UNCHANGED <<pool, dash>>

Page(s, cursor) == SubSeq(s, cursor + 1, Min({cursor + PageSize, Len(s)}))

\* count and lastDigest of one event; events come in the order of their timestamps.
Counted(info, share) ==
  [info EXCEPT ![share.template] =
     [count |-> @.count + 1, last |-> Max({@.last, share.tx})]]

\* Mutant: the cursor of the first page is used again.
ReadSharePageAgain ==
  LET events == pool.shares    page == Page(events, walk.cursor) IN
  /\ walk.stage = "events" /\ ~walk.infoDone
  /\ walk' = [walk EXCEPT !.pages = @ + 1,
                !.info = FoldLeft(Counted, @, page),
                !.infoDone = walk.cursor + Len(page) = Len(events) \/ walk.pages + 1 = MaxPages]
  /\ UNCHANGED <<pool, dash>>

\* A page of ShareSubmitted; the walk ends with the last page, or at MAX_PAGES.
ReadSharePage ==
  LET events == pool.shares    page == Page(events, walk.cursor) IN
  /\ walk.stage = "events" /\ ~walk.infoDone
  /\ walk' = [walk EXCEPT !.pages = @ + 1, !.cursor = @ + Len(page),
                !.info = FoldLeft(Counted, @, page),
                !.infoDone = walk.cursor + Len(page) = Len(events) \/ walk.pages + 1 = MaxPages]
  /\ UNCHANGED <<pool, dash>>

\* A page of TemplateRegistered, in parallel with the shares.
ReadRegPage ==
  LET page == Page(pool.templates, walk.regCursor) IN
  /\ walk.stage = "events" /\ ~walk.regDone
  /\ walk' = [walk EXCEPT !.regPages = @ + 1, !.regCursor = @ + Len(page),
                !.regs = @ \cup {page[i].id : i \in DOMAIN page},
                !.regDone = \/ walk.regCursor + Len(page) = Len(pool.templates)
                            \/ walk.regPages + 1 = MaxPages]
  /\ UNCHANGED <<pool, dash>>

\* A request for events fails: that walk ends with what it has.
EventsFail ==
  /\ walk.stage = "events"
  /\ \/ ~walk.infoDone /\ walk' = [walk EXCEPT !.infoDone = TRUE]
     \/ ~walk.regDone /\ walk' = [walk EXCEPT !.regDone = TRUE]
  /\ UNCHANGED <<pool, dash>>

\* Newest registration first, then height; the first ACTIVE_TEMPLATE_WINDOW are active.
NewerTemplate(a, b) ==
  \/ a.at > b.at
  \/ a.at = b.at /\ (a.height > b.height \/ (a.height = b.height /\ a.id < b.id))
MarkActive(found) ==
  LET sorted == SetToSortSeq(found, NewerTemplate)
  IN  [i \in DOMAIN sorted |-> [t |-> sorted[i], active |-> i <= ActiveWindow]]

\* parseTemplateJson, with what the events said about the template.
ParseTemplateJson(t) ==
  [id |-> t.id, height |-> t.height, at |-> t.at, shareCount |-> walk.info[t.id].count,
   last |-> walk.info[t.id].last, reg |-> t.id \in walk.regs]

\* Objects of the next page, by address.
ObjectPage ==
  LET rest == {t \in Range(pool.templates) : t.id > walk.after}
  IN  {t \in rest : Cardinality({o \in rest : o.id < t.id}) < PageSize}
LastPage == Cardinality({t \in Range(pool.templates) : t.id > walk.after}) <= PageSize
Collected == walk.found \cup {ParseTemplateJson(t) : t \in ObjectPage}

\* Mutant: hasNextPage is not read, and the null cursor asks for the first page again.
ReadObjectPageWraps ==
  /\ walk.stage = "events" /\ walk.infoDone /\ walk.regDone
  /\ walk' = [walk EXCEPT !.found = Collected,
                !.after = IF LastPage THEN -1 ELSE Max({t.id : t \in ObjectPage})]
  /\ UNCHANGED <<pool, dash>>

\* A page of template objects, once both event walks have ended.
ReadObjectPage ==
  /\ walk.stage = "events" /\ walk.infoDone /\ walk.regDone
  /\ ~LastPage
  /\ walk' = [walk EXCEPT !.found = Collected, !.after = Max({t.id : t \in ObjectPage})]
  /\ UNCHANGED <<pool, dash>>

\* The last page, the sorting, and the answer.
FinishFetch ==
  /\ walk.stage = "events" /\ walk.infoDone /\ walk.regDone
  /\ LastPage
  /\ walk' = NoWalk
  /\ dash' = [dash EXCEPT !.templates = MarkActive(Collected), !.since = walk.since]
  /\ UNCHANGED pool

\* A request for objects fails: the list is empty, which the page takes as the answer.
ObjectsFail ==
  /\ walk.stage = "events" /\ walk.infoDone /\ walk.regDone
  /\ walk' = NoWalk
  /\ dash' = [dash EXCEPT !.templates = << >>, !.since = 0]
  /\ UNCHANGED pool

-----------------------------------------------------------------------------
(* What the page makes of the answers.                                     *)

\* useTemplates: active ones first, then by height, then by registration.
ShownBefore(a, b) ==
  \/ a.active /\ ~b.active
  \/ a.active = b.active /\ (\/ a.t.height > b.t.height
                             \/ a.t.height = b.t.height /\ a.t.at > b.t.at)
UseTemplates == SortSeq(dash.templates, ShownBefore)

KnownTemplates == {dash.templates[i].t.id : i \in DOMAIN dash.templates}

-----------------------------------------------------------------------------
ExplorerInit ==
  /\ pool = [templates |-> << >>, shares |-> << >>]
  /\ walk = NoWalk
  /\ dash = [templates |-> << >>, since |-> 0]

ExplorerNext ==
  \/ \E id \in Addresses, h \in Heights : Register(id, h)
  \/ \E id \in Addresses : SubmitShare(id)
  \/ StartFetch \/ ReadSharePage \/ ReadRegPage \/ EventsFail
  \/ ReadObjectPage \/ FinishFetch \/ ObjectsFail

\* An answer to every request of a walk, good or bad.
ExplorerFairness ==
  /\ WF_explorerVars(ReadSharePage \/ ReadRegPage \/ EventsFail)
  /\ WF_explorerVars(ReadObjectPage \/ FinishFetch \/ ObjectsFail)

ExplorerSpec == ExplorerInit /\ [][ExplorerNext]_explorerVars /\ ExplorerFairness

-----------------------------------------------------------------------------
(* Properties.                                                             *)

ExplorerTypeOK ==
  /\ Registered \subseteq Addresses /\ Len(pool.shares) <= MaxPoolShares
  /\ walk.stage \in {"idle", "events"} /\ walk.pages \in 0 .. MaxPages
  /\ walk.cursor \in 0 .. Len(pool.shares) /\ walk.regs \subseteq Registered
  /\ dash.since \in 0 .. Len(pool.templates)

\* Counts and last share of every shown template belong to one moment of the chain, one
\* no later than the cap allows, though pages were read while shares kept arriving.
CountsAreOfOneMoment ==
  LET events == pool.shares IN
  dash.templates # << >> =>
    \E n \in 0 .. Min({Len(events), PageSize * MaxPages}) :
      LET seen == FoldLeft(Counted, NoInfo, SubSeq(events, 1, n)) IN
      \A i \in DOMAIN dash.templates :
        LET t == dash.templates[i].t
        IN  t.shareCount = seen[t.id].count /\ t.last = seen[t.id].last

\* The list misses nothing registered before the fetch began, shows nothing twice, calls
\* no template historic unless ActiveWindow newer ones are registered, and lists none of
\* those above an active one.
NoTemplateIsMissed ==
  LET list == UseTemplates IN
  list # << >> =>
    /\ {pool.templates[i].id : i \in 1 .. dash.since} \subseteq KnownTemplates
    /\ KnownTemplates \subseteq Registered /\ Cardinality(KnownTemplates) = Len(list)
    /\ \A i \in DOMAIN list : ~list[i].active =>
         /\ Cardinality({o \in Range(pool.templates) : o.at > list[i].t.at}) >= ActiveWindow
         /\ \A j \in DOMAIN list : list[j].active => j < i

\* The object walk has no cap: it ends all the same.
FetchEnds == []<>(walk.stage = "idle")

\* A finished walk has every template that was there when it began, and its counts are
\* of one moment.
ExplorerInv == ExplorerTypeOK /\ CountsAreOfOneMoment /\ NoTemplateIsMissed

=============================================================================
