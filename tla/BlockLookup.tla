---------------------------- MODULE BlockLookup ----------------------------
(***************************************************************************)
(* The block pages and their hashes: lib/block-hashes-client.ts,           *)
(* app/block/page.tsx and app/block/[height]/BlockDetailContent.tsx.       *)
(*                                                                         *)
(* Hashes are static files: one with the total, and chunks.  A lookup      *)
(* reads the first, then a chunk, and keeps both in memory, while a new    *)
(* deployment may extend the files and other lookups are under way.        *)
(***************************************************************************)
EXTENDS Integers, FiniteSets

CONSTANTS
  MaxTotal,    \* bound: blocks the files ever list
  ChunkSize    \* hashes in a chunk

ASSUME BlockLookupAssumption == MaxTotal \in Nat \ {0} /\ ChunkSize \in Nat \ {0}

BlockHeights == 0 .. MaxTotal
Chunks == 0 .. MaxTotal \div ChunkSize

VARIABLES
  site,        \* blocks listed by the files now deployed
  metaCache,   \* the total in memory, 0 when not read
  totals,      \* totals the session was ever given (history)
  chunkCache,  \* by chunk: the hashes in memory, 0 when not read
  lookup,      \* by height: where its lookup stands
  blockPage    \* the height shown, -1 for the list of blocks

lookupVars == <<site, metaCache, totals, chunkCache, lookup, blockPage>>

NoLookup == [stage |-> "none", total |-> 0, found |-> FALSE]
ChunkOf(h) == h \div ChunkSize
LengthOf(total, c) == IF total <= c * ChunkSize THEN 0
                      ELSE IF total >= (c + 1) * ChunkSize THEN ChunkSize ELSE total - c * ChunkSize

\* A new deployment lists more blocks; chunks in memory stay as they are.
Deploy ==
  /\ site < MaxTotal
  /\ site' = site + 1
  /\ UNCHANGED <<metaCache, totals, chunkCache, lookup, blockPage>>

\* The hash is in the chunk, or undefined when the chunk is too short.
Answer(h, total, length) == [stage |-> "done", total |-> total, found |-> h % ChunkSize < length]

\* Mutant: the height of the total counts as listed.
WithMetaOffByOne(h, total) ==
  lookup' = [lookup EXCEPT ![h] =
    IF h > total THEN [stage |-> "done", total |-> total, found |-> FALSE]
    ELSE IF chunkCache[ChunkOf(h)] > 0 THEN Answer(h, total, chunkCache[ChunkOf(h)])
    ELSE [stage |-> "chunk", total |-> total, found |-> FALSE]]

\* lookupBlockHash once the total is known, up to its next await.
WithMeta(h, total) ==
  lookup' = [lookup EXCEPT ![h] =
    IF h >= total THEN [stage |-> "done", total |-> total, found |-> FALSE]
    ELSE IF chunkCache[ChunkOf(h)] > 0 THEN Answer(h, total, chunkCache[ChunkOf(h)])
    ELSE [stage |-> "chunk", total |-> total, found |-> FALSE]]

\* A page asks for a hash it has no answer for; an answer is kept for good.
LookupBlockHash(h) ==
  IF lookup[h].stage \notin {"none", "failed"} THEN UNCHANGED lookup
  ELSE IF metaCache > 0 THEN WithMeta(h, metaCache)
  ELSE lookup' = [lookup EXCEPT ![h] = [stage |-> "meta", total |-> 0, found |-> FALSE]]

MetaArrives(h) ==
  /\ lookup[h].stage = "meta"
  /\ metaCache' = site /\ totals' = totals \cup {site}
  /\ WithMeta(h, site)
  /\ UNCHANGED <<site, chunkCache, blockPage>>

ChunkArrives(h) ==
  LET c == ChunkOf(h) IN
  /\ lookup[h].stage = "chunk"
  /\ chunkCache' = [chunkCache EXCEPT ![c] = LengthOf(site, c)]
  /\ lookup' = [lookup EXCEPT ![h] = Answer(h, lookup[h].total, LengthOf(site, c))]
  /\ UNCHANGED <<site, metaCache, totals, blockPage>>

\* A request fails, retries included.
LookupFails(h) ==
  /\ lookup[h].stage \in {"meta", "chunk"}
  /\ lookup' = [lookup EXCEPT ![h] = [NoLookup EXCEPT !.stage = "failed"]]
  /\ UNCHANGED <<site, metaCache, totals, chunkCache, blockPage>>

-----------------------------------------------------------------------------
(* The pages.                                                              *)

\* The list of blocks has no registered block, so it asks for the first one's hash.
NextHeight == 0
OpenList ==
  /\ blockPage' = -1
  /\ LookupBlockHash(NextHeight)
  /\ UNCHANGED <<site, metaCache, totals, chunkCache>>

OpenBlock(h) ==
  /\ h \in BlockHeights
  /\ blockPage' = h
  /\ LookupBlockHash(h)
  /\ UNCHANGED <<site, metaCache, totals, chunkCache>>

Shown == lookup[blockPage]
LoadingShown == blockPage >= 0 /\ Shown.stage \in {"meta", "chunk"}
BlockShown == blockPage >= 0 /\ Shown.stage = "done" /\ Shown.found
NotFoundShown == blockPage >= 0 /\ ~LoadingShown /\ ~BlockShown

HasPrevious == BlockShown /\ blockPage > 0
HasNext == BlockShown /\ Shown.total > 0 /\ blockPage < Shown.total - 1

Previous == HasPrevious /\ OpenBlock(blockPage - 1)
NextBlock == HasNext /\ OpenBlock(blockPage + 1)

LookupInit ==
  /\ site \in 1 .. MaxTotal
  /\ metaCache = 0 /\ totals = {}
  /\ chunkCache = [c \in Chunks |-> 0]
  /\ lookup = [h \in BlockHeights |-> NoLookup] /\ blockPage = -1

LookupNext ==
  \/ Deploy \/ OpenList \/ Previous \/ NextBlock
  \/ \E h \in BlockHeights : OpenBlock(h) \/ MetaArrives(h) \/ ChunkArrives(h) \/ LookupFails(h)

\* Every request is answered, or given up.
LookupFairness ==
  \A h \in BlockHeights : WF_lookupVars(MetaArrives(h) \/ ChunkArrives(h) \/ LookupFails(h))

LookupSpec == LookupInit /\ [][LookupNext]_lookupVars /\ LookupFairness

-----------------------------------------------------------------------------
(* Properties.                                                             *)

\* Totals in memory are totals that were deployed, and the next link of a block leads to a
\* block of the files.
LookupTypeOK ==
  /\ site \in 1 .. MaxTotal /\ metaCache \in 0 .. site
  /\ \A c \in Chunks : chunkCache[c] <= LengthOf(site, c)
  /\ \A h \in BlockHeights : lookup[h].stage \in {"none", "meta", "chunk", "done", "failed"}
  /\ HasNext => blockPage + 1 < site

\* A lookup that ends well has the hash of every block below the total it answers with,
\* and of no other, whatever was deployed between its two requests and whoever read the
\* chunk before it; and the page says "not found" of no block below it, unless a request
\* failed.  (Two first lookups at once, given different totals, may miss a block: the
\* chunk of the first is too short for the second.)
LookupsAreRight ==
  Cardinality(totals) <= 1 =>
    /\ \A h \in BlockHeights :
         lookup[h].stage = "done" => (lookup[h].found <=> h < lookup[h].total)
    /\ NotFoundShown => Shown.stage = "failed" \/ blockPage >= Shown.total

\* A page waiting for a hash stops waiting.
LookupEnds ==
  \A h \in BlockHeights :
    []<>(lookup[h].stage \notin {"meta", "chunk"})

\* The caches hold what the deployed files say and a lookup's answer is right.
LookupInv == LookupTypeOK /\ LookupsAreRight

=============================================================================
