------------------------------- MODULE Keeper -------------------------------
(***************************************************************************)
(* The trustless keeper: polling loops that read pages of chain events and *)
(* turn each event into one transaction, remembering in memory what they   *)
(* have handled.  Any number of keepers run against one chain.             *)
(*                                                                         *)
(* Three loops share a shape: query the newest events, skip the ones that  *)
(* were seen, mark an event as seen, then submit its transaction.  The     *)
(* fourth (auto-bind) marks a round only after its transaction succeeded.  *)
(* Modelled from trustless-keeper/src/main.rs; the chain is the part of    *)
(* the Move contracts those transactions read and write.                   *)
(***************************************************************************)
EXTENDS Naturals, Sequences, FiniteSets, SequencesExt

CONSTANTS
  Keepers,       \* running keeper processes
  PageSize,      \* the limit of query_events (20 in the three loops)
  BindPageSize,  \* its limit in has_round_binding (50)
  TransientFailures, \* the loops whose transactions and queries may fail though the
                     \* chain would accept them
  Running,       \* bound: the event loops that take steps
  Restarts,      \* bound: restarts of a keeper in a behaviour
  MaxRound,      \* bound: the last round
  MaxClaims,     \* bound: BlockFoundClaims
  MaxSlots       \* bound: slots registered

ASSUME KeeperAssumption ==
  /\ IsFiniteSet(Keepers)
  /\ PageSize \in Nat \ {0} /\ BindPageSize \in Nat \ {0}
  /\ TransientFailures \subseteq {"claims", "deposits", "slots", "bind"}
  /\ Running \subseteq {"claims", "deposits", "slots"}
  /\ Restarts \in Nat /\ MaxRound \in Nat /\ MaxClaims \in Nat /\ MaxSlots \in Nat

VARIABLES
  round,         \* pool.current_round
  open,          \* pool.accumulator_open
  backed,        \* rounds whose hBTC has reached the vault
  funded,        \* rounds with a reward batch
  freeSlots,     \* registered slots that are not bound
  books,         \* slots with a DeepBook pool
  events,        \* the emitted events of each loop's type, oldest first
  page,          \* the rest of the page a loop is working through
  acting,        \* the event a loop is submitting a transaction for
  seen,          \* seen_claims, seen_round_funds, seen_slot_pools
  binding,       \* the auto-bind loop: where it is and for which round
  seenBound,     \* seen_bound_rounds
  restarts       \* restarts so far

chainVars == <<round, open, backed, funded, freeSlots, books>>
loopVars == <<page, acting, seen>>
bindVars == <<binding, seenBound>>
vars == <<chainVars, events, loopVars, bindVars, restarts>>

Loops == {"claims", "deposits", "slots"}
Idle == [key |-> 0, round |-> 0, stage |-> "none"]
NotBinding == [round |-> 0, stage |-> "none"]

\* Rounds with a binding, and the rounds of an event type.
Bound == {e.round : e \in Range(events["slots"])}
RoundsOf(l) == {e.round : e \in Range(events[l])}

Init ==
  /\ round = 0 /\ open = FALSE /\ backed = {} /\ funded = {}
  /\ freeSlots = 0 /\ books = {}
  /\ events = [l \in Loops |-> << >>]
  /\ page = [k \in Keepers |-> [l \in Loops |-> << >>]]
  /\ acting = [k \in Keepers |-> [l \in Loops |-> Idle]]
  /\ seen = [k \in Keepers |-> [l \in Loops |-> {}]]
  /\ binding = [k \in Keepers |-> NotBinding]
  /\ seenBound = [k \in Keepers |-> {}]
  /\ restarts = 0

-----------------------------------------------------------------------------
(* The chain, moved by others.                                             *)

Emit(l, e) == events' = [events EXCEPT ![l] = Append(events[l], e)]

\* A block-difficulty share freezes a claim, for the current round or (against a
\* template of an earlier round) for a closed one.
BlockFound(r) ==
  /\ Len(events["claims"]) < MaxClaims
  /\ r \in 0 .. round
  /\ Emit("claims", [key |-> Len(events["claims"]) + 1, round |-> r])
  /\ UNCHANGED <<chainVars, loopVars, bindVars, restarts>>

\* finalize_round: called by scripts and miners, by no loop of the keeper.
FinalizeRound ==
  /\ open /\ round < MaxRound
  /\ open' = FALSE /\ round' = round + 1
  /\ UNCHANGED <<backed, funded, freeSlots, books, events, loopVars, bindVars, restarts>>

\* record_block_found needs a claim of the round, not its RoundHistory; once per round
\* the record is confirmed (mark_hashi_confirmed).
DepositConfirmed(r) ==
  /\ r \in RoundsOf("claims") \ RoundsOf("deposits")
  /\ Emit("deposits", [key |-> r, round |-> r])
  /\ UNCHANGED <<chainVars, loopVars, bindVars, restarts>>

\* The hBTC of a confirmed deposit reaches the vault.
VaultCredited(r) ==
  /\ r \in RoundsOf("deposits") \ backed
  /\ backed' = backed \cup {r}
  /\ UNCHANGED <<round, open, funded, freeSlots, books, events, loopVars, bindVars, restarts>>

\* register_slot.
RegisterSlot ==
  /\ freeSlots + Len(events["slots"]) < MaxSlots
  /\ freeSlots' = freeSlots + 1
  /\ UNCHANGED <<round, open, backed, funded, books, events, loopVars, bindVars, restarts>>

-----------------------------------------------------------------------------
(* The three event loops.                                                  *)

\* The newest n events of a sequence, newest first (query_events, descending).
Newest(s, n) == Reverse(SubSeq(s, IF Len(s) > n THEN Len(s) - n + 1 ELSE 1, Len(s)))

\* A tick begins: one page is read.
Poll(k, l) ==
  /\ page[k][l] = << >> /\ acting[k][l] = Idle
  /\ events[l] # << >>
  /\ page' = [page EXCEPT ![k][l] = Newest(events[l], PageSize)]
  /\ UNCHANGED <<chainVars, events, acting, seen, bindVars, restarts>>

\* The tick comes to an event it has seen.
SkipSeen(k, l) ==
  /\ page[k][l] # << >> /\ acting[k][l] = Idle
  /\ Head(page[k][l]).key \in seen[k][l]
  /\ page' = [page EXCEPT ![k][l] = Tail(page[k][l])]
  /\ UNCHANGED <<chainVars, events, acting, seen, bindVars, restarts>>

\* The tick comes to a new event: it is marked as seen before anything is done about it.
\* A deposit needs its RoundHistory looked up first.
Mark(k, l) ==
  /\ page[k][l] # << >> /\ acting[k][l] = Idle
  /\ LET e == Head(page[k][l])
     IN  /\ e.key \notin seen[k][l]
         /\ seen' = [seen EXCEPT ![k][l] = seen[k][l] \cup {e.key}]
         /\ acting' = [acting EXCEPT ![k][l] =
                         [key |-> e.key, round |-> e.round,
                          stage |-> IF l = "deposits" THEN "lookup" ELSE "submit"]]
  /\ page' = [page EXCEPT ![k][l] = Tail(page[k][l])]
  /\ UNCHANGED <<chainVars, events, bindVars, restarts>>

Acting(k, l, stage) == acting[k][l].stage = stage

Done(k, l) == acting' = [acting EXCEPT ![k][l] = Idle]

\* find_round_history succeeds: the round was closed when it was asked for.
HistoryFound(k) ==
  /\ Acting(k, "deposits", "lookup")
  /\ acting[k]["deposits"].round < round
  /\ acting' = [acting EXCEPT ![k]["deposits"].stage = "submit"]
  /\ UNCHANGED <<chainVars, events, page, seen, bindVars, restarts>>

\* There is no RoundHistory yet: the event is skipped.
NoHistory(k) ==
  /\ Acting(k, "deposits", "lookup")
  /\ acting[k]["deposits"].round >= round
  /\ Done(k, "deposits")
  /\ UNCHANGED <<chainVars, events, page, seen, bindVars, restarts>>

\* The query fails: the error ends the tick.
HistoryLookupFails(k) ==
  /\ "deposits" \in TransientFailures
  /\ Acting(k, "deposits", "lookup")
  /\ Done(k, "deposits")
  /\ page' = [page EXCEPT ![k]["deposits"] = << >>]
  /\ UNCHANGED <<chainVars, events, seen, bindVars, restarts>>

\* What the chain accepts: a claim of the current round while no accumulator is open; a
\* confirmed, backed, unfunded deposit; a slot without a pool.
Accepts(l, a) ==
  CASE l = "claims"   -> a.round = round /\ ~open
    [] l = "deposits" -> a.round \in backed \ funded
    [] l = "slots"    -> a.key \notin books

\* open_accumulator, fund_round and create_deepbook_pool, accepted.
Submit(k, l) ==
  LET a == acting[k][l]
  IN  /\ Acting(k, l, "submit") /\ Accepts(l, a)
      /\ Done(k, l)
      /\ open' = (open \/ l = "claims")
      /\ funded' = IF l = "deposits" THEN funded \cup {a.round} ELSE funded
      /\ books' = IF l = "slots" THEN books \cup {a.key} ELSE books
      /\ UNCHANGED <<round, backed, freeSlots, events, page, seen, bindVars, restarts>>

\* The transaction fails: it aborts, or never lands.  The loop warns and goes on.
SubmitFails(k, l) ==
  /\ Acting(k, l, "submit")
  /\ l \in TransientFailures \/ ~Accepts(l, acting[k][l])
  /\ Done(k, l)
  /\ UNCHANGED <<chainVars, events, page, seen, bindVars, restarts>>

-----------------------------------------------------------------------------
(* The auto-bind loop.                                                     *)

At(k, stage) == binding[k].stage = stage

\* read_current_round, then the check of seen_bound_rounds.
ReadRound(k) ==
  /\ At(k, "none")
  /\ round \notin seenBound[k]
  /\ binding' = [binding EXCEPT ![k] = [round |-> round, stage |-> "query"]]
  /\ UNCHANGED <<chainVars, events, loopVars, seenBound, restarts>>

\* Mutant: the round is taken as bound without a look at the page.
KnownBoundAlways(k) == TRUE

\* has_round_binding: the newest bindings name the round.
KnownBound(k) ==
  \E e \in Range(Newest(events["slots"], BindPageSize)) : e.round = binding[k].round

\* The round is bound already: it is marked.
AlreadyBound(k) ==
  /\ At(k, "query") /\ KnownBound(k)
  /\ seenBound' = [seenBound EXCEPT ![k] = seenBound[k] \cup {binding[k].round}]
  /\ binding' = [binding EXCEPT ![k] = NotBinding]
  /\ UNCHANGED <<chainVars, events, loopVars, restarts>>

\* It is not: bind_slot is called.
NeedsBinding(k) ==
  /\ At(k, "query") /\ ~KnownBound(k)
  /\ binding' = [binding EXCEPT ![k].stage = "submit"]
  /\ UNCHANGED <<chainVars, events, loopVars, seenBound, restarts>>

\* bind_slot_to_round: without effect when the round is bound, otherwise the oldest slot.
BindSlotToRound(r) ==
  IF r \in Bound
  THEN UNCHANGED <<freeSlots, events>>
  ELSE /\ freeSlots > 0 /\ freeSlots' = freeSlots - 1
       /\ Emit("slots", [key |-> Len(events["slots"]) + 1, round |-> r])

\* The transaction succeeds, and only then the round is marked.
BindSucceeds(k) ==
  /\ At(k, "submit")
  /\ BindSlotToRound(binding[k].round)
  /\ seenBound' = [seenBound EXCEPT ![k] = seenBound[k] \cup {binding[k].round}]
  /\ binding' = [binding EXCEPT ![k] = NotBinding]
  /\ UNCHANGED <<round, open, backed, funded, books, loopVars, restarts>>

\* Mutant: a failed transaction marks the round too.
MarkedOnFailureToo(k) == seenBound[k] \cup {binding[k].round}

\* What a failed transaction adds to seen_bound_rounds.
MarkedOnFailure(k) == seenBound[k]

\* The transaction fails, or there is no slot; the next tick tries again.
BindFails(k) ==
  /\ At(k, "submit")
  /\ "bind" \in TransientFailures \/ (binding[k].round \notin Bound /\ freeSlots = 0)
  /\ seenBound' = [seenBound EXCEPT ![k] = MarkedOnFailure(k)]
  /\ binding' = [binding EXCEPT ![k] = NotBinding]
  /\ UNCHANGED <<chainVars, events, loopVars, restarts>>

\* Mutant: what was seen is kept on disk.
SeenAfterRestartKept(k, l) == seen[k][l]

\* A new Keeper has seen nothing.
SeenAfterRestart(k, l) == {}

\* The process is started again: nothing of it is on disk.
Restart(k) ==
  /\ restarts < Restarts
  /\ restarts' = restarts + 1
  /\ page' = [page EXCEPT ![k] = [l \in Loops |-> << >>]]
  /\ acting' = [acting EXCEPT ![k] = [l \in Loops |-> Idle]]
  /\ seen' = [seen EXCEPT ![k] = [l \in Loops |-> SeenAfterRestart(k, l)]]
  /\ binding' = [binding EXCEPT ![k] = NotBinding]
  /\ seenBound' = [seenBound EXCEPT ![k] = {}]
  /\ UNCHANGED <<chainVars, events>>

-----------------------------------------------------------------------------
ChainStep ==
  \/ \E r \in 0 .. MaxRound : BlockFound(r) \/ DepositConfirmed(r) \/ VaultCredited(r)
  \/ FinalizeRound
  \/ RegisterSlot

LoopStep(k, l) ==
  \/ Poll(k, l) \/ SkipSeen(k, l) \/ Mark(k, l)
  \/ Submit(k, l) \/ SubmitFails(k, l)

LookupStep(k) == HistoryFound(k) \/ NoHistory(k) \/ HistoryLookupFails(k)

BindStep(k) ==
  ReadRound(k) \/ AlreadyBound(k) \/ NeedsBinding(k) \/ BindSucceeds(k) \/ BindFails(k)

Next ==
  \/ ChainStep
  \/ \E k \in Keepers : \/ \E l \in Running : LoopStep(k, l)
                        \/ LookupStep(k) \/ BindStep(k) \/ Restart(k)

Spec == Init /\ [][Next]_vars

\* Each loop is a task of its own that never ends, so its next step is taken; a
\* transaction that can succeed and is submitted again and again succeeds once.
Fairness ==
  \A k \in Keepers :
    /\ \A l \in Running : WF_vars(LoopStep(k, l)) /\ SF_vars(Submit(k, l))
    /\ WF_vars(LookupStep(k)) /\ SF_vars(HistoryFound(k))
    /\ WF_vars(BindStep(k)) /\ SF_vars(BindSucceeds(k))

FairSpec == Spec /\ Fairness

-----------------------------------------------------------------------------
(* Properties.                                                             *)

EventType == [key: Nat, round: Nat]

\* Type invariant.
KeeperTypeOK ==
  /\ round \in Nat /\ open \in BOOLEAN /\ freeSlots \in Nat /\ restarts \in Nat
  /\ backed \subseteq Nat /\ funded \subseteq Nat /\ books \subseteq Nat
  /\ events \in [Loops -> Seq(EventType)]
  /\ page \in [Keepers -> [Loops -> Seq(EventType)]]
  /\ acting \in [Keepers -> [Loops -> [key: Nat, round: Nat,
                                       stage: {"none", "lookup", "submit"}]]]
  /\ seen \in [Keepers -> [Loops -> SUBSET Nat]]
  /\ binding \in [Keepers -> [round: Nat, stage: {"none", "query", "submit"}]]
  /\ seenBound \in [Keepers -> SUBSET Nat]

\* However many keepers race, with whatever failures, restarts and stale reads, a round
\* takes at most one slot and only once it was the current one, and a keeper that believes
\* a round to be bound is right.
SlotsAreNotWasted ==
  /\ \A i, j \in 1 .. Len(events["slots"]) :
       events["slots"][i].round = events["slots"][j].round => i = j
  /\ \A r \in Bound : r <= round
  /\ \A k \in Keepers : seenBound[k] \subseteq Bound

\* tick_auto_bind recovers from every failure: with a keeper running and a slot free, the
\* current round is bound in the end, or superseded.
CurrentRoundGetsBound ==
  \A r \in 0 .. MaxRound :
    (round = r /\ freeSlots > 0) ~> (r \in Bound \/ round > r \/ freeSlots = 0)

\* The payout loop does not lose a round it has not looked at too early: a deposit that is
\* confirmed, closed and backed while some keeper has not marked it yet is funded in the
\* end, also when that keeper is restarted between the mark and the transaction.
ReadyRoundsGetFunded ==
  \A r \in 0 .. MaxRound, k \in Keepers :
    (/\ r < round /\ r \in RoundsOf("deposits") \cap backed
     /\ r \notin seen[k]["deposits"]) ~> (r \in funded)

\* What the keeper's documentation says (main.rs lines 27-28), for round close: as long as
\* a keeper is online, a claim of the current round opens its accumulator in the end.
FoundBlocksOpenTheRound ==
  \A r \in 0 .. MaxRound :
    (round = r /\ r \in RoundsOf("claims")) ~> (open \/ round > r)

\* The keepers' memory and the registry stay well formed, and keepers that race for
\* the same slots never spend two on a round, nor one on a round that is still to come.
KeeperInv == KeeperTypeOK /\ SlotsAreNotWasted

(* Supporting facts of the inductive invariant.                            *)

(* The round a keeper is binding a slot to was the current one when it was *)
(* read, and rounds only go up.                                            *)
BindingIsNotAhead ==
  \A k \in Keepers : binding[k].stage # "none" => binding[k].round <= round

(* The inductive invariant of the keepers.                                 *)
KeepersInv == KeeperInv /\ BindingIsNotAhead

\* Whatever fails or restarts in between, an event of the chain is acted on: found
\* blocks open their round and ready rounds are funded.
EventsAreActedOn == FoundBlocksOpenTheRound /\ ReadyRoundsGetFunded

=============================================================================
