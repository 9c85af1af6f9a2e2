----------------------------- MODULE RoundLedger -----------------------------
(***************************************************************************)
(* What the round pipeline promises the reward path.  One round is current *)
(* at a time; while it is open, each miner's work may be entered once; when *)
(* it closes, its total is the sum of its entries and never changes again. *)
(***************************************************************************)
EXTENDS Naturals, FiniteSets, WorkSums

CONSTANTS
  Miners,   \* addresses that can be credited
  Works,    \* amounts of work an entry may have
  MaxRound  \* bound: the last round id that is modelled

ASSUME LedgerAssumption == Works \subseteq Nat \ {0} /\ MaxRound \in Nat

VARIABLES
  current,  \* the current round
  open,     \* whether it accepts entries
  entries,  \* every entry ever made
  closed    \* the closed rounds with their totals

ledgerVars == <<current, open, entries, closed>>

EntriesOf(r) == {e \in entries : e.round_id = r}

EnteredWork(r) == SumOver(EntriesOf(r), [e \in EntriesOf(r) |-> e.net_work])

LedgerInit ==
  /\ current = 0
  /\ open = FALSE
  /\ entries = {}
  /\ closed = {}

\* A block was found in the current round.
OpenRound ==
  /\ ~open
  /\ open' = TRUE
  /\ UNCHANGED <<current, entries, closed>>

\* A miner's work is entered, once for the round.
Credit(m, w) ==
  /\ open
  /\ \A e \in EntriesOf(current) : e.miner # m
  /\ entries' = entries \cup {[round_id |-> current, miner |-> m, net_work |-> w]}
  /\ UNCHANGED <<current, open, closed>>

\* The round closes with the sum of its entries.
CloseRound ==
  /\ open
  /\ current < MaxRound
  /\ closed' = closed \cup {[round_id |-> current, total_work |-> EnteredWork(current)]}
  /\ current' = current + 1
  /\ open' = FALSE
  /\ UNCHANGED entries

LedgerNext ==
  \/ OpenRound
  \/ \E m \in Miners, w \in Works : Credit(m, w)
  \/ CloseRound

LedgerSpec == LedgerInit /\ [][LedgerNext]_ledgerVars

-----------------------------------------------------------------------------
EntryType == [round_id: Nat, miner: Miners, net_work: Works]
ClosedType == [round_id: Nat, total_work: Nat]

\* What users of the ledger rely on: a closed round is closed once and lies behind the
\* current one, so nothing is entered in it any more, and its total is that of its
\* entries.
LedgerInv ==
  /\ current \in Nat /\ open \in BOOLEAN
  /\ entries \subseteq EntryType /\ IsFiniteSet(entries)
  /\ closed \subseteq ClosedType
  /\ \A g, h \in closed : g.round_id = h.round_id => g = h
  /\ \A h \in closed : h.round_id < current /\ h.total_work = EnteredWork(h.round_id)

=============================================================================
