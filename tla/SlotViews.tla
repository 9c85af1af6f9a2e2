------------------------------ MODULE SlotViews ------------------------------
(***************************************************************************)
(* Which round a HashShare belongs to, as the web pages show it:           *)
(* useHashShareRedemptions.ts, the HashShares table of                     *)
(* web/app/rewards/page.tsx, RoundSelector.tsx, and the marketplace's      *)
(* choice of the coin to open.                                             *)
(***************************************************************************)
EXTENDS Integers, Sequences, FiniteSets, SequencesExt

CONSTANTS
  SlotRounds,    \* rounds a slot may be bound to
  Labels,        \* labels of the slots, in the order they are handed out
  SlotPage       \* SlotBoundToRound and RedemptionOpened events read (100)

ASSUME SlotViewsAssumption ==
  /\ SlotRounds \subseteq Nat /\ SlotPage \in Nat
  /\ Labels \in Seq([form : {"HS000", "HS_000", "other"}, slot : Nat])
  /\ \A i, j \in DOMAIN Labels : Labels[i].slot = Labels[j].slot => i = j

VARIABLES
  bound,      \* rounds with a slot, in the order they were bound
  redeeming,  \* rounds with an open redemption, in the order they were opened
  copy,       \* the answers of useHashShareBindings and useHashShareRedemptions
  coin        \* ?coin= of the marketplace

slotVars == <<bound, redeeming, copy, coin>>

NewestOf(s) == SubSeq(Reverse(s), 1, IF Len(s) < SlotPage THEN Len(s) ELSE SlotPage)

\* bind_slot_to_round: the next slot of the buffer, once per round.
BindSlot(r) ==
  /\ r \notin Range(bound) /\ Len(bound) < Len(Labels)
  /\ bound' = Append(bound, r)
  /\ UNCHANGED <<redeeming, copy, coin>>

\* open_redemption of a bound round.
OpenRedemption(r) ==
  /\ r \in Range(bound) \ Range(redeeming)
  /\ redeeming' = Append(redeeming, r)
  /\ UNCHANGED <<bound, copy, coin>>

NoType == -1

\* Both spellings name the slot's coin; another label names none.
LabelToFullType(label) == IF label.form = "other" THEN NoType ELSE label.slot

\* useHashShareBindings, newest event first.
Bindings ==
  NewestOf([i \in DOMAIN bound |->
            [round |-> bound[i], label |-> i, type |-> LabelToFullType(Labels[i])]])

\* useHashShareRedemptions: RedemptionOpened carries no label, so no entry has a type.
Redemptions ==
  {[round |-> r, type |-> NoType] : r \in Range(NewestOf(redeeming))}

ReadSlots ==
  /\ \/ copy' = [copy EXCEPT !.bindings = Bindings]
     \/ copy' = [copy EXCEPT !.redemptions = Redemptions]
  /\ UNCHANGED <<bound, redeeming, coin>>

\* A row of the HashShares table, for the coin type of a slot: the round of the first
\* binding of that type.
RowRound(type) ==
  LET k == SelectInSeq(copy.bindings, LAMBDA b : b.type = type)
  IN  IF k = 0 THEN 0 ELSE copy.bindings[k].round

-----------------------------------------------------------------------------
(* The marketplace: which round's coin it opens.                           *)

LaterRound(a, b) == a.round > b.round

\* byCoin: the binding of the highest round for every type, highest round first.
ByCoin ==
  LET all == Range(copy.bindings)
  IN  SetToSortSeq({b \in all : \A o \in all : o.type = b.type => o.round <= b.round}, LaterRound)

\* Mutant: the newest event names the latest coin.
LatestCoinByEvent == IF copy.bindings = << >> THEN NoType ELSE copy.bindings[1].type

LatestCoin == IF ByCoin = << >> THEN NoType ELSE ByCoin[1].type

\* Without ?coin= the page goes to the latest coin.
Redirect ==
  /\ coin = NoType /\ LatestCoin # NoType
  /\ coin' = LatestCoin
  /\ UNCHANGED <<bound, redeeming, copy>>

\* RoundSelector's dropdown lists the other coins.
SelectRound ==
  /\ \E i \in DOMAIN ByCoin : ByCoin[i].type # coin /\ coin' = ByCoin[i].type
  /\ UNCHANGED <<bound, redeeming, copy>>

-----------------------------------------------------------------------------
SlotsInit ==
  /\ bound = << >> /\ redeeming = << >> /\ coin = NoType
  /\ copy = [bindings |-> << >>, redemptions |-> {}]

SlotsNext ==
  \/ \E r \in SlotRounds : BindSlot(r) \/ OpenRedemption(r)
  \/ ReadSlots
  \/ Redirect \/ SelectRound

SlotsSpec == SlotsInit /\ [][SlotsNext]_slotVars

-----------------------------------------------------------------------------
(* Properties.                                                             *)

SlotsTypeOK ==
  /\ bound \in Seq(SlotRounds) /\ redeeming \in Seq(SlotRounds)
  /\ \A e \in Range(copy.bindings) \cup copy.redemptions : e.round \in SlotRounds
  /\ coin \in {NoType} \cup {Labels[i].slot : i \in DOMAIN bound}

\* The table shows a HashShare balance under the round its slot was bound to, the selector
\* lists every coin once, by falling round, and the market opens on the highest round known,
\* in whatever order the rounds were bound.
SlotsShowTheirRound ==
  /\ \A i \in DOMAIN bound : RowRound(Labels[i].slot) \in {0, bound[i]}
  /\ \A i, j \in DOMAIN ByCoin : i < j =>
       ByCoin[i].round > ByCoin[j].round /\ ByCoin[i].type # ByCoin[j].type
  /\ \A b \in Range(copy.bindings) :
       (\A o \in Range(copy.bindings) : o.round <= b.round) => LatestCoin = b.type

\* The selected coin is one that was bound, balances stand under the round of their slot,
\* and the market opens on the highest round known.
SlotsInv == SlotsTypeOK /\ SlotsShowTheirRound

=============================================================================
