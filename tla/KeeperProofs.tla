---------------------------- MODULE KeeperProofs ----------------------------
(* Theorems about the keepers, for every value of the constants. *)
EXTENDS Keeper, SequenceTheorems, TLAPS

-----------------------------------------------------------------------------
(* Pages of events.                                                        *)

\* A page holds events of the chain.
LEMMA NewestType ==
  ASSUME NEW S, NEW s \in Seq(S), NEW n \in Nat \ {0}
  PROVE  Newest(s, n) \in Seq(S) /\ Range(Newest(s, n)) \subseteq Range(s)
<1> DEFINE from == IF Len(s) > n THEN Len(s) - n + 1 ELSE 1
           w == SubSeq(s, from, Len(s))
           len == Len(w)
<1>1. from \in Nat /\ from >= 1 /\ Len(s) \in Nat /\ from <= Len(s) + 1
  OBVIOUS
<1>2. /\ w \in Seq(S) /\ len \in Nat /\ DOMAIN w = 1 .. len
      /\ \A i \in 1 .. len : w[i] \in S /\ \E j \in 1 .. Len(s) : w[i] = s[j]
  <2> HIDE DEF from
  <2> QED
    BY <1>1
<1>3. Newest(s, n) = [i \in 1 .. len |-> w[(len - i) + 1]]
  BY DEF Newest, Reverse
<1> HIDE DEF w, len, from
<1>4. \A i \in 1 .. len : (len - i) + 1 \in 1 .. len
  BY <1>2
<1>5. Newest(s, n) \in Seq(S)
  BY <1>2, <1>3, <1>4
<1>6. \A i \in 1 .. len : Newest(s, n)[i] \in Range(s)
  <2>1. ASSUME NEW i \in 1 .. len PROVE \E j \in DOMAIN s : Newest(s, n)[i] = s[j]
    <3>1. Newest(s, n)[i] = w[(len - i) + 1] /\ (len - i) + 1 \in 1 .. len
      BY <1>3, <1>4
    <3>2. DOMAIN s = 1 .. Len(s)
      OBVIOUS
    <3> QED
      BY <1>2, <3>1, <3>2
  <2> QED
    BY <2>1 DEF Range
<1>7. DOMAIN Newest(s, n) = 1 .. len
  BY <1>3
<1> QED
  BY <1>5, <1>6, <1>7 DEF Range

\* An event is added at the end of its list and to no other.
LEMMA EmitEffect ==
  ASSUME KeeperTypeOK, NEW l \in Loops, NEW e \in EventType, Emit(l, e)
  PROVE  /\ events' \in [Loops -> Seq(EventType)]
         /\ events'[l] = Append(events[l], e)
         /\ \A i \in Loops \ {l} : events'[i] = events[i]
BY DEF KeeperTypeOK, Emit

-----------------------------------------------------------------------------
(* What the steps of the chain and of the three loops leave alone.         *)

\* What an event loop does to the memory of one keeper, and the chain to its own state.
LEMMA LoopTypes ==
  ASSUME KeeperTypeOK, NEW k \in Keepers, NEW l \in Loops, LoopStep(k, l)
  PROVE  /\ page' \in [Keepers -> [Loops -> Seq(EventType)]]
         /\ acting' \in [Keepers -> [Loops -> [key: Nat, round: Nat,
                                               stage: {"none", "lookup", "submit"}]]]
         /\ seen' \in [Keepers -> [Loops -> SUBSET Nat]]
         /\ funded' \subseteq Nat /\ books' \subseteq Nat /\ open' \in BOOLEAN
         /\ UNCHANGED <<round, backed, freeSlots, events, bindVars, restarts>>
<1> DEFINE Stage == {"none", "lookup", "submit"}
           Act == [key: Nat, round: Nat, stage: Stage]
<1>0. /\ page \in [Keepers -> [Loops -> Seq(EventType)]]
      /\ acting \in [Keepers -> [Loops -> Act]]
      /\ seen \in [Keepers -> [Loops -> SUBSET Nat]]
      /\ events \in [Loops -> Seq(EventType)]
      /\ funded \subseteq Nat /\ books \subseteq Nat
  BY DEF KeeperTypeOK
<1>1. open \in BOOLEAN
  BY DEF KeeperTypeOK
<1>2. Idle \in Act
  BY DEF Idle
<1>3. ASSUME Done(k, l) PROVE acting' \in [Keepers -> [Loops -> Act]]
  <2> HIDE DEF Act
  <2> QED
    BY <1>0, <1>2, <1>3 DEF Done
<1>4. ASSUME page[k][l] # << >>, page' = [page EXCEPT ![k][l] = Tail(page[k][l])]
      PROVE  page' \in [Keepers -> [Loops -> Seq(EventType)]]
  BY <1>0, <1>4
<1>5. CASE Poll(k, l)
  <2>1. Newest(events[l], PageSize) \in Seq(EventType)
    BY <1>0, KeeperAssumption, NewestType
  <2>2. page' = [page EXCEPT ![k][l] = Newest(events[l], PageSize)]
    BY <1>5 DEF Poll
  <2>3. page' \in [Keepers -> [Loops -> Seq(EventType)]]
    BY <1>0, <2>1, <2>2
  <2>4. UNCHANGED <<acting, seen, funded, books, open, round, backed, freeSlots, events,
                    bindVars, restarts>>
    BY <1>5 DEF Poll, chainVars
  <2> QED
    BY <1>0, <1>1, <2>3, <2>4
<1>6. CASE SkipSeen(k, l)
  <2>1. page' \in [Keepers -> [Loops -> Seq(EventType)]]
    BY <1>4, <1>6 DEF SkipSeen
  <2>2. UNCHANGED <<acting, seen, funded, books, open, round, backed, freeSlots, events,
                    bindVars, restarts>>
    BY <1>6 DEF SkipSeen, chainVars
  <2> QED
    BY <1>0, <1>1, <2>1, <2>2
<1>7. CASE Mark(k, l)
  <2> DEFINE e == Head(page[k][l])
             a == [key |-> e.key, round |-> e.round,
                   stage |-> IF l = "deposits" THEN "lookup" ELSE "submit"]
             ks == seen[k][l] \cup {e.key}
  <2>0. /\ page[k][l] # << >> /\ acting' = [acting EXCEPT ![k][l] = a]
        /\ seen' = [seen EXCEPT ![k][l] = ks]
        /\ page' = [page EXCEPT ![k][l] = Tail(page[k][l])]
    BY <1>7 DEF Mark
  <2>1. e \in EventType
    BY <1>0, <2>0
  <2>2. e.key \in Nat /\ e.round \in Nat
    <3> HIDE DEF e
    <3> QED
      BY <2>1 DEF EventType
  <2>3. ks \in SUBSET Nat
    BY <1>0, <2>2
  <2>4. a \in Act
    BY <2>2
  <2>5. acting' \in [Keepers -> [Loops -> Act]] /\ seen' \in [Keepers -> [Loops -> SUBSET Nat]]
    <3> HIDE DEF a, ks, Act
    <3> QED
      BY <1>0, <2>0, <2>3, <2>4
  <2>6. page' \in [Keepers -> [Loops -> Seq(EventType)]]
    BY <1>4, <2>0
  <2>7. UNCHANGED <<funded, books, open, round, backed, freeSlots, events, bindVars, restarts>>
    BY <1>7 DEF Mark, chainVars
  <2> QED
    BY <1>0, <1>1, <2>5, <2>6, <2>7
<1>8. CASE Submit(k, l)
  <2>1. acting' \in [Keepers -> [Loops -> Act]]
    BY <1>3, <1>8 DEF Submit
  <2>2. acting[k][l].key \in Nat /\ acting[k][l].round \in Nat
    BY <1>0
  <2>3. funded' \subseteq Nat /\ books' \subseteq Nat
    BY <1>0, <1>8, <2>2 DEF Submit
  <2>4. open' \in BOOLEAN
    BY <1>1, <1>8, Zenon DEF Submit
  <2>5. UNCHANGED <<round, backed, freeSlots, events, page, seen, bindVars, restarts>>
    BY <1>8 DEF Submit
  <2> QED
    BY <1>0, <2>1, <2>3, <2>4, <2>5
<1>9. CASE SubmitFails(k, l)
  <2>1. acting' \in [Keepers -> [Loops -> Act]]
    BY <1>3, <1>9 DEF SubmitFails
  <2>2. UNCHANGED <<page, seen, funded, books, open, round, backed, freeSlots, events,
                    bindVars, restarts>>
    BY <1>9 DEF SubmitFails, chainVars
  <2> QED
    BY <1>0, <1>1, <2>1, <2>2
<1> QED
  BY <1>5, <1>6, <1>7, <1>8, <1>9, Zenon DEF LoopStep

LEMMA LookupTypes ==
  ASSUME KeeperTypeOK, NEW k \in Keepers, LookupStep(k)
  PROVE  /\ page' \in [Keepers -> [Loops -> Seq(EventType)]]
         /\ acting' \in [Keepers -> [Loops -> [key: Nat, round: Nat,
                                               stage: {"none", "lookup", "submit"}]]]
         /\ UNCHANGED <<chainVars, events, seen, bindVars, restarts>>
<1> DEFINE Act == [key: Nat, round: Nat, stage: {"none", "lookup", "submit"}]
           d == "deposits"
<1>0. /\ page \in [Keepers -> [Loops -> Seq(EventType)]]
      /\ acting \in [Keepers -> [Loops -> Act]] /\ d \in Loops
  BY DEF KeeperTypeOK, Loops
<1>1. Idle \in Act
  BY DEF Idle
<1>2. ASSUME Done(k, d) PROVE acting' \in [Keepers -> [Loops -> Act]]
  <2> HIDE DEF Act
  <2> QED
    BY <1>0, <1>1, <1>2 DEF Done
<1>3. CASE HistoryFound(k)
  <2> DEFINE a == [acting[k][d] EXCEPT !.stage = "submit"]
  <2>1. a \in Act
    <3> DEFINE old == acting[k][d]
    <3>1. old \in Act
      BY <1>0
    <3> HIDE DEF old
    <3>2. [old EXCEPT !.stage = "submit"] \in Act
      BY <3>1
    <3> QED
      BY <3>2 DEF old
  <2>2. acting' = [acting EXCEPT ![k][d] = a]
    BY <1>0, <1>3 DEF HistoryFound
  <2>3. acting' \in [Keepers -> [Loops -> Act]]
    <3> HIDE DEF a, Act
    <3> QED
      BY <1>0, <2>1, <2>2
  <2> QED
    BY <1>0, <1>3, <2>3 DEF HistoryFound
<1>4. CASE NoHistory(k)
  BY <1>0, <1>2, <1>4 DEF NoHistory
<1>5. CASE HistoryLookupFails(k)
  <2>1. page' \in [Keepers -> [Loops -> Seq(EventType)]]
    BY <1>0, <1>5 DEF HistoryLookupFails
  <2> QED
    BY <1>0, <1>2, <1>5, <2>1 DEF HistoryLookupFails
<1> QED
  BY <1>3, <1>4, <1>5 DEF LookupStep

-----------------------------------------------------------------------------
(* Slots and bindings.                                                     *)

\* A step that binds nothing and lets no keeper begin to.
LEMMA BindingFrame ==
  ASSUME KeepersInv, round' \in Nat, round' >= round, events'["slots"] = events["slots"],
         UNCHANGED bindVars
  PROVE  SlotsAreNotWasted' /\ BindingIsNotAhead'
<1>0. /\ round \in Nat /\ events \in [Loops -> Seq(EventType)] /\ "slots" \in Loops
      /\ binding \in [Keepers -> [round: Nat, stage: {"none", "query", "submit"}]]
  BY DEF KeepersInv, KeeperInv, KeeperTypeOK, Loops
<1>1. Bound' = Bound
  BY DEF Bound
<1>2. \A r \in Bound : r \in Nat
  <2>1. \A i \in DOMAIN events["slots"] : events["slots"][i] \in EventType
    BY <1>0
  <2>2. \A e \in Range(events["slots"]) : e \in EventType
    BY <2>1 DEF Range
  <2> QED
    BY <2>2 DEF Bound, EventType
<1>3. \A r \in Bound : r <= round'
  BY <1>0, <1>2 DEF KeepersInv, KeeperInv, SlotsAreNotWasted
<1>4. BindingIsNotAhead'
  <2>1. ASSUME NEW k \in Keepers, binding[k].stage # "none" PROVE binding[k].round <= round'
    <3>1. binding[k].round \in Nat /\ binding[k].round <= round
      BY <1>0, <2>1 DEF KeepersInv, BindingIsNotAhead
    <3> QED
      BY <1>0, <3>1
  <2> QED
    BY <2>1 DEF BindingIsNotAhead, bindVars
<1> QED
  BY <1>1, <1>3, <1>4 DEF KeepersInv, KeeperInv, SlotsAreNotWasted, bindVars

\* A keeper's belief is added to, of a round that has a slot, and it binds no more.
LEMMA BelievesBound ==
  ASSUME KeepersInv, NEW k \in Keepers, UNCHANGED round,
         events' \in [Loops -> Seq(EventType)],
         NEW s \in SUBSET Nat, s \subseteq Bound', Bound \subseteq Bound',
         \A i, j \in 1 .. Len(events'["slots"]) :
            events'["slots"][i].round = events'["slots"][j].round => i = j,
         \A r \in Bound' : r <= round,
         seenBound' = [seenBound EXCEPT ![k] = s],
         binding' = [binding EXCEPT ![k] = NotBinding]
  PROVE  /\ SlotsAreNotWasted' /\ BindingIsNotAhead'
         /\ binding' \in [Keepers -> [round: Nat, stage: {"none", "query", "submit"}]]
         /\ seenBound' \in [Keepers -> SUBSET Nat]
<1>0. /\ binding \in [Keepers -> [round: Nat, stage: {"none", "query", "submit"}]]
      /\ seenBound \in [Keepers -> SUBSET Nat]
      /\ \A i \in Keepers : seenBound[i] \subseteq Bound
  BY DEF KeepersInv, KeeperInv, KeeperTypeOK, SlotsAreNotWasted
<1>1. \A i \in Keepers : seenBound'[i] \subseteq Bound'
  BY <1>0
<1>2. SlotsAreNotWasted'
  BY <1>1 DEF SlotsAreNotWasted
<1>3. /\ binding' \in [Keepers -> [round: Nat, stage: {"none", "query", "submit"}]]
      /\ binding'[k].stage = "none" /\ \A i \in Keepers \ {k} : binding'[i] = binding[i]
  BY <1>0 DEF NotBinding
<1>4. BindingIsNotAhead'
  BY <1>3 DEF KeepersInv, BindingIsNotAhead
<1> QED
  BY <1>0, <1>2, <1>3, <1>4

LEMMA BindTypes ==
  ASSUME KeepersInv, NEW k \in Keepers, BindStep(k)
  PROVE  /\ SlotsAreNotWasted' /\ BindingIsNotAhead'
         /\ events' \in [Loops -> Seq(EventType)] /\ freeSlots' \in Nat
         /\ binding' \in [Keepers -> [round: Nat, stage: {"none", "query", "submit"}]]
         /\ seenBound' \in [Keepers -> SUBSET Nat]
         /\ UNCHANGED <<round, open, backed, funded, books, loopVars, restarts>>
<1> DEFINE Binding == [round: Nat, stage: {"none", "query", "submit"}]
           log == events["slots"]
<1>0. /\ round \in Nat /\ freeSlots \in Nat /\ events \in [Loops -> Seq(EventType)]
      /\ binding \in [Keepers -> Binding] /\ seenBound \in [Keepers -> SUBSET Nat]
      /\ "slots" \in Loops /\ log \in Seq(EventType) /\ KeeperTypeOK
  BY DEF KeepersInv, KeeperInv, KeeperTypeOK, Loops
<1>1. /\ \A i, j \in 1 .. Len(log) : log[i].round = log[j].round => i = j
      /\ \A r \in Bound : r <= round
      /\ \A i \in Keepers : seenBound[i] \subseteq Bound
      /\ \A i \in Keepers : binding[i].stage # "none" => binding[i].round <= round
  BY DEF KeepersInv, KeeperInv, SlotsAreNotWasted, BindingIsNotAhead
<1>2. ASSUME UNCHANGED <<chainVars, events, loopVars, restarts>>,
             NEW s \in SUBSET Nat, s \subseteq Bound,
             seenBound' = [seenBound EXCEPT ![k] = s],
             binding' = [binding EXCEPT ![k] = NotBinding]
      PROVE  /\ SlotsAreNotWasted' /\ BindingIsNotAhead'
             /\ events' \in [Loops -> Seq(EventType)] /\ freeSlots' \in Nat
             /\ binding' \in [Keepers -> Binding]
             /\ seenBound' \in [Keepers -> SUBSET Nat]
             /\ UNCHANGED <<round, open, backed, funded, books, loopVars, restarts>>
  <2>1. Bound' = Bound /\ round' = round /\ events' = events
    BY <1>2 DEF Bound, chainVars
  <2>2. /\ s \subseteq Bound' /\ Bound \subseteq Bound' /\ events' \in [Loops -> Seq(EventType)]
        /\ \A i, j \in 1 .. Len(events'["slots"]) :
              events'["slots"][i].round = events'["slots"][j].round => i = j
        /\ \A r \in Bound' : r <= round
    BY <1>0, <1>1, <1>2, <2>1
  <2>3. /\ SlotsAreNotWasted' /\ BindingIsNotAhead'
        /\ binding' \in [Keepers -> [round: Nat, stage: {"none", "query", "submit"}]]
        /\ seenBound' \in [Keepers -> SUBSET Nat]
    BY <1>2, <2>1, <2>2, BelievesBound
  <2> QED
    BY <1>0, <1>2, <2>2, <2>3 DEF chainVars
<1>3. ASSUME NEW b \in Binding, b.round <= round, UNCHANGED <<chainVars, events, loopVars,
             seenBound, restarts>>, binding' = [binding EXCEPT ![k] = b]
      PROVE  /\ SlotsAreNotWasted' /\ BindingIsNotAhead'
             /\ events' \in [Loops -> Seq(EventType)] /\ freeSlots' \in Nat
             /\ binding' \in [Keepers -> Binding]
             /\ seenBound' \in [Keepers -> SUBSET Nat]
             /\ UNCHANGED <<round, open, backed, funded, books, loopVars, restarts>>
  <2>1. Bound' = Bound /\ UNCHANGED <<round, events, seenBound, freeSlots>>
    BY <1>3 DEF Bound, chainVars
  <2>2. SlotsAreNotWasted'
    BY <1>1, <2>1 DEF SlotsAreNotWasted
  <2>3. /\ binding' \in [Keepers -> Binding] /\ binding'[k] = b
        /\ \A i \in Keepers \ {k} : binding'[i] = binding[i]
    BY <1>0, <1>3
  <2>4. BindingIsNotAhead'
    BY <1>1, <1>3, <2>1, <2>3 DEF BindingIsNotAhead
  <2> QED
    BY <1>0, <1>3, <2>1, <2>2, <2>3, <2>4 DEF chainVars
<1>4. CASE ReadRound(k)
  <2> DEFINE b == [round |-> round, stage |-> "query"]
  <2>1. b \in Binding /\ b.round <= round
    BY <1>0
  <2>2. binding' = [binding EXCEPT ![k] = b]
        /\ UNCHANGED <<chainVars, events, loopVars, seenBound, restarts>>
    BY <1>4 DEF ReadRound
  <2> HIDE DEF b
  <2> QED
    BY <1>3, <2>1, <2>2
<1>5. CASE AlreadyBound(k)
  <2> DEFINE r == binding[k].round
             s == seenBound[k] \cup {r}
  <2>1. r \in Bound /\ r \in Nat
    <3>1. \E e \in Range(Newest(log, BindPageSize)) : e.round = r
      BY <1>5 DEF AlreadyBound, KnownBound
    <3>2. Range(Newest(log, BindPageSize)) \subseteq Range(log)
      BY <1>0, KeeperAssumption, NewestType
    <3> QED
      BY <1>0, <3>1, <3>2 DEF Bound
  <2>2. s \in SUBSET Nat /\ s \subseteq Bound
    BY <1>0, <1>1, <2>1
  <2>3. /\ seenBound' = [seenBound EXCEPT ![k] = s]
        /\ binding' = [binding EXCEPT ![k] = NotBinding]
        /\ UNCHANGED <<chainVars, events, loopVars, restarts>>
    BY <1>5 DEF AlreadyBound
  <2> HIDE DEF s
  <2> QED
    BY <1>2, <2>2, <2>3
<1>6. CASE NeedsBinding(k)
  <2> DEFINE old == binding[k]
             b == [old EXCEPT !.stage = "submit"]
  <2>1. old \in Binding /\ old.round <= round
    BY <1>0, <1>1, <1>6 DEF NeedsBinding, At
  <2>2. binding' = [binding EXCEPT ![k] = b]
        /\ UNCHANGED <<chainVars, events, loopVars, seenBound, restarts>>
    BY <1>0, <1>6 DEF NeedsBinding
  <2>3. b \in Binding /\ b.round <= round
    <3> HIDE DEF old
    <3> QED
      BY <2>1
  <2> HIDE DEF b
  <2> QED
    BY <1>3, <2>2, <2>3
<1>7. CASE BindSucceeds(k)
  <2> DEFINE r == binding[k].round
             s == seenBound[k] \cup {r}
             e == [key |-> Len(log) + 1, round |-> r]
  <2>0. /\ seenBound' = [seenBound EXCEPT ![k] = s]
        /\ binding' = [binding EXCEPT ![k] = NotBinding] /\ BindSlotToRound(r)
        /\ UNCHANGED <<round, open, backed, funded, books, loopVars, restarts>>
    BY <1>7 DEF BindSucceeds
  <2>1. r \in Nat /\ r <= round
    BY <1>0, <1>1, <1>7 DEF BindSucceeds, At
  <2>2. CASE r \in Bound
    <3>1. UNCHANGED <<chainVars, events, loopVars, restarts>>
      BY <2>0, <2>2 DEF BindSlotToRound, chainVars
    <3>2. s \in SUBSET Nat /\ s \subseteq Bound
      BY <1>0, <1>1, <2>1, <2>2
    <3> HIDE DEF s
    <3> QED
      BY <1>2, <2>0, <3>1, <3>2
  <2>3. CASE r \notin Bound
    <3>1. freeSlots' \in Nat /\ Emit("slots", e)
      BY <1>0, <2>0, <2>3 DEF BindSlotToRound
    <3>2. e \in EventType /\ e.round = r
      BY <1>0, <2>1 DEF EventType
    <3> HIDE DEF e
    <3>3. events' \in [Loops -> Seq(EventType)] /\ events'["slots"] = Append(log, e)
      BY <1>0, <3>1, <3>2, EmitEffect
    <3> DEFINE new == Append(log, e)
    <3>4. /\ Len(new) = Len(log) + 1 /\ Len(log) \in Nat /\ new[Len(log) + 1] = e
          /\ \A i \in 1 .. Len(log) : new[i] = log[i]
          /\ DOMAIN new = 1 .. Len(log) + 1 /\ DOMAIN log = 1 .. Len(log)
      BY <1>0, <3>2
    <3> HIDE DEF new, log
    <3>5. \A i \in 1 .. Len(log) : log[i].round \in Bound
      BY <3>4 DEF Bound, Range, log
    <3>6. Bound' = Bound \cup {r}
      <4>1. Bound' = {x.round : x \in Range(new)}
        BY <3>3 DEF Bound, new
      <4>2. Range(new) = Range(log) \cup {e}
        BY <3>4 DEF Range
      <4> QED
        BY <3>2, <4>1, <4>2 DEF Bound, log
    <3>7. \A i, j \in 1 .. Len(new) : new[i].round = new[j].round => i = j
      <4>1. ASSUME NEW i \in 1 .. Len(new), NEW j \in 1 .. Len(new),
                   new[i].round = new[j].round
            PROVE  i = j
        <5>1. (i \in 1 .. Len(log) \/ i = Len(log) + 1) /\ (j \in 1 .. Len(log) \/ j = Len(log) + 1)
          BY <3>4
        <5> QED
          BY <1>1, <2>3, <3>2, <3>4, <3>5, <4>1, <5>1
      <4> QED
        BY <4>1
    <3>8. /\ s \in SUBSET Nat /\ s \subseteq Bound' /\ Bound \subseteq Bound'
          /\ \A q \in Bound' : q <= round
      BY <1>0, <1>1, <2>1, <3>6
    <3> HIDE DEF s
    <3>9. /\ SlotsAreNotWasted' /\ BindingIsNotAhead'
          /\ binding' \in [Keepers -> [round: Nat, stage: {"none", "query", "submit"}]]
          /\ seenBound' \in [Keepers -> SUBSET Nat]
      BY <2>0, <3>3, <3>7, <3>8, BelievesBound DEF new
    <3> QED
      BY <2>0, <3>1, <3>3, <3>9
  <2> QED
    BY <2>2, <2>3
<1>8. CASE BindFails(k)
  <2>1. seenBound[k] \in SUBSET Nat /\ seenBound[k] \subseteq Bound
    BY <1>0, <1>1
  <2>2. /\ seenBound' = [seenBound EXCEPT ![k] = seenBound[k]]
        /\ binding' = [binding EXCEPT ![k] = NotBinding]
        /\ UNCHANGED <<chainVars, events, loopVars, restarts>>
    BY <1>8 DEF BindFails, MarkedOnFailure
  <2> QED
    BY <1>2, <2>1, <2>2
<1> QED
  BY <1>4, <1>5, <1>6, <1>7, <1>8, Zenon DEF BindStep

-----------------------------------------------------------------------------
(* The theorem.                                                            *)

LEMMA ChainTypes ==
  ASSUME KeeperTypeOK, ChainStep
  PROVE  /\ round' \in Nat /\ round' >= round /\ open' \in BOOLEAN /\ freeSlots' \in Nat
         /\ backed' \subseteq Nat /\ events' \in [Loops -> Seq(EventType)]
         /\ events'["slots"] = events["slots"]
         /\ UNCHANGED <<funded, books, loopVars, bindVars, restarts>>
<1>0. /\ round \in Nat /\ freeSlots \in Nat /\ backed \subseteq Nat
      /\ events \in [Loops -> Seq(EventType)]
      /\ "slots" \in Loops /\ "claims" \in Loops /\ "deposits" \in Loops
      /\ "claims" # "slots" /\ "deposits" # "slots"
  BY DEF KeeperTypeOK, Loops
<1>1. open \in BOOLEAN
  BY DEF KeeperTypeOK
<1>2. \A r \in 0 .. MaxRound : r \in Nat
  BY KeeperAssumption
<1>3. ASSUME NEW r \in 0 .. MaxRound, BlockFound(r)
      PROVE  /\ events' \in [Loops -> Seq(EventType)] /\ events'["slots"] = events["slots"]
             /\ UNCHANGED <<chainVars, loopVars, bindVars, restarts>>
  <2> DEFINE e == [key |-> Len(events["claims"]) + 1, round |-> r]
  <2>1. e \in EventType
    BY <1>0, <1>2 DEF EventType
  <2>2. Emit("claims", e) /\ UNCHANGED <<chainVars, loopVars, bindVars, restarts>>
    BY <1>3 DEF BlockFound
  <2> HIDE DEF e
  <2> QED
    BY <1>0, <2>1, <2>2, EmitEffect
<1>4. ASSUME NEW r \in 0 .. MaxRound, DepositConfirmed(r)
      PROVE  /\ events' \in [Loops -> Seq(EventType)] /\ events'["slots"] = events["slots"]
             /\ UNCHANGED <<chainVars, loopVars, bindVars, restarts>>
  <2> DEFINE e == [key |-> r, round |-> r]
  <2>1. e \in EventType
    BY <1>2 DEF EventType
  <2>2. Emit("deposits", e) /\ UNCHANGED <<chainVars, loopVars, bindVars, restarts>>
    BY <1>4 DEF DepositConfirmed
  <2> HIDE DEF e
  <2> QED
    BY <1>0, <2>1, <2>2, EmitEffect
<1>5. ASSUME /\ events' \in [Loops -> Seq(EventType)] /\ events'["slots"] = events["slots"]
             /\ UNCHANGED <<chainVars, loopVars, bindVars, restarts>>
      PROVE  /\ round' \in Nat /\ round' >= round /\ open' \in BOOLEAN /\ freeSlots' \in Nat
             /\ backed' \subseteq Nat /\ events' \in [Loops -> Seq(EventType)]
             /\ events'["slots"] = events["slots"]
             /\ UNCHANGED <<funded, books, loopVars, bindVars, restarts>>
  BY <1>0, <1>1, <1>5 DEF chainVars
<1>6. ASSUME NEW r \in 0 .. MaxRound, VaultCredited(r)
      PROVE  /\ round' \in Nat /\ round' >= round /\ open' \in BOOLEAN /\ freeSlots' \in Nat
             /\ backed' \subseteq Nat /\ events' \in [Loops -> Seq(EventType)]
             /\ events'["slots"] = events["slots"]
             /\ UNCHANGED <<funded, books, loopVars, bindVars, restarts>>
  BY <1>0, <1>1, <1>2, <1>6 DEF VaultCredited
<1>7. CASE FinalizeRound
  <2>1. open' \in BOOLEAN
    BY <1>7, Zenon DEF FinalizeRound
  <2> QED
    BY <1>0, <1>7, <2>1 DEF FinalizeRound
<1>8. CASE RegisterSlot
  BY <1>0, <1>1, <1>8 DEF RegisterSlot
<1> QED
  BY <1>3, <1>4, <1>5, <1>6, <1>7, <1>8, Zenon DEF ChainStep

LEMMA RestartTypes ==
  ASSUME KeepersInv, NEW k \in Keepers, Restart(k)
  PROVE  KeepersInv'
<1>0. KeeperTypeOK
  BY DEF KeepersInv, KeeperInv
<1>1. /\ restarts' = restarts + 1
      /\ page' = [page EXCEPT ![k] = [l \in Loops |-> << >>]]
      /\ acting' = [acting EXCEPT ![k] = [l \in Loops |-> Idle]]
      /\ seen' = [seen EXCEPT ![k] = [l \in Loops |-> {}]]
      /\ binding' = [binding EXCEPT ![k] = NotBinding]
      /\ seenBound' = [seenBound EXCEPT ![k] = {}]
      /\ UNCHANGED <<round, open, backed, funded, freeSlots, books, events>>
  BY DEF Restart, SeenAfterRestart, chainVars
<1>2. /\ page' \in [Keepers -> [Loops -> Seq(EventType)]]
      /\ seen' \in [Keepers -> [Loops -> SUBSET Nat]]
      /\ restarts' \in Nat
  BY <1>0, <1>1 DEF KeeperTypeOK
<1>3. acting' \in [Keepers -> [Loops -> [key: Nat, round: Nat,
                                         stage: {"none", "lookup", "submit"}]]]
  <2>1. Idle \in [key: Nat, round: Nat, stage: {"none", "lookup", "submit"}]
    BY DEF Idle
  <2> QED
    BY <1>0, <1>1, <2>1 DEF KeeperTypeOK
<1>4. Bound' = Bound
  BY <1>1 DEF Bound
<1>5. /\ \A i, j \in 1 .. Len(events["slots"]) :
            events["slots"][i].round = events["slots"][j].round => i = j
      /\ \A r \in Bound : r <= round
  BY DEF KeepersInv, KeeperInv, SlotsAreNotWasted
<1>6. events \in [Loops -> Seq(EventType)]
  BY <1>0 DEF KeeperTypeOK
<1>7. /\ SlotsAreNotWasted' /\ BindingIsNotAhead'
      /\ binding' \in [Keepers -> [round: Nat, stage: {"none", "query", "submit"}]]
      /\ seenBound' \in [Keepers -> SUBSET Nat]
  <2> DEFINE s == {}
  <2>1. s \in SUBSET Nat /\ s \subseteq Bound'
    OBVIOUS
  <2>2. seenBound' = [seenBound EXCEPT ![k] = s]
    BY <1>1
  <2> HIDE DEF s
  <2> QED
    BY <1>1, <1>4, <1>5, <1>6, <2>1, <2>2, BelievesBound
<1>8. open' \in BOOLEAN
  BY <1>0, <1>1 DEF KeeperTypeOK
<1> QED
  BY <1>0, <1>1, <1>2, <1>3, <1>7, <1>8 DEF KeeperTypeOK, KeeperInv, KeepersInv

LEMMA KeepersInit ==
  ASSUME Init
  PROVE  KeepersInv
<1>1. Idle \in [key: Nat, round: Nat, stage: {"none", "lookup", "submit"}]
  BY DEF Idle
<1>2. NotBinding \in [round: Nat, stage: {"none", "query", "submit"}] /\ NotBinding.stage = "none"
  BY DEF NotBinding
<1>3. open \in BOOLEAN
  BY DEF Init
<1>4. KeeperTypeOK
  BY <1>1, <1>2, <1>3 DEF Init, KeeperTypeOK
<1>5. events["slots"] = << >>
  BY DEF Init, Loops
<1>6. Bound = {} /\ Len(events["slots"]) = 0
  BY <1>5 DEF Bound, Range
<1>7. SlotsAreNotWasted
  BY <1>6 DEF SlotsAreNotWasted, Init
<1>8. BindingIsNotAhead
  BY <1>2 DEF BindingIsNotAhead, Init
<1> QED
  BY <1>4, <1>7, <1>8 DEF KeepersInv, KeeperInv

LEMMA KeepersStep ==
  ASSUME KeepersInv, [Next]_vars
  PROVE  KeepersInv'
<1>0. KeeperTypeOK
  BY DEF KeepersInv, KeeperInv
<1>a. open \in BOOLEAN
  BY <1>0 DEF KeeperTypeOK
<1>1. CASE ChainStep
  <2>1. /\ round' \in Nat /\ round' >= round /\ freeSlots' \in Nat
        /\ backed' \subseteq Nat /\ events' \in [Loops -> Seq(EventType)]
        /\ events'["slots"] = events["slots"]
        /\ UNCHANGED <<funded, books, loopVars, bindVars, restarts>>
    BY <1>0, <1>1, ChainTypes
  <2>2. open' \in BOOLEAN
    BY <1>0, <1>1, ChainTypes
  <2>3. SlotsAreNotWasted' /\ BindingIsNotAhead'
    BY <2>1, BindingFrame
  <2>4. KeeperTypeOK'
    BY <1>0, <2>1, <2>2 DEF KeeperTypeOK, loopVars, bindVars
  <2> QED
    BY <2>3, <2>4 DEF KeepersInv, KeeperInv
<1>2. ASSUME NEW k \in Keepers, NEW l \in Running, LoopStep(k, l) PROVE KeepersInv'
  <2>0. l \in Loops
    BY KeeperAssumption DEF Loops
  <2>1. /\ page' \in [Keepers -> [Loops -> Seq(EventType)]]
        /\ acting' \in [Keepers -> [Loops -> [key: Nat, round: Nat,
                                              stage: {"none", "lookup", "submit"}]]]
        /\ seen' \in [Keepers -> [Loops -> SUBSET Nat]]
        /\ funded' \subseteq Nat /\ books' \subseteq Nat
        /\ UNCHANGED <<round, backed, freeSlots, events, bindVars, restarts>>
    BY <1>0, <1>2, <2>0, LoopTypes
  <2>2. open' \in BOOLEAN
    BY <1>0, <1>2, <2>0, LoopTypes
  <2>3. round' \in Nat /\ round' >= round
    BY <1>0, <2>1 DEF KeeperTypeOK
  <2>4. SlotsAreNotWasted' /\ BindingIsNotAhead'
    BY <2>1, <2>3, BindingFrame
  <2>5. KeeperTypeOK'
    BY <1>0, <2>1, <2>2 DEF KeeperTypeOK, bindVars
  <2> QED
    BY <2>4, <2>5 DEF KeepersInv, KeeperInv
<1>3. ASSUME NEW k \in Keepers, LookupStep(k) PROVE KeepersInv'
  <2>1. /\ page' \in [Keepers -> [Loops -> Seq(EventType)]]
        /\ acting' \in [Keepers -> [Loops -> [key: Nat, round: Nat,
                                              stage: {"none", "lookup", "submit"}]]]
        /\ UNCHANGED <<round, open, backed, funded, freeSlots, books, events, seen,
                       bindVars, restarts>>
    BY <1>0, <1>3, LookupTypes DEF chainVars
  <2>2. round' \in Nat /\ round' >= round
    BY <1>0, <2>1 DEF KeeperTypeOK
  <2>3. SlotsAreNotWasted' /\ BindingIsNotAhead'
    BY <2>1, <2>2, BindingFrame
  <2>4. open' \in BOOLEAN
    BY <1>a, <2>1
  <2>5. KeeperTypeOK'
    BY <1>0, <2>1, <2>4 DEF KeeperTypeOK, bindVars
  <2> QED
    BY <2>3, <2>5 DEF KeepersInv, KeeperInv
<1>4. ASSUME NEW k \in Keepers, BindStep(k) PROVE KeepersInv'
  <2>1. /\ SlotsAreNotWasted' /\ BindingIsNotAhead'
        /\ events' \in [Loops -> Seq(EventType)] /\ freeSlots' \in Nat
        /\ binding' \in [Keepers -> [round: Nat, stage: {"none", "query", "submit"}]]
        /\ seenBound' \in [Keepers -> SUBSET Nat]
        /\ UNCHANGED <<round, open, backed, funded, books, loopVars, restarts>>
    BY <1>4, BindTypes
  <2>2. open' \in BOOLEAN
    BY <1>a, <2>1
  <2>3. KeeperTypeOK'
    BY <1>0, <2>1, <2>2 DEF KeeperTypeOK, loopVars
  <2> QED
    BY <2>1, <2>3 DEF KeepersInv, KeeperInv
<1>5. ASSUME UNCHANGED vars PROVE KeepersInv'
  <2>1. UNCHANGED <<round, open, backed, funded, freeSlots, books, events, page, acting, seen,
                    binding, seenBound, restarts>>
    BY <1>5 DEF vars, chainVars, loopVars, bindVars
  <2>2. open' \in BOOLEAN
    BY <1>a, <2>1
  <2>3. KeeperTypeOK'
    BY <1>0, <2>1, <2>2 DEF KeeperTypeOK
  <2>4. round' \in Nat /\ round' >= round
    BY <1>0, <2>1 DEF KeeperTypeOK
  <2>5. SlotsAreNotWasted' /\ BindingIsNotAhead'
    BY <2>1, <2>4, BindingFrame DEF bindVars
  <2> QED
    BY <2>3, <2>5 DEF KeepersInv, KeeperInv
<1> QED
  BY <1>1, <1>2, <1>3, <1>4, <1>5, RestartTypes, Zenon DEF Next

\* However many keepers race for the same registry, with whatever failures, restarts and
\* stale pages: a round takes at most one slot, and only once it was the current round
\* (bind_slot_to_round), a keeper that believes a round to be bound is right
\* (seen_bound_rounds), and the keepers' memory keeps its types.
THEOREM KeepersWasteNoSlot == Spec => []KeeperInv
<1>1. Init => KeepersInv
  BY KeepersInit
<1>2. KeepersInv /\ [Next]_vars => KeepersInv'
  BY KeepersStep
<1>3. KeepersInv => KeeperInv
  BY DEF KeepersInv
<1> QED
  BY <1>1, <1>2, <1>3, PTL DEF Spec

=============================================================================
