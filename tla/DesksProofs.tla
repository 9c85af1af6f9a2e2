---------------------------- MODULE DesksProofs ----------------------------
(***************************************************************************)
(* What the two desks keep true in every state of every instance: first    *)
(* the OTC desk, then the hedge desk.                                      *)
(***************************************************************************)
EXTENDS Otc, HedgeDesk, WorkSumsProofs

-----------------------------------------------------------------------------
(* Powers of ten.  The recursive function is what its definition says:     *)
(* there is one on every 0 .. n, and they agree where both are defined.    *)

PowTo(f, n) == f = [k \in 0 .. n |-> IF k = 0 THEN 1 ELSE Base * f[k - 1]]

LEMMA PowToExists == \A n \in Nat : \E f : PowTo(f, n)
<1> DEFINE S == {n \in Nat : \E f : PowTo(f, n)}
<1>1. 0 \in S
  <2> DEFINE f == [k \in 0 .. 0 |-> 1]
  <2>1. PowTo(f, 0)
    BY DEF PowTo
  <2> QED
    BY <2>1
<1>2. ASSUME NEW n \in Nat, n \in S PROVE n + 1 \in S
  <2>1. PICK f : PowTo(f, n)
    BY <1>2
  <2> DEFINE g == [k \in 0 .. n + 1 |-> IF k = n + 1 THEN Base * f[n] ELSE f[k]]
  <2>2. \A k \in 1 .. n + 1 : k - 1 \in 0 .. n /\ g[k - 1] = f[k - 1]
    BY SMT
  <2>3. \A k \in 0 .. n : f[k] = IF k = 0 THEN 1 ELSE Base * f[k - 1]
    BY <2>1 DEF PowTo
  <2>4. \A k \in 0 .. n + 1 : g[k] = IF k = 0 THEN 1 ELSE Base * g[k - 1]
    BY <2>2, <2>3
  <2>5. g = [k \in 0 .. n + 1 |-> g[k]]
    OBVIOUS
  <2> HIDE DEF g
  <2>6. PowTo(g, n + 1)
    BY <2>4, <2>5 DEF PowTo
  <2> QED
    BY <2>6
<1> HIDE DEF S
<1>3. Nat \subseteq S
  BY <1>1, <1>2, SetInduction
<1> QED
  BY <1>3 DEF S

LEMMA PowToAgree ==
  ASSUME NEW n \in Nat, NEW f, PowTo(f, n), NEW m \in Nat, m <= n, NEW g, PowTo(g, m)
  PROVE  \A k \in 0 .. m : f[k] = g[k]
<1> DEFINE S == {k \in Nat : k <= m => f[k] = g[k]}
<1>1. /\ \A k \in 0 .. n : f[k] = IF k = 0 THEN 1 ELSE Base * f[k - 1]
      /\ \A k \in 0 .. m : g[k] = IF k = 0 THEN 1 ELSE Base * g[k - 1]
  BY DEF PowTo
<1>2. 0 \in S
  BY <1>1
<1>3. ASSUME NEW k \in Nat, k \in S PROVE k + 1 \in S
  <2> SUFFICES ASSUME k + 1 <= m PROVE f[k + 1] = g[k + 1]
    OBVIOUS
  <2>1. f[k] = g[k]
    BY <1>3
  <2>2. f[k + 1] = Base * f[k] /\ g[k + 1] = Base * g[k]
    BY <1>1
  <2> QED
    BY <2>1, <2>2
<1> HIDE DEF S
<1>4. Nat \subseteq S
  BY <1>2, <1>3, SetInduction
<1> QED
  BY <1>4 DEF S

LEMMA PowEquation == \A k \in Nat : Pow[k] = IF k = 0 THEN 1 ELSE Base * Pow[k - 1]
<1> DEFINE F(n) == CHOOSE f : PowTo(f, n)
           G    == [n \in Nat |-> F(n)[n]]
<1>1. \A n \in Nat : PowTo(F(n), n)
  BY PowToExists
<1>2. ASSUME NEW n \in Nat PROVE G[n] = IF n = 0 THEN 1 ELSE Base * G[n - 1]
  <2>1. F(n)[n] = IF n = 0 THEN 1 ELSE Base * F(n)[n - 1]
    <3>1. PowTo(F(n), n)
      BY <1>1
    <3> HIDE DEF F
    <3> QED
      BY <3>1 DEF PowTo
  <2>2. n # 0 => F(n)[n - 1] = F(n - 1)[n - 1]
    <3> SUFFICES ASSUME n # 0 PROVE F(n)[n - 1] = F(n - 1)[n - 1]
      OBVIOUS
    <3>1. PowTo(F(n), n) /\ PowTo(F(n - 1), n - 1) /\ n - 1 \in Nat /\ n - 1 <= n
      BY <1>1
    <3> HIDE DEF F
    <3> QED
      BY <3>1, PowToAgree
  <2>3. G[n] = F(n)[n] /\ (n # 0 => G[n - 1] = F(n - 1)[n - 1])
    OBVIOUS
  <2> HIDE DEF F, G
  <2> QED
    BY <2>1, <2>2, <2>3
<1>3. G = [n \in Nat |-> G[n]]
  OBVIOUS
<1> HIDE DEF G
<1>4. G = [n \in Nat |-> IF n = 0 THEN 1 ELSE Base * G[n - 1]]
  BY <1>2, <1>3
<1>5. Pow = CHOOSE f : f = [n \in Nat |-> IF n = 0 THEN 1 ELSE Base * f[n - 1]]
  BY DEF Pow
<1>6. Pow = [n \in Nat |-> IF n = 0 THEN 1 ELSE Base * Pow[n - 1]]
  BY <1>4, <1>5
<1> QED
  BY <1>6

\* A power of ten is a positive number.
LEMMA PowType == \A k \in Nat : Pow[k] \in Nat /\ Pow[k] > 0
<1> DEFINE S == {k \in Nat : Pow[k] \in Nat /\ Pow[k] > 0}
<1>1. 0 \in S
  BY PowEquation
<1>2. ASSUME NEW k \in Nat, k \in S PROVE k + 1 \in S
  <2>1. Pow[k + 1] = 10 * Pow[k]
    BY PowEquation DEF Base
  <2>2. Pow[k] \in Nat /\ Pow[k] > 0
    BY <1>2
  <2> QED
    BY <2>1, <2>2
<1> HIDE DEF S
<1>3. Nat \subseteq S
  BY <1>1, <1>2, SetInduction
<1> QED
  BY <1>3 DEF S

\* An amount that parses is what was typed, cut off behind the coin's decimals.
LEMMA ParsedAmount ==
  ASSUME NEW s \in Typed, NEW decimals \in Nat, ParseAmount(s, decimals).ok
  PROVE  /\ ParseAmount(s, decimals).v \in Nat
         /\ CutOff(ParseAmount(s, decimals).v, s, decimals)
<1> DEFINE x == s.n * Pow[decimals]
           c == Pow[s.d]
<1>1. ~s.exp /\ ParseAmount(s, decimals).v = x \div c
  BY DEF ParseAmount, NoAmount
<1>2. c \in Nat /\ c > 0 /\ Pow[decimals] \in Nat /\ s.n \in Nat
  BY PowType DEF Typed
<1>3. x \in Nat
  BY <1>2, ProductType
<1> HIDE DEF x, c
<1>4. /\ x \div c \in Nat /\ (x \div c) * c <= x
      /\ x < (x \div c + 1) * c
  BY <1>2, <1>3, DivFacts
<1> QED
  BY <1>1, <1>4 DEF CutOff, x, c

-----------------------------------------------------------------------------
(* The jobs that a page leaves behind.                                     *)

\* The part of the sequence that Orphaned has built from the first n jobs.
KeptTo(f, t, n) ==
  f = [k \in 0 .. n |->
         IF k = 0 THEN << >>
         ELSE IF wire[k].tab # t THEN Append(f[k - 1], wire[k])
         ELSE IF wire[k].stage = "sign" THEN Append(f[k - 1], [wire[k] EXCEPT !.tab = Nobody])
         ELSE f[k - 1]]

LEMMA KeptToExists ==
  ASSUME NEW t
  PROVE  \A n \in Nat : \E f : KeptTo(f, t, n)
<1> DEFINE S == {n \in Nat : \E f : KeptTo(f, t, n)}
           Next1(g, k) ==
             IF wire[k].tab # t THEN Append(g, wire[k])
             ELSE IF wire[k].stage = "sign" THEN Append(g, [wire[k] EXCEPT !.tab = Nobody])
             ELSE g
<1>1. 0 \in S
  <2> DEFINE f == [k \in 0 .. 0 |-> << >>]
  <2>1. KeptTo(f, t, 0)
    BY DEF KeptTo
  <2> QED
    BY <2>1
<1>2. ASSUME NEW n \in Nat, n \in S PROVE n + 1 \in S
  <2>1. PICK f : KeptTo(f, t, n)
    BY <1>2
  <2> DEFINE g == [k \in 0 .. n + 1 |-> IF k = n + 1 THEN Next1(f[n], n + 1) ELSE f[k]]
  <2>2. \A k \in 1 .. n + 1 : k - 1 \in 0 .. n /\ g[k - 1] = f[k - 1]
    BY SMT
  <2>3. \A k \in 0 .. n : f[k] = IF k = 0 THEN << >> ELSE Next1(f[k - 1], k)
    BY <2>1 DEF KeptTo
  <2>4. \A k \in 0 .. n + 1 : g[k] = IF k = 0 THEN << >> ELSE Next1(g[k - 1], k)
    <3> HIDE DEF Next1
    <3> QED
      BY <2>2, <2>3
  <2>5. g = [k \in 0 .. n + 1 |-> g[k]]
    OBVIOUS
  <2> HIDE DEF g
  <2>6. KeptTo(g, t, n + 1)
    BY <2>4, <2>5 DEF KeptTo
  <2> QED
    BY <2>6
<1> HIDE DEF S
<1>3. Nat \subseteq S
  BY <1>1, <1>2, SetInduction
<1> QED
  BY <1>3 DEF S

\* They are jobs of other pages, or jobs that the wallet has.
LEMMA OrphanedType ==
  ASSUME NEW t, NEW J, NEW I, wire \in Seq(I),
         \A k \in 1 .. Len(wire) :
           /\ wire[k].tab # t => wire[k] \in J
           /\ wire[k].stage = "sign" => [wire[k] EXCEPT !.tab = Nobody] \in J
  PROVE  Orphaned(t) \in Seq(J)
<1> DEFINE n == Len(wire)
           K[k \in 0 .. Len(wire)] ==
             IF k = 0 THEN << >>
             ELSE IF wire[k].tab # t THEN Append(K[k - 1], wire[k])
             ELSE IF wire[k].stage = "sign"
                  THEN Append(K[k - 1], [wire[k] EXCEPT !.tab = Nobody])
             ELSE K[k - 1]
<1>1. n \in Nat
  BY LenProperties
<1>2. Orphaned(t) = K[n]
  BY DEF Orphaned
<1>3. K = CHOOSE f : KeptTo(f, t, n)
  BY DEF K, KeptTo
<1>4. \E f : KeptTo(f, t, n)
  BY <1>1, KeptToExists
<1>5. KeptTo(K, t, n)
  BY <1>3, <1>4
<1> HIDE DEF K, n
<1> DEFINE S == {k \in Nat : k <= n => K[k] \in Seq(J)}
<1>6. 0 \in S
  BY <1>1, <1>5 DEF KeptTo
<1>7. ASSUME NEW k \in Nat, k \in S PROVE k + 1 \in S
  <2> SUFFICES ASSUME k + 1 <= n PROVE K[k + 1] \in Seq(J)
    OBVIOUS
  <2>1. K[k] \in Seq(J) /\ k + 1 \in 1 .. n /\ k + 1 \in 0 .. n /\ k + 1 # 0
    BY <1>1, <1>7
  <2>2. K[k + 1] = IF wire[k + 1].tab # t THEN Append(K[k], wire[k + 1])
                   ELSE IF wire[k + 1].stage = "sign"
                        THEN Append(K[k], [wire[k + 1] EXCEPT !.tab = Nobody])
                   ELSE K[k]
    <3> DEFINE m == k + 1
    <3>1. m \in 0 .. n /\ m # 0 /\ m - 1 = k
      BY <2>1
    <3> HIDE DEF m
    <3>2. K[m] = IF wire[m].tab # t THEN Append(K[m - 1], wire[m])
                 ELSE IF wire[m].stage = "sign"
                      THEN Append(K[m - 1], [wire[m] EXCEPT !.tab = Nobody])
                 ELSE K[m - 1]
      BY <1>5, <3>1, Zenon DEF KeptTo
    <3> QED
      BY <3>1, <3>2, Zenon DEF m
  <2>3. \A x \in J : Append(K[k], x) \in Seq(J)
    BY <2>1, AppendProperties
  <2>4. /\ wire[k + 1].tab # t => wire[k + 1] \in J
        /\ wire[k + 1].stage = "sign" => [wire[k + 1] EXCEPT !.tab = Nobody] \in J
    BY <2>1 DEF n
  <2> QED
    BY <2>1, <2>2, <2>3, <2>4, Zenon
<1> HIDE DEF S
<1>8. Nat \subseteq S
  BY <1>6, <1>7, SetInduction
<1> QED
  BY <1>1, <1>2, <1>8 DEF S

-----------------------------------------------------------------------------
(* The contract.                                                           *)

\* From c to d escrows are added, none changes and none that ended opens again.
Follows(c, d) ==
  /\ DOMAIN c.opened \subseteq DOMAIN d.opened
  /\ \A i \in DOMAIN c.opened : /\ d.opened[i] = c.opened[i]
                                /\ c.ended[i] # "open" => d.ended[i] = c.ended[i]

LEMMA ContractFacts ==
  ASSUME NEW c, ContractOK(c)
  PROVE  /\ c.purse \in [Parties -> [Assets -> Nat]] /\ c.minted \in Nat
         /\ c.opened \in Seq(Escrow) /\ c.ended \in Seq({"open", "settled", "cancelled"})
         /\ Len(c.opened) \in Nat /\ Len(c.opened) <= MaxEscrows
         /\ DOMAIN c.opened = 1 .. Len(c.opened) /\ DOMAIN c.ended = DOMAIN c.opened
         /\ \A i \in DOMAIN c.opened :
              /\ c.opened[i] \in Escrow /\ c.opened[i].id = i
              /\ c.ended[i] \in {"open", "settled", "cancelled"}
<1>1. /\ c.purse \in [Parties -> [Assets -> Nat]] /\ c.minted \in Nat
      /\ c.opened \in Seq(Escrow) /\ c.ended \in Seq({"open", "settled", "cancelled"})
  BY DEF ContractOK, Contract
<1>2. /\ Len(c.opened) <= MaxEscrows /\ Len(c.ended) = Len(c.opened)
      /\ \A i \in DOMAIN c.opened : c.opened[i].id = i
  BY DEF ContractOK
<1>3. /\ Len(c.opened) \in Nat /\ DOMAIN c.opened = 1 .. Len(c.opened)
      /\ DOMAIN c.ended = 1 .. Len(c.ended)
  BY <1>1, LenProperties
<1>4. \A i \in DOMAIN c.opened : c.opened[i] \in Escrow
  BY <1>1, <1>3, ElementOfSeq
<1>5. \A i \in DOMAIN c.ended : c.ended[i] \in {"open", "settled", "cancelled"}
  BY <1>1, <1>3, ElementOfSeq
<1> QED
  BY <1>1, <1>2, <1>3, <1>4, <1>5

\* lock_escrow: the deliverable leaves the seller's purse, an escrow is added.
LEMMA LockEffect ==
  ASSUME NEW c, ContractOK(c), NEW who \in Parties, NEW a \in Form, CanLock(c, who, a),
         Len(c.opened) < MaxEscrows
  PROVE  LET d == LockEscrow(c, who, a)
             n == Len(c.opened) + 1
             e == [id |-> n, seller |-> who, buyer |-> a.buyer, asset |-> a.asset,
                   amount |-> a.amount, pay |-> a.pay]
         IN  /\ ContractOK(d) /\ Follows(c, d)
             /\ d.minted = c.minted /\ e \in Escrow
             /\ DOMAIN d.opened = DOMAIN c.opened \cup {n} /\ n \notin DOMAIN c.opened
             /\ d.opened[n] = e /\ d.ended[n] = "open"
             /\ \A i \in DOMAIN c.opened : d.ended[i] = c.ended[i]
             /\ \A p \in Parties, b \in Assets :
                  d.purse[p][b] = IF p = who /\ b = a.asset THEN c.purse[p][b] - a.amount
                                  ELSE c.purse[p][b]
<1> DEFINE n == Len(c.opened) + 1
           e == [id |-> n, seller |-> who, buyer |-> a.buyer, asset |-> a.asset,
                 amount |-> a.amount, pay |-> a.pay]
           d == LockEscrow(c, who, a)
<1>0. /\ a.asset \in Shares /\ a.asset \in Assets /\ a.amount \in Nat /\ a.pay \in Nat
      /\ a.buyer \in Parties /\ a.amount > 0 /\ a.pay > 0 /\ a.amount <= c.purse[who][a.asset]
  BY DEF Form, CanLock, Assets
<1>1. e \in Escrow
  BY <1>0, ContractFacts DEF Escrow
<1>2. /\ d.purse = [c.purse EXCEPT ![who][a.asset] = @ - a.amount]
      /\ d.opened = Append(c.opened, e) /\ d.ended = Append(c.ended, "open")
      /\ d.minted = c.minted
      /\ d = [purse |-> d.purse, opened |-> d.opened, ended |-> d.ended, minted |-> d.minted]
  <2>1. d = [c EXCEPT !.purse[who][a.asset] = @ - a.amount, !.opened = Append(@, e),
                      !.ended = Append(@, "open")]
    BY DEF LockEscrow
  <2>2. c \in Contract
    BY DEF ContractOK
  <2> HIDE DEF d, e
  <2> QED
    BY <2>1, <2>2 DEF Contract
<1> HIDE DEF e, d
<1>3. /\ d.purse \in [Parties -> [Assets -> Nat]]
      /\ \A p \in Parties, b \in Assets :
           d.purse[p][b] = IF p = who /\ b = a.asset THEN c.purse[p][b] - a.amount
                           ELSE c.purse[p][b]
  BY <1>0, <1>2, ContractFacts
<1>4. /\ d.opened \in Seq(Escrow) /\ Len(d.opened) = n /\ d.opened[n] = e
      /\ \A i \in 1 .. Len(c.opened) : d.opened[i] = c.opened[i]
  BY <1>1, <1>2, ContractFacts, AppendProperties
<1>5. /\ d.ended \in Seq({"open", "settled", "cancelled"}) /\ Len(d.ended) = n
      /\ d.ended[n] = "open" /\ \A i \in 1 .. Len(c.opened) : d.ended[i] = c.ended[i]
  <2>1. Len(c.ended) = Len(c.opened) /\ "open" \in {"open", "settled", "cancelled"}
    BY DEF ContractOK
  <2> QED
    BY <1>2, <2>1, ContractFacts, AppendProperties
<1>6. DOMAIN d.opened = DOMAIN c.opened \cup {n} /\ n \notin DOMAIN c.opened
  BY <1>4, ContractFacts, LenProperties
<1>7. d \in Contract
  BY <1>2, <1>3, <1>4, <1>5, ContractFacts DEF Contract
<1>8. \A i \in DOMAIN d.opened : d.opened[i].id = i
  BY <1>4, <1>6, ContractFacts DEF e
<1>9. ContractOK(d)
  <2>1. n <= MaxEscrows
    BY ContractFacts, OtcAssumption
  <2> QED
    BY <1>4, <1>5, <1>7, <1>8, <2>1 DEF ContractOK
<1>10. Follows(c, d)
  BY <1>4, <1>5, <1>6, ContractFacts DEF Follows
<1>11. \A i \in DOMAIN c.opened : d.ended[i] = c.ended[i]
  BY <1>5, ContractFacts
<1> QED
  BY <1>1, <1>2, <1>3, <1>4, <1>5, <1>6, <1>9, <1>10, <1>11 DEF d, e

\* An escrow that ends keeps its terms.
LEMMA EndEffect ==
  ASSUME NEW c, ContractOK(c), NEW i, Open(c, i), NEW d, NEW how \in {"settled", "cancelled"},
         d.purse \in [Parties -> [Assets -> Nat]], d.minted = c.minted, d.opened = c.opened,
         d.ended = [c.ended EXCEPT ![i] = how],
         d = [purse |-> d.purse, opened |-> d.opened, ended |-> d.ended, minted |-> d.minted]
  PROVE  /\ ContractOK(d) /\ Follows(c, d)
         /\ d.ended[i] = how /\ \A j \in DOMAIN c.opened : j # i => d.ended[j] = c.ended[j]
<1>1. /\ d.minted = c.minted /\ d.opened = c.opened
      /\ d.ended = [c.ended EXCEPT ![i] = how]
      /\ d = [purse |-> d.purse, opened |-> d.opened, ended |-> d.ended, minted |-> d.minted]
  OBVIOUS
<1>2. i \in DOMAIN c.opened /\ i \in DOMAIN c.ended /\ c.ended[i] = "open"
  BY ContractFacts DEF Open
<1>3. /\ d.ended \in Seq({"open", "settled", "cancelled"}) /\ Len(d.ended) = Len(c.ended)
  BY <1>1, <1>2, ContractFacts, LenProperties, ExceptSeq
<1>4. /\ d.ended[i] = how
      /\ \A j \in DOMAIN c.opened : j # i => d.ended[j] = c.ended[j]
  BY <1>1, <1>2, ContractFacts
<1>5. d \in Contract
  BY <1>1, <1>3, ContractFacts DEF Contract
<1>6. ContractOK(d)
  BY <1>1, <1>3, <1>5 DEF ContractOK
<1>7. Follows(c, d)
  BY <1>1, <1>2, <1>4 DEF Follows
<1> QED
  BY <1>1, <1>4, <1>6, <1>7

-----------------------------------------------------------------------------
(* Conservation.                                                           *)

\* When one party's holding changes, the total changes by as much.
LEMMA OneHoldingChanges ==
  ASSUME NEW f \in [Parties -> Nat], NEW g \in [Parties -> Nat], NEW who \in Parties,
         \A p \in Parties : p # who => g[p] = f[p]
  PROVE  /\ SumOver(Parties, f) \in Nat /\ SumOver(Parties, g) \in Nat
         /\ SumOver(Parties, g) + f[who] = SumOver(Parties, f) + g[who]
<1>1. IsFiniteSet(Parties)
  BY OtcAssumption
<1>2. /\ who \notin Parties \ {who} /\ (\A z \in Parties : f[z] \in Nat)
      /\ (\A z \in Parties \ {who} : g[z] = f[z]) /\ g[who] \in Nat
  OBVIOUS
<1>3. /\ SumOver(Parties, f) \in Nat
      /\ SumOver((Parties \ {who}) \cup {who}, g) \in Nat
      /\ SumOver((Parties \ {who}) \cup {who}, g) + f[who] = SumOver(Parties, f) + g[who]
  BY <1>1, <1>2, SumReplace
<1>4. (Parties \ {who}) \cup {who} = Parties
  OBVIOUS
<1> QED
  BY <1>3, <1>4

LEMMA InPursesChange ==
  ASSUME NEW c, ContractOK(c), NEW d, ContractOK(d), NEW a \in Assets, NEW who \in Parties,
         \A p \in Parties : p # who => d.purse[p][a] = c.purse[p][a]
  PROVE  /\ InPurses(c, a) \in Nat /\ InPurses(d, a) \in Nat
         /\ InPurses(d, a) + c.purse[who][a] = InPurses(c, a) + d.purse[who][a]
<1> DEFINE f == [p \in Parties |-> c.purse[p][a]]
           g == [p \in Parties |-> d.purse[p][a]]
<1>1. f \in [Parties -> Nat] /\ g \in [Parties -> Nat]
  BY ContractFacts
<1>2. \A p \in Parties : p # who => g[p] = f[p]
  OBVIOUS
<1>3. f[who] = c.purse[who][a] /\ g[who] = d.purse[who][a]
  OBVIOUS
<1> HIDE DEF f, g
<1>4. /\ SumOver(Parties, f) \in Nat /\ SumOver(Parties, g) \in Nat
      /\ SumOver(Parties, g) + f[who] = SumOver(Parties, f) + g[who]
  BY <1>1, <1>2, OneHoldingChanges
<1> QED
  BY <1>3, <1>4 DEF InPurses, f, g

LEMMA InPursesSame ==
  ASSUME NEW c, NEW d, NEW a, \A p \in Parties : d.purse[p][a] = c.purse[p][a]
  PROVE  InPurses(d, a) = InPurses(c, a)
<1>1. [p \in Parties |-> d.purse[p][a]] = [p \in Parties |-> c.purse[p][a]]
  OBVIOUS
<1> QED
  BY <1>1 DEF InPurses

LEMMA InPursesType ==
  ASSUME NEW c, ContractOK(c), NEW a \in Assets
  PROVE  InPurses(c, a) \in Nat
<1> DEFINE f == [p \in Parties |-> c.purse[p][a]]
<1>1. \A p \in Parties : f[p] \in Nat
  BY ContractFacts
<1> HIDE DEF f
<1>2. SumOver(Parties, f) \in Nat
  BY <1>1, OtcAssumption, UnitsFinite
<1> QED
  BY <1>2 DEF InPurses, f

LEMMA OpenOfFacts ==
  ASSUME NEW c, ContractOK(c), NEW a
  PROVE  /\ IsFiniteSet(OpenOf(c, a)) /\ InEscrows(c, a) \in Nat
         /\ \A i \in OpenOf(c, a) : c.opened[i].amount \in Nat
<1>1. IsFiniteSet(1 .. Len(c.opened))
  BY ContractFacts, FS_Interval
<1>2. OpenOf(c, a) \subseteq 1 .. Len(c.opened)
  BY ContractFacts DEF OpenOf
<1>3. IsFiniteSet(OpenOf(c, a))
  BY <1>1, <1>2, FS_Subset
<1>4. \A i \in OpenOf(c, a) : c.opened[i].amount \in Nat
  BY ContractFacts DEF OpenOf, Escrow
<1> DEFINE S == OpenOf(c, a)
           f == [i \in S |-> c.opened[i].amount]
<1>5. \A i \in S : f[i] \in Nat
  BY <1>4
<1> HIDE DEF f
<1>6. SumOver(S, f) \in Nat
  BY <1>3, <1>5, UnitsFinite
<1> QED
  BY <1>3, <1>4, <1>6 DEF InEscrows, f

\* A new escrow holds its amount.
LEMMA InEscrowsAdd ==
  ASSUME NEW c, ContractOK(c), NEW d, ContractOK(d), Follows(c, d), NEW n, n \notin DOMAIN c.opened,
         DOMAIN d.opened = DOMAIN c.opened \cup {n}, d.ended[n] = "open",
         \A i \in DOMAIN c.opened : d.ended[i] = c.ended[i], NEW a
  PROVE  InEscrows(d, a)
           = InEscrows(c, a) + (IF d.opened[n].asset = a THEN d.opened[n].amount ELSE 0)
<1> DEFINE S == OpenOf(c, a)
           f == [i \in S |-> c.opened[i].amount]
           T == OpenOf(d, a)
           g == [i \in T |-> d.opened[i].amount]
<1>1. IsFiniteSet(S) /\ InEscrows(c, a) \in Nat /\ \A i \in S : f[i] \in Nat
  BY OpenOfFacts
<1>2. /\ n \notin S /\ (\A i \in S : i \in T /\ d.opened[i] = c.opened[i])
      /\ T = IF d.opened[n].asset = a THEN S \cup {n} ELSE S
  BY DEF OpenOf, Follows
<1>3. \A i \in S : g[i] = f[i]
  BY <1>2
<1>4. n \in T => g[n] = d.opened[n].amount /\ g[n] \in Nat
  BY OpenOfFacts
<1>5. InEscrows(c, a) = SumOver(S, f) /\ InEscrows(d, a) = SumOver(T, g)
  BY DEF InEscrows
<1> HIDE DEF S, f, T, g
<1>6. CASE d.opened[n].asset = a
  <2>1. T = S \cup {n} /\ n \in T
    BY <1>2, <1>6
  <2>2. SumOver(S \cup {n}, g) = SumOver(S, f) + g[n]
    BY <1>1, <1>2, <1>3, <1>4, <2>1, SumInsert
  <2> QED
    BY <1>4, <1>5, <1>6, <2>1, <2>2
<1>7. CASE d.opened[n].asset # a
  <2>1. T = S
    BY <1>2, <1>7
  <2>2. SumOver(S, f) = SumOver(S, g)
    BY <1>3, SumExt
  <2> QED
    BY <1>1, <1>5, <1>7, <2>1, <2>2
<1> QED
  BY <1>6, <1>7

\* An escrow that ends holds nothing any more.
LEMMA InEscrowsEnd ==
  ASSUME NEW c, ContractOK(c), NEW d, ContractOK(d), d.opened = c.opened, NEW i, Open(c, i),
         d.ended[i] # "open", \A j \in DOMAIN c.opened : j # i => d.ended[j] = c.ended[j], NEW a
  PROVE  InEscrows(c, a)
           = InEscrows(d, a) + (IF c.opened[i].asset = a THEN c.opened[i].amount ELSE 0)
<1> DEFINE S == OpenOf(c, a)
           f == [j \in S |-> c.opened[j].amount]
           T == OpenOf(d, a)
           g == [j \in T |-> d.opened[j].amount]
<1>1. IsFiniteSet(S) /\ InEscrows(d, a) \in Nat /\ \A j \in S : f[j] \in Nat
  BY OpenOfFacts
<1>2. T = S \ {i} /\ (i \in S <=> c.opened[i].asset = a)
  BY DEF OpenOf, Open
<1>3. \A j \in T : g[j] = f[j]
  BY <1>2
<1>4. i \in S => f[i] = c.opened[i].amount
  OBVIOUS
<1>5. InEscrows(c, a) = SumOver(S, f) /\ InEscrows(d, a) = SumOver(T, g)
  BY DEF InEscrows
<1> HIDE DEF S, f, T, g
<1>6. CASE c.opened[i].asset = a
  <2>1. i \in S /\ \A j \in S \ {i} : g[j] = f[j]
    BY <1>2, <1>3, <1>6
  <2>2. SumOver(S, f) = SumOver(S \ {i}, g) + f[i]
    BY <1>1, <2>1, SumRemove
  <2> QED
    BY <1>2, <1>4, <1>5, <1>6, <2>1, <2>2
<1>7. CASE c.opened[i].asset # a
  <2>1. T = S
    BY <1>2, <1>7
  <2>2. SumOver(S, f) = SumOver(S, g)
    BY <1>3, <2>1, SumExt
  <2> QED
    BY <1>1, <1>5, <1>7, <2>1, <2>2
<1> QED
  BY <1>6, <1>7

\* OtcFundsConserved of a state c of the contract.
Conserved(c) ==
  /\ InPurses(c, Pay) = c.minted
  /\ \A a \in Shares : InPurses(c, a) + InEscrows(c, a) = SumOver(Parties, Holding)

LEMMA CoinTypes == Pay \in Assets /\ Shares \subseteq Assets /\ \A a \in Shares : a # Pay
BY OtcAssumption DEF Assets

LEMMA LockConserves ==
  ASSUME NEW c, ContractOK(c), Conserved(c), NEW who \in Parties, NEW f \in Form,
         CanLock(c, who, f), Len(c.opened) < MaxEscrows
  PROVE  Conserved(LockEscrow(c, who, f))
<1> DEFINE n == Len(c.opened) + 1
           e == [id |-> n, seller |-> who, buyer |-> f.buyer, asset |-> f.asset,
                 amount |-> f.amount, pay |-> f.pay]
           d == LockEscrow(c, who, f)
<1>1. /\ ContractOK(d) /\ Follows(c, d)
      /\ d.minted = c.minted /\ e \in Escrow
      /\ DOMAIN d.opened = DOMAIN c.opened \cup {n} /\ n \notin DOMAIN c.opened
      /\ d.opened[n] = e /\ d.ended[n] = "open"
      /\ \A i \in DOMAIN c.opened : d.ended[i] = c.ended[i]
      /\ \A p \in Parties, b \in Assets :
           d.purse[p][b] = IF p = who /\ b = f.asset THEN c.purse[p][b] - f.amount
                           ELSE c.purse[p][b]
  BY LockEffect
<1>2. f.asset \in Shares /\ f.amount \in Nat /\ e.asset = f.asset /\ e.amount = f.amount
  BY DEF Form
<1> HIDE DEF d, e, n
<1>3. InPurses(d, Pay) = d.minted
  <2>1. \A p \in Parties : d.purse[p][Pay] = c.purse[p][Pay]
    BY <1>1, <1>2, CoinTypes
  <2> QED
    BY <1>1, <2>1, InPursesSame DEF Conserved
<1>4. ASSUME NEW a \in Shares
      PROVE  InPurses(d, a) + InEscrows(d, a) = SumOver(Parties, Holding)
  <2> DEFINE x == IF f.asset = a THEN f.amount ELSE 0
  <2>1. InEscrows(d, a) = InEscrows(c, a) + x
    BY <1>1, <1>2, InEscrowsAdd
  <2>2. a \in Assets /\ c.purse[who][a] \in Nat
    BY ContractFacts, CoinTypes
  <2>3. d.purse[who][a] = c.purse[who][a] - x
    BY <1>1, <2>2
  <2>4. /\ InPurses(c, a) \in Nat /\ InPurses(d, a) \in Nat
        /\ InPurses(d, a) + c.purse[who][a] = InPurses(c, a) + d.purse[who][a]
    <3>1. \A p \in Parties : p # who => d.purse[p][a] = c.purse[p][a]
      BY <1>1, <2>2
    <3> QED
      BY <1>1, <2>2, <3>1, InPursesChange
  <2>5. InEscrows(c, a) \in Nat
    BY OpenOfFacts
  <2>6. InPurses(c, a) + InEscrows(c, a) = SumOver(Parties, Holding)
    BY DEF Conserved
  <2>7. x \in Nat
    BY <1>2
  <2> HIDE DEF x
  <2>8. InPurses(d, a) = InPurses(c, a) - x
    BY <2>2, <2>3, <2>4, <2>7
  <2>9. InPurses(d, a) + InEscrows(d, a) = InPurses(c, a) + InEscrows(c, a)
    BY <2>1, <2>4, <2>5, <2>7, <2>8
  <2> QED
    BY <2>6, <2>9
<1> QED
  BY <1>3, <1>4 DEF Conserved, d

\* settle: the buyer has the deliverable, the seller the price.
LEMMA SettleEffect ==
  ASSUME NEW c, ContractOK(c), NEW who \in Parties, NEW e, CanSettle(c, who, e), e.pay \in Nat
  PROVE  LET d == Settle(c, who, e)
             i == e.id
             o == c.opened[i]
         IN  /\ ContractOK(d) /\ Follows(c, d)
             /\ i \in DOMAIN c.opened /\ o \in Escrow /\ o.buyer = who /\ c.ended[i] = "open"
             /\ d.minted = c.minted /\ d.opened = c.opened /\ d.ended[i] = "settled"
             /\ \A j \in DOMAIN c.opened : j # i => d.ended[j] = c.ended[j]
             /\ \A p \in Parties, a \in Assets :
                  d.purse[p][a]
                    = IF a = o.asset THEN c.purse[p][a] + (IF p = who THEN o.amount ELSE 0)
                      ELSE IF a = Pay THEN c.purse[p][a] + (IF p = o.seller THEN o.pay ELSE 0)
                                                         - (IF p = who THEN o.pay ELSE 0)
                      ELSE c.purse[p][a]
             /\ c.purse[who][Pay] >= o.pay
<1> DEFINE d == Settle(c, who, e)
           i == e.id
           o == c.opened[i]
           Paid(p) == (IF p = o.seller THEN o.pay ELSE 0) - (IF p = who THEN o.pay ELSE 0)
           purse == [p \in Parties |-> [a \in Assets |->
                       c.purse[p][a] + (IF p = who /\ a = o.asset THEN o.amount ELSE 0)
                                     + (IF a = Pay THEN Paid(p) ELSE 0)]]
<1>1. /\ Open(c, i) /\ i \in DOMAIN c.opened /\ o \in Escrow /\ o.buyer = who
      /\ c.ended[i] = "open" /\ c.purse[who][Pay] >= e.pay /\ e.pay >= o.pay
  BY ContractFacts DEF CanSettle, Open
<1>2. /\ o.amount \in Nat /\ o.pay \in Nat /\ o.asset \in Shares /\ o.asset \in Assets
      /\ o.asset # Pay /\ o.seller \in Parties
  BY <1>1, CoinTypes DEF Escrow
<1>3. d = [c EXCEPT !.purse = purse, !.ended[i] = "settled"]
  BY DEF Settle
<1>4. c.purse[who][Pay] >= o.pay
  <2>1. c.purse[who][Pay] \in Nat
    BY ContractFacts, CoinTypes
  <2> QED
    BY <1>1, <1>2, <2>1
<1> HIDE DEF o, i
<1>5. ASSUME NEW p \in Parties, NEW a \in Assets
      PROVE  /\ purse[p][a]
                    = IF a = o.asset THEN c.purse[p][a] + (IF p = who THEN o.amount ELSE 0)
                      ELSE IF a = Pay THEN c.purse[p][a] + (IF p = o.seller THEN o.pay ELSE 0)
                                                         - (IF p = who THEN o.pay ELSE 0)
                      ELSE c.purse[p][a]
             /\ purse[p][a] \in Nat
  <2>1. c.purse[p][a] \in Nat
    BY ContractFacts
  <2> QED
    BY <1>2, <1>4, <2>1
<1>6. purse \in [Parties -> [Assets -> Nat]]
  BY <1>5
<1> HIDE DEF purse, d
<1>7. /\ ContractOK(d) /\ Follows(c, d)
      /\ d.minted = c.minted /\ d.purse = purse /\ d.opened = c.opened
      /\ d.ended[i] = "settled" /\ \A j \in DOMAIN c.opened : j # i => d.ended[j] = c.ended[j]
  <2>1. /\ d.purse = purse /\ d.minted = c.minted /\ d.opened = c.opened
        /\ d.ended = [c.ended EXCEPT ![i] = "settled"]
        /\ d = [purse |-> d.purse, opened |-> d.opened, ended |-> d.ended,
                minted |-> d.minted]
    BY <1>3 DEF ContractOK, Contract
  <2>2. "settled" \in {"settled", "cancelled"}
    OBVIOUS
  <2>3. d.purse \in [Parties -> [Assets -> Nat]]
    BY <1>6, <2>1
  <2>4. /\ ContractOK(d) /\ Follows(c, d) /\ d.ended[i] = "settled"
        /\ \A j \in DOMAIN c.opened : j # i => d.ended[j] = c.ended[j]
    BY <1>1, <2>1, <2>2, <2>3, EndEffect
  <2> QED
    BY <2>1, <2>4
<1> QED
  BY <1>1, <1>4, <1>5, <1>7 DEF d, o, i

LEMMA SettleConserves ==
  ASSUME NEW c, ContractOK(c), Conserved(c), NEW who \in Parties, NEW e, CanSettle(c, who, e),
         e.pay \in Nat
  PROVE  Conserved(Settle(c, who, e))
<1> DEFINE d == Settle(c, who, e)
           i == e.id
           o == c.opened[i]
<1>1. /\ ContractOK(d) /\ Follows(c, d)
      /\ i \in DOMAIN c.opened /\ o \in Escrow /\ o.buyer = who /\ c.ended[i] = "open"
      /\ d.minted = c.minted /\ d.opened = c.opened /\ d.ended[i] = "settled"
      /\ \A j \in DOMAIN c.opened : j # i => d.ended[j] = c.ended[j]
      /\ \A p \in Parties, a \in Assets :
           d.purse[p][a]
             = IF a = o.asset THEN c.purse[p][a] + (IF p = who THEN o.amount ELSE 0)
               ELSE IF a = Pay THEN c.purse[p][a] + (IF p = o.seller THEN o.pay ELSE 0)
                                                  - (IF p = who THEN o.pay ELSE 0)
               ELSE c.purse[p][a]
      /\ c.purse[who][Pay] >= o.pay
  BY SettleEffect
<1>2. /\ o.amount \in Nat /\ o.pay \in Nat /\ o.asset \in Shares /\ o.asset \in Assets
      /\ o.asset # Pay /\ o.seller \in Parties
  BY <1>1, CoinTypes DEF Escrow
<1>3. Open(c, i)
  BY <1>1 DEF Open
<1>t. \A p \in Parties, a \in Assets : c.purse[p][a] \in Nat /\ d.purse[p][a] \in Nat
  BY <1>1, ContractFacts
<1> HIDE DEF d, o, i
<1>4. InPurses(d, Pay) = d.minted
  <2> DEFINE f == [p \in Parties |-> c.purse[p][Pay]]
             h == [f EXCEPT ![who] = @ - o.pay]
             g == [p \in Parties |-> d.purse[p][Pay]]
  <2>1. Pay \in Assets
    BY CoinTypes
  <2>2. f \in [Parties -> Nat] /\ g \in [Parties -> Nat] /\ h \in [Parties -> Nat]
    BY <1>1, <1>2, <1>t, <2>1
  <2>3. h[who] = f[who] - o.pay /\ \A p \in Parties : p # who => h[p] = f[p]
    BY <2>2
  <2>4. \A p \in Parties : g[p] = IF p = o.seller THEN h[p] + o.pay ELSE h[p]
    BY <1>1, <1>2, <1>t, <2>1, <2>2, <2>3
  <2>5. InPurses(c, Pay) = SumOver(Parties, f) /\ InPurses(d, Pay) = SumOver(Parties, g)
    BY DEF InPurses
  <2> HIDE DEF f, g, h
  <2>6. /\ SumOver(Parties, f) \in Nat /\ SumOver(Parties, h) \in Nat
        /\ SumOver(Parties, h) + f[who] = SumOver(Parties, f) + h[who]
    BY <2>2, <2>3, OneHoldingChanges
  <2>7. /\ SumOver(Parties, g) \in Nat
        /\ SumOver(Parties, g) + h[o.seller] = SumOver(Parties, h) + g[o.seller]
    BY <1>2, <2>2, <2>4, OneHoldingChanges
  <2>8. f[who] \in Nat /\ h[who] \in Nat /\ g[o.seller] = h[o.seller] + o.pay /\ h[o.seller] \in Nat
    BY <1>2, <2>2, <2>4
  <2>9. SumOver(Parties, g) = SumOver(Parties, f)
    BY <1>2, <2>3, <2>6, <2>7, <2>8
  <2> QED
    BY <1>1, <2>5, <2>9 DEF Conserved
<1>5. ASSUME NEW a \in Shares
      PROVE  InPurses(d, a) + InEscrows(d, a) = SumOver(Parties, Holding)
  <2>1. InEscrows(c, a) = InEscrows(d, a) + (IF o.asset = a THEN o.amount ELSE 0)
    BY <1>1, <1>3, InEscrowsEnd DEF o
  <2>2. a \in Assets /\ a # Pay /\ c.purse[who][a] \in Nat
    BY <1>t, CoinTypes
  <2>3. d.purse[who][a] = c.purse[who][a] + (IF o.asset = a THEN o.amount ELSE 0)
    BY <1>1, <1>2, <2>2
  <2>4. /\ InPurses(c, a) \in Nat /\ InPurses(d, a) \in Nat
        /\ InPurses(d, a) + c.purse[who][a] = InPurses(c, a) + d.purse[who][a]
    <3>1. \A p \in Parties : p # who => d.purse[p][a] = c.purse[p][a]
      BY <1>1, <1>t, <2>2
    <3> QED
      BY <1>1, <2>2, <3>1, InPursesChange
  <2>5. InEscrows(d, a) \in Nat
    BY <1>1, OpenOfFacts
  <2>6. InPurses(c, a) + InEscrows(c, a) = SumOver(Parties, Holding)
    BY DEF Conserved
  <2> QED
    BY <1>2, <2>1, <2>2, <2>3, <2>4, <2>5, <2>6
<1> QED
  BY <1>4, <1>5 DEF Conserved, d

\* cancel: the seller has the deliverable back.
LEMMA CancelEffect ==
  ASSUME NEW c, ContractOK(c), NEW who \in Parties, NEW e, CanCancelEscrow(c, who, e)
  PROVE  LET d == CancelEscrow(c, who, e)
             i == e.id
             o == c.opened[i]
         IN  /\ ContractOK(d) /\ Follows(c, d)
             /\ i \in DOMAIN c.opened /\ o \in Escrow /\ o.seller = who /\ c.ended[i] = "open"
             /\ d.minted = c.minted /\ d.opened = c.opened /\ d.ended[i] = "cancelled"
             /\ \A j \in DOMAIN c.opened : j # i => d.ended[j] = c.ended[j]
             /\ \A p \in Parties, a \in Assets :
                  d.purse[p][a] = IF p = who /\ a = o.asset THEN c.purse[p][a] + o.amount
                                  ELSE c.purse[p][a]
<1> DEFINE d == CancelEscrow(c, who, e)
           i == e.id
           o == c.opened[i]
<1>1. /\ Open(c, i) /\ i \in DOMAIN c.opened /\ o \in Escrow /\ o.seller = who
      /\ c.ended[i] = "open"
  BY ContractFacts DEF CanCancelEscrow, Open
<1>2. o.amount \in Nat /\ o.asset \in Shares /\ o.asset \in Assets
  BY <1>1, CoinTypes DEF Escrow
<1>3. d = [c EXCEPT !.purse[who][o.asset] = @ + o.amount, !.ended[i] = "cancelled"]
  BY DEF CancelEscrow
<1> HIDE DEF o, i, d
<1>4. /\ d.purse = [c.purse EXCEPT ![who][o.asset] = @ + o.amount]
      /\ d.minted = c.minted /\ d.opened = c.opened
      /\ d.ended = [c.ended EXCEPT ![i] = "cancelled"]
      /\ d = [purse |-> d.purse, opened |-> d.opened, ended |-> d.ended, minted |-> d.minted]
  BY <1>3 DEF ContractOK, Contract
<1>5. /\ d.purse \in [Parties -> [Assets -> Nat]]
      /\ \A p \in Parties, a \in Assets :
           d.purse[p][a] = IF p = who /\ a = o.asset THEN c.purse[p][a] + o.amount
                           ELSE c.purse[p][a]
  BY <1>2, <1>4, ContractFacts
<1>6. "cancelled" \in {"settled", "cancelled"}
  OBVIOUS
<1>7. /\ ContractOK(d) /\ Follows(c, d) /\ d.ended[i] = "cancelled"
      /\ \A j \in DOMAIN c.opened : j # i => d.ended[j] = c.ended[j]
  BY <1>1, <1>4, <1>5, <1>6, EndEffect
<1> QED
  BY <1>1, <1>4, <1>5, <1>7 DEF d, o, i

LEMMA CancelConserves ==
  ASSUME NEW c, ContractOK(c), Conserved(c), NEW who \in Parties, NEW e,
         CanCancelEscrow(c, who, e)
  PROVE  Conserved(CancelEscrow(c, who, e))
<1> DEFINE d == CancelEscrow(c, who, e)
           i == e.id
           o == c.opened[i]
<1>1. /\ ContractOK(d)
      /\ i \in DOMAIN c.opened /\ o \in Escrow /\ c.ended[i] = "open"
      /\ d.minted = c.minted /\ d.opened = c.opened /\ d.ended[i] = "cancelled"
      /\ \A j \in DOMAIN c.opened : j # i => d.ended[j] = c.ended[j]
      /\ \A p \in Parties, a \in Assets :
           d.purse[p][a] = IF p = who /\ a = o.asset THEN c.purse[p][a] + o.amount
                           ELSE c.purse[p][a]
  BY CancelEffect
<1>2. o.amount \in Nat /\ o.asset \in Shares /\ o.asset # Pay
  BY <1>1, CoinTypes DEF Escrow
<1>3. Open(c, i)
  BY <1>1 DEF Open
<1> HIDE DEF d, o, i
<1>4. InPurses(d, Pay) = d.minted
  <2>1. \A p \in Parties : d.purse[p][Pay] = c.purse[p][Pay]
    BY <1>1, <1>2, CoinTypes
  <2> QED
    BY <1>1, <2>1, InPursesSame DEF Conserved
<1>5. ASSUME NEW a \in Shares
      PROVE  InPurses(d, a) + InEscrows(d, a) = SumOver(Parties, Holding)
  <2> DEFINE x == IF o.asset = a THEN o.amount ELSE 0
  <2>1. InEscrows(c, a) = InEscrows(d, a) + x
    BY <1>1, <1>3, InEscrowsEnd DEF o
  <2>2. a \in Assets /\ c.purse[who][a] \in Nat
    BY ContractFacts, CoinTypes
  <2>3. d.purse[who][a] = c.purse[who][a] + x
    BY <1>1, <1>2, <2>2
  <2>4. /\ InPurses(c, a) \in Nat /\ InPurses(d, a) \in Nat
        /\ InPurses(d, a) + c.purse[who][a] = InPurses(c, a) + d.purse[who][a]
    <3>1. \A p \in Parties : p # who => d.purse[p][a] = c.purse[p][a]
      BY <1>1, <2>2
    <3> QED
      BY <1>1, <2>2, <3>1, InPursesChange
  <2>5. InEscrows(d, a) \in Nat
    BY <1>1, OpenOfFacts
  <2>6. InPurses(c, a) + InEscrows(c, a) = SumOver(Parties, Holding)
    BY DEF Conserved
  <2>7. x \in Nat
    BY <1>2
  <2> HIDE DEF x
  <2>8. InPurses(d, a) = InPurses(c, a) + x
    BY <2>2, <2>3, <2>4, <2>7
  <2>9. InPurses(d, a) + InEscrows(d, a) = InPurses(c, a) + InEscrows(c, a)
    BY <2>1, <2>4, <2>5, <2>7, <2>8
  <2> QED
    BY <2>6, <2>9
<1> QED
  BY <1>4, <1>5 DEF Conserved, d

\* The faucet mints what it gives.
LEMMA FaucetEffect ==
  ASSUME NEW c, ContractOK(c), NEW who \in Parties
  PROVE  LET d == Faucet(c, who)
         IN  /\ ContractOK(d) /\ Follows(c, d)
             /\ d.minted = c.minted + FaucetAmount /\ d.opened = c.opened /\ d.ended = c.ended
             /\ \A p \in Parties, a \in Assets :
                  d.purse[p][a] = IF p = who /\ a = Pay THEN c.purse[p][a] + FaucetAmount
                                  ELSE c.purse[p][a]
<1> DEFINE d == Faucet(c, who)
<1>0. FaucetAmount \in Nat
  BY OtcAssumption
<1>1. d = [c EXCEPT !.purse[who][Pay] = @ + FaucetAmount, !.minted = @ + FaucetAmount]
  BY DEF Faucet
<1> HIDE DEF d
<1>2. /\ d.purse = [c.purse EXCEPT ![who][Pay] = @ + FaucetAmount]
      /\ d.minted = c.minted + FaucetAmount /\ d.opened = c.opened /\ d.ended = c.ended
      /\ d = [purse |-> d.purse, opened |-> d.opened, ended |-> d.ended, minted |-> d.minted]
  BY <1>1 DEF ContractOK, Contract
<1>3. /\ d.purse \in [Parties -> [Assets -> Nat]]
      /\ \A p \in Parties, a \in Assets :
           d.purse[p][a] = IF p = who /\ a = Pay THEN c.purse[p][a] + FaucetAmount
                           ELSE c.purse[p][a]
  BY <1>0, <1>2, ContractFacts, CoinTypes
<1>4. d \in Contract
  <2>1. /\ d.minted \in Nat /\ d.opened \in Seq(Escrow)
        /\ d.ended \in Seq({"open", "settled", "cancelled"})
    BY <1>0, <1>2, ContractFacts
  <2> QED
    BY <1>2, <1>3, <2>1 DEF Contract
<1>5. ContractOK(d)
  BY <1>2, <1>4 DEF ContractOK
<1>6. Follows(c, d)
  BY <1>2 DEF Follows
<1> QED
  BY <1>2, <1>3, <1>5, <1>6 DEF d

LEMMA FaucetConserves ==
  ASSUME NEW c, ContractOK(c), Conserved(c), NEW who \in Parties
  PROVE  Conserved(Faucet(c, who))
<1> DEFINE d == Faucet(c, who)
<1>0. FaucetAmount \in Nat
  BY OtcAssumption
<1>1. /\ ContractOK(d)
      /\ d.minted = c.minted + FaucetAmount /\ d.opened = c.opened /\ d.ended = c.ended
      /\ \A p \in Parties, a \in Assets :
           d.purse[p][a] = IF p = who /\ a = Pay THEN c.purse[p][a] + FaucetAmount
                           ELSE c.purse[p][a]
  BY FaucetEffect
<1> HIDE DEF d
<1>2. InPurses(d, Pay) = d.minted
  <2>1. Pay \in Assets /\ c.purse[who][Pay] \in Nat
    BY ContractFacts, CoinTypes
  <2>2. \A p \in Parties : p # who => d.purse[p][Pay] = c.purse[p][Pay]
    BY <1>1, <2>1
  <2>3. /\ InPurses(c, Pay) \in Nat /\ InPurses(d, Pay) \in Nat
        /\ InPurses(d, Pay) + c.purse[who][Pay] = InPurses(c, Pay) + d.purse[who][Pay]
    BY <1>1, <2>1, <2>2, InPursesChange
  <2>4. d.purse[who][Pay] = c.purse[who][Pay] + FaucetAmount
    BY <1>1, <2>1
  <2>5. InPurses(d, Pay) = InPurses(c, Pay) + FaucetAmount
    BY <1>0, <2>1, <2>3, <2>4
  <2> QED
    BY <1>1, <2>5 DEF Conserved
<1>3. ASSUME NEW a \in Shares
      PROVE  InPurses(d, a) + InEscrows(d, a) = SumOver(Parties, Holding)
  <2>1. \A p \in Parties : d.purse[p][a] = c.purse[p][a]
    BY <1>1, CoinTypes
  <2>2. InPurses(d, a) = InPurses(c, a)
    BY <2>1, InPursesSame
  <2>3. OpenOf(d, a) = OpenOf(c, a)
    BY <1>1 DEF OpenOf
  <2>4. InEscrows(d, a) = InEscrows(c, a)
    BY <1>1, <2>3 DEF InEscrows
  <2> QED
    BY <2>2, <2>4 DEF Conserved
<1> QED
  BY <1>2, <1>3 DEF Conserved, d

\* Whatever a job does to the contract leaves it in order.
LEMMA JobEffect ==
  ASSUME ChainInv, OtcFundsConserved, NEW j \in Job, Carries(j), CanRunJob(j)
  PROVE  /\ ContractOK(Effect(j)) /\ Conserved(Effect(j)) /\ Follows(chain, Effect(j))
         /\ j.op = "settle" => Effect(j).ended[j.args.id] = "settled"
         /\ j.op = "lock" =>
              LET n == Len(chain.opened) + 1
                  e == Effect(j).opened[n]
              IN  /\ n \in DOMAIN Effect(j).opened
                  /\ e.seller = j.who /\ e.buyer = j.args.buyer /\ e.asset = j.args.asset
                  /\ e.amount = j.args.amount /\ e.pay = j.args.pay
<1>1. ContractOK(chain) /\ Conserved(chain)
  BY DEF ChainInv, OtcFundsConserved, Conserved
<1>2. j.who \in Parties /\ j.op \in {"lock", "settle", "cancel", "faucet"}
  BY DEF Job
<1>3. CASE j.op = "lock"
  <2>1. Effect(j) = LockEscrow(chain, j.who, j.args)
    BY <1>3 DEF Effect
  <2>2. Len(chain.opened) < MaxEscrows /\ CanLock(chain, j.who, j.args) /\ j.args \in Form
    BY <1>3 DEF CanRunJob, Carries
  <2>3. Conserved(LockEscrow(chain, j.who, j.args))
    BY <1>1, <1>2, <2>2, LockConserves
  <2> DEFINE d == LockEscrow(chain, j.who, j.args)
             n == Len(chain.opened) + 1
             e == [id |-> n, seller |-> j.who, buyer |-> j.args.buyer, asset |-> j.args.asset,
                   amount |-> j.args.amount, pay |-> j.args.pay]
  <2>4. /\ ContractOK(d) /\ Follows(chain, d) /\ d.opened[n] = e
        /\ DOMAIN d.opened = DOMAIN chain.opened \cup {n}
    BY <1>1, <1>2, <2>2, LockEffect
  <2> HIDE DEF d
  <2> QED
    BY <1>3, <2>1, <2>3, <2>4 DEF d
<1>4. CASE j.op = "settle"
  <2>1. Effect(j) = Settle(chain, j.who, j.args)
    BY <1>4 DEF Effect
  <2>2. /\ CanSettle(chain, j.who, j.args) /\ j.args.id \in DOMAIN chain.opened
        /\ j.args = chain.opened[j.args.id]
    BY <1>4 DEF CanRunJob, Carries
  <2>3. j.args.pay \in Nat
    BY <1>1, <2>2, ContractFacts DEF Escrow
  <2>4. Conserved(Settle(chain, j.who, j.args))
    BY <1>1, <1>2, <2>2, <2>3, SettleConserves
  <2> DEFINE d == Settle(chain, j.who, j.args)
  <2>5. ContractOK(d) /\ Follows(chain, d) /\ d.ended[j.args.id] = "settled"
    BY <1>1, <1>2, <2>2, <2>3, SettleEffect
  <2> HIDE DEF d
  <2> QED
    BY <1>4, <2>1, <2>4, <2>5 DEF d
<1>5. CASE j.op = "cancel"
  <2>1. Effect(j) = CancelEscrow(chain, j.who, j.args)
    BY <1>5 DEF Effect
  <2>2. CanCancelEscrow(chain, j.who, j.args)
    BY <1>5 DEF CanRunJob
  <2>3. Conserved(CancelEscrow(chain, j.who, j.args))
    BY <1>1, <1>2, <2>2, CancelConserves
  <2> DEFINE d == CancelEscrow(chain, j.who, j.args)
  <2>4. ContractOK(d) /\ Follows(chain, d)
    BY <1>1, <1>2, <2>2, CancelEffect
  <2> HIDE DEF d
  <2> QED
    BY <1>5, <2>1, <2>3, <2>4 DEF d
<1>6. CASE j.op = "faucet"
  <2>1. Effect(j) = Faucet(chain, j.who)
    BY <1>6 DEF Effect
  <2>2. Conserved(Faucet(chain, j.who))
    BY <1>1, <1>2, FaucetConserves
  <2> DEFINE d == Faucet(chain, j.who)
  <2>3. ContractOK(d) /\ Follows(chain, d)
    BY <1>1, <1>2, FaucetEffect
  <2> HIDE DEF d
  <2> QED
    BY <1>6, <2>1, <2>2, <2>3 DEF d
<1> QED
  BY <1>2, <1>3, <1>4, <1>5, <1>6

-----------------------------------------------------------------------------
(* The pages.                                                              *)

\* What DeskInv says of one page.
PageGood(t, g) ==
  /\ g \in Page
  /\ g.id # 0 => g.id \in DOMAIN chain.opened
  /\ g.view = "terms" => g.id \in DOMAIN chain.opened /\ g.seen = chain.opened[g.id]
  /\ g.receipt # NoEscrow =>
       /\ g.receipt.id \in DOMAIN chain.opened /\ g.receipt = chain.opened[g.receipt.id]
       /\ chain.ended[g.receipt.id] = "settled"
       /\ chain.opened[g.receipt.id].buyer = WalletOf[t]
  /\ g.share # NoEscrow =>
       LET e == chain.opened[g.share.id]
       IN  /\ g.share.id \in DOMAIN chain.opened
           /\ e.seller = WalletOf[t] /\ e.buyer = g.share.buyer /\ e.asset = g.share.asset
           /\ CutOff(e.amount, g.share.sell, 0) /\ CutOff(e.pay, g.share.price, PayDecimals)
  /\ g.id # 0 /\ g.view = "not found" => chain.ended[g.id] # "open"
PagesGood == tabs \in [Tabs -> Page] /\ \A t \in Tabs : PageGood(t, tabs[t])

LEMMA PagesGoodIs ==
  PagesGood <=> PagesInv /\ ReceiptsAreTrue /\ ShareLinksMatchTheForm /\ NotFoundMeansEnded
BY DEF PagesGood, PageGood, PagesInv, ReceiptsAreTrue, ShareLinksMatchTheForm,
       NotFoundMeansEnded

\* The same, after a step.
LEMMA PagesGoodIsNext ==
  PagesGood' <=> (PagesInv /\ ReceiptsAreTrue /\ ShareLinksMatchTheForm /\ NotFoundMeansEnded)'
BY DEF PagesGood, PageGood, PagesInv, ReceiptsAreTrue, ShareLinksMatchTheForm,
       NotFoundMeansEnded

\* What a page says stays true when the chain moves on.
LEMMA PageKept ==
  ASSUME ChainInv, ChainInv', Follows(chain, chain'), NEW t \in Tabs, NEW g, PageGood(t, g)
  PROVE  PageGood(t, g)'
<1>1. /\ g \in Page
      /\ g.id # 0 => g.id \in DOMAIN chain.opened
      /\ g.view = "terms" => g.id \in DOMAIN chain.opened /\ g.seen = chain.opened[g.id]
      /\ g.receipt # NoEscrow =>
           /\ g.receipt.id \in DOMAIN chain.opened /\ g.receipt = chain.opened[g.receipt.id]
           /\ chain.ended[g.receipt.id] = "settled"
           /\ chain.opened[g.receipt.id].buyer = WalletOf[t]
      /\ g.id # 0 /\ g.view = "not found" => chain.ended[g.id] # "open"
  BY DEF PageGood
<1>2. /\ DOMAIN chain.opened \subseteq DOMAIN chain'.opened
      /\ \A i \in DOMAIN chain.opened : /\ chain'.opened[i] = chain.opened[i]
                                        /\ chain.ended[i] # "open" => chain'.ended[i] = chain.ended[i]
  BY DEF Follows
<1>3. g.share # NoEscrow =>
       LET e == chain.opened[g.share.id]
       IN  /\ g.share.id \in DOMAIN chain.opened
           /\ e.seller = WalletOf[t] /\ e.buyer = g.share.buyer /\ e.asset = g.share.asset
           /\ CutOff(e.amount, g.share.sell, 0) /\ CutOff(e.pay, g.share.price, PayDecimals)
  BY DEF PageGood
<1>4. g.share # NoEscrow =>
       LET e == chain'.opened[g.share.id]
       IN  /\ g.share.id \in DOMAIN chain'.opened
           /\ e.seller = WalletOf[t] /\ e.buyer = g.share.buyer /\ e.asset = g.share.asset
           /\ CutOff(e.amount, g.share.sell, 0) /\ CutOff(e.pay, g.share.price, PayDecimals)
  BY <1>2, <1>3, Zenon
<1>5. g.receipt # NoEscrow =>
       /\ g.receipt.id \in DOMAIN chain'.opened /\ g.receipt = chain'.opened[g.receipt.id]
       /\ chain'.ended[g.receipt.id] = "settled"
       /\ chain'.opened[g.receipt.id].buyer = WalletOf[t]
  BY <1>1, <1>2
<1>6. /\ g.id # 0 => g.id \in DOMAIN chain'.opened
      /\ g.view = "terms" => g.id \in DOMAIN chain'.opened /\ g.seen = chain'.opened[g.id]
      /\ g.id # 0 /\ g.view = "not found" => chain'.ended[g.id] # "open"
  BY <1>1, <1>2
<1> QED
  BY <1>1, <1>4, <1>5, <1>6 DEF PageGood, CutOff

LEMMA PagesKept ==
  ASSUME ChainInv, ChainInv', Follows(chain, chain'), PagesGood, UNCHANGED tabs
  PROVE  PagesGood'
<1>1. tabs' = tabs /\ tabs \in [Tabs -> Page] /\ \A t \in Tabs : PageGood(t, tabs[t])
  BY DEF PagesGood
<1>2. ASSUME NEW t \in Tabs PROVE PageGood(t, tabs[t])'
  <2>1. PICK g : g = tabs[t]
    OBVIOUS
  <2>2. PageGood(t, g)'
    BY <1>1, <2>1, PageKept
  <2> QED
    BY <1>1, <2>1, <2>2 DEF PageGood
<1> QED
  BY <1>1, <1>2 DEF PagesGood

\* One page changes and the chain does not.
LEMMA PageChanges ==
  ASSUME UNCHANGED chain, PagesGood, NEW t \in Tabs, NEW g, PageGood(t, g),
         tabs' = [tabs EXCEPT ![t] = g]
  PROVE  PagesGood'
<1>1. tabs \in [Tabs -> Page] /\ \A u \in Tabs : PageGood(u, tabs[u])
  BY DEF PagesGood
<1>2. g \in Page
  BY DEF PageGood
<1>3. tabs' \in [Tabs -> Page] /\ \A u \in Tabs : tabs'[u] = IF u = t THEN g ELSE tabs[u]
  BY <1>1, <1>2
<1>4. ASSUME NEW u \in Tabs PROVE PageGood(u, tabs[u])'
  <2>1. PageGood(u, IF u = t THEN g ELSE tabs[u])
    BY <1>1
  <2>2. PICK h : h = tabs'[u]
    OBVIOUS
  <2>3. PageGood(u, h)
    BY <1>3, <2>1, <2>2
  <2>4. chain' = chain
    OBVIOUS
  <2> QED
    BY <2>2, <2>3, <2>4 DEF PageGood, CutOff
<1> QED
  BY <1>3, <1>4 DEF PagesGood

\* A page on which only the flags differ.
LEMMA PageFlags ==
  ASSUME NEW t, NEW g, PageGood(t, g), NEW h, h \in Page, h.id = g.id, h.view = g.view,
         h.seen = g.seen, h.receipt = g.receipt, h.share = g.share
  PROVE  PageGood(t, h)
BY DEF PageGood

\* A page just opened shows nothing yet.
LEMMA FreshPage ==
  ASSUME NEW t, NEW id \in Nat, id # 0 => id \in DOMAIN chain.opened
  PROVE  PageGood(t, Fresh(id))
<1>1. Fresh(id) \in Page
  BY DEF Fresh, Page
<1>2. Fresh(id).id = id /\ Fresh(id).view = "loading" /\ Fresh(id).receipt = NoEscrow
      /\ Fresh(id).share = NoEscrow
  BY DEF Fresh
<1> QED
  BY <1>1, <1>2 DEF PageGood

-----------------------------------------------------------------------------
(* The jobs.                                                               *)

LEMMA JobFacts ==
  ASSUME JobsInv
  PROVE  /\ Len(wire) \in Nat /\ DOMAIN wire = 1 .. Len(wire)
         /\ \A k \in DOMAIN wire : wire[k] \in Job /\ Carries(wire[k])
<1> DEFINE J == {j \in Job : Carries(j)}
<1>1. wire \in Seq(J)
  BY DEF JobsInv
<1> HIDE DEF J
<1>2. Len(wire) \in Nat /\ DOMAIN wire = 1 .. Len(wire)
  BY <1>1, LenProperties
<1>3. \A k \in DOMAIN wire : wire[k] \in J
  BY <1>1, <1>2, ElementOfSeq
<1> QED
  BY <1>2, <1>3 DEF J

\* What a job carries stays true when the chain moves on.
LEMMA CarriesKept ==
  ASSUME ChainInv, ChainInv', Follows(chain, chain'), NEW j \in Job, Carries(j)
  PROVE  Carries(j)'
<1>2. /\ DOMAIN chain.opened \subseteq DOMAIN chain'.opened
      /\ \A i \in DOMAIN chain.opened : /\ chain'.opened[i] = chain.opened[i]
                                        /\ chain.ended[i] # "open" => chain'.ended[i] = chain.ended[i]
  BY DEF Follows
<1>3. j.op = "lock" /\ j.stage = "wait" => Opens(j.args, j.who)'
  BY <1>2 DEF Carries, Opens
<1>4. j.op \in {"settle", "cancel"} =>
        j.args.id \in DOMAIN chain'.opened /\ j.args = chain'.opened[j.args.id]
  BY <1>2 DEF Carries
<1>5. j.op = "settle" /\ j.stage = "wait" => chain'.ended[j.args.id] = "settled"
  BY <1>2 DEF Carries
<1> QED
  BY <1>3, <1>4, <1>5 DEF Carries, CutOff

LEMMA JobsKept ==
  ASSUME ChainInv, ChainInv', Follows(chain, chain'), JobsInv
  PROVE  wire \in Seq({j \in Job : Carries(j)'})
<1> DEFINE J == {j \in Job : Carries(j)}
           K == {j \in Job : Carries(j)'}
<1>1. J \subseteq K
  BY CarriesKept
<1>2. wire \in Seq(J)
  BY DEF JobsInv
<1> HIDE DEF J, K
<1>3. wire \in Seq(K)
  BY <1>1, <1>2, SeqMonotonic
<1> QED
  BY <1>3 DEF K

\* The wire after a job is added, changed or removed.
LEMMA JobAdded ==
  ASSUME NEW K, wire \in Seq(K), NEW j \in K
  PROVE  Append(wire, j) \in Seq(K)
BY AppendProperties

LEMMA JobChanged ==
  ASSUME NEW K, wire \in Seq(K), NEW k \in DOMAIN wire, NEW j \in K
  PROVE  [wire EXCEPT ![k] = j] \in Seq(K)
BY LenProperties, ExceptSeq

LEMMA JobRemoved ==
  ASSUME NEW K, wire \in Seq(K), NEW k \in DOMAIN wire
  PROVE  RemoveAt(wire, k) \in Seq(K)
<1>1. k \in 1 .. Len(wire)
  BY LenProperties
<1> DEFINE r == SubSeq(wire, 1, k - 1) \o SubSeq(wire, k + 1, Len(wire))
<1>2. r \in Seq(K)
  BY <1>1, WithoutElement
<1> QED
  BY <1>2 DEF RemoveAt

\* A step that leaves the chain alone.
LEMMA SameChain ==
  ASSUME ChainInv, UNCHANGED chain
  PROVE  /\ ChainInv' /\ Follows(chain, chain')
         /\ OtcFundsConserved => OtcFundsConserved'
<1>1. chain' = chain
  OBVIOUS
<1>2. ChainInv'
  BY <1>1 DEF ChainInv, ContractOK
<1>3. Follows(chain, chain')
  BY <1>1 DEF Follows
<1>4. OtcFundsConserved => OtcFundsConserved'
  BY <1>1 DEF OtcFundsConserved, InPurses, InEscrows, OpenOf
<1> QED
  BY <1>2, <1>3, <1>4

-----------------------------------------------------------------------------
(* The steps of a tab.                                                     *)

LEMMA OpenLinkStep ==
  ASSUME ChainInv, PagesGood, JobsInv, NEW t \in Tabs, NEW link \in Links, OpenLink(t, link)
  PROVE  PagesGood' /\ JobsInv'
<1> DEFINE id == DecodeOtcLink(link)
<1>1. /\ tabs' = [tabs EXCEPT ![t] = Fresh(id)] /\ wire' = Orphaned(t) /\ UNCHANGED chain
  BY DEF OpenLink
<1>2. id \in Nat /\ (id # 0 => id \in DOMAIN chain.opened)
  <2>1. DOMAIN chain.opened = 1 .. Len(chain.opened)
    BY ContractFacts DEF ChainInv
  <2> QED
    BY <2>1 DEF DecodeOtcLink, Links
<1> HIDE DEF id
<1>3. PagesGood'
  BY <1>1, <1>2, FreshPage, PageChanges
<1>4. JobsInv'
  <2> DEFINE K == {j \in Job : Carries(j)'}
  <2>1. wire \in Seq(K)
    BY <1>1, SameChain, JobsKept
  <2>2. ASSUME NEW k \in 1 .. Len(wire), wire[k].stage = "sign"
        PROVE  [wire[k] EXCEPT !.tab = Nobody] \in K
    <3>1. wire[k] \in Job /\ Carries(wire[k])
      BY JobFacts
    <3>2. PICK j : j = [wire[k] EXCEPT !.tab = Nobody]
      OBVIOUS
    <3>3. /\ j \in Job /\ j.tab = Nobody /\ j.stage = "sign" /\ j.op = wire[k].op
          /\ j.who = wire[k].who /\ j.args = wire[k].args
      BY <2>2, <3>1, <3>2 DEF Job
    <3>4. Carries(j)
      BY <2>2, <3>1, <3>3 DEF Carries
    <3>5. Carries(j)'
      BY <1>1, <3>3, <3>4, SameChain, CarriesKept
    <3> QED
      BY <3>2, <3>3, <3>5
  <2>3. \A k \in 1 .. Len(wire) : wire[k] \in K
    BY <2>1, ElementOfSeq
  <2> HIDE DEF K
  <2>4. Orphaned(t) \in Seq(K)
    BY <2>1, <2>2, <2>3, OrphanedType
  <2> QED
    BY <1>1, <2>4 DEF JobsInv, K
<1> QED
  BY <1>3, <1>4

LEMMA PollStep ==
  ASSUME ChainInv, PagesGood, JobsInv, NEW t \in Tabs, Poll(t) \/ PollFails(t)
  PROVE  PagesGood' /\ JobsInv'
<1>0. UNCHANGED <<chain, wire>> /\ tabs[t].id # 0
  BY DEF Poll, PollFails
<1>1. JobsInv'
  BY <1>0 DEF JobsInv, Carries, CutOff, Opens
<1>g. tabs \in [Tabs -> Page] /\ PageGood(t, tabs[t])
  BY DEF PagesGood
<1>2. CASE Poll(t)
  <2> DEFINE g == tabs[t]
             h == [g EXCEPT !.seen = Resolve(g.id), !.loadError = FALSE,
                            !.view = IF Open(chain, g.id) THEN "terms" ELSE "not found"]
  <2>1. tabs' = [tabs EXCEPT ![t] = h]
    BY <1>2, <1>g DEF Poll
  <2>2. /\ g \in Page /\ g.id \in DOMAIN chain.opened
        /\ chain.opened[g.id] \in Escrow
    BY <1>0, <1>g, ContractFacts DEF PageGood, ChainInv
  <2>3. Resolve(g.id) \in Escrow \cup {NoEscrow}
    BY <2>2 DEF Resolve
  <2> HIDE DEF g
  <2>4. /\ h \in Page /\ h.id = g.id /\ h.receipt = g.receipt /\ h.share = g.share
        /\ h.seen = Resolve(g.id)
        /\ h.view = IF Open(chain, g.id) THEN "terms" ELSE "not found"
    BY <2>2, <2>3 DEF Page
  <2> HIDE DEF h
  <2>5. /\ h.view = "terms" => h.seen = chain.opened[h.id]
        /\ h.view = "not found" => chain.ended[h.id] # "open"
    BY <2>2, <2>4 DEF Resolve, Open
  <2>6. PageGood(t, g)
    BY <1>g DEF g
  <2>7. PageGood(t, h)
    BY <2>2, <2>4, <2>5, <2>6 DEF PageGood
  <2> QED
    BY <1>0, <1>1, <2>1, <2>7, PageChanges
<1>3. CASE PollFails(t)
  <2> DEFINE g == tabs[t]
             h == [g EXCEPT !.loadError = TRUE]
  <2>1. tabs' = [tabs EXCEPT ![t] = h]
    BY <1>3, <1>g DEF PollFails
  <2>2. g \in Page /\ PageGood(t, g)
    BY <1>g DEF PageGood
  <2> HIDE DEF g
  <2>3. /\ h \in Page /\ h.id = g.id /\ h.receipt = g.receipt /\ h.share = g.share
        /\ h.seen = g.seen /\ h.view = g.view
    BY <2>2 DEF Page
  <2> HIDE DEF h
  <2>4. PageGood(t, h)
    BY <2>2, <2>3, PageFlags
  <2> QED
    BY <1>0, <1>1, <2>1, <2>4, PageChanges
<1> QED
  BY <1>2, <1>3

\* A handler that runs to its first await carries what the page shows.
LEMMA BeginStep ==
  ASSUME ChainInv, PagesGood, JobsInv, NEW t \in Tabs, NEW op, NEW stage, NEW args,
         Begin(t, op, stage, args),
         op \in {"lock", "settle", "cancel", "faucet"}, stage \in {"coins", "sign"},
         args \in Escrow \cup Form \cup {NoEscrow},
         op = "lock" => /\ args \in Form /\ CutOff(args.amount, args.sell, 0)
                        /\ CutOff(args.pay, args.price, PayDecimals),
         op \in {"settle", "cancel"} =>
           args.id \in DOMAIN chain.opened /\ args = chain.opened[args.id],
         op = "settle" => args.buyer = WalletOf[t]
  PROVE  UNCHANGED chain /\ PagesGood' /\ JobsInv'
<1>1. /\ UNCHANGED chain
      /\ tabs' = [tabs EXCEPT ![t].busy = TRUE, ![t].error = FALSE]
      /\ wire' = Append(wire, [tab |-> t, who |-> WalletOf[t], op |-> op, stage |-> stage,
                               args |-> args])
  BY DEF Begin
<1>2. PagesGood'
  <2> DEFINE g == tabs[t]
             h == [g EXCEPT !.busy = TRUE, !.error = FALSE]
  <2>1. tabs \in [Tabs -> Page] /\ PageGood(t, g) /\ g \in Page
    BY DEF PagesGood
  <2>2. tabs' = [tabs EXCEPT ![t] = h]
    BY <1>1, <2>1
  <2> HIDE DEF g
  <2>3. /\ h \in Page /\ h.id = g.id /\ h.receipt = g.receipt /\ h.share = g.share
        /\ h.seen = g.seen /\ h.view = g.view
    BY <2>1 DEF Page
  <2> HIDE DEF h
  <2>4. PageGood(t, h)
    BY <2>1, <2>3, PageFlags
  <2> QED
    BY <1>1, <2>2, <2>4, PageChanges
<1>3. JobsInv'
  <2> DEFINE K == {j \in Job : Carries(j)'}
  <2>1. wire \in Seq(K)
    BY <1>1, SameChain, JobsKept
  <2>2. PICK j : j = [tab |-> t, who |-> WalletOf[t], op |-> op, stage |-> stage, args |-> args]
    OBVIOUS
  <2>3. WalletOf[t] \in Parties /\ t # Nobody
    BY OtcAssumption
  <2>4. /\ j \in Job /\ j.tab = t /\ j.who = WalletOf[t] /\ j.op = op /\ j.stage = stage
        /\ j.args = args
    BY <2>2, <2>3 DEF Job
  <2>5. j.stage # "wait"
    BY <2>4
  <2>6. Carries(j)
    BY <2>3, <2>4, <2>5 DEF Carries
  <2>7. j \in K
    BY <1>1, <2>4, <2>6, SameChain, CarriesKept
  <2> HIDE DEF K
  <2>8. Append(wire, j) \in Seq(K)
    BY <2>1, <2>7, JobAdded
  <2> QED
    BY <1>1, <2>2, <2>8 DEF JobsInv, K
<1> QED
  BY <1>1, <1>2, <1>3

\* Terms on the screen are those of an escrow.
LEMMA TermsShown ==
  ASSUME ChainInv, PagesGood, NEW t \in Tabs, ShowsTerms(t)
  PROVE  /\ tabs[t].seen \in Escrow /\ tabs[t].seen.id \in DOMAIN chain.opened
         /\ tabs[t].seen = chain.opened[tabs[t].seen.id]
<1>1. PageGood(t, tabs[t]) /\ tabs[t].view = "terms"
  BY DEF PagesGood, ShowsTerms
<1>2. tabs[t].id \in DOMAIN chain.opened /\ tabs[t].seen = chain.opened[tabs[t].id]
  BY <1>1 DEF PageGood
<1>3. chain.opened[tabs[t].id] \in Escrow /\ chain.opened[tabs[t].id].id = tabs[t].id
  BY <1>2, ContractFacts DEF ChainInv
<1> QED
  BY <1>2, <1>3

LEMMA OnLockStep ==
  ASSUME ChainInv, PagesGood, JobsInv, NEW t \in Tabs, NEW a \in Shares, NEW s \in TypedSell,
         NEW p \in TypedPrice, NEW b \in Parties, OnLock(t, a, s, p, b)
  PROVE  UNCHANGED chain /\ PagesGood' /\ JobsInv'
<1> DEFINE amount == ParseAmount(s, 0)
           pay == ParseAmount(p, PayDecimals)
           f == [id |-> 0, asset |-> a, amount |-> amount.v, pay |-> pay.v, buyer |-> b,
                 sell |-> s, price |-> p]
<1>0. s \in Typed /\ p \in Typed /\ PayDecimals \in Nat /\ 0 \in Nat
  BY OtcAssumption
<1>1. CASE amount.ok /\ pay.ok
  <2>1. Begin(t, "lock", "coins", f)
    BY <1>1 DEF OnLock
  <2>2. amount.v \in Nat /\ CutOff(amount.v, s, 0)
    BY <1>0, <1>1, ParsedAmount
  <2>3. pay.v \in Nat /\ CutOff(pay.v, p, PayDecimals)
    BY <1>0, <1>1, ParsedAmount
  <2> HIDE DEF amount, pay
  <2>4. /\ f \in Form /\ f.amount = amount.v /\ f.pay = pay.v /\ f.sell = s /\ f.price = p
    BY <2>2, <2>3 DEF Form
  <2> HIDE DEF f
  <2>5. /\ "lock" \in {"lock", "settle", "cancel", "faucet"} /\ "coins" \in {"coins", "sign"}
        /\ "lock" \notin {"settle", "cancel"} /\ "lock" # "settle"
    OBVIOUS
  <2>6. f \in Escrow \cup Form \cup {NoEscrow}
    BY <2>4
  <2>7. CutOff(f.amount, f.sell, 0) /\ CutOff(f.pay, f.price, PayDecimals)
    BY <2>2, <2>3, <2>4
  <2>8. PICK x : x = f
    OBVIOUS
  <2> QED
    BY <2>1, <2>4, <2>5, <2>6, <2>7, <2>8, BeginStep
<1>2. CASE ~(amount.ok /\ pay.ok)
  <2> DEFINE g == tabs[t]
             h == [g EXCEPT !.error = TRUE]
  <2>1. tabs \in [Tabs -> Page] /\ PageGood(t, g) /\ g \in Page
    BY DEF PagesGood
  <2>2. UNCHANGED <<chain, wire>> /\ tabs' = [tabs EXCEPT ![t] = h]
    BY <1>2, <2>1 DEF OnLock
  <2> HIDE DEF g
  <2>3. /\ h \in Page /\ h.id = g.id /\ h.receipt = g.receipt /\ h.share = g.share
        /\ h.seen = g.seen /\ h.view = g.view
    BY <2>1 DEF Page
  <2> HIDE DEF h
  <2>4. PageGood(t, h)
    BY <2>1, <2>3, PageFlags
  <2>5. PagesGood'
    BY <2>2, <2>4, PageChanges
  <2>6. JobsInv'
    BY <2>2 DEF JobsInv, Carries, CutOff, Opens
  <2> QED
    BY <2>2, <2>5, <2>6
<1> QED
  BY <1>1, <1>2

LEMMA ButtonStep ==
  ASSUME ChainInv, PagesGood, JobsInv, NEW t \in Tabs, OnSettle(t) \/ OnCancel(t) \/ OnFaucet(t)
  PROVE  UNCHANGED chain /\ PagesGood' /\ JobsInv'
<1>1. CASE OnSettle(t)
  <2>1. PICK e : e = tabs[t].seen
    OBVIOUS
  <2>2. Begin(t, "settle", "coins", e) /\ e.buyer = WalletOf[t] /\ ShowsTerms(t)
    BY <1>1, <2>1 DEF OnSettle
  <2>3. e \in Escrow /\ e.id \in DOMAIN chain.opened /\ e = chain.opened[e.id]
    BY <2>1, <2>2, TermsShown
  <2>4. /\ "settle" \in {"lock", "settle", "cancel", "faucet"} /\ "coins" \in {"coins", "sign"}
        /\ "settle" # "lock" /\ e \in Escrow \cup Form \cup {NoEscrow}
    BY <2>3
  <2> QED
    BY <2>2, <2>3, <2>4, BeginStep
<1>2. CASE OnCancel(t)
  <2>1. PICK e : e = tabs[t].seen
    OBVIOUS
  <2>2. Begin(t, "cancel", "sign", e) /\ ShowsTerms(t)
    BY <1>2, <2>1 DEF OnCancel
  <2>3. e \in Escrow /\ e.id \in DOMAIN chain.opened /\ e = chain.opened[e.id]
    BY <2>1, <2>2, TermsShown
  <2>4. /\ "cancel" \in {"lock", "settle", "cancel", "faucet"} /\ "sign" \in {"coins", "sign"}
        /\ "cancel" # "lock" /\ "cancel" # "settle" /\ e \in Escrow \cup Form \cup {NoEscrow}
    BY <2>3
  <2> QED
    BY <2>2, <2>3, <2>4, BeginStep
<1>3. CASE OnFaucet(t)
  <2>1. Begin(t, "faucet", "sign", NoEscrow)
    BY <1>3 DEF OnFaucet
  <2>2. /\ "faucet" \in {"lock", "settle", "cancel", "faucet"} /\ "sign" \in {"coins", "sign"}
        /\ "faucet" \notin {"settle", "cancel"} /\ "faucet" # "lock" /\ "faucet" # "settle"
        /\ NoEscrow \in Escrow \cup Form \cup {NoEscrow}
    OBVIOUS
  <2> QED
    BY <2>1, <2>2, BeginStep
<1> QED
  BY <1>1, <1>2, <1>3

-----------------------------------------------------------------------------
(* The steps of a job.                                                     *)

LEMMA FailJobStep ==
  ASSUME ChainInv, PagesGood, JobsInv, NEW k \in DOMAIN wire, FailJob(k)
  PROVE  UNCHANGED chain /\ PagesGood' /\ JobsInv'
<1>1. UNCHANGED chain /\ wire' = RemoveAt(wire, k)
  BY DEF FailJob
<1>2. JobsInv'
  <2> DEFINE K == {j \in Job : Carries(j)'}
  <2>1. wire \in Seq(K)
    BY <1>1, SameChain, JobsKept
  <2> HIDE DEF K
  <2>2. RemoveAt(wire, k) \in Seq(K)
    BY <2>1, JobRemoved
  <2> QED
    BY <1>1, <2>2 DEF JobsInv, K
<1>3. CASE wire[k].tab = Nobody
  <2>1. UNCHANGED tabs
    BY <1>3 DEF FailJob
  <2>2. PagesGood'
    BY <1>1, <2>1, SameChain, PagesKept
  <2> QED
    BY <1>1, <1>2, <2>2
<1>4. CASE wire[k].tab # Nobody
  <2>1. PICK t : t = wire[k].tab
    OBVIOUS
  <2>2. t \in Tabs
    BY <1>4, <2>1, JobFacts DEF Job
  <2> DEFINE g == tabs[t]
             h == [g EXCEPT !.error = TRUE, !.busy = FALSE]
  <2>3. tabs \in [Tabs -> Page] /\ PageGood(t, g) /\ g \in Page
    BY <2>2 DEF PagesGood
  <2>4. tabs' = [tabs EXCEPT ![t] = h]
    BY <1>4, <2>1, <2>3 DEF FailJob
  <2> HIDE DEF g
  <2>5. /\ h \in Page /\ h.id = g.id /\ h.receipt = g.receipt /\ h.share = g.share
        /\ h.seen = g.seen /\ h.view = g.view
    BY <2>3 DEF Page
  <2> HIDE DEF h
  <2>6. PageGood(t, h)
    BY <2>3, <2>5, PageFlags
  <2>7. PagesGood'
    BY <1>1, <2>2, <2>4, <2>6, PageChanges
  <2> QED
    BY <1>1, <1>2, <2>7
<1> QED
  BY <1>3, <1>4

LEMMA ReadCoinsStep ==
  ASSUME ChainInv, PagesGood, JobsInv, NEW k \in DOMAIN wire, ReadCoins(k)
  PROVE  UNCHANGED chain /\ PagesGood' /\ JobsInv'
<1>1. CASE FailJob(k)
  BY <1>1, FailJobStep
<1>2. CASE UNCHANGED <<chain, tabs>> /\ wire' = [wire EXCEPT ![k].stage = "sign"]
  <2>1. PagesGood'
    BY <1>2, SameChain, PagesKept
  <2>2. PICK j : j = [wire[k] EXCEPT !.stage = "sign"]
    OBVIOUS
  <2>3. wire[k] \in Job /\ Carries(wire[k])
    BY JobFacts
  <2>4. /\ j \in Job /\ j.stage = "sign" /\ j.tab = wire[k].tab /\ j.who = wire[k].who
        /\ j.op = wire[k].op /\ j.args = wire[k].args
    BY <2>2, <2>3 DEF Job
  <2>5. Carries(j)
    BY <2>3, <2>4 DEF Carries
  <2> DEFINE K == {i \in Job : Carries(i)'}
  <2>6. wire \in Seq(K)
    BY <1>2, SameChain, JobsKept
  <2>7. j \in K
    BY <1>2, <2>4, <2>5, SameChain, CarriesKept
  <2> HIDE DEF K
  <2>8. [wire EXCEPT ![k] = j] \in Seq(K)
    BY <2>6, <2>7, JobChanged
  <2>9. wire' = [wire EXCEPT ![k] = j]
    BY <1>2, <2>2
  <2>10. JobsInv'
    BY <2>8, <2>9 DEF JobsInv, K
  <2> QED
    BY <1>2, <2>1, <2>10
<1> QED
  BY <1>1, <1>2 DEF ReadCoins

LEMMA ExecuteStep ==
  ASSUME ChainInv, OtcFundsConserved, PagesGood, JobsInv, NEW k \in DOMAIN wire, Execute(k)
  PROVE  /\ ChainInv' /\ OtcFundsConserved' /\ Follows(chain, chain')
         /\ PagesGood' /\ JobsInv'
<1>1. PICK j : j = wire[k]
  OBVIOUS
<1>2. /\ j.stage = "sign" /\ CanRunJob(j) /\ chain' = Effect(j) /\ UNCHANGED tabs
      /\ wire' = IF j.tab = Nobody THEN RemoveAt(wire, k)
                 ELSE [wire EXCEPT ![k].stage = "wait",
                                   ![k].args = IF j.op = "lock"
                                               THEN [@ EXCEPT !.id = Len(chain.opened) + 1]
                                               ELSE @]
  BY <1>1 DEF Execute
<1>3. j \in Job /\ Carries(j)
  BY <1>1, JobFacts
<1>4. /\ ContractOK(chain') /\ Conserved(chain') /\ Follows(chain, chain')
      /\ j.op = "settle" => chain'.ended[j.args.id] = "settled"
      /\ j.op = "lock" =>
           LET n == Len(chain.opened) + 1
               e == chain'.opened[n]
           IN  /\ n \in DOMAIN chain'.opened
               /\ e.seller = j.who /\ e.buyer = j.args.buyer /\ e.asset = j.args.asset
               /\ e.amount = j.args.amount /\ e.pay = j.args.pay
  BY <1>2, <1>3, JobEffect
<1>5. ChainInv' /\ OtcFundsConserved'
  BY <1>4 DEF ChainInv, Conserved, OtcFundsConserved, ContractOK, InPurses, InEscrows, OpenOf
<1>6. PagesGood'
  BY <1>2, <1>4, <1>5, PagesKept
<1>7. JobsInv'
  <2> DEFINE K == {i \in Job : Carries(i)'}
  <2>1. wire \in Seq(K)
    BY <1>4, <1>5, JobsKept
  <2>2. CASE j.tab = Nobody
    <3> HIDE DEF K
    <3>1. wire' \in Seq(K)
      BY <1>2, <2>1, <2>2, JobRemoved
    <3> QED
      BY <3>1 DEF JobsInv, K
  <2>3. CASE j.tab # Nobody
    <3>1. PICK n : n = Len(chain.opened) + 1
      OBVIOUS
    <3>2. PICK a : a = IF j.op = "lock" THEN [j.args EXCEPT !.id = n] ELSE j.args
      OBVIOUS
    <3>3. PICK i : i = [j EXCEPT !.stage = "wait", !.args = a]
      OBVIOUS
    <3>4. n \in Nat
      BY <3>1, ContractFacts DEF ChainInv
    <3>5. /\ j.op = "lock" => /\ a \in Form /\ a.id = n /\ a.asset = j.args.asset
                              /\ a.amount = j.args.amount /\ a.pay = j.args.pay
                              /\ a.buyer = j.args.buyer /\ a.sell = j.args.sell
                              /\ a.price = j.args.price
          /\ j.op # "lock" => a = j.args
      <4>1. j.op = "lock" => j.args \in Form
        BY <1>3 DEF Carries
      <4> QED
        BY <3>2, <3>4, <4>1 DEF Form
    <3>6. a \in Escrow \cup Form \cup {NoEscrow}
      BY <1>3, <3>5 DEF Job
    <3>7. /\ i \in Job /\ i.stage = "wait" /\ i.args = a /\ i.tab = j.tab /\ i.who = j.who
          /\ i.op = j.op
      BY <1>3, <3>3, <3>6 DEF Job
    <3>8. Carries(j)'
      BY <1>3, <1>4, <1>5, CarriesKept
    <3>9. Carries(i)'
      <4>1. i.op = "lock" => /\ i.args \in Form /\ CutOff(i.args.amount, i.args.sell, 0)
                             /\ CutOff(i.args.pay, i.args.price, PayDecimals)
        BY <1>3, <3>5, <3>7 DEF Carries
      <4>2. i.op = "lock" => Opens(i.args, i.who)'
        BY <1>4, <3>1, <3>5, <3>7 DEF Opens
      <4>3. i.op \in {"settle", "cancel"} =>
              i.args.id \in DOMAIN chain'.opened /\ i.args = chain'.opened[i.args.id]
        BY <3>5, <3>7, <3>8 DEF Carries
      <4>4. i.op = "settle" => i.args.buyer = i.who /\ chain'.ended[i.args.id] = "settled"
        BY <1>4, <3>5, <3>7, <3>8 DEF Carries
      <4>5. i.tab # Nobody => i.who = WalletOf[i.tab]
        BY <3>7, <3>8 DEF Carries
      <4> QED
        BY <4>1, <4>2, <4>3, <4>4, <4>5 DEF Carries, CutOff
    <3>10. i \in K
      BY <3>7, <3>9
    <3>11. wire' = [wire EXCEPT ![k] = i]
      <4>1. wire' = [wire EXCEPT ![k].stage = "wait",
                                 ![k].args = IF j.op = "lock"
                                             THEN [@ EXCEPT !.id = Len(chain.opened) + 1]
                                             ELSE @]
        BY <1>2, <2>3
      <4>2. DOMAIN wire = 1 .. Len(wire) /\ wire[k] \in Job
        BY JobFacts
      <4> QED
        BY <1>1, <3>1, <3>2, <3>3, <4>1, <4>2 DEF Job
    <3> HIDE DEF K
    <3>12. [wire EXCEPT ![k] = i] \in Seq(K)
      BY <2>1, <3>10, JobChanged
    <3> QED
      BY <3>11, <3>12 DEF JobsInv, K
  <2> QED
    BY <2>2, <2>3
<1> QED
  BY <1>4, <1>5, <1>6, <1>7

LEMMA DoneStep ==
  ASSUME ChainInv, PagesGood, JobsInv, NEW k \in DOMAIN wire, Done(k)
  PROVE  UNCHANGED chain /\ PagesGood' /\ JobsInv'
<1>1. PICK j : j = wire[k]
  OBVIOUS
<1>2. j \in Job /\ Carries(j)
  BY <1>1, JobFacts
<1>3. /\ j.stage = "wait" /\ UNCHANGED chain /\ wire' = RemoveAt(wire, k)
      /\ tabs' = [tabs EXCEPT ![j.tab] =
           CASE j.op = "lock"   -> [@ EXCEPT !.busy = FALSE, !.share = j.args]
             [] j.op = "settle" -> [@ EXCEPT !.busy = FALSE, !.receipt = j.args]
             [] j.op = "cancel" -> Fresh(@.id)
             [] j.op = "faucet" -> [@ EXCEPT !.busy = FALSE]]
  BY <1>1 DEF Done
<1>4. JobsInv'
  <2> DEFINE K == {i \in Job : Carries(i)'}
  <2>1. wire \in Seq(K)
    BY <1>3, SameChain, JobsKept
  <2> HIDE DEF K
  <2>2. RemoveAt(wire, k) \in Seq(K)
    BY <2>1, JobRemoved
  <2> QED
    BY <1>3, <2>2 DEF JobsInv, K
<1>5. CASE j.tab \notin Tabs
  <2>1. tabs \in [Tabs -> Page]
    BY DEF PagesGood
  <2>2. UNCHANGED tabs
    BY <1>3, <1>5, <2>1
  <2>3. PagesGood'
    BY <1>3, <2>2, SameChain, PagesKept
  <2> QED
    BY <1>3, <1>4, <2>3
<1>6. CASE j.tab \in Tabs
  <2>1. PICK g : g = tabs[j.tab]
    OBVIOUS
  <2>2. tabs \in [Tabs -> Page] /\ PageGood(j.tab, g) /\ g \in Page
    BY <1>6, <2>1 DEF PagesGood
  <2>3. j.who = WalletOf[j.tab]
    BY <1>2, <1>6, OtcAssumption DEF Carries
  <2>4. CASE j.op = "lock"
    <3>1. PICK h : h = [g EXCEPT !.busy = FALSE, !.share = j.args]
      OBVIOUS
    <3>2. tabs' = [tabs EXCEPT ![j.tab] = h]
      BY <1>3, <2>1, <2>2, <2>4, <3>1
    <3>3. /\ j.args \in Form /\ Opens(j.args, j.who)
          /\ CutOff(j.args.amount, j.args.sell, 0) /\ CutOff(j.args.pay, j.args.price, PayDecimals)
      BY <1>2, <1>3, <2>4 DEF Carries
    <3>4. /\ h \in Page /\ h.id = g.id /\ h.receipt = g.receipt /\ h.share = j.args
          /\ h.seen = g.seen /\ h.view = g.view
      BY <2>2, <3>1, <3>3 DEF Page
    <3>5. LET e == chain.opened[j.args.id]
          IN  /\ j.args.id \in DOMAIN chain.opened
              /\ e.seller = WalletOf[j.tab] /\ e.buyer = j.args.buyer /\ e.asset = j.args.asset
              /\ CutOff(e.amount, j.args.sell, 0) /\ CutOff(e.pay, j.args.price, PayDecimals)
      BY <2>3, <3>3 DEF Opens
    <3>6. PageGood(j.tab, h)
      BY <2>2, <3>4, <3>5 DEF PageGood
    <3> QED
      BY <1>3, <1>4, <1>6, <3>2, <3>6, PageChanges
  <2>5. CASE j.op = "settle"
    <3>1. PICK h : h = [g EXCEPT !.busy = FALSE, !.receipt = j.args]
      OBVIOUS
    <3>2. tabs' = [tabs EXCEPT ![j.tab] = h]
      BY <1>3, <2>1, <2>2, <2>5, <3>1
    <3>3. /\ j.args.id \in DOMAIN chain.opened /\ j.args = chain.opened[j.args.id]
          /\ j.args.buyer = j.who /\ chain.ended[j.args.id] = "settled"
      BY <1>2, <1>3, <2>5 DEF Carries
    <3>4. j.args \in Escrow
      BY <3>3, ContractFacts DEF ChainInv
    <3>5. /\ h \in Page /\ h.id = g.id /\ h.receipt = j.args /\ h.share = g.share
          /\ h.seen = g.seen /\ h.view = g.view
      BY <2>2, <3>1, <3>4 DEF Page
    <3>6. PageGood(j.tab, h)
      BY <2>2, <2>3, <3>3, <3>5 DEF PageGood
    <3> QED
      BY <1>3, <1>4, <1>6, <3>2, <3>6, PageChanges
  <2>6. CASE j.op = "cancel"
    <3>1. tabs' = [tabs EXCEPT ![j.tab] = Fresh(g.id)]
      BY <1>3, <2>1, <2>2, <2>6
    <3>2. g.id \in Nat /\ (g.id # 0 => g.id \in DOMAIN chain.opened)
      BY <2>2 DEF PageGood, Page
    <3>3. PageGood(j.tab, Fresh(g.id))
      BY <3>2, FreshPage
    <3>4. PICK h : h = Fresh(g.id)
      OBVIOUS
    <3> QED
      BY <1>3, <1>4, <1>6, <3>1, <3>3, <3>4, PageChanges
  <2>7. CASE j.op = "faucet"
    <3>1. PICK h : h = [g EXCEPT !.busy = FALSE]
      OBVIOUS
    <3>2. tabs' = [tabs EXCEPT ![j.tab] = h]
      BY <1>3, <2>1, <2>2, <2>7, <3>1
    <3>3. /\ h \in Page /\ h.id = g.id /\ h.receipt = g.receipt /\ h.share = g.share
          /\ h.seen = g.seen /\ h.view = g.view
      BY <2>2, <3>1 DEF Page
    <3>4. PageGood(j.tab, h)
      BY <2>2, <3>3, PageFlags
    <3> QED
      BY <1>3, <1>4, <1>6, <3>2, <3>4, PageChanges
  <2> QED
    BY <1>2, <2>4, <2>5, <2>6, <2>7 DEF Job
<1> QED
  BY <1>5, <1>6

-----------------------------------------------------------------------------
(* The theorems.                                                           *)

LEMMA DeskInit == OtcInit => DeskInv
<1> SUFFICES ASSUME OtcInit PROVE DeskInv
  OBVIOUS
<1> DEFINE purse == [p \in Parties |-> [a \in Assets |-> IF a = Pay THEN 0 ELSE Holding[p]]]
<1>1. purse \in [Parties -> [Assets -> Nat]]
  BY OtcAssumption
<1>2. /\ chain.purse = purse /\ chain.opened = << >> /\ chain.ended = << >> /\ chain.minted = 0
      /\ chain = [purse |-> purse, opened |-> << >>, ended |-> << >>, minted |-> 0]
  BY DEF OtcInit
<1> HIDE DEF purse
<1>3. ChainInv
  <2>1. chain \in Contract
    BY <1>1, <1>2 DEF Contract
  <2>2. 0 <= MaxEscrows
    BY OtcAssumption
  <2> QED
    BY <1>2, <2>1, <2>2 DEF ChainInv, ContractOK
<1>4. PagesGood
  <2>1. tabs = [t \in Tabs |-> Fresh(0)]
    BY DEF OtcInit
  <2>2. \A t \in Tabs : PageGood(t, Fresh(0))
    BY FreshPage
  <2>3. Fresh(0) \in Page
    BY DEF Fresh, Page
  <2> QED
    BY <2>1, <2>2, <2>3 DEF PagesGood
<1>5. JobsInv
  BY DEF JobsInv, OtcInit
<1>6. OtcFundsConserved
  <2>1. InPurses(chain, Pay) = 0
    <3> DEFINE z == [p \in Parties |-> chain.purse[p][Pay]]
    <3>1. \A p \in Parties : z[p] = 0
      BY <1>2, CoinTypes DEF purse
    <3> HIDE DEF z
    <3>2. Units(Parties, z) = {}
      BY <3>1, SMT DEF Units, Block
    <3>3. SumOver(Parties, z) = 0
      BY <3>2, FS_EmptySet DEF SumOver
    <3> QED
      BY <3>3 DEF InPurses, z
  <2>2. ASSUME NEW a \in Shares
        PROVE  InPurses(chain, a) + InEscrows(chain, a) = SumOver(Parties, Holding)
    <3>1. \A p \in Parties : [q \in Parties |-> chain.purse[q][a]][p] = Holding[p]
      BY <1>2, CoinTypes DEF purse
    <3>2. InPurses(chain, a) = SumOver(Parties, Holding)
      BY <3>1, SumExt DEF InPurses
    <3>3. OpenOf(chain, a) = {}
      BY <1>2 DEF OpenOf
    <3>4. InEscrows(chain, a) = 0
      BY <3>3, SumEmpty DEF InEscrows
    <3>5. InPurses(chain, a) \in Nat
      BY <1>3, CoinTypes, InPursesType DEF ChainInv
    <3> QED
      BY <3>2, <3>4, <3>5
  <2> QED
    BY <1>2, <2>1, <2>2 DEF OtcFundsConserved
<1> QED
  BY <1>3, <1>4, <1>5, <1>6, PagesGoodIs DEF DeskInv

LEMMA DeskNext == DeskInv /\ [OtcNext]_otcVars => DeskInv'
<1> SUFFICES ASSUME DeskInv, [OtcNext]_otcVars PROVE DeskInv'
  OBVIOUS
<1>0. ChainInv /\ OtcFundsConserved /\ PagesGood /\ JobsInv
  BY PagesGoodIs DEF DeskInv
<1>1. SUFFICES ChainInv' /\ OtcFundsConserved' /\ PagesGood' /\ JobsInv'
  BY PagesGoodIsNext DEF DeskInv
<1>2. ASSUME NEW t \in Tabs, TabStep(t) PROVE UNCHANGED chain /\ PagesGood' /\ JobsInv'
  <2>1. ASSUME NEW link \in Links, OpenLink(t, link)
        PROVE  UNCHANGED chain /\ PagesGood' /\ JobsInv'
    <3>1. UNCHANGED chain
      BY <2>1 DEF OpenLink
    <3> QED
      BY <1>0, <2>1, <3>1, OpenLinkStep
  <2>2. CASE Poll(t) \/ PollFails(t)
    <3>1. UNCHANGED chain
      BY <2>2 DEF Poll, PollFails
    <3> QED
      BY <1>0, <2>2, <3>1, PollStep
  <2>3. ASSUME NEW a \in Shares, NEW s \in TypedSell, NEW p \in TypedPrice, NEW b \in Parties,
               OnLock(t, a, s, p, b)
        PROVE  UNCHANGED chain /\ PagesGood' /\ JobsInv'
    BY <1>0, <2>3, OnLockStep
  <2>4. CASE OnSettle(t) \/ OnCancel(t) \/ OnFaucet(t)
    BY <1>0, <2>4, ButtonStep
  <2> QED
    BY <1>2, <2>1, <2>2, <2>3, <2>4, Zenon DEF TabStep
<1>3. ASSUME NEW t \in Tabs, TabStep(t)
      PROVE  ChainInv' /\ OtcFundsConserved' /\ PagesGood' /\ JobsInv'
  BY <1>0, <1>2, <1>3, SameChain
<1>4. ASSUME NEW k \in DOMAIN wire, JobStep(k)
      PROVE  ChainInv' /\ OtcFundsConserved' /\ PagesGood' /\ JobsInv'
  <2>1. CASE ReadCoins(k)
    BY <1>0, <2>1, ReadCoinsStep, SameChain
  <2>2. CASE Execute(k)
    BY <1>0, <2>2, ExecuteStep
  <2>3. CASE Lost(k)
    BY <1>0, <2>3, FailJobStep, SameChain DEF Lost
  <2>4. CASE Done(k)
    BY <1>0, <2>4, DoneStep, SameChain
  <2> QED
    BY <1>4, <2>1, <2>2, <2>3, <2>4 DEF JobStep
<1>5. CASE UNCHANGED otcVars
  <2>1. UNCHANGED <<chain, tabs, wire>>
    BY <1>5 DEF otcVars
  <2>2. ChainInv' /\ OtcFundsConserved' /\ Follows(chain, chain')
    BY <1>0, <2>1, SameChain
  <2>3. PagesGood'
    BY <1>0, <2>1, <2>2, PagesKept
  <2>4. JobsInv'
    BY <1>0, <2>1 DEF JobsInv, Carries, CutOff, Opens
  <2> QED
    BY <2>2, <2>3, <2>4
<1> QED
  BY <1>3, <1>4, <1>5, Zenon DEF OtcNext

\* The escrows, the pages and the handlers agree in every state: what a page shows and
\* what a handler carries over its awaits is of an escrow that the contract has.
THEOREM DeskIsConsistent == OtcSpec => []DeskInv
<1>1. OtcInit => DeskInv
  BY DeskInit
<1>2. DeskInv /\ [OtcNext]_otcVars => DeskInv'
  BY DeskNext
<1> QED
  BY <1>1, <1>2, PTL DEF OtcSpec

LEMMA DeskInvImplies == DeskInv => OtcInv
<1> SUFFICES ASSUME DeskInv PROVE OtcInv
  OBVIOUS
<1>1. ChainInv /\ PagesInv
  BY DEF DeskInv
<1>2. /\ \A p \in Parties, a \in Assets : chain.purse[p][a] \in Nat
      /\ \A i \in DOMAIN chain.opened : chain.opened[i].amount > 0 /\ chain.opened[i].pay > 0
      /\ DOMAIN chain.ended = DOMAIN chain.opened
  BY <1>1, ContractFacts DEF ChainInv, Escrow
<1>3. ASSUME NEW t \in Tabs PROVE tabs[t].id \in 0 .. MaxEscrows
  <2>1. tabs[t].id \in Nat /\ (tabs[t].id # 0 => tabs[t].id \in 1 .. Len(chain.opened))
    BY <1>1, ContractFacts DEF PagesInv, Page, ChainInv
  <2>2. Len(chain.opened) \in Nat /\ Len(chain.opened) <= MaxEscrows /\ MaxEscrows \in Nat
    BY <1>1, ContractFacts, OtcAssumption DEF ChainInv
  <2> QED
    BY <2>1, <2>2
<1>4. \A t \in Tabs : tabs[t].busy \in BOOLEAN
  BY <1>1, Zenon DEF PagesInv, Page
<1>5. OtcTypeOK
  BY <1>2, <1>3, <1>4, Zenon DEF OtcTypeOK
<1> QED
  BY <1>5 DEF OtcInv, DeskInv

\* Coins are conserved over purses and escrows, and what a tab shows (a receipt, a share
\* link, "not found") is true of the contract, however many parties, tabs and escrows.
THEOREM TheDeskTellsTheTruth == OtcSpec => []OtcInv
<1>1. DeskInv => OtcInv
  BY DeskInvImplies
<1> QED
  BY <1>1, DeskIsConsistent, PTL

-----------------------------------------------------------------------------
(* How escrows end.                                                        *)

\* What EscrowsEndForTheirParties asks of a step from c to d.
EndsFairly(c, d) ==
  \A i \in DOMAIN c.opened :
    LET o == c.opened[i]
        Gain(p, a) == d.purse[p][a] - c.purse[p][a]
    IN  d.ended[i] # c.ended[i] =>
          /\ c.ended[i] = "open"
          /\ d.ended[i] = "settled" =>
               /\ Gain(o.buyer, o.asset) = o.amount
               /\ o.seller # o.buyer =>
                    Gain(o.seller, Pay) = o.pay /\ Gain(o.buyer, Pay) = 0 - o.pay
          /\ d.ended[i] = "cancelled" =>
               /\ Gain(o.seller, o.asset) = o.amount
               /\ \A p \in Parties : Gain(p, Pay) = 0

LEMMA NothingEnds ==
  ASSUME NEW c, NEW d, \A i \in DOMAIN c.opened : d.ended[i] = c.ended[i]
  PROVE  EndsFairly(c, d)
BY DEF EndsFairly

LEMMA SettleEndsFairly ==
  ASSUME NEW c, ContractOK(c), NEW who \in Parties, NEW e, CanSettle(c, who, e), e.pay \in Nat
  PROVE  EndsFairly(c, Settle(c, who, e))
<1> DEFINE d == Settle(c, who, e)
           k == e.id
           o == c.opened[k]
<1>1. /\ k \in DOMAIN c.opened /\ o \in Escrow /\ o.buyer = who /\ c.ended[k] = "open"
      /\ d.ended[k] = "settled" /\ \A j \in DOMAIN c.opened : j # k => d.ended[j] = c.ended[j]
      /\ \A p \in Parties, a \in Assets :
           d.purse[p][a]
             = IF a = o.asset THEN c.purse[p][a] + (IF p = who THEN o.amount ELSE 0)
               ELSE IF a = Pay THEN c.purse[p][a] + (IF p = o.seller THEN o.pay ELSE 0)
                                                  - (IF p = who THEN o.pay ELSE 0)
               ELSE c.purse[p][a]
  BY SettleEffect
<1>2. /\ o.amount \in Nat /\ o.pay \in Nat /\ o.asset \in Assets /\ o.asset # Pay
      /\ o.seller \in Parties /\ o.buyer \in Parties /\ Pay \in Assets
  BY <1>1, CoinTypes DEF Escrow
<1> HIDE DEF d
<1>3. \A p \in Parties, a \in Assets : c.purse[p][a] \in Nat
  BY ContractFacts
<1>4. d.purse[o.buyer][o.asset] - c.purse[o.buyer][o.asset] = o.amount
  BY <1>1, <1>2, <1>3
<1>5. ASSUME o.seller # o.buyer
      PROVE  /\ d.purse[o.seller][Pay] - c.purse[o.seller][Pay] = o.pay
             /\ d.purse[o.buyer][Pay] - c.purse[o.buyer][Pay] = 0 - o.pay
  <2>1. /\ d.purse[o.seller][Pay] = c.purse[o.seller][Pay] + o.pay - 0
        /\ d.purse[o.buyer][Pay] = c.purse[o.buyer][Pay] + 0 - o.pay
    BY <1>1, <1>2, <1>5
  <2>2. c.purse[o.seller][Pay] \in Nat /\ c.purse[o.buyer][Pay] \in Nat
    BY <1>2, <1>3
  <2> QED
    BY <1>2, <2>1, <2>2
<1>6. EndsFairly(c, d)
  BY <1>1, <1>4, <1>5 DEF EndsFairly
<1> QED
  BY <1>6 DEF d

LEMMA CancelEndsFairly ==
  ASSUME NEW c, ContractOK(c), NEW who \in Parties, NEW e, CanCancelEscrow(c, who, e)
  PROVE  EndsFairly(c, CancelEscrow(c, who, e))
<1> DEFINE d == CancelEscrow(c, who, e)
           k == e.id
           o == c.opened[k]
<1>1. /\ k \in DOMAIN c.opened /\ o \in Escrow /\ o.seller = who /\ c.ended[k] = "open"
      /\ d.ended[k] = "cancelled" /\ \A j \in DOMAIN c.opened : j # k => d.ended[j] = c.ended[j]
      /\ \A p \in Parties, a \in Assets :
           d.purse[p][a] = IF p = who /\ a = o.asset THEN c.purse[p][a] + o.amount
                           ELSE c.purse[p][a]
  BY CancelEffect
<1>2. o.amount \in Nat /\ o.asset \in Assets /\ o.asset # Pay /\ Pay \in Assets
  BY <1>1, CoinTypes DEF Escrow
<1> HIDE DEF d
<1>3. \A p \in Parties, a \in Assets : c.purse[p][a] \in Nat
  BY ContractFacts
<1>4. d.purse[o.seller][o.asset] - c.purse[o.seller][o.asset] = o.amount
  BY <1>1, <1>2, <1>3
<1>5. \A p \in Parties : d.purse[p][Pay] - c.purse[p][Pay] = 0
  BY <1>1, <1>2, <1>3
<1>6. EndsFairly(c, d)
  BY <1>1, <1>4, <1>5 DEF EndsFairly
<1> QED
  BY <1>6 DEF d

LEMMA JobEndsFairly ==
  ASSUME ChainInv, NEW j \in Job, Carries(j), CanRunJob(j)
  PROVE  EndsFairly(chain, Effect(j))
<1>1. ContractOK(chain)
  BY DEF ChainInv
<1>2. j.who \in Parties /\ j.op \in {"lock", "settle", "cancel", "faucet"}
  BY DEF Job
<1>3. CASE j.op = "lock"
  <2>1. Effect(j) = LockEscrow(chain, j.who, j.args)
    BY <1>3 DEF Effect
  <2>2. Len(chain.opened) < MaxEscrows /\ CanLock(chain, j.who, j.args) /\ j.args \in Form
    BY <1>3 DEF CanRunJob, Carries
  <2> DEFINE d == LockEscrow(chain, j.who, j.args)
             n == Len(chain.opened) + 1
             e == [id |-> n, seller |-> j.who, buyer |-> j.args.buyer, asset |-> j.args.asset,
                   amount |-> j.args.amount, pay |-> j.args.pay]
  <2>3. d.opened[n] = e /\ \A i \in DOMAIN chain.opened : d.ended[i] = chain.ended[i]
    BY <1>1, <1>2, <2>2, LockEffect
  <2> QED
    BY <2>1, <2>3, NothingEnds
<1>4. CASE j.op = "settle"
  <2>1. Effect(j) = Settle(chain, j.who, j.args)
    BY <1>4 DEF Effect
  <2>2. /\ CanSettle(chain, j.who, j.args) /\ j.args.id \in DOMAIN chain.opened
        /\ j.args = chain.opened[j.args.id]
    BY <1>4 DEF CanRunJob, Carries
  <2>3. j.args.pay \in Nat
    BY <1>1, <2>2, ContractFacts DEF Escrow
  <2> QED
    BY <1>1, <1>2, <2>1, <2>2, <2>3, SettleEndsFairly
<1>5. CASE j.op = "cancel"
  <2>1. Effect(j) = CancelEscrow(chain, j.who, j.args)
    BY <1>5 DEF Effect
  <2>2. CanCancelEscrow(chain, j.who, j.args)
    BY <1>5 DEF CanRunJob
  <2> QED
    BY <1>1, <1>2, <2>1, <2>2, CancelEndsFairly
<1>6. CASE j.op = "faucet"
  <2>1. Effect(j) = Faucet(chain, j.who)
    BY <1>6 DEF Effect
  <2>2. Faucet(chain, j.who).ended = chain.ended
    BY <1>1, <1>2, FaucetEffect
  <2> QED
    BY <2>1, <2>2, NothingEnds
<1> QED
  BY <1>2, <1>3, <1>4, <1>5, <1>6

\* Only a transaction that takes effect changes the contract.
LEMMA OtherStepsKeepTheChain ==
  ASSUME [OtcNext]_otcVars
  PROVE  UNCHANGED chain \/ \E k \in DOMAIN wire : Execute(k)
<1>1. ASSUME NEW t \in Tabs, TabStep(t) PROVE UNCHANGED chain
  BY <1>1 DEF TabStep, OpenLink, Poll, PollFails, OnLock, OnSettle, OnCancel, OnFaucet, Begin
<1>2. ASSUME NEW k \in DOMAIN wire, JobStep(k) PROVE UNCHANGED chain \/ Execute(k)
  BY <1>2 DEF JobStep, ReadCoins, FailJob, Lost, Done
<1>3. CASE UNCHANGED otcVars
  BY <1>3 DEF otcVars
<1> QED
  BY <1>1, <1>2, <1>3, Zenon DEF OtcNext

LEMMA StepEndsFairly == DeskInv /\ [OtcNext]_otcVars => EndsFairly(chain, chain')
<1> SUFFICES ASSUME DeskInv, [OtcNext]_otcVars PROVE EndsFairly(chain, chain')
  OBVIOUS
<1>1. CASE UNCHANGED chain
  BY <1>1, NothingEnds
<1>2. ASSUME NEW k \in DOMAIN wire, Execute(k) PROVE EndsFairly(chain, chain')
  <2>1. ChainInv /\ JobsInv
    BY DEF DeskInv
  <2>2. PICK j : j = wire[k]
    OBVIOUS
  <2>3. CanRunJob(j) /\ chain' = Effect(j)
    BY <1>2, <2>2 DEF Execute
  <2>4. j \in Job /\ Carries(j)
    BY <2>1, <2>2, JobFacts
  <2> QED
    BY <2>1, <2>3, <2>4, JobEndsFairly
<1> QED
  BY <1>1, <1>2, OtherStepsKeepTheChain

\* An escrow ends at most once, whoever settles and cancels it at the same time: settled,
\* its buyer has the deliverable and its seller the price; cancelled, its seller has the
\* deliverable back and nobody has paid.
THEOREM EscrowsEndOnceAndFairly == OtcSpec => EscrowsEndForTheirParties
<1>1. DeskInv /\ [OtcNext]_otcVars => EndsFairly(chain, chain')
  BY StepEndsFairly
<1> QED
  BY <1>1, DeskIsConsistent, PTL DEF OtcSpec, EscrowsEndForTheirParties, EndsFairly

-----------------------------------------------------------------------------
(* Quotients.                                                              *)

LEMMA IntDiv ==
  ASSUME NEW x \in Int, NEW c \in Nat, c > 0
  PROVE  x \div c \in Int /\ c * (x \div c) <= x /\ x < c * (x \div c) + c
OBVIOUS

LEMMA CeilFacts ==
  ASSUME NEW x \in Nat, NEW c \in Nat, c > 0
  PROVE  /\ CeilDiv(x, c) \in Nat
         /\ x <= c * CeilDiv(x, c)
         /\ x > 0 => CeilDiv(x, c) >= 1 /\ c * (CeilDiv(x, c) - 1) < x
<1> DEFINE n == CeilDiv(x, c)
<1>1. n = (x + c - 1) \div c /\ x + c - 1 \in Nat
  BY DEF CeilDiv
<1>2. n \in Nat /\ c * n <= x + c - 1 /\ x + c - 1 < c * n + c
  BY <1>1, DivFacts
<1> HIDE DEF n
<1>3. x <= c * n
  BY <1>2, ProductType
<1>4. ASSUME x > 0 PROVE n >= 1 /\ c * (n - 1) < x
  <2>1. n # 0
    BY <1>3, <1>4
  <2>2. c * (n - 1) = c * n - c
    BY <1>2, <2>1
  <2> QED
    BY <1>2, <2>1, <2>2
<1> QED
  BY <1>2, <1>3, <1>4 DEF n

\* A drop of nothing or more leaves at most the spot price.
LEMMA DropLowers ==
  ASSUME NEW spot \in Nat, NEW lo \in Int, lo >= 0
  PROVE  UsdToStrike(spot, lo) \in Int /\ UsdToStrike(spot, lo) <= spot
<1> DEFINE P == Permille
           y == spot * (P - lo)
           r == RoundDiv(y, P)
<1>1. P \in Nat /\ P > 0
  BY HedgeMathAssumption
<1>2. y \in Int /\ y <= spot * P
  BY <1>1
<1>3. spot * P \in Int
  BY <1>1
<1> HIDE DEF y
<1>4. r = (2 * y + P) \div (2 * P) /\ 2 * y + P \in Int /\ 2 * P \in Nat /\ 2 * P > 0
  BY <1>1, <1>2 DEF RoundDiv
<1>5. r \in Int /\ (2 * P) * r <= 2 * y + P
  BY <1>4, IntDiv
<1> HIDE DEF r
<1>6. r <= spot
  <2> SUFFICES ASSUME r >= spot + 1 PROVE FALSE
    BY <1>5
  <2>1. (2 * P) * (spot + 1) <= (2 * P) * r
    BY <1>1, <1>5
  <2>2. (2 * P) * (spot + 1) = 2 * (spot * P) + 2 * P
    BY <1>1
  <2> QED
    BY <1>1, <1>2, <1>3, <1>5, <2>1, <2>2
<1> QED
  BY <1>5, <1>6 DEF r, y, UsdToStrike

LEMMA TickType ==
  ASSUME NEW spot \in Nat, NEW drop \in Int, NEW tick \in Nat, tick > 0
  PROVE  SpotToTick(spot, drop, tick) \in Int /\ UsdToStrike(spot, drop) \in Int
<1> DEFINE P == Permille
           y == spot * (P - drop)
<1>1. P \in Nat /\ P > 0
  BY HedgeMathAssumption
<1>2. y \in Int /\ P * tick \in Nat /\ P * tick > 0
  BY <1>1
<1> HIDE DEF y
<1>3. ASSUME NEW c \in Nat, c > 0 PROVE RoundDiv(y, c) \in Int
  <2>1. 2 * y + c \in Int /\ 2 * c \in Nat /\ 2 * c > 0
    BY <1>2, <1>3
  <2> QED
    BY <2>1, IntDiv DEF RoundDiv
<1>4. RoundDiv(y, P) \in Int /\ RoundDiv(y, P * tick) \in Int
  BY <1>1, <1>2, <1>3
<1> QED
  BY <1>4 DEF UsdToStrike, SpotToTick, y

-----------------------------------------------------------------------------
(* Strips.                                                                 *)

\* Ranges side by side from floor to top, each for its share of the revenue.
GoodStrip(s, q, floor, top) ==
  /\ s \in Seq(HedgeRange) /\ Len(s) >= 1
  /\ s[1].lower = floor /\ s[Len(s)].higher = top
  /\ \A i \in 1 .. Len(s) : s[i].lower < s[i].higher /\ s[i].qty = q * (s[i].higher - s[i].lower)
  /\ \A i \in 2 .. Len(s) : s[i].lower = s[i - 1].higher

LEMMA BinFacts ==
  ASSUME NEW span \in Nat, span > 0, NEW tick \in Nat, tick > 0
  PROVE  /\ BinRaw(span, tick) \in Nat /\ BinRaw(span, tick) > 0
         /\ span <= 2 * TargetBins * BinRaw(span, tick)
<1> DEFINE T == TargetBins
           k == span \div (T * tick)
           b == BinRaw(span, tick)
<1>1. T \in Nat /\ T > 0
  BY HedgeMathAssumption
<1>2. T * tick \in Nat /\ T * tick > 0
  BY <1>1
<1>3. k \in Nat /\ span < (T * tick) * k + T * tick
  BY <1>2, DivFacts
<1>4. b = Most(tick, k * tick)
  BY DEF BinRaw
<1> HIDE DEF k, b
<1>5. k * tick \in Nat
  BY <1>3
<1>6. b \in Nat /\ b > 0 /\ b >= tick /\ b >= k * tick
  BY <1>4, <1>5 DEF Most
<1>7. (T * tick) * k + T * tick = T * (k * tick) + T * tick
  BY <1>1, <1>3
<1>8. T * (k * tick) <= T * b /\ T * tick <= T * b
  BY <1>1, <1>5, <1>6, ProductMonotone
<1>9. /\ T * b \in Nat /\ 2 * T * b = T * b + T * b
      /\ T * (k * tick) \in Nat /\ T * tick \in Nat
  BY <1>1, <1>5, <1>6
<1>10. span <= 2 * T * b
  BY <1>3, <1>7, <1>8, <1>9
<1> QED
  BY <1>6, <1>10 DEF b

\* buildHedgeStrip cuts the band into ranges side by side, at most twice the number aimed at.
LEMMA StripIsGood ==
  ASSUME NEW q \in Nat, NEW spot \in Nat, NEW lo \in Int, NEW hi \in Int,
         NEW tick \in Nat, tick > 0, NEW min \in Nat,
         BuildHedgeStrip(q, spot, lo, hi, tick, min) # << >>
  PROVE  LET s == BuildHedgeStrip(q, spot, lo, hi, tick, min)
             floor == FloorRaw(spot, hi, tick, min)
             top == TopRaw(spot, lo, tick)
         IN  /\ GoodStrip(s, q, floor, top) /\ Len(s) <= 2 * TargetBins
             /\ q > 0 /\ spot > 0 /\ floor >= min /\ floor \in Nat /\ top \in Nat
             /\ floor < top /\ top <= spot
<1> DEFINE s == BuildHedgeStrip(q, spot, lo, hi, tick, min)
           floor == FloorRaw(spot, hi, tick, min)
           top == TopRaw(spot, lo, tick)
           span == top - floor
           b == BinRaw(span, tick)
           n == CeilDiv(span, b)
<1>0. /\ SpotToTick(spot, lo, tick) \in Int /\ UsdToStrike(spot, lo) \in Int
      /\ SpotToTick(spot, hi, tick) \in Int /\ UsdToStrike(spot, hi) \in Int
  BY TickType
<1>1. /\ q > 0 /\ spot > 0 /\ lo >= 0 /\ floor < top
      /\ s = [i \in 1 .. n |->
                LET l == floor + (i - 1) * b  h == Least(floor + i * b, top)
                IN  [lower |-> l, higher |-> h, qty |-> q * (h - l)]]
  <2>1. floor \in Int /\ top \in Int
    BY <1>0 DEF FloorRaw, TopRaw, Most, Least
  <2> HIDE DEF floor, top
  <2>2. s = IF q <= 0 \/ spot <= 0 \/ lo < 0 \/ hi <= lo \/ floor >= top THEN << >>
            ELSE [i \in 1 .. n |->
                    LET l == floor + (i - 1) * b  h == Least(floor + i * b, top)
                    IN  [lower |-> l, higher |-> h, qty |-> q * (h - l)]]
    BY DEF BuildHedgeStrip, floor, top
  <2>3. ~(q <= 0 \/ spot <= 0 \/ lo < 0 \/ hi <= lo \/ floor >= top)
    BY <2>2
  <2> QED
    BY <2>1, <2>2, <2>3
<1>2. floor \in Nat /\ floor >= min
  BY <1>0 DEF FloorRaw, Most
<1>3. top \in Int /\ top <= spot
  <2>1. UsdToStrike(spot, lo) <= spot
    BY <1>1, DropLowers
  <2> QED
    BY <1>0, <2>1 DEF TopRaw, Least
<1> HIDE DEF s, floor, top
<1>4. span \in Nat /\ span > 0 /\ top \in Nat /\ top = floor + span
  BY <1>1, <1>2, <1>3
<1> HIDE DEF span
<1>5. b \in Nat /\ b > 0 /\ span <= 2 * TargetBins * b
  BY <1>4, BinFacts
<1> HIDE DEF b
<1>6. n \in Nat /\ span <= b * n /\ n >= 1 /\ b * (n - 1) < span
  BY <1>4, <1>5, CeilFacts
<1> HIDE DEF n
<1>7. n <= 2 * TargetBins
  <2>1. TargetBins \in Nat
    BY HedgeMathAssumption
  <2> SUFFICES ASSUME n - 1 >= 2 * TargetBins PROVE FALSE
    BY <1>6, <2>1
  <2>2. b * (2 * TargetBins) <= b * (n - 1)
    BY <1>5, <1>6, <2>1, ProductMonotone
  <2>3. b * (2 * TargetBins) = 2 * TargetBins * b
    BY <1>5, <2>1
  <2> QED
    BY <1>4, <1>5, <1>6, <2>1, <2>2, <2>3
<1>8. ASSUME NEW i \in 1 .. n
      PROVE  /\ floor + (i - 1) * b \in Nat /\ floor + i * b \in Nat
             /\ floor + (i - 1) * b < top /\ floor + (i - 1) * b < floor + i * b
             /\ i < n => floor + i * b < top
             /\ i = n => floor + i * b >= top
  <2>1. (i - 1) * b \in Nat /\ i * b \in Nat /\ i * b = (i - 1) * b + b
    BY <1>5, <1>6
  <2>2. (i - 1) * b <= b * (n - 1)
    BY <1>5, <1>6
  <2>3. i < n => i * b <= b * (n - 1)
    BY <1>5, <1>6
  <2>4. i = n => i * b = b * n
    BY <1>5, <1>6
  <2>5. b * (n - 1) \in Nat /\ b * n \in Nat
    BY <1>5, <1>6
  <2> QED
    BY <1>2, <1>4, <1>5, <1>6, <2>1, <2>2, <2>3, <2>4, <2>5
<1>9. ASSUME NEW i \in 1 .. n
      PROVE  /\ s[i].lower = floor + (i - 1) * b /\ s[i].lower \in Nat
             /\ s[i].higher = Least(floor + i * b, top) /\ s[i].higher \in Nat
             /\ s[i].lower < s[i].higher
             /\ s[i].qty = q * (s[i].higher - s[i].lower)
             /\ s[i] \in HedgeRange
  <2> DEFINE l == floor + (i - 1) * b
             h == Least(floor + i * b, top)
  <2>1. s[i] = [lower |-> l, higher |-> h, qty |-> q * (h - l)]
    BY <1>1
  <2>2. l \in Nat /\ h \in Nat /\ l < h
    BY <1>4, <1>8 DEF Least
  <2> HIDE DEF l, h
  <2>3. h - l \in Nat
    BY <2>2
  <2>4. q * (h - l) \in Nat
    BY <2>3, ProductType
  <2>5. s[i].lower = l /\ s[i].higher = h /\ s[i].qty = q * (h - l) /\ s[i] \in HedgeRange
    BY <2>1, <2>2, <2>4 DEF HedgeRange
  <2> QED
    BY <2>2, <2>5 DEF l, h
<1>10. s \in Seq(HedgeRange) /\ Len(s) = n
  <2>1. DOMAIN s = 1 .. n /\ s = [i \in 1 .. n |-> s[i]]
    BY <1>1
  <2>2. \A i \in 1 .. n : s[i] \in HedgeRange
    BY <1>9
  <2> QED
    BY <1>6, <2>1, <2>2
<1>11. s[1].lower = floor /\ s[n].higher = top
  <2>1. 1 \in 1 .. n /\ n \in 1 .. n
    BY <1>6
  <2>2. floor + (1 - 1) * b = floor
    BY <1>2, <1>5
  <2>3. Least(floor + n * b, top) = top
    BY <1>4, <1>8, <2>1 DEF Least
  <2> QED
    BY <1>9, <2>1, <2>2, <2>3
<1>12. ASSUME NEW i \in 2 .. n PROVE s[i].lower = s[i - 1].higher
  <2>1. i \in 1 .. n /\ i - 1 \in 1 .. n /\ i - 1 < n
    BY <1>6
  <2>2. s[i - 1].higher = Least(floor + (i - 1) * b, top)
    BY <1>9, <2>1
  <2>3. Least(floor + (i - 1) * b, top) = floor + (i - 1) * b
    BY <1>4, <1>8, <2>1 DEF Least
  <2> QED
    BY <1>9, <2>1, <2>2, <2>3
<1>13. GoodStrip(s, q, floor, top)
  BY <1>6, <1>9, <1>10, <1>11, <1>12 DEF GoodStrip
<1> QED
  BY <1>1, <1>2, <1>3, <1>4, <1>7, <1>10, <1>13 DEF s, floor, top

LEMMA GoodRange ==
  ASSUME NEW s, NEW q, NEW floor, NEW top, GoodStrip(s, q, floor, top), NEW i \in 1 .. Len(s)
  PROVE  /\ s[i] \in HedgeRange /\ s[i].lower \in Nat /\ s[i].higher \in Nat /\ s[i].qty \in Nat
         /\ s[i].lower < s[i].higher /\ s[i].qty = q * (s[i].higher - s[i].lower)
         /\ i > 1 => i - 1 \in 1 .. Len(s) /\ s[i].lower = s[i - 1].higher
<1>1. s \in Seq(HedgeRange) /\ Len(s) \in Nat
  BY LenProperties DEF GoodStrip
<1>2. s[i] \in HedgeRange
  BY <1>1, ElementOfSeq
<1>3. i > 1 => i - 1 \in 1 .. Len(s) /\ i \in 2 .. Len(s)
  BY <1>1
<1> QED
  BY <1>2, <1>3 DEF GoodStrip, HedgeRange

\* The ranges lie in order, so no price is in two of them.
LEMMA GoodOrder ==
  ASSUME NEW s, NEW q, NEW floor, NEW top, GoodStrip(s, q, floor, top),
         NEW i \in 1 .. Len(s), NEW j \in 1 .. Len(s), i < j
  PROVE  s[i].higher <= s[j].lower
<1>1. Len(s) \in Nat
  BY LenProperties DEF GoodStrip
<1> DEFINE S == {d \in Nat : i + d + 1 <= Len(s) => s[i].higher <= s[i + d + 1].lower}
<1>2. 0 \in S
  <2> SUFFICES ASSUME i + 1 <= Len(s) PROVE s[i].higher <= s[i + 1].lower
    BY <1>1
  <2>1. i + 1 \in 1 .. Len(s) /\ i + 1 > 1 /\ (i + 1) - 1 = i
    BY <1>1
  <2>2. s[i + 1].lower = s[i].higher /\ s[i].higher \in Nat
    BY <2>1, GoodRange
  <2> QED
    BY <2>2
<1>3. ASSUME NEW d \in Nat, d \in S PROVE d + 1 \in S
  <2> SUFFICES ASSUME i + (d + 1) + 1 <= Len(s) PROVE s[i].higher <= s[i + (d + 1) + 1].lower
    BY <1>1
  <2> DEFINE k == i + d + 1
  <2>1. k \in 1 .. Len(s) /\ k + 1 \in 1 .. Len(s) /\ k + 1 > 1 /\ (k + 1) - 1 = k
        /\ i + (d + 1) + 1 = k + 1
    BY <1>1
  <2>2. s[i].higher <= s[k].lower
    BY <1>1, <1>3, <2>1
  <2> HIDE DEF k
  <2>3. /\ s[k].lower \in Nat /\ s[k].higher \in Nat /\ s[k].lower < s[k].higher
        /\ s[i].higher \in Nat /\ s[k + 1].lower = s[k].higher
    BY <2>1, GoodRange
  <2> QED
    BY <2>1, <2>2, <2>3
<1> HIDE DEF S
<1>4. j - i - 1 \in Nat /\ i + (j - i - 1) + 1 = j
  BY <1>1
<1>5. j - i - 1 \in S
  BY <1>2, <1>3, <1>4, SetInduction
<1> QED
  BY <1>1, <1>4, <1>5 DEF S

\* The edges of the ranges, from the floor to the top.
EdgeAt(s, floor, i) == IF i = 0 THEN floor ELSE s[i].higher

LEMMA Edges ==
  ASSUME NEW s, NEW q, NEW floor \in Nat, NEW top \in Nat, GoodStrip(s, q, floor, top)
  PROVE  /\ Len(s) \in Nat /\ Len(s) >= 1 /\ DOMAIN s = 1 .. Len(s)
         /\ EdgeAt(s, floor, 0) = floor /\ EdgeAt(s, floor, Len(s)) = top
         /\ \A i \in 0 .. Len(s) : EdgeAt(s, floor, i) \in floor .. top
         /\ \A i \in 1 .. Len(s) : /\ EdgeAt(s, floor, i) = s[i].higher
                                   /\ EdgeAt(s, floor, i - 1) = s[i].lower
<1>1. Len(s) \in Nat /\ Len(s) >= 1 /\ DOMAIN s = 1 .. Len(s)
  BY LenProperties DEF GoodStrip
<1>2. s[1].lower = floor /\ s[Len(s)].higher = top
  BY DEF GoodStrip
<1>3. ASSUME NEW i \in 1 .. Len(s)
      PROVE  EdgeAt(s, floor, i) = s[i].higher /\ EdgeAt(s, floor, i - 1) = s[i].lower
  <2>1. CASE i = 1
    BY <1>1, <1>2, <2>1 DEF EdgeAt
  <2>2. CASE i > 1
    <3>1. s[i].lower = s[i - 1].higher /\ i - 1 # 0
      BY <1>1, <2>2, GoodRange
    <3> QED
      BY <1>1, <2>2, <3>1 DEF EdgeAt
  <2> QED
    BY <1>1, <2>1, <2>2
<1>4. ASSUME NEW i \in 1 .. Len(s) PROVE s[i].higher \in floor .. top
  <2>1. 1 \in 1 .. Len(s) /\ Len(s) \in 1 .. Len(s)
    BY <1>1
  <2>2. /\ s[i].lower \in Nat /\ s[i].higher \in Nat /\ s[i].lower < s[i].higher
        /\ s[1].lower \in Nat /\ s[1].higher \in Nat /\ s[1].lower < s[1].higher
        /\ s[Len(s)].lower \in Nat /\ s[Len(s)].higher \in Nat
        /\ s[Len(s)].lower < s[Len(s)].higher
    BY <2>1, GoodRange
  <2>3. i = 1 \/ s[1].higher <= s[i].lower
    BY <1>1, <2>1, GoodOrder
  <2>4. i = Len(s) \/ s[i].higher <= s[Len(s)].lower
    <3>0. Len(s) \in Nat /\ i \in 1 .. Len(s)
      BY <1>1
    <3>1. i = Len(s) \/ i < Len(s)
      BY <3>0, SMT
    <3>2. ASSUME i < Len(s) PROVE s[i].higher <= s[Len(s)].lower
      BY <2>1, <3>2, GoodOrder
    <3> QED
      BY <3>1, <3>2
  <2> QED
    BY <1>2, <2>2, <2>3, <2>4
<1>5. ASSUME NEW i \in 0 .. Len(s) PROVE EdgeAt(s, floor, i) \in floor .. top
  <2>1. CASE i = 0
    <3>1. 1 \in 1 .. Len(s)
      BY <1>1
    <3>2. s[1].higher \in floor .. top
      BY <1>4, <3>1
    <3> QED
      BY <2>1, <3>2 DEF EdgeAt
  <2>2. CASE i # 0
    <3>1. i \in 1 .. Len(s)
      BY <1>1, <2>2
    <3> QED
      BY <1>3, <1>4, <3>1
  <2> QED
    BY <2>1, <2>2
<1>6. EdgeAt(s, floor, Len(s)) = top
  BY <1>1, <1>2 DEF EdgeAt
<1> QED
  BY <1>1, <1>3, <1>5, <1>6 DEF EdgeAt

\* Together they are for the revenue of the whole band.
LEMMA GoodSum ==
  ASSUME NEW s, NEW q \in Nat, NEW floor \in Nat, NEW top \in Nat, GoodStrip(s, q, floor, top)
  PROVE  SumQty(s) = q * (top - floor) /\ SumQty(s) \in Nat
<1> DEFINE n == Len(s)
           f == [i \in DOMAIN s |-> s[i].qty]
           h == [i \in 0 .. n |-> q * EdgeAt(s, floor, i)]
<1>1. /\ n \in Nat /\ n >= 1 /\ DOMAIN s = 1 .. n
      /\ EdgeAt(s, floor, 0) = floor /\ EdgeAt(s, floor, n) = top
      /\ \A i \in 0 .. n : EdgeAt(s, floor, i) \in floor .. top
      /\ \A i \in 1 .. n : /\ EdgeAt(s, floor, i) = s[i].higher
                           /\ EdgeAt(s, floor, i - 1) = s[i].lower
  BY Edges
<1>2. ASSUME NEW i \in 1 .. n PROVE f[i] \in Nat /\ f[i] = h[i] - h[i - 1]
  <2>1. /\ s[i].qty \in Nat /\ s[i].lower \in Nat /\ s[i].higher \in Nat
        /\ s[i].qty = q * (s[i].higher - s[i].lower)
    BY GoodRange
  <2>2. h[i] = q * s[i].higher /\ h[i - 1] = q * s[i].lower /\ f[i] = s[i].qty
    BY <1>1
  <2>3. q * (s[i].higher - s[i].lower) = q * s[i].higher - q * s[i].lower
    BY <2>1
  <2> QED
    BY <2>1, <2>2, <2>3
<1>3. \A i \in 0 .. n : h[i] \in Int
  BY <1>1
<1>4. h[0] = q * floor /\ h[n] = q * top
  BY <1>1
<1>5. SumQty(s) = SumOver(1 .. n, f)
  BY <1>1 DEF SumQty
<1> HIDE DEF f, h, n
<1>6. SumOver(1 .. n, f) = h[n] - h[0]
  <2>1. n \in Nat /\ StepsOf(f, h, n)
    BY <1>1, <1>2 DEF StepsOf
  <2> QED
    BY <1>3, <2>1, Telescope
<1>7. SumOver(1 .. n, f) \in Nat
  BY <1>1, <1>2, SumUpTo
<1>8. q * top - q * floor = q * (top - floor)
  OBVIOUS
<1> QED
  BY <1>4, <1>5, <1>6, <1>7, <1>8

\* A surface that falls from strike to strike falls from any strike to any higher one.
Falls(above, floor, top) == \A k \in floor + 1 .. top : above[k] <= above[k - 1]
Surface(above, floor, top) == \A k \in floor .. top : above[k] \in 0 .. Certain

LEMMA Falling ==
  ASSUME NEW floor \in Nat, NEW top \in Nat, NEW above, Surface(above, floor, top),
         Falls(above, floor, top), NEW a \in floor .. top, NEW b \in floor .. top, a <= b
  PROVE  above[b] <= above[a]
<1>1. Certain \in Nat
  BY HedgeMathAssumption
<1>2. \A k \in floor .. top : above[k] \in Int
  BY <1>1 DEF Surface
<1> DEFINE S == {d \in Nat : a + d <= b => above[a + d] <= above[a]}
<1>3. 0 \in S
  <2>1. a + 0 = a
    OBVIOUS
  <2>2. above[a] <= above[a]
    BY <1>2
  <2> QED
    BY <2>1, <2>2
<1>4. ASSUME NEW d \in Nat, d \in S PROVE d + 1 \in S
  <2> SUFFICES ASSUME a + (d + 1) <= b PROVE above[a + (d + 1)] <= above[a]
    OBVIOUS
  <2> DEFINE k == a + (d + 1)
  <2>1. k \in floor + 1 .. top /\ k \in floor .. top /\ k - 1 = a + d /\ k - 1 \in floor .. top
    OBVIOUS
  <2>2. above[a + d] <= above[a]
    BY <1>4
  <2>3. above[k] <= above[k - 1]
    BY <2>1 DEF Falls
  <2>4. above[k] \in Int /\ above[k - 1] \in Int /\ above[a] \in Int
    BY <1>2, <2>1
  <2> HIDE DEF k
  <2>5. above[k - 1] <= above[a]
    BY <2>1, <2>2
  <2>6. above[k] <= above[a]
    BY <2>3, <2>4, <2>5
  <2> QED
    BY <2>6 DEF k
<1> HIDE DEF S
<1>5. b - a \in Nat /\ a + (b - a) = b
  OBVIOUS
<1>6. b - a \in S
  BY <1>3, <1>4, <1>5, SetInduction
<1> QED
  BY <1>5, <1>6 DEF S

LEMMA PriceType ==
  ASSUME NEW r, NEW above, above[r.lower] \in 0 .. Certain, above[r.higher] \in 0 .. Certain
  PROVE  /\ PriceRangeFromSvi(r, above) \in Nat
         /\ above[r.higher] <= above[r.lower] =>
              PriceRangeFromSvi(r, above) = above[r.lower] - above[r.higher]
<1>1. Certain \in Nat
  BY HedgeMathAssumption
<1> QED
  BY <1>1 DEF PriceRangeFromSvi, Least, Most

\* What a strip costs is a natural number on every surface that knows its strikes.
Known(s, above) == \A i \in DOMAIN s : /\ above[s[i].lower] \in 0 .. Certain
                                       /\ above[s[i].higher] \in 0 .. Certain

LEMMA StripPriceType ==
  ASSUME NEW s \in Seq(HedgeRange), NEW above, Known(s, above)
  PROVE  PriceStripFromSvi(s, above) \in Nat
<1> DEFINE f == [i \in DOMAIN s |-> s[i].qty * PriceRangeFromSvi(s[i], above)]
<1>1. DOMAIN s = 1 .. Len(s) /\ Len(s) \in Nat
  BY LenProperties
<1>2. ASSUME NEW i \in 1 .. Len(s) PROVE f[i] \in Nat
  <2>1. s[i] \in HedgeRange
    BY ElementOfSeq
  <2>2. s[i].qty \in Nat
    BY <2>1 DEF HedgeRange
  <2>3. PriceRangeFromSvi(s[i], above) \in Nat
    BY <1>1, PriceType DEF Known
  <2>4. s[i].qty * PriceRangeFromSvi(s[i], above) \in Nat
    BY <2>2, <2>3, ProductType
  <2> QED
    BY <1>1, <2>4
<1>3. PriceStripFromSvi(s, above) = SumOver(1 .. Len(s), f)
  BY <1>1 DEF PriceStripFromSvi
<1> HIDE DEF f
<1> QED
  BY <1>1, <1>2, <1>3, SumUpTo

\* On a falling surface the ranges of a strip cost together no more than one that is sure
\* to pay as much as the largest of them.
LEMMA GoodPremium ==
  ASSUME NEW s, NEW q \in Nat, NEW floor \in Nat, NEW top \in Nat, GoodStrip(s, q, floor, top),
         NEW above, Surface(above, floor, top), Falls(above, floor, top)
  PROVE  PriceStripFromSvi(s, above) <= Certain * Max({s[i].qty : i \in DOMAIN s})
<1> DEFINE n == Len(s)
           f == [i \in DOMAIN s |-> s[i].qty * PriceRangeFromSvi(s[i], above)]
           Q == {s[i].qty : i \in DOMAIN s}
           M == Max(Q)
           E(i) == EdgeAt(s, floor, i)
           h == [i \in 0 .. n |-> M * (above[floor] - above[E(i)])]
<1>1. /\ n \in Nat /\ n >= 1 /\ DOMAIN s = 1 .. n
      /\ E(0) = floor /\ E(n) = top
      /\ \A i \in 0 .. n : E(i) \in floor .. top
      /\ \A i \in 1 .. n : E(i) = s[i].higher /\ E(i - 1) = s[i].lower
  BY Edges
<1>2. M \in Nat /\ \A i \in 1 .. n : s[i].qty <= M
  <2>1. \A i \in 1 .. n : s[i].qty \in Nat
    BY GoodRange
  <2>2. Q \in SUBSET Int /\ Q # {} /\ Q \subseteq Nat
    BY <1>1, <2>1
  <2>3. IsFiniteSet(Q)
    <3>1. IsFiniteSet(1 .. n)
      BY <1>1, FS_Interval
    <3> DEFINE g == [i \in 1 .. n |-> s[i].qty]
    <3>2. g \in Surjection(1 .. n, Q)
      BY <1>1 DEF Surjection
    <3> QED
      BY <3>1, <3>2, FS_Surjection
  <2>4. PICK x \in Q : \A y \in Q : y <= x
    BY <2>2, <2>3, Extremes
  <2>5. \E z \in Q : \A y \in Q : z >= y
    BY <2>2, <2>4
  <2>6. M \in Q /\ \A y \in Q : M >= y
    BY <2>5 DEF Max
  <2>7. ASSUME NEW i \in 1 .. n PROVE s[i].qty <= M
    <3>1. s[i].qty \in Q
      BY <1>1
    <3> QED
      BY <2>2, <2>6, <3>1
  <2> QED
    BY <2>2, <2>6, <2>7
<1> HIDE DEF M, E
<1>3. Certain \in Nat /\ \A k \in floor .. top : above[k] \in 0 .. Certain
  BY HedgeMathAssumption DEF Surface
<1>4. floor \in floor .. top /\ top \in floor .. top
  <2>1. 0 \in 0 .. n /\ n \in 0 .. n
    BY <1>1
  <2> QED
    BY <1>1, <2>1
<1>5. \A i \in 0 .. n : h[i] \in Int
  BY <1>1, <1>2, <1>3, <1>4
<1>6. ASSUME NEW i \in 1 .. n PROVE f[i] \in Nat /\ f[i] <= h[i] - h[i - 1]
  <2> DEFINE a == above[s[i].lower]
             b == above[s[i].higher]
             p == PriceRangeFromSvi(s[i], above)
             c == above[floor]
  <2>1. i \in 0 .. n /\ i - 1 \in 0 .. n /\ s[i].lower \in floor .. top /\ s[i].higher \in floor .. top
    BY <1>1
  <2>2. s[i].lower \in Nat /\ s[i].higher \in Nat /\ s[i].lower < s[i].higher /\ s[i].qty \in Nat
    BY GoodRange
  <2>3. a \in 0 .. Certain /\ b \in 0 .. Certain /\ c \in 0 .. Certain
    BY <1>3, <1>4, <2>1
  <2>4. b <= a
    BY <2>1, <2>2, Falling
  <2>5. p = a - b /\ p \in Nat
    BY <2>3, <2>4, PriceType
  <2>6. h[i] = M * (c - b) /\ h[i - 1] = M * (c - a) /\ f[i] = s[i].qty * p
    BY <1>1, <2>1
  <2> HIDE DEF a, b, c, p, f, h
  <2>7. a \in Int /\ b \in Int /\ c \in Int
    BY <1>3, <2>3
  <2>8. M * (c - b) - M * (c - a) = M * (a - b)
    BY <1>2, <2>7
  <2>9. s[i].qty * p \in Nat /\ s[i].qty * p <= M * p
    <3>1. s[i].qty <= M
      BY <1>2
    <3>2. p * s[i].qty <= p * M
      BY <1>2, <2>2, <2>5, <3>1, ProductMonotone
    <3>3. p * s[i].qty = s[i].qty * p /\ p * M = M * p /\ s[i].qty * p \in Nat
      BY <1>2, <2>2, <2>5
    <3> QED
      BY <3>2, <3>3
  <2> QED
    BY <2>5, <2>6, <2>8, <2>9
<1>7. PriceStripFromSvi(s, above) = SumOver(1 .. n, f)
  BY <1>1 DEF PriceStripFromSvi
<1>8. h[0] = M * (above[floor] - above[floor]) /\ h[n] = M * (above[floor] - above[top])
  BY <1>1
<1> HIDE DEF f, h, n
<1>9. SumOver(1 .. n, f) <= h[n] - h[0]
  <2>1. n \in Nat /\ (\A i \in 1 .. n : f[i] \in Nat) /\ \A i \in 1 .. n : f[i] <= h[i] - h[i - 1]
    BY <1>1, <1>6
  <2> QED
    BY <1>5, <2>1, TelescopeUpTo
<1>10. above[floor] \in 0 .. Certain /\ above[top] \in 0 .. Certain
  BY <1>3, <1>4
<1>11. h[0] = 0 /\ h[n] <= Certain * M
  <2> DEFINE d == above[floor] - above[top]
  <2>1. d \in Int /\ d <= Certain /\ above[floor] - above[floor] = 0
    BY <1>3, <1>10
  <2>2. M * d <= M * Certain
    <3> HIDE DEF d
    <3> QED
      BY <1>2, <1>3, <2>1
  <2>3. M * Certain = Certain * M /\ M * 0 = 0
    BY <1>2, <1>3
  <2> QED
    BY <1>8, <2>1, <2>2, <2>3
<1>12. h[n] \in Int /\ Certain * M \in Int
  BY <1>1, <1>2, <1>3, <1>5
<1>13. SumOver(1 .. n, f) \in Nat
  BY <1>1, <1>6, SumUpTo
<1> QED
  BY <1>7, <1>9, <1>11, <1>12, <1>13 DEF M

-----------------------------------------------------------------------------
(* The payoff.                                                             *)

LEMMA LeastOf ==
  ASSUME NEW S \in SUBSET Int, IsFiniteSet(S), S # {}
  PROVE  /\ Min(S) \in S /\ (\A x \in S : Min(S) <= x)
         /\ Max(S) \in S /\ (\A x \in S : x <= Max(S))
<1>1. PICK lo \in S, hi \in S : \A x \in S : lo <= x /\ x <= hi
  BY Extremes
<1>2. (\E z \in S : \A y \in S : z =< y) /\ (\E z \in S : \A y \in S : z >= y)
  BY <1>1
<1>3. Min(S) \in S /\ \A y \in S : Min(S) =< y
  BY <1>2 DEF Min
<1>4. Max(S) \in S /\ \A y \in S : Max(S) >= y
  BY <1>2 DEF Max
<1>5. \A x \in S : x <= Max(S)
  BY <1>4
<1> QED
  BY <1>3, <1>4, <1>5

\* A price is in one range at most, and that one is what is paid.
LEMMA OneHolds ==
  ASSUME NEW s, NEW q, NEW floor, NEW top, GoodStrip(s, q, floor, top), NEW p \in Int,
         NEW i \in 1 .. Len(s), NEW j \in 1 .. Len(s), Holds(s[i], p), Holds(s[j], p)
  PROVE  i = j
<1>1. /\ s[i].lower \in Nat /\ s[i].higher \in Nat /\ s[j].lower \in Nat /\ s[j].higher \in Nat
      /\ Len(s) \in Nat
  BY GoodRange, LenProperties DEF GoodStrip
<1>2. s[i].lower <= p /\ p < s[i].higher /\ s[j].lower <= p /\ p < s[j].higher
  BY <1>1 DEF Holds
<1>3. ~(i < j)
  <2> SUFFICES ASSUME i < j PROVE FALSE
    OBVIOUS
  <2>1. s[i].higher <= s[j].lower
    BY GoodOrder
  <2> QED
    BY <1>1, <1>2, <2>1
<1>4. ~(j < i)
  <2> SUFFICES ASSUME j < i PROVE FALSE
    OBVIOUS
  <2>1. s[j].higher <= s[i].lower
    BY GoodOrder
  <2> QED
    BY <1>1, <1>2, <2>1
<1> QED
  BY <1>1, <1>3, <1>4

LEMMA PayoffIs ==
  ASSUME NEW s, NEW q, NEW floor, NEW top, GoodStrip(s, q, floor, top), NEW p \in Int
  PROVE  /\ \A i \in 1 .. Len(s) : Holds(s[i], p) => Payoff(s, p) = s[i].qty
         /\ (\A i \in 1 .. Len(s) : ~Holds(s[i], p)) => Payoff(s, p) = 0
<1> DEFINE in == {i \in DOMAIN s : Holds(s[i], p)}
<1>1. DOMAIN s = 1 .. Len(s)
  BY LenProperties DEF GoodStrip
<1>2. Payoff(s, p) = IF in = {} THEN 0 ELSE s[Min(in)].qty
  BY DEF Payoff
<1>3. ASSUME NEW i \in 1 .. Len(s), Holds(s[i], p) PROVE Payoff(s, p) = s[i].qty
  <2>1. in = {i}
    <3>1. i \in in
      BY <1>1, <1>3
    <3>2. ASSUME NEW j \in in PROVE j = i
      <4>1. j \in 1 .. Len(s) /\ Holds(s[j], p)
        BY <1>1
      <4> QED
        BY <1>3, <4>1, OneHolds
    <3> QED
      BY <3>1, <3>2
  <2>2. IsFiniteSet({i}) /\ {i} \in SUBSET Int /\ {i} # {}
    <3>1. i \in Int
      OBVIOUS
    <3>2. IsFiniteSet({i})
      BY FS_Singleton
    <3> QED
      BY <3>1, <3>2
  <2>3. Min({i}) \in {i}
    BY <2>2, LeastOf
  <2> HIDE DEF in
  <2> QED
    BY <1>2, <2>1, <2>3
<1>4. ASSUME \A i \in 1 .. Len(s) : ~Holds(s[i], p) PROVE Payoff(s, p) = 0
  <2>1. in = {}
    BY <1>1, <1>4
  <2> HIDE DEF in
  <2> QED
    BY <1>2, <2>1
<1> QED
  BY <1>3, <1>4

\* What is paid is never more than the ranges are for together.
LEMMA PayoffBounds ==
  ASSUME NEW s, NEW q \in Nat, NEW floor \in Nat, NEW top \in Nat, GoodStrip(s, q, floor, top),
         NEW p \in Int
  PROVE  Payoff(s, p) \in Nat /\ Payoff(s, p) <= SumQty(s)
<1>0. SumQty(s) \in Nat
  BY GoodSum
<1>1. CASE \A i \in 1 .. Len(s) : ~Holds(s[i], p)
  <2>1. Payoff(s, p) = 0
    BY <1>1, PayoffIs
  <2> QED
    BY <1>0, <2>1
<1>2. CASE \E i \in 1 .. Len(s) : Holds(s[i], p)
  <2> PICK i \in 1 .. Len(s) : Holds(s[i], p)
    BY <1>2
  <2> DEFINE n == Len(s)
             f == [k \in DOMAIN s |-> s[k].qty]
  <2>1. Payoff(s, p) = s[i].qty
    BY PayoffIs
  <2>2. n \in Nat /\ DOMAIN s = 1 .. n
    BY LenProperties DEF GoodStrip
  <2>3. \A k \in 1 .. n : f[k] \in Nat
    BY <2>2, GoodRange
  <2>4. SumQty(s) = SumOver(1 .. n, f) /\ f[i] = s[i].qty
    BY <2>2 DEF SumQty
  <2> HIDE DEF f, n
  <2>5. i \in 1 .. n /\ i \in 0 .. n /\ i - 1 \in 0 .. n
    BY <2>2 DEF n
  <2>6. /\ SumOver(1 .. i, f) <= SumOver(1 .. n, f) /\ SumOver(1 .. i, f) = SumOver(1 .. i - 1, f) + f[i]
        /\ SumOver(1 .. i - 1, f) \in Nat /\ SumOver(1 .. n, f) \in Nat
    BY <2>2, <2>3, <2>5, SumUpTo
  <2>7. f[i] \in Nat
    BY <2>3, <2>5
  <2> QED
    BY <2>1, <2>4, <2>6, <2>7
<1> QED
  BY <1>1, <1>2

\* Nothing is paid above the top.
LEMMA PayoffAbove ==
  ASSUME NEW s, NEW q \in Nat, NEW floor \in Nat, NEW top \in Nat, GoodStrip(s, q, floor, top),
         NEW p \in Int, p >= top
  PROVE  Payoff(s, p) = 0
<1>1. ASSUME NEW i \in 1 .. Len(s) PROVE ~Holds(s[i], p)
  <2>1. EdgeAt(s, floor, i) \in floor .. top /\ EdgeAt(s, floor, i) = s[i].higher
    <3>1. i \in 0 .. Len(s)
      BY Edges
    <3> QED
      BY <3>1, Edges
  <2> QED
    BY <2>1 DEF Holds
<1> QED
  BY <1>1, PayoffIs

-----------------------------------------------------------------------------
(* The ladder.                                                             *)

\* The rungs are the ranges from the last to the first.
LEMMA RungIs ==
  ASSUME NEW s, NEW q, NEW floor, NEW top, GoodStrip(s, q, floor, top), NEW m \in 1 .. Len(s)
  PROVE  Rung(s, m) = s[Len(s) + 1 - m] /\ Len(s) + 1 - m \in 1 .. Len(s)
<1> DEFINE n == Len(s)
<1>1. DOMAIN s = 1 .. n /\ n \in Nat
  BY LenProperties DEF GoodStrip
<1>2. ASSUME NEW i \in 1 .. n PROVE Cardinality(Above(s, i)) = n - i
  <2>1. Above(s, i) = i + 1 .. n
    <3>1. ASSUME NEW j \in 1 .. n
          PROVE  (j > i) <=> \/ s[j].higher > s[i].higher
                             \/ s[j].higher = s[i].higher /\ j < i
      <4>1. /\ s[i].lower \in Nat /\ s[i].higher \in Nat /\ s[i].lower < s[i].higher
            /\ s[j].lower \in Nat /\ s[j].higher \in Nat /\ s[j].lower < s[j].higher
        BY GoodRange
      <4>2. CASE j > i
        <5>1. s[i].higher <= s[j].lower
          BY <4>2, GoodOrder
        <5> QED
          BY <4>1, <4>2, <5>1
      <4>3. CASE j < i
        <5>1. s[j].higher <= s[i].lower
          BY <4>3, GoodOrder
        <5> QED
          BY <4>1, <4>3, <5>1
      <4>4. CASE j = i
        BY <4>1, <4>4
      <4> QED
        BY <4>2, <4>3, <4>4
    <3>2. Above(s, i) = {j \in 1 .. n : j > i}
      BY <1>1, <3>1 DEF Above
    <3> QED
      BY <1>1, <3>2
  <2>2. i + 1 \in Int /\ n \in Int
    BY <1>1
  <2>3. Cardinality(i + 1 .. n) = IF i + 1 > n THEN 0 ELSE n - (i + 1) + 1
    BY <2>2, FS_Interval
  <2> QED
    BY <1>1, <2>1, <2>3
<1>3. n + 1 - m \in 1 .. n /\ n - (n + 1 - m) = m - 1
  BY <1>1
<1> DEFINE c == CHOOSE i \in DOMAIN s : Cardinality(Above(s, i)) = m - 1
<1>4. \E i \in DOMAIN s : Cardinality(Above(s, i)) = m - 1
  BY <1>1, <1>2, <1>3
<1>5. c \in 1 .. n /\ Cardinality(Above(s, c)) = m - 1
  BY <1>1, <1>4
<1>6. Rung(s, m) = s[c]
  BY DEF Rung
<1> HIDE DEF c
<1>7. n - c = m - 1
  BY <1>2, <1>5
<1>8. c = n + 1 - m
  BY <1>1, <1>5, <1>7
<1> QED
  BY <1>3, <1>6, <1>8

LEMMA RungsAre ==
  ASSUME NEW s, NEW q, NEW floor, NEW top, GoodStrip(s, q, floor, top), NEW p
  PROVE  /\ DOMAIN Rungs(s, p) = 1 .. Len(s)
         /\ \A m \in 1 .. Len(s) :
              /\ Len(s) + 1 - m \in 1 .. Len(s)
              /\ Rungs(s, p)[m].higher = s[Len(s) + 1 - m].higher
              /\ Rungs(s, p)[m].qty = s[Len(s) + 1 - m].qty
              /\ Rungs(s, p)[m].live = Holds(s[Len(s) + 1 - m], p)
<1>1. DOMAIN s = 1 .. Len(s)
  BY LenProperties DEF GoodStrip
<1>2. DOMAIN Rungs(s, p) = 1 .. Len(s)
  BY <1>1 DEF Rungs
<1>3. ASSUME NEW m \in 1 .. Len(s)
      PROVE  /\ Len(s) + 1 - m \in 1 .. Len(s)
             /\ Rungs(s, p)[m].higher = s[Len(s) + 1 - m].higher
             /\ Rungs(s, p)[m].qty = s[Len(s) + 1 - m].qty
             /\ Rungs(s, p)[m].live = Holds(s[Len(s) + 1 - m], p)
  <2>1. Rung(s, m) = s[Len(s) + 1 - m] /\ Len(s) + 1 - m \in 1 .. Len(s)
    BY RungIs
  <2> DEFINE r == Rung(s, m)
  <2>2. Rungs(s, p)[m] = [lower |-> r.lower, higher |-> r.higher, qty |-> r.qty, live |-> Holds(r, p)]
    BY <1>1 DEF Rungs
  <2> HIDE DEF r
  <2>3. /\ Rungs(s, p)[m].higher = r.higher /\ Rungs(s, p)[m].qty = r.qty
        /\ Rungs(s, p)[m].live = Holds(r, p)
    BY <2>2
  <2> QED
    BY <2>1, <2>3, Zenon DEF r
<1> QED
  BY <1>2, <1>3, Zenon

\* The marker stands before the first rung that lies at or under the price.
LEMMA SpotIndexIs ==
  ASSUME NEW s, NEW q, NEW floor, NEW top, GoodStrip(s, q, floor, top), NEW p \in Int,
         NEW j \in 1 .. Len(s)
  PROVE  j >= SpotIndex(s, p) <=> Rungs(s, p)[j].higher <= p
<1> DEFINE n == Len(s)
           R == Rungs(s, p)
           below == {i \in DOMAIN R : p >= R[i].higher}
<1>1. n \in Nat /\ DOMAIN R = 1 .. n
  BY LenProperties, RungsAre DEF GoodStrip
<1>2. SpotIndex(s, p) = IF below = {} THEN n + 1 ELSE Min(below)
  BY DEF SpotIndex
<1>3. ASSUME NEW i \in 1 .. n PROVE R[i].higher \in Nat
  <2>1. n + 1 - i \in 1 .. n /\ R[i].higher = s[n + 1 - i].higher
    BY RungsAre
  <2> QED
    BY <2>1, GoodRange
<1>4. ASSUME NEW i \in 1 .. n, NEW k \in 1 .. n, i < k PROVE R[k].higher <= R[i].higher
  <2> DEFINE a == n + 1 - i
             b == n + 1 - k
  <2>1. /\ a \in 1 .. n /\ R[i].higher = s[a].higher
        /\ b \in 1 .. n /\ R[k].higher = s[b].higher
    BY RungsAre
  <2>2. b < a
    BY <1>1, <1>4
  <2> HIDE DEF a, b
  <2>3. s[b].higher <= s[a].lower
    BY <2>1, <2>2, GoodOrder
  <2>4. s[a].lower < s[a].higher /\ s[a].lower \in Nat /\ s[a].higher \in Nat /\ s[b].higher \in Nat
    BY <2>1, GoodRange
  <2> QED
    BY <2>1, <2>3, <2>4
<1> HIDE DEF R
<1>5. CASE below = {}
  <2>1. SpotIndex(s, p) = n + 1
    BY <1>2, <1>5
  <2>2. ~(p >= R[j].higher)
    BY <1>1, <1>5
  <2> QED
    BY <1>1, <1>3, <2>1, <2>2 DEF R
<1>6. CASE below # {}
  <2>1. below \in SUBSET Int /\ below \in SUBSET (1 .. n)
    BY <1>1
  <2>2. IsFiniteSet(below)
    <3>1. IsFiniteSet(1 .. n)
      BY <1>1, FS_Interval
    <3> QED
      BY <2>1, <3>1, FS_Subset
  <2> DEFINE m == Min(below)
  <2> HIDE DEF below
  <2>3. m \in below /\ \A x \in below : m <= x
    BY <1>6, <2>1, <2>2, LeastOf
  <2>4. SpotIndex(s, p) = m
    BY <1>2, <1>6
  <2> HIDE DEF m
  <2>5. m \in 1 .. n /\ p >= R[m].higher /\ R[m].higher \in Nat /\ R[j].higher \in Nat
    BY <1>1, <1>3, <2>3 DEF below
  <2>6. j >= m => R[j].higher <= p
    <3>1. CASE j = m
      BY <2>5, <3>1
    <3>2. CASE j > m
      <4>1. R[j].higher <= R[m].higher
        BY <1>4, <2>5, <3>2
      <4> QED
        BY <2>5, <4>1
    <3> QED
      BY <2>5, <3>1, <3>2
  <2>7. R[j].higher <= p => j >= m
    <3> SUFFICES ASSUME R[j].higher <= p PROVE j >= m
      OBVIOUS
    <3>1. j \in below
      BY <1>1, <2>5 DEF below
    <3> QED
      BY <2>3, <2>5, <3>1
  <2> QED
    BY <2>4, <2>6, <2>7 DEF R
<1> QED
  BY <1>5, <1>6

\* At most one rung is live, and it shows what is paid.
Live(s, p) == {j \in DOMAIN Rungs(s, p) : Rungs(s, p)[j].live}

LEMMA LiveRung ==
  ASSUME NEW s, NEW q, NEW floor, NEW top, GoodStrip(s, q, floor, top), NEW p \in Int
  PROVE  /\ Cardinality(Live(s, p)) <= 1
         /\ Payoff(s, p) = SumOver(Live(s, p), [j \in Live(s, p) |-> Rungs(s, p)[j].qty])
<1> DEFINE n == Len(s)
           R == Rungs(s, p)
           L == Live(s, p)
           g == [j \in L |-> R[j].qty]
<1>1. n \in Nat /\ DOMAIN R = 1 .. n
  BY LenProperties, RungsAre DEF GoodStrip
<1>2. ASSUME NEW j \in 1 .. n
      PROVE  /\ n + 1 - j \in 1 .. n /\ R[j].qty = s[n + 1 - j].qty
             /\ j \in L <=> Holds(s[n + 1 - j], p)
  <2>1. n + 1 - j \in 1 .. n /\ R[j].qty = s[n + 1 - j].qty
    BY RungsAre
  <2>2. R[j].live = Holds(s[n + 1 - j], p)
    BY RungsAre
  <2>3. j \in DOMAIN R
    BY <1>1
  <2>4. j \in L <=> Holds(s[n + 1 - j], p)
    BY <2>2, <2>3, Zenon DEF Live
  <2> QED
    BY <2>1, <2>4
<1>3. L \subseteq 1 .. n
  BY <1>1, Zenon DEF Live
<1> HIDE DEF R, L
<1>4. CASE \A i \in 1 .. n : ~Holds(s[i], p)
  <2>1. L = {}
    BY <1>2, <1>3, <1>4
  <2>2. Payoff(s, p) = 0
    BY <1>4, PayoffIs
  <2>3. SumOver(L, g) = 0 /\ Cardinality(L) = 0
    <3> HIDE DEF g
    <3> QED
      BY <2>1, SumEmpty, FS_EmptySet
  <2> QED
    BY <2>2, <2>3 DEF L, R
<1>5. CASE \E i \in 1 .. n : Holds(s[i], p)
  <2> PICK i \in 1 .. n : Holds(s[i], p)
    BY <1>5
  <2> DEFINE m == n + 1 - i
  <2>1. m \in 1 .. n /\ n + 1 - m = i
    BY <1>1
  <2> HIDE DEF m
  <2>2. m \in L /\ R[m].qty = s[i].qty
    BY <1>2, <2>1
  <2>3. ASSUME NEW j \in L PROVE j = m
    <3>1. j \in 1 .. n /\ n + 1 - j \in 1 .. n /\ Holds(s[n + 1 - j], p)
      BY <1>2, <1>3
    <3>2. n + 1 - j = i
      BY <3>1, OneHolds
    <3> QED
      BY <1>1, <2>1, <3>1, <3>2
  <2>4. L = {m}
    BY <2>2, <2>3
  <2>5. Payoff(s, p) = s[i].qty /\ s[i].qty \in Nat
    BY PayoffIs, GoodRange
  <2>6. g[m] = s[i].qty
    BY <2>2
  <2>7. SumOver(L, g) = s[i].qty /\ Cardinality(L) = 1
    <3> HIDE DEF g
    <3>1. SumOver({m}, g) = g[m]
      BY <2>5, <2>6, SumSingleton
    <3> QED
      BY <2>4, <2>6, <3>1, FS_Singleton
  <2> QED
    BY <2>5, <2>7 DEF L, R
<1> QED
  BY <1>4, <1>5

-----------------------------------------------------------------------------
(* Quantiles.                                                              *)

Enough(xs, k, v) == k <= Cardinality({j \in DOMAIN xs : xs[j] <= v})
Place(n, num, den) == Least(n, (n * num) \div den + 1)

LEMMA PlaceType ==
  ASSUME NEW n \in Nat, n > 0, NEW num \in Nat, NEW den \in Nat, den > 0
  PROVE  Place(n, num, den) \in 1 .. n
<1>1. n * num \in Nat
  OBVIOUS
<1>2. (n * num) \div den \in Nat
  BY <1>1, DivFacts
<1> QED
  BY <1>2 DEF Place, Least

\* A largest element among some samples.
LEMMA LargestAt ==
  ASSUME NEW xs \in Seq(Int), NEW A \in SUBSET (1 .. Len(xs)), A # {}
  PROVE  IsFiniteSet(A) /\ \E m \in A : \A j \in A : xs[j] <= xs[m]
<1> DEFINE V == {xs[j] : j \in A}
           g == [j \in A |-> xs[j]]
<1>1. Len(xs) \in Nat /\ \A j \in 1 .. Len(xs) : xs[j] \in Int
  BY LenProperties, ElementOfSeq
<1>2. IsFiniteSet(A)
  <2>1. IsFiniteSet(1 .. Len(xs))
    BY <1>1, FS_Interval
  <2> QED
    BY <2>1, FS_Subset
<1>3. g \in Surjection(A, V)
  BY DEF Surjection
<1>4. IsFiniteSet(V) /\ V # {} /\ V \in SUBSET Int
  <2>1. IsFiniteSet(V)
    BY <1>2, <1>3, FS_Surjection
  <2> QED
    BY <1>1, <2>1
<1>5. PICK v \in V : \A w \in V : w <= v
  BY <1>4, Extremes
<1>6. PICK m \in A : v = xs[m]
  OBVIOUS
<1>7. \A j \in A : xs[j] <= xs[m]
  BY <1>5, <1>6
<1> QED
  BY <1>2, <1>7

LEMMA QuantileIs ==
  ASSUME NEW xs \in Seq(Int), Len(xs) > 0, NEW num \in Nat, NEW den \in Nat, den > 0
  PROVE  /\ \E i \in 1 .. Len(xs) : /\ Quantile(xs, num, den) = xs[i]
                                    /\ Enough(xs, Place(Len(xs), num, den), xs[i])
         /\ \A i \in 1 .. Len(xs) : Enough(xs, Place(Len(xs), num, den), xs[i]) =>
                                      Quantile(xs, num, den) <= xs[i]
<1> DEFINE n == Len(xs)
           k == Place(n, num, den)
           I == {i \in DOMAIN xs : Enough(xs, k, xs[i])}
           C == {xs[i] : i \in I}
           g == [i \in I |-> xs[i]]
<1>1. n \in Nat /\ DOMAIN xs = 1 .. n /\ \A j \in 1 .. n : xs[j] \in Int
  BY LenProperties, ElementOfSeq
<1>2. k \in 1 .. n
  BY <1>1, PlaceType
<1>3. Quantile(xs, num, den) = Min(C)
  <2>1. xs # << >>
    BY EmptySeq
  <2> QED
    BY <2>1 DEF Quantile, Enough, Place
<1>4. I # {}
  <2>1. 1 .. n # {} /\ 1 .. n \in SUBSET (1 .. Len(xs))
    BY <1>1
  <2>2. PICK m \in 1 .. n : \A j \in 1 .. n : xs[j] <= xs[m]
    BY <2>1, LargestAt
  <2>3. {j \in DOMAIN xs : xs[j] <= xs[m]} = 1 .. n
    BY <1>1, <2>2
  <2>4. Cardinality(1 .. n) = n
    <3>1. 1 \in Int /\ n \in Int /\ ~(1 > n)
      BY <1>1
    <3>2. Cardinality(1 .. n) = IF 1 > n THEN 0 ELSE n - 1 + 1
      BY <3>1, FS_Interval
    <3> QED
      BY <1>1, <3>1, <3>2
  <2>5. Enough(xs, k, xs[m])
    <3>1. k <= n
      BY <1>1, <1>2
    <3> HIDE DEF k
    <3> QED
      BY <2>3, <2>4, <3>1 DEF Enough
  <2> QED
    BY <1>1, <2>5
<1>5. C # {} /\ C \in SUBSET Int /\ IsFiniteSet(C)
  <2>1. I \in SUBSET (1 .. n)
    BY <1>1
  <2>2. IsFiniteSet(I)
    BY <1>4, <2>1, LargestAt
  <2> HIDE DEF I
  <2>3. g \in Surjection(I, C)
    BY DEF Surjection
  <2>4. IsFiniteSet(C)
    BY <2>2, <2>3, FS_Surjection
  <2> QED
    BY <1>1, <1>4, <2>1, <2>4
<1> HIDE DEF C
<1>6. Min(C) \in C /\ \A x \in C : Min(C) <= x
  BY <1>5, LeastOf
<1>7. PICK i \in I : Min(C) = xs[i]
  BY <1>6 DEF C
<1>8. i \in 1 .. n /\ Enough(xs, k, xs[i])
  BY <1>1
<1>9. ASSUME NEW j \in 1 .. n, Enough(xs, k, xs[j]) PROVE Min(C) <= xs[j]
  <2>1. xs[j] \in C
    BY <1>1, <1>9 DEF C
  <2> QED
    BY <1>6, <2>1
<1> QED
  BY <1>3, <1>7, <1>8, <1>9

\* Samples that fall by at most c have quantiles that fall by at most c.
LEMMA QuantileFalls ==
  ASSUME NEW xs \in Seq(Int), NEW ys \in Seq(Int), Len(xs) > 0, Len(ys) = Len(xs), NEW c \in Int,
         \A i \in 1 .. Len(xs) : ys[i] >= xs[i] - c,
         NEW num \in Nat, NEW den \in Nat, den > 0
  PROVE  Quantile(ys, num, den) >= Quantile(xs, num, den) - c
<1> DEFINE n == Len(xs)
           k == Place(n, num, den)
<1>1. /\ n \in Nat /\ DOMAIN xs = 1 .. n /\ DOMAIN ys = 1 .. n
      /\ \A j \in 1 .. n : xs[j] \in Int /\ ys[j] \in Int
  BY LenProperties, ElementOfSeq
<1>2. k \in 1 .. n
  BY <1>1, PlaceType
<1> HIDE DEF k
<1>3. /\ \E i \in 1 .. n : Quantile(xs, num, den) = xs[i] /\ Enough(xs, k, xs[i])
      /\ \A i \in 1 .. n : Enough(xs, k, xs[i]) => Quantile(xs, num, den) <= xs[i]
  BY QuantileIs DEF k
<1>4. \E i \in 1 .. n : Quantile(ys, num, den) = ys[i] /\ Enough(ys, k, ys[i])
  <2>1. Len(ys) > 0
    OBVIOUS
  <2> QED
    BY <2>1, QuantileIs DEF k
<1>5. PICK i \in 1 .. n : Quantile(ys, num, den) = ys[i] /\ Enough(ys, k, ys[i])
  BY <1>4
<1> DEFINE v == ys[i]
           A == {j \in 1 .. n : ys[j] <= v}
           B == {j \in 1 .. n : xs[j] <= v + c}
<1>6. IsFiniteSet(1 .. n)
  BY <1>1, FS_Interval
<1>7. A \in SUBSET B /\ IsFiniteSet(B) /\ i \in A
  <2>1. B \in SUBSET (1 .. n)
    OBVIOUS
  <2>2. IsFiniteSet(B)
    BY <1>6, <2>1, FS_Subset
  <2> QED
    BY <1>1, <2>2
<1>8. k <= Cardinality(A)
  BY <1>1, <1>5 DEF Enough
<1>9. Cardinality(A) <= Cardinality(B) /\ IsFiniteSet(A)
  <2> HIDE DEF A, B
  <2> QED
    BY <1>7, FS_Subset
<1>10. PICK m \in B : \A j \in B : xs[j] <= xs[m]
  <2>1. B \in SUBSET (1 .. Len(xs)) /\ B # {}
    BY <1>7
  <2> HIDE DEF B
  <2> QED
    BY <2>1, LargestAt
<1> DEFINE D == {j \in DOMAIN xs : xs[j] <= xs[m]}
<1>11. B \in SUBSET D /\ D \in SUBSET (1 .. n) /\ m \in 1 .. n
  BY <1>1, <1>10
<1>12. IsFiniteSet(D) /\ Cardinality(B) <= Cardinality(D)
  <2> HIDE DEF B, D
  <2> QED
    BY <1>6, <1>11, FS_Subset
<1>13. Cardinality(A) \in Nat /\ Cardinality(B) \in Nat /\ Cardinality(D) \in Nat
  BY <1>7, <1>9, <1>12, FS_CardinalityType
<1>14. Enough(xs, k, xs[m])
  <2>1. k <= Cardinality(D)
    <3> HIDE DEF A, B, D
    <3> QED
      BY <1>2, <1>8, <1>9, <1>12, <1>13
  <2> QED
    BY <2>1 DEF Enough
<1>15. Quantile(xs, num, den) <= xs[m]
  BY <1>3, <1>11, <1>14
<1>16. xs[m] <= v + c /\ xs[m] \in Int /\ v \in Int
  BY <1>1, <1>10
<1>17. Quantile(xs, num, den) \in Int
  BY <1>1, <1>3
<1>18. Quantile(ys, num, den) = v
  BY <1>5
<1>19. ASSUME NEW a \in Int, NEW b \in Int, NEW w \in Int, a <= b, b <= w + c PROVE w >= a - c
  BY <1>19
<1> HIDE DEF v
<1> QED
  BY <1>15, <1>16, <1>17, <1>18, <1>19

-----------------------------------------------------------------------------
(* The chart, the summary and the simulation.                              *)

LEMMA CurveIs ==
  ASSUME NEW s, NEW q \in Nat, q > 0, NEW premium, NEW spot \in Nat, spot > 0
  PROVE  LET curve == BuildPayoffCurve(s, q, premium, spot, Permille, 1, 12)
         IN  /\ DOMAIN curve = 1 .. 13
             /\ \A i \in 1 .. 13 :
                  /\ curve[i].price \in Int
                  /\ curve[i].unhedged = Unhedged(q, curve[i].price)
                  /\ curve[i].hedged = Hedged(s, q, premium, curve[i].price)
<1> DEFINE curve == BuildPayoffCurve(s, q, premium, spot, Permille, 1, 12)
           from == (spot * (Permille - Permille)) \div Permille
           to   == (spot * (Permille + 1)) \div Permille
           At(i) == from + ((to - from) * i) \div 12
<1>1. Permille \in Nat /\ Permille > 0
  BY HedgeMathAssumption
<1>2. from \in Int /\ to \in Int
  <2>1. spot * (Permille - Permille) \in Int /\ spot * (Permille + 1) \in Int
    BY <1>1
  <2> QED
    BY <1>1, <2>1, IntDiv
<1>3. curve = [i \in 1 .. 12 + 1 |->
                 [price |-> At(i - 1), unhedged |-> Unhedged(q, At(i - 1)),
                  hedged |-> Hedged(s, q, premium, At(i - 1))]]
  BY DEF BuildPayoffCurve
<1> HIDE DEF from, to
<1>4. ASSUME NEW i \in 1 .. 13 PROVE At(i - 1) \in Int
  <2>1. (to - from) * (i - 1) \in Int /\ 12 \in Nat /\ 12 > 0
    BY <1>2
  <2> DEFINE z == (to - from) * (i - 1)
  <2> HIDE DEF z
  <2>2. z \div 12 \in Int
    BY <2>1, IntDiv DEF z
  <2> QED
    BY <1>2, <2>2 DEF z
<1> HIDE DEF At, curve
<1>5. 12 + 1 = 13
  OBVIOUS
<1>6. DOMAIN curve = 1 .. 13 /\ \A i \in 1 .. 13 :
        curve[i] = [price |-> At(i - 1), unhedged |-> Unhedged(q, At(i - 1)),
                    hedged |-> Hedged(s, q, premium, At(i - 1))]
  BY <1>3, <1>5
<1>7. ASSUME NEW i \in 1 .. 13
      PROVE  /\ curve[i].price \in Int
             /\ curve[i].unhedged = Unhedged(q, curve[i].price)
             /\ curve[i].hedged = Hedged(s, q, premium, curve[i].price)
  <2>1. curve[i].price = At(i - 1) /\ curve[i].unhedged = Unhedged(q, At(i - 1))
        /\ curve[i].hedged = Hedged(s, q, premium, At(i - 1))
    BY <1>6
  <2> QED
    BY <1>4, <2>1
<1> QED
  BY <1>6, <1>7 DEF curve

\* The summary's floor and top are those of the strip.
LEMMA SummaryIs ==
  ASSUME NEW s, NEW q \in Nat, NEW floor \in Nat, NEW top \in Nat, GoodStrip(s, q, floor, top),
         NEW premium \in Int
  PROVE  /\ SummarizeHedge(s, q, premium).top = top
         /\ SummarizeHedge(s, q, premium).maxProtected = SumQty(s)
         /\ SummarizeHedge(s, q, premium).flooredRevenue = q * floor + SumQty(s) - premium
<1> DEFINE n == Len(s)
           LO == {s[i].lower : i \in DOMAIN s}
           HI == {s[i].higher : i \in DOMAIN s}
           f == [i \in 1 .. n |-> s[i].lower]
           g == [i \in 1 .. n |-> s[i].higher]
           sum == SummarizeHedge(s, q, premium)
<1>1. /\ n \in Nat /\ n >= 1 /\ DOMAIN s = 1 .. n /\ s[1].lower = floor /\ s[n].higher = top
      /\ \A i \in 0 .. n : EdgeAt(s, floor, i) \in floor .. top
      /\ \A i \in 1 .. n : EdgeAt(s, floor, i) = s[i].higher /\ EdgeAt(s, floor, i - 1) = s[i].lower
  <2>1. s[1].lower = floor /\ s[n].higher = top
    BY DEF GoodStrip
  <2>2. n \in Nat /\ n >= 1 /\ DOMAIN s = 1 .. n
    BY Edges
  <2>3. \A i \in 0 .. n : EdgeAt(s, floor, i) \in floor .. top
    BY Edges
  <2>4. \A i \in 1 .. n : EdgeAt(s, floor, i) = s[i].higher /\ EdgeAt(s, floor, i - 1) = s[i].lower
    BY Edges
  <2> QED
    BY <2>1, <2>2, <2>3, <2>4
<1>2. \A i \in 1 .. n : s[i].lower \in floor .. top /\ s[i].higher \in floor .. top
  BY <1>1
<1>3. IsFiniteSet(1 .. n)
  BY <1>1, FS_Interval
<1>4. IsFiniteSet(LO) /\ IsFiniteSet(HI)
  <2>1. f \in Surjection(1 .. n, LO) /\ g \in Surjection(1 .. n, HI)
    BY <1>1 DEF Surjection
  <2> QED
    BY <1>3, <2>1, FS_Surjection
<1>5. LO \in SUBSET Int /\ HI \in SUBSET Int /\ floor \in LO /\ top \in HI
      /\ (\A x \in LO : floor <= x) /\ (\A x \in HI : x <= top)
  <2>1. 1 \in DOMAIN s /\ n \in DOMAIN s
    BY <1>1
  <2>2. LO \in SUBSET Int /\ HI \in SUBSET Int
    BY <1>1, <1>2
  <2>3. floor \in LO /\ top \in HI
    BY <1>1, <2>1
  <2>4. \A x \in LO : floor <= x
    BY <1>1, <1>2
  <2>5. \A x \in HI : x <= top
    BY <1>1, <1>2
  <2> QED
    BY <2>2, <2>3, <2>4, <2>5
<1>6. sum = [floor |-> Min(LO), top |-> Max(HI), maxProtected |-> SumQty(s),
             unhedgedAtFloor |-> q * Min(LO),
             flooredRevenue |-> q * Min(LO) + SumQty(s) - premium,
             breakEven |-> Max(HI) - CeilDiv(premium, q)]
  BY DEF SummarizeHedge
<1> HIDE DEF LO, HI, sum
<1>7. LO # {} /\ HI # {}
  BY <1>5
<1>8. Min(LO) \in LO /\ (\A x \in LO : Min(LO) <= x)
  BY <1>4, <1>5, <1>7, LeastOf
<1>9. Max(HI) \in HI /\ (\A x \in HI : x <= Max(HI))
  BY <1>4, <1>5, <1>7, LeastOf
<1>10. Min(LO) = floor
  <2>1. Min(LO) <= floor /\ floor <= Min(LO) /\ Min(LO) \in Int
    BY <1>5, <1>8
  <2> QED
    BY <2>1
<1>11. Max(HI) = top
  <2>1. Max(HI) <= top /\ top <= Max(HI) /\ Max(HI) \in Int
    BY <1>5, <1>9
  <2> QED
    BY <2>1
<1> QED
  BY <1>6, <1>10, <1>11 DEF sum

\* A point of the chart shows what its rung pays.
PointShows(s, premium, p, summary) ==
  LET rungs == Rungs(s, p.price)  marker == SpotIndex(s, p.price)
      live == {j \in DOMAIN rungs : rungs[j].live}
  IN  /\ Cardinality(live) <= 1
      /\ p.hedged - p.unhedged + premium =
           SumOver(live, [j \in live |-> rungs[j].qty])
      /\ p.hedged - p.unhedged + premium <= summary.maxProtected
      /\ p.price >= summary.top => p.hedged >= summary.flooredRevenue
      /\ \A j \in DOMAIN rungs :
           j >= marker <=> rungs[j].higher <= p.price

LEMMA EveryPointShows ==
  ASSUME NEW s, NEW q \in Nat, NEW floor \in Nat, NEW top \in Nat, GoodStrip(s, q, floor, top),
         NEW premium \in Int, NEW p, p.price \in Int, p.unhedged = Unhedged(q, p.price),
         p.hedged = Hedged(s, q, premium, p.price)
  PROVE  PointShows(s, premium, p, SummarizeHedge(s, q, premium))
<1> DEFINE x == p.price
           pay == Payoff(s, x)
           summary == SummarizeHedge(s, q, premium)
           L == Live(s, x)
<1>1. pay \in Nat /\ pay <= SumQty(s) /\ SumQty(s) = q * (top - floor) /\ SumQty(s) \in Nat
  BY PayoffBounds, GoodSum
<1>2. summary.top = top /\ summary.maxProtected = SumQty(s)
      /\ summary.flooredRevenue = q * floor + SumQty(s) - premium
  BY SummaryIs
<1>3. p.unhedged = q * x /\ p.hedged = q * x + pay - premium /\ q * x \in Int
  BY DEF Unhedged, Hedged
<1> HIDE DEF pay, summary
<1>4. p.hedged - p.unhedged + premium = pay
  BY <1>1, <1>3
<1>5. Cardinality(L) <= 1 /\ pay = SumOver(L, [j \in L |-> Rungs(s, x)[j].qty])
  BY LiveRung DEF pay
<1>6. x >= summary.top => p.hedged >= summary.flooredRevenue
  <2> SUFFICES ASSUME x >= top PROVE p.hedged >= q * floor + SumQty(s) - premium
    BY <1>2
  <2>1. pay = 0
    BY PayoffAbove DEF pay
  <2>2. q * top <= q * x /\ q * top \in Int /\ q * floor \in Int
    <3>1. x \in Nat
      OBVIOUS
    <3> QED
      BY <3>1, ProductMonotone
  <2>3. q * floor + q * (top - floor) = q * top
    OBVIOUS
  <2>4. q * floor + SumQty(s) = q * top
    BY <1>1, <2>3
  <2> DEFINE a == q * x
             b == q * top
             c == q * floor + SumQty(s)
  <2>5. p.hedged = a + 0 - premium /\ a \in Int /\ b \in Int /\ b <= a /\ c = b
    BY <1>3, <2>1, <2>2, <2>4
  <2> HIDE DEF a, b, c
  <2>6. p.hedged >= c - premium
    BY <2>5
  <2>7. (q * floor + SumQty(s)) - premium = q * floor + SumQty(s) - premium
    BY <1>1, <2>2
  <2> QED
    BY <2>6, <2>7 DEF c
<1>7. ASSUME NEW j \in DOMAIN Rungs(s, x)
      PROVE  j >= SpotIndex(s, x) <=> Rungs(s, x)[j].higher <= x
  <2>1. j \in 1 .. Len(s)
    BY RungsAre
  <2> QED
    BY <2>1, SpotIndexIs
<1>8. p.hedged - p.unhedged + premium <= summary.maxProtected
  BY <1>1, <1>2, <1>4
<1>9. p.hedged - p.unhedged + premium = SumOver(L, [j \in L |-> Rungs(s, x)[j].qty])
  BY <1>4, <1>5
<1>10. L = {j \in DOMAIN Rungs(s, x) : Rungs(s, x)[j].live}
  BY DEF Live
<1> QED
  BY <1>5, <1>6, <1>7, <1>8, <1>9, <1>10, Zenon DEF PointShows, summary

\* Every view of a strip shows one payoff.
OnePayoff(s, q, premium, spot) ==
  LET curve   == BuildPayoffCurve(s, q, premium, spot, Permille, 1, 12)
      summary == SummarizeHedge(s, q, premium)
      sim     == SimulateHedgePnl(s, q, premium, [i \in DOMAIN curve |-> curve[i].price])
  IN  /\ \A i \in DOMAIN curve : PointShows(s, premium, curve[i], summary)
      /\ sim.hedgedP05 >= sim.unhedgedP05 - premium
      /\ sim.hedgedP50 >= sim.unhedgedP50 - premium
      /\ sim.hedgedP95 >= sim.unhedgedP95 - premium

LEMMA ViewsAgree ==
  ASSUME NEW s, NEW q \in Nat, q > 0, NEW floor \in Nat, NEW top \in Nat, GoodStrip(s, q, floor, top),
         NEW premium \in Nat, NEW spot \in Nat, spot > 0
  PROVE  OnePayoff(s, q, premium, spot)
<1> DEFINE curve == BuildPayoffCurve(s, q, premium, spot, Permille, 1, 12)
           summary == SummarizeHedge(s, q, premium)
           samples == [i \in DOMAIN curve |-> curve[i].price]
           sim     == SimulateHedgePnl(s, q, premium, samples)
           xs == [i \in DOMAIN samples |-> Unhedged(q, samples[i])]
           ys == [i \in DOMAIN samples |-> Hedged(s, q, premium, samples[i])]
<1>1. /\ DOMAIN curve = 1 .. 13
      /\ \A i \in 1 .. 13 :
           /\ curve[i].price \in Int
           /\ curve[i].unhedged = Unhedged(q, curve[i].price)
           /\ curve[i].hedged = Hedged(s, q, premium, curve[i].price)
  BY CurveIs
<1> HIDE DEF curve
<1>2. ASSUME NEW i \in DOMAIN curve PROVE PointShows(s, premium, curve[i], summary)
  <2>1. /\ curve[i].price \in Int
        /\ curve[i].unhedged = Unhedged(q, curve[i].price)
        /\ curve[i].hedged = Hedged(s, q, premium, curve[i].price)
    BY <1>1
  <2> QED
    BY <2>1, EveryPointShows
<1>3. DOMAIN samples = 1 .. 13 /\ \A i \in 1 .. 13 : samples[i] \in Int
  BY <1>1
<1>4. sim = [unhedged |-> xs, hedged |-> ys,
       unhedgedP05 |-> Quantile(xs, 5, 100), hedgedP05 |-> Quantile(ys, 5, 100),
       unhedgedP50 |-> Quantile(xs, 50, 100), hedgedP50 |-> Quantile(ys, 50, 100),
       unhedgedP95 |-> Quantile(xs, 95, 100), hedgedP95 |-> Quantile(ys, 95, 100)]
  BY DEF SimulateHedgePnl
<1> HIDE DEF samples, sim
<1>5. ASSUME NEW i \in 1 .. 13
      PROVE  xs[i] \in Int /\ ys[i] \in Int /\ ys[i] >= xs[i] - premium
  <2> DEFINE x == samples[i]
  <2>1. xs[i] = q * x /\ ys[i] = q * x + Payoff(s, x) - premium
    BY <1>3 DEF Unhedged, Hedged
  <2>2. x \in Int /\ Payoff(s, x) \in Nat
    BY <1>3, PayoffBounds
  <2> DEFINE a == q * x
             b == Payoff(s, x)
  <2>3. a \in Int /\ b \in Nat /\ xs[i] = a /\ ys[i] = a + b - premium
    BY <2>1, <2>2
  <2> HIDE DEF a, b, x, xs, ys
  <2> QED
    BY <2>3
<1>6. /\ xs \in Seq(Int) /\ ys \in Seq(Int) /\ Len(xs) = 13 /\ Len(ys) = 13
  <2>1. xs \in [1 .. 13 -> Int] /\ ys \in [1 .. 13 -> Int]
    BY <1>3, <1>5
  <2> HIDE DEF xs, ys
  <2>2. 13 \in Nat
    OBVIOUS
  <2>3. [1 .. 13 -> Int] \in {[1 .. n -> Int] : n \in Nat}
    BY <2>2
  <2>4. Seq(Int) = UNION {[1 .. n -> Int] : n \in Nat}
    BY SeqDef
  <2>5. xs \in Seq(Int) /\ ys \in Seq(Int)
    BY <2>1, <2>3, <2>4, Zenon
  <2> QED
    BY <2>1, <2>2, <2>5, LenProperties
<1> HIDE DEF xs, ys
<1>7. ASSUME NEW num \in Nat PROVE Quantile(ys, num, 100) >= Quantile(xs, num, 100) - premium
  <2>1. Len(xs) > 0 /\ Len(ys) = Len(xs) /\ 100 \in Nat /\ 100 > 0 /\ premium \in Int
    BY <1>6
  <2>2. \A i \in 1 .. Len(xs) : ys[i] >= xs[i] - premium
    BY <1>5, <1>6
  <2> QED
    BY <1>6, <2>1, <2>2, QuantileFalls
<1>8. /\ sim.hedgedP05 >= sim.unhedgedP05 - premium
      /\ sim.hedgedP50 >= sim.unhedgedP50 - premium
      /\ sim.hedgedP95 >= sim.unhedgedP95 - premium
  BY <1>4, <1>7
<1> QED
  BY <1>2, <1>8, Zenon DEF OnePayoff, sim, samples, curve

-----------------------------------------------------------------------------
(* What the page shows.                                                    *)

MarketsKnown ==
  \A m, n \in DOMAIN Markets :
    /\ Markets[n].spot \in Nat
    /\ \A k \in 0 .. Markets[n].spot : /\ k \in DOMAIN Markets[m].above
                                       /\ Markets[m].above[k] \in 0 .. Certain

LEMMA DeskConstants ==
  /\ MarketsKnown /\ Tick \in Nat /\ Tick > 0 /\ Rate \in Nat /\ Rate > 0 /\ MinStrike \in Nat
  /\ Purse \in Nat /\ Buffer \in Nat /\ Certain \in Nat /\ Certain > 0
  /\ DefaultBand \in Bands /\ SuggestedBand \in Bands
  /\ IsFiniteSet(Oracles) /\ Oracles = 1 .. Cardinality(Oracles)
<1>1. MarketsKnown
  BY HedgeDeskAssumption DEF MarketsKnown
<1>2. Certain \in Nat /\ Certain > 0
  BY HedgeMathAssumption
<1>3. /\ Tick \in Nat /\ Tick > 0 /\ Rate \in Nat /\ Rate > 0 /\ MinStrike \in Nat
      /\ Purse \in Nat /\ Buffer \in Nat
  BY HedgeDeskAssumption
<1>4. /\ DefaultBand \in Bands /\ SuggestedBand \in Bands
      /\ IsFiniteSet(Oracles) /\ Oracles = 1 .. Cardinality(Oracles)
  BY HedgeDeskAssumption
<1> QED
  BY <1>1, <1>2, <1>3, <1>4

LEMMA BandType == ASSUME NEW b \in Bands PROVE b.lo \in Int /\ b.hi \in Int
<1>1. b \in [lo : Int, hi : Int]
  BY HedgeDeskAssumption
<1> QED
  BY <1>1

\* A priceable strip has a price at every quote.
LEMMA KnownEverywhere ==
  ASSUME NEW strip, Priceable(strip), NEW m \in DOMAIN Markets
  PROVE  strip \in Seq(HedgeRange) /\ Known(strip, Markets[m].above)
<1>1. strip \in Seq(HedgeRange)
  BY DEF Priceable
<1>2. PICK n \in DOMAIN Markets : \A i \in DOMAIN strip : /\ strip[i].lower <= Markets[n].spot
                                                          /\ strip[i].higher <= Markets[n].spot
  BY DEF Priceable
<1>3. Markets[n].spot \in Nat /\ \A k \in 0 .. Markets[n].spot : Markets[m].above[k] \in 0 .. Certain
  BY DeskConstants DEF MarketsKnown
<1>4. ASSUME NEW i \in DOMAIN strip
      PROVE  Markets[m].above[strip[i].lower] \in 0 .. Certain /\ Markets[m].above[strip[i].higher] \in 0 .. Certain
  <2>1. strip[i] \in HedgeRange
    BY <1>1, LenProperties, ElementOfSeq
  <2>2. strip[i].lower \in Nat /\ strip[i].higher \in Nat
    BY <2>1 DEF HedgeRange
  <2>3. strip[i].lower \in 0 .. Markets[n].spot /\ strip[i].higher \in 0 .. Markets[n].spot
    BY <1>2, <1>3, <2>2
  <2> QED
    BY <1>3, <2>3
<1> QED
  BY <1>1, <1>4 DEF Known

ShownFloor == FloorRaw(ShownMarket.spot, desk.band.hi, Tick, MinStrike)
ShownTop == TopRaw(ShownMarket.spot, desk.band.lo, Tick)

LEMMA ShownStrip ==
  ASSUME ShownInv, Strip # << >>
  PROVE  /\ desk.state # NoState /\ desk.state.quote \in DOMAIN Markets /\ desk.state.id \in Oracles
         /\ desk.q \in Nat /\ desk.q > 0 /\ ShownMarket.spot \in Nat /\ ShownMarket.spot > 0
         /\ GoodStrip(Strip, desk.q, ShownFloor, ShownTop) /\ Len(Strip) <= 2 * TargetBins
         /\ ShownFloor \in Nat /\ ShownTop \in Nat /\ ShownFloor >= MinStrike
         /\ ShownFloor < ShownTop /\ ShownTop <= ShownMarket.spot
         /\ Priceable(Strip) /\ Premium \in Nat
<1>1. desk.state # NoState /\ Strip = BuildHedgeStrip(desk.q, ShownMarket.spot, desk.band.lo, desk.band.hi, Tick, MinStrike)
  BY DEF Strip
<1>2. desk.state \in [id : Oracles, expiry : Nat, quote : DOMAIN Markets] /\ desk.q \in Nat /\ desk.band \in Bands
  BY <1>1 DEF ShownInv
<1>3. desk.state.quote \in DOMAIN Markets /\ desk.state.id \in Oracles
  BY <1>2
<1>4. ShownMarket.spot \in Nat
  BY <1>3, DeskConstants DEF MarketsKnown, ShownMarket
<1>5. desk.band.lo \in Int /\ desk.band.hi \in Int
  BY <1>2, BandType
<1>6. Tick \in Nat /\ Tick > 0 /\ MinStrike \in Nat
  BY DeskConstants
<1> DEFINE q == desk.q
           spot == ShownMarket.spot
           lo == desk.band.lo
           hi == desk.band.hi
           s == Strip
<1>7. s = BuildHedgeStrip(q, spot, lo, hi, Tick, MinStrike) /\ s # << >>
  BY <1>1
<1>8. ShownFloor = FloorRaw(spot, hi, Tick, MinStrike) /\ ShownTop = TopRaw(spot, lo, Tick)
  BY DEF ShownFloor, ShownTop
<1>9. q \in Nat /\ spot \in Nat /\ lo \in Int /\ hi \in Int
  BY <1>2, <1>4, <1>5
<1> HIDE DEF q, spot, lo, hi, s
<1>10. /\ GoodStrip(s, q, ShownFloor, ShownTop) /\ Len(s) <= 2 * TargetBins
       /\ q > 0 /\ spot > 0 /\ ShownFloor >= MinStrike /\ ShownFloor \in Nat /\ ShownTop \in Nat
       /\ ShownFloor < ShownTop /\ ShownTop <= spot
  BY <1>6, <1>7, <1>8, <1>9, StripIsGood
<1>11. Priceable(s)
  <2>1. s \in Seq(HedgeRange)
    BY <1>10 DEF GoodStrip
  <2>2. DOMAIN s = 1 .. Len(s)
    BY <2>1, LenProperties
  <2>3. ASSUME NEW i \in DOMAIN s PROVE s[i].lower <= spot /\ s[i].higher <= spot
    <3>1. i \in 1 .. Len(s) /\ i \in 0 .. Len(s) /\ i - 1 \in 0 .. Len(s)
      BY <2>1, <2>2, LenProperties
    <3>2. \A k \in 0 .. Len(s) : EdgeAt(s, ShownFloor, k) \in ShownFloor .. ShownTop
      BY <1>10, Edges
    <3>3. EdgeAt(s, ShownFloor, i) = s[i].higher /\ EdgeAt(s, ShownFloor, i - 1) = s[i].lower
      BY <1>10, <3>1, Edges
    <3>4. s[i].higher \in ShownFloor .. ShownTop /\ s[i].lower \in ShownFloor .. ShownTop
      BY <3>1, <3>2, <3>3
    <3> QED
      BY <1>9, <1>10, <3>4
  <2>4. spot = Markets[desk.state.quote].spot
    BY DEF spot, ShownMarket
  <2> QED
    BY <1>3, <2>1, <2>3, <2>4 DEF Priceable
<1>12. Premium \in Nat
  <2>1. s \in Seq(HedgeRange) /\ Known(s, ShownMarket.above)
    BY <1>3, <1>11, KnownEverywhere DEF ShownMarket
  <2> QED
    BY <2>1, StripPriceType DEF Premium, s
<1> QED
  BY <1>1, <1>3, <1>9, <1>10, <1>11, <1>12 DEF q, spot, s

LEMMA StripIsCovering == ShownInv => StripCoversTheBand
<1> SUFFICES ASSUME ShownInv, Strip # << >> PROVE StripCoversTheBand
  BY Zenon DEF StripCoversTheBand
<1> DEFINE s == Strip
           q == desk.q
           spot == ShownMarket.spot
<1>1. /\ GoodStrip(s, q, ShownFloor, ShownTop) /\ Len(s) <= 2 * TargetBins
      /\ ShownFloor \in Nat /\ ShownTop \in Nat /\ ShownFloor >= MinStrike
      /\ ShownTop <= spot /\ q \in Nat
  BY ShownStrip
<1>2. /\ s[1].lower = ShownFloor /\ s[Len(s)].higher = ShownTop
      /\ \A i \in 1 .. Len(s) : s[i].lower < s[i].higher
      /\ \A i \in 2 .. Len(s) : s[i].lower = s[i - 1].higher
      /\ DOMAIN s = 1 .. Len(s)
  BY <1>1, Edges DEF GoodStrip
<1>3. SumQty(s) = q * (ShownTop - ShownFloor)
  BY <1>1, GoodSum
<1> HIDE DEF s, q
<1> QED
  BY <1>1, <1>2, <1>3 DEF StripCoversTheBand, ShownFloor, ShownTop, s, q

LEMMA PremiumBound == ShownInv => PremiumIsBounded
<1> SUFFICES ASSUME ShownInv, Strip # << >> PROVE PremiumIsBounded
  BY Zenon DEF PremiumIsBounded
<1> DEFINE s == Strip
           q == desk.q
           above == ShownMarket.above
           fl == ShownFloor
           tp == ShownTop
<1>1. /\ GoodStrip(s, q, fl, tp) /\ fl \in Nat /\ tp \in Nat
      /\ tp <= ShownMarket.spot /\ q \in Nat /\ ShownMarket.spot \in Nat
      /\ Premium \in Nat /\ desk.state.quote \in DOMAIN Markets
  BY ShownStrip
<1>2. \A k \in 0 .. ShownMarket.spot : k \in DOMAIN above /\ above[k] \in 0 .. Certain
  BY <1>1, DeskConstants DEF MarketsKnown, ShownMarket
<1>3. Premium = PriceStripFromSvi(s, above)
  BY DEF Premium
<1> HIDE DEF s, q, above, fl, tp
<1>4. ASSUME \A k \in DOMAIN above : k > 0 => above[k] <= above[k - 1]
      PROVE  Premium <= Certain * Max({s[i].qty : i \in DOMAIN s})
  <2>1. Surface(above, fl, tp)
    BY <1>1, <1>2 DEF Surface
  <2>2. Falls(above, fl, tp)
    <3>1. ASSUME NEW k \in fl + 1 .. tp PROVE above[k] <= above[k - 1]
      <4>1. k \in 0 .. ShownMarket.spot /\ k > 0
        BY <1>1
      <4>2. k \in DOMAIN above
        BY <1>2, <4>1
      <4> QED
        BY <1>4, <4>1, <4>2
    <3> QED
      BY <3>1 DEF Falls
  <2> QED
    BY <1>1, <1>3, <2>1, <2>2, GoodPremium
<1>5. Premium >= 0
  BY <1>1
<1> QED
  BY <1>4, <1>5, Zenon DEF PremiumIsBounded, above, s

LEMMA OnePayoffShown == ShownInv => ViewsShowOnePayoff
<1> SUFFICES ASSUME ShownInv, Strip # << >> PROVE ViewsShowOnePayoff
  BY Zenon DEF ViewsShowOnePayoff
<1>1. /\ GoodStrip(Strip, desk.q, ShownFloor, ShownTop) /\ ShownFloor \in Nat /\ ShownTop \in Nat
      /\ desk.q \in Nat /\ desk.q > 0 /\ ShownMarket.spot \in Nat /\ ShownMarket.spot > 0
      /\ Premium \in Nat
  BY ShownStrip
<1>2. CeilDiv(Premium, Certain) \in Nat
  BY <1>1, DeskConstants, CeilFacts
<1>3. OnePayoff(Strip, desk.q, CeilDiv(Premium, Certain), ShownMarket.spot)
  BY <1>1, <1>2, ViewsAgree
<1> QED
  BY <1>3, Zenon DEF OnePayoff, PointShows, ViewsShowOnePayoff

-----------------------------------------------------------------------------
(* The managers, the oracles and the transactions in flight.               *)

ManagerType == [held : Nat, ranges : Seq(HedgeRange)]

LEMMA HeldSum ==
  ASSUME NEW ms \in Seq(ManagerType)
  PROVE  /\ Len(ms) \in Nat /\ DOMAIN ms = 1 .. Len(ms) /\ IsFiniteSet(DOMAIN ms)
         /\ \A i \in 1 .. Len(ms) : ms[i] \in ManagerType /\ ms[i].held \in Nat
         /\ InManagers(ms) \in Nat
<1> DEFINE f == [i \in DOMAIN ms |-> ms[i].held]
<1>1. Len(ms) \in Nat /\ DOMAIN ms = 1 .. Len(ms)
  BY LenProperties
<1>2. IsFiniteSet(DOMAIN ms)
  BY <1>1, FS_Interval
<1>3. \A i \in 1 .. Len(ms) : ms[i] \in ManagerType
  BY ElementOfSeq
<1>4. \A i \in 1 .. Len(ms) : ms[i].held \in Nat
  BY <1>3 DEF ManagerType
<1>5. \A i \in DOMAIN ms : f[i] \in Nat
  BY <1>1, <1>4
<1>6. InManagers(ms) = SumOver(DOMAIN ms, f)
  BY DEF InManagers
<1> HIDE DEF f
<1>7. InManagers(ms) \in Nat
  BY <1>2, <1>5, <1>6, UnitsFinite
<1> QED
  BY <1>1, <1>2, <1>3, <1>4, <1>7

LEMMA ManagerAdded ==
  ASSUME NEW ms \in Seq(ManagerType), NEW m \in ManagerType
  PROVE  /\ Append(ms, m) \in Seq(ManagerType) /\ Len(Append(ms, m)) = Len(ms) + 1
         /\ InManagers(Append(ms, m)) = InManagers(ms) + m.held
<1> DEFINE ns == Append(ms, m)
           n == Len(ms)
           f == [i \in DOMAIN ms |-> ms[i].held]
           g == [i \in DOMAIN ns |-> ns[i].held]
<1>1. /\ n \in Nat /\ DOMAIN ms = 1 .. n /\ IsFiniteSet(1 .. n)
      /\ \A i \in 1 .. n : ms[i].held \in Nat
  BY HeldSum
<1>2. /\ ns \in Seq(ManagerType) /\ Len(ns) = n + 1 /\ ns[n + 1] = m
      /\ \A i \in 1 .. n : ns[i] = ms[i]
  BY AppendProperties
<1>3. DOMAIN ns = 1 .. n + 1 /\ m.held \in Nat
  BY <1>2, LenProperties DEF ManagerType
<1> HIDE DEF ns
<1>4. /\ (\A z \in 1 .. n : f[z] \in Nat /\ g[z] = f[z]) /\ g[n + 1] = m.held /\ g[n + 1] \in Nat
      /\ n + 1 \notin 1 .. n /\ 1 .. n + 1 = (1 .. n) \cup {n + 1}
  BY <1>1, <1>2, <1>3
<1>5. InManagers(ms) = SumOver(1 .. n, f) /\ InManagers(ns) = SumOver((1 .. n) \cup {n + 1}, g)
  <2>1. InManagers(ms) = SumOver(1 .. n, f)
    BY <1>1 DEF InManagers
  <2>2. InManagers(ns) = SumOver(1 .. n + 1, g)
    BY <1>3 DEF InManagers
  <2> HIDE DEF f, g
  <2> QED
    BY <1>4, <2>1, <2>2
<1> HIDE DEF f, g, n
<1>6. SumOver((1 .. n) \cup {n + 1}, g) = SumOver(1 .. n, f) + g[n + 1]
  <2> DEFINE S == 1 .. n
             y == n + 1
  <2>1. IsFiniteSet(S) /\ y \notin S /\ (\A z \in S : f[z] \in Nat /\ g[z] = f[z]) /\ g[y] \in Nat
    BY <1>1, <1>4
  <2> HIDE DEF S, y
  <2>2. SumOver(S \cup {y}, g) = SumOver(S, f) + g[y]
    BY <2>1, SumInsert
  <2> QED
    BY <2>2 DEF S, y
<1> QED
  BY <1>2, <1>4, <1>5, <1>6 DEF ns, n

LEMMA ManagerChanged ==
  ASSUME NEW ms \in Seq(ManagerType), NEW j \in 1 .. Len(ms), NEW m \in ManagerType
  PROVE  LET ns == [ms EXCEPT ![j] = m]
         IN  /\ ns \in Seq(ManagerType) /\ Len(ns) = Len(ms)
             /\ InManagers(ns) \in Nat /\ InManagers(ns) + ms[j].held = InManagers(ms) + m.held
<1> DEFINE ns == [ms EXCEPT ![j] = m]
           n == Len(ms)
           f == [i \in DOMAIN ms |-> ms[i].held]
           g == [i \in DOMAIN ns |-> ns[i].held]
<1>1. /\ n \in Nat /\ DOMAIN ms = 1 .. n /\ IsFiniteSet(1 .. n)
      /\ \A i \in 1 .. n : ms[i].held \in Nat
  BY HeldSum
<1>2. /\ ns \in Seq(ManagerType) /\ Len(ns) = n /\ ns[j] = m
      /\ \A i \in 1 .. n : i # j => ns[i] = ms[i]
  BY <1>1, ExceptSeq
<1>3. DOMAIN ns = 1 .. n /\ m.held \in Nat
  BY <1>1 DEF ManagerType
<1> HIDE DEF ns
<1>4. /\ (\A z \in 1 .. n : f[z] \in Nat) /\ (\A z \in (1 .. n) \ {j} : g[z] = f[z])
      /\ g[j] = m.held /\ g[j] \in Nat /\ f[j] = ms[j].held
  BY <1>1, <1>2, <1>3
<1>5. InManagers(ms) = SumOver(1 .. n, f) /\ InManagers(ns) = SumOver(1 .. n, g)
  BY <1>1, <1>3 DEF InManagers
<1> HIDE DEF f, g
<1>6. /\ SumOver(1 .. n, g) \in Nat
      /\ SumOver(1 .. n, g) + f[j] = SumOver(1 .. n, f) + g[j]
  <2> DEFINE S == 1 .. n
  <2>1. PICK x : x = j
    OBVIOUS
  <2>2. /\ IsFiniteSet(S) /\ x \in S /\ (\A z \in S : f[z] \in Nat)
        /\ (\A z \in S \ {x} : g[z] = f[z]) /\ g[x] \in Nat
    BY <1>1, <1>4, <2>1
  <2> HIDE DEF S
  <2>3. SumOver(S, g) \in Nat /\ SumOver(S, g) + f[x] = SumOver(S, f) + g[x]
    BY <2>2, SumUpdate
  <2> QED
    BY <2>1, <2>3 DEF S
<1> QED
  BY <1>2, <1>4, <1>5, <1>6 DEF ns, n

\* The list of oracles has the ones that have not expired.
LEMMA ListIs ==
  ASSUME world.now \in Nat
  PROVE  /\ FilterActiveBtcOracles \in Seq(Oracles)
         /\ \A n \in 1 .. Len(FilterActiveBtcOracles) : FilterActiveBtcOracles[n] > world.now
<1> DEFINE N == Cardinality(Oracles)
           now == world.now
           active == {o \in Oracles : ActiveOracle(o)}
           Sooner(o) == {p \in active : Expiry(p) < Expiry(o)}
           pick(n) == CHOOSE o \in active : Cardinality(Sooner(o)) = n - 1
           list == [n \in 1 .. Cardinality(active) |-> pick(n)]
<1>1. N \in Nat /\ Oracles = 1 .. N
  BY DeskConstants, FS_CardinalityType
<1>2. FilterActiveBtcOracles = list
  BY DEF FilterActiveBtcOracles
<1>3. active = now + 1 .. N
  BY <1>1 DEF ActiveOracle, Expiry
<1>4. Cardinality(active) = IF now + 1 > N THEN 0 ELSE N - (now + 1) + 1
  <2>1. now + 1 \in Int /\ N \in Int
    BY <1>1
  <2> HIDE DEF N, now, active
  <2> QED
    BY <1>3, <2>1, FS_Interval
<1>5. ASSUME NEW o \in active PROVE Cardinality(Sooner(o)) = o - now - 1
  <2>1. o \in now + 1 .. N /\ o \in Int
    BY <1>1, <1>3
  <2>2. Sooner(o) = now + 1 .. o - 1
    <3> HIDE DEF active
    <3> QED
      BY <1>1, <1>3, <2>1 DEF Expiry
  <2>3. now + 1 \in Int /\ o - 1 \in Int /\ now \in Nat
    BY <2>1
  <2>4. Cardinality(now + 1 .. o - 1) = IF now + 1 > o - 1 THEN 0 ELSE (o - 1) - (now + 1) + 1
    BY <2>3, FS_Interval
  <2>5. Cardinality(Sooner(o)) = IF now + 1 > o - 1 THEN 0 ELSE (o - 1) - (now + 1) + 1
    BY <2>2, <2>4
  <2>6. o \in Int /\ now \in Int /\ now + 1 <= o
    BY <1>1, <2>1, <2>3
  <2> HIDE DEF active, now, Sooner
  <2> QED
    BY <2>5, <2>6
<1>6. ASSUME NEW n \in 1 .. Cardinality(active) PROVE pick(n) \in active
  <2>1. now + n \in active /\ (now + n) - now - 1 = n - 1
    <3> HIDE DEF active
    <3> QED
      BY <1>1, <1>3, <1>4
  <2>2. Cardinality(Sooner(now + n)) = n - 1
    BY <1>5, <2>1
  <2> HIDE DEF active, Sooner, now
  <2> QED
    BY <2>1, <2>2
<1>7. Cardinality(active) \in Nat
  BY <1>1, <1>4
<1>8. ASSUME NEW o \in active PROVE o \in Oracles /\ o > now
  BY <1>8, <1>1, <1>3
<1> HIDE DEF pick, active, now
<1>9. list \in Seq(Oracles)
  BY <1>6, <1>7, <1>8
<1>10. Len(list) = Cardinality(active)
  BY <1>6, <1>7, <1>8
<1>11. \A n \in 1 .. Len(list) : list[n] > now
  BY <1>6, <1>8, <1>10
<1> QED
  BY <1>2, <1>9, <1>11 DEF now

LEMMA Taken ==
  ASSUME NEW J, NEW s \in Seq(J), NEW k \in DOMAIN s
  PROVE  /\ s[k] \in J /\ RemoveAt(s, k) \in Seq(J)
         /\ \A i \in DOMAIN RemoveAt(s, k) : \E l \in DOMAIN s : RemoveAt(s, k)[i] = s[l]
<1> DEFINE r == RemoveAt(s, k)
<1>1. Len(s) \in Nat /\ DOMAIN s = 1 .. Len(s) /\ k \in 1 .. Len(s)
  BY LenProperties
<1>2. /\ r \in Seq(J) /\ Len(r) = Len(s) - 1
      /\ \A i \in 1 .. Len(r) : r[i] = IF i < k THEN s[i] ELSE s[i + 1]
  BY <1>1, WithoutElement DEF RemoveAt
<1> HIDE DEF r
<1>3. ASSUME NEW i \in DOMAIN r PROVE \E l \in DOMAIN s : r[i] = s[l]
  <2>1. i \in 1 .. Len(r)
    BY <1>2, LenProperties
  <2>2. i \in DOMAIN s /\ i + 1 \in DOMAIN s
    BY <1>1, <1>2, <2>1
  <2> QED
    BY <1>2, <2>1, <2>2
<1>4. s[k] \in J
  BY <1>1, ElementOfSeq
<1> QED
  BY <1>2, <1>3, <1>4 DEF r

-----------------------------------------------------------------------------
(* The inductive invariant.                                                *)

DeskType ==
  [list : Seq(Oracles), state : [id : Oracles, expiry : Nat, quote : DOMAIN Markets] \cup {NoState},
   q : Nat, band : Bands, manager : Nat, ranges : Seq(HedgeRange), balance : Nat,
   last : {"none", "ok", "err"}]

LEMMA WorldIs ==
  ASSUME WorldInv
  PROVE  /\ world.now \in Nat /\ world.market \in [Oracles -> DOMAIN Markets]
         /\ world.managers \in Seq(ManagerType) /\ world.indexed \in Nat
         /\ world.purse \in Nat /\ world.paid \in Nat /\ world.placed \in Nat
         /\ world.indexed <= Len(world.managers) /\ Len(world.managers) \in Nat
<1>1. world.managers \in Seq(ManagerType)
  BY DEF WorldInv, ManagerType
<1>2. Len(world.managers) \in Nat
  BY <1>1, LenProperties
<1> QED
  BY <1>1, <1>2 DEF WorldInv

LEMMA OracleType == \A o \in Oracles : o \in Nat /\ o > 0
<1>1. Oracles = 1 .. Cardinality(Oracles) /\ Cardinality(Oracles) \in Nat
  BY DeskConstants, FS_CardinalityType
<1>2. ASSUME NEW n \in Nat PROVE \A o \in 1 .. n : o \in Nat /\ o > 0
  OBVIOUS
<1> QED
  BY <1>1, <1>2

LEMMA FirstOf ==
  ASSUME NEW list \in Seq(Oracles)
  PROVE  /\ list # << >> => First(list) = list[1] /\ First(list) \in Oracles /\ 1 \in 1 .. Len(list)
         /\ First(list) # 0 => First(list) \in Oracles
         /\ 0 \notin Oracles
<1>1. 0 \notin Oracles
  <2>1. Oracles = 1 .. Cardinality(Oracles)
    BY DeskConstants
  <2>2. 0 \notin 1 .. Cardinality(Oracles)
    OBVIOUS
  <2> QED
    BY <2>1, <2>2
<1>2. ASSUME list # << >> PROVE First(list) = list[1] /\ First(list) \in Oracles /\ 1 \in 1 .. Len(list)
  <2>1. Len(list) \in Nat /\ Len(list) # 0
    BY <1>2, LenProperties, EmptySeq
  <2>2. 1 \in 1 .. Len(list)
    BY <2>1
  <2> QED
    BY <1>2, <2>2, ElementOfSeq DEF First
<1>3. list = << >> => First(list) = 0
  BY DEF First
<1> QED
  BY <1>1, <1>2, <1>3

LEMMA HedgeInitOK == HedgeInit => HedgeDeskInv
<1> SUFFICES ASSUME HedgeInit PROVE HedgeDeskInv
  OBVIOUS
<1>1. PICK m \in [Oracles -> DOMAIN Markets] :
        world = [now |-> 0, market |-> m, managers |-> << >>, indexed |-> 0, purse |-> Purse,
                 paid |-> 0, placed |-> 0]
  BY DEF HedgeInit
<1>2. /\ desk = [list |-> << >>, state |-> NoState, q |-> 0, band |-> DefaultBand, manager |-> 0,
                 ranges |-> << >>, balance |-> 0, last |-> "none"]
      /\ sent = << >>
  BY DEF HedgeInit
<1>3. Purse \in Nat /\ DefaultBand \in Bands
  BY DeskConstants
<1>4. /\ << >> \in Seq(ManagerType) /\ << >> \in Seq(HedgeRange) /\ << >> \in Seq(Oracles)
      /\ Len(<< >>) = 0
  OBVIOUS
<1>5. WorldInv
  <2>1. world \in [now : Nat, market : [Oracles -> DOMAIN Markets],
                   managers : Seq(ManagerType), indexed : Nat, purse : Nat, paid : Nat, placed : Nat]
    BY <1>1, <1>3, <1>4
  <2> QED
    BY <1>1, <1>4, <2>1 DEF WorldInv, ManagerType
<1>6. ShownInv
  <2>1. desk \in DeskType
    BY <1>2, <1>3, <1>4 DEF DeskType
  <2>2. desk.manager = 0 /\ desk.state = NoState /\ world.managers = << >>
    BY <1>1, <1>2
  <2> QED
    BY <1>4, <2>1, <2>2 DEF ShownInv, DeskType
<1>7. SentInv
  BY <1>2 DEF SentInv
<1>8. HedgeFundsConserved
  <2>1. InManagers(<< >>) = 0
    <3>1. DOMAIN << >> = {}
      OBVIOUS
    <3> DEFINE f == [i \in DOMAIN << >> |-> << >>[i].held]
    <3>2. InManagers(<< >>) = SumOver({}, f)
      BY <3>1 DEF InManagers
    <3> HIDE DEF f
    <3> QED
      BY <3>2, SumEmpty
  <2>2. world.purse = Purse /\ world.paid = 0 /\ world.managers = << >>
    BY <1>1
  <2> QED
    BY <1>3, <2>1, <2>2 DEF HedgeFundsConserved
<1> QED
  BY <1>5, <1>6, <1>7, <1>8 DEF HedgeDeskInv

\* Nothing is lost when only the page changes, and what is in flight stays good when the
\* managers remain.
LEMMA SameWorld ==
  ASSUME WorldInv, HedgeFundsConserved, world' = world
  PROVE  WorldInv' /\ HedgeFundsConserved' /\ Len(world'.managers) = Len(world.managers)
BY DEF WorldInv, HedgeFundsConserved

TxOK(tx, n) ==
  tx.op = "mint" => /\ tx.manager <= n
                    /\ tx.expiry = Expiry(tx.oracle)
                    /\ Priceable(tx.ranges)
TxType == [op : {"create"}] \cup MintTx

LEMMA TxKept ==
  ASSUME NEW tx \in TxType, NEW m \in Nat, NEW n \in Nat, m <= n, TxOK(tx, m)
  PROVE  TxOK(tx, n)
<1>1. tx.op = "mint" => tx.manager \in Nat
  BY DEF TxType, MintTx
<1> QED
  BY <1>1 DEF TxOK

LEMMA SentInvIs ==
  /\ SentInv <=> sent \in Seq(TxType) /\ \A k \in DOMAIN sent : TxOK(sent[k], Len(world.managers))
  /\ SentInv' <=> sent' \in Seq(TxType) /\ \A k \in DOMAIN sent' : TxOK(sent'[k], Len(world'.managers))
BY Zenon DEF SentInv, TxOK, TxType

\* The page changes a message, or reads a purse.
LEMMA DeskKept ==
  ASSUME ShownInv, desk' \in DeskType, desk'.list = desk.list, desk'.state = desk.state,
         desk'.manager = desk.manager, Len(world.managers) \in Nat, Len(world'.managers) \in Nat,
         Len(world.managers) <= Len(world'.managers)
  PROVE  ShownInv'
<1>1. desk.manager \in Nat /\ desk.manager <= Len(world.managers)
  BY DEF ShownInv
<1>2. desk'.manager <= Len(world'.managers)
  BY <1>1
<1>3. desk.state # NoState =>
        desk.state.id = First(desk.list) /\ desk.state.expiry = Expiry(desk.state.id)
  BY DEF ShownInv
<1> QED
  BY <1>2, <1>3 DEF ShownInv, DeskType

-----------------------------------------------------------------------------
(* One lemma for each kind of step.                                        *)

\* Time passes, an oracle gets a quote, the indexer catches up.
LEMMA OutsideStep ==
  ASSUME HedgeDeskInv, Time \/ Index \/ \E o \in Oracles, m \in DOMAIN Markets : QuoteOracle(o, m)
  PROVE  HedgeDeskInv'
<1>1. /\ WorldInv /\ ShownInv /\ SentInv /\ HedgeFundsConserved
  BY DEF HedgeDeskInv
<1>2. /\ world.now \in Nat /\ world.market \in [Oracles -> DOMAIN Markets] /\ world.indexed \in Nat
      /\ world.indexed <= Len(world.managers) /\ Len(world.managers) \in Nat
  BY <1>1, WorldIs
<1>3. /\ world' \in [now : Nat, market : [Oracles -> DOMAIN Markets],
                     managers : Seq([held : Nat, ranges : Seq(HedgeRange)]), indexed : Nat,
                     purse : Nat, paid : Nat, placed : Nat]
      /\ world'.indexed <= Len(world.managers)
      /\ world'.managers = world.managers /\ world'.purse = world.purse /\ world'.paid = world.paid
      /\ desk' = desk /\ sent' = sent
  <2>1. CASE Time
    <3> DEFINE t == world.now + 1
    <3>1. world' = [world EXCEPT !.now = t] /\ desk' = desk /\ sent' = sent /\ t \in Nat
      BY <1>2, <2>1 DEF Time
    <3> HIDE DEF t
    <3> QED
      BY <1>1, <1>2, <3>1 DEF WorldInv
  <2>2. CASE Index
    <3> DEFINE t == world.indexed + 1
    <3>1. /\ world' = [world EXCEPT !.indexed = t] /\ desk' = desk /\ sent' = sent /\ t \in Nat
          /\ t <= Len(world.managers)
      BY <1>2, <2>2 DEF Index
    <3> HIDE DEF t
    <3> QED
      BY <1>1, <1>2, <3>1 DEF WorldInv
  <2>3. CASE \E o \in Oracles, m \in DOMAIN Markets : QuoteOracle(o, m)
    <3> PICK o \in Oracles, m \in DOMAIN Markets : QuoteOracle(o, m)
      BY <2>3
    <3>1. world' = [world EXCEPT !.market = [world.market EXCEPT ![o] = m]] /\ desk' = desk /\ sent' = sent
      BY DEF QuoteOracle
    <3> DEFINE f == [world.market EXCEPT ![o] = m]
    <3>2. f \in [Oracles -> DOMAIN Markets]
      BY <1>2
    <3> HIDE DEF f
    <3> QED
      BY <1>1, <1>2, <3>1, <3>2 DEF WorldInv, f
  <2> QED
    BY <2>1, <2>2, <2>3
<1>4. WorldInv'
  BY <1>3 DEF WorldInv
<1>5. ShownInv'
  BY <1>1, <1>3 DEF ShownInv
<1>6. SentInv'
  BY <1>1, <1>3 DEF SentInv
<1>7. HedgeFundsConserved'
  BY <1>1, <1>3 DEF HedgeFundsConserved
<1> QED
  BY <1>4, <1>5, <1>6, <1>7 DEF HedgeDeskInv

\* A step that changes the page alone.
LEMMA PageStep ==
  ASSUME HedgeDeskInv, world' = world, sent' = sent, ShownInv'
  PROVE  HedgeDeskInv'
<1>1. /\ WorldInv /\ ShownInv /\ SentInv /\ HedgeFundsConserved
  BY DEF HedgeDeskInv
<1>2. WorldInv' /\ HedgeFundsConserved'
  BY <1>1, SameWorld
<1>3. SentInv'
  BY <1>1 DEF SentInv
<1> QED
  BY <1>2, <1>3 DEF HedgeDeskInv

LEMMA ReadOraclesStep == ASSUME HedgeDeskInv, ReadOracles PROVE HedgeDeskInv'
<1>1. /\ WorldInv /\ ShownInv /\ SentInv /\ HedgeFundsConserved
  BY DEF HedgeDeskInv
<1> DEFINE list == FilterActiveBtcOracles
           q == IF list = << >> THEN 0 ELSE Rate * (Expiry(list[1]) - world.now)
           st == IF First(list) = First(desk.list) THEN desk.state ELSE NoState
<1>2. /\ desk' = [desk EXCEPT !.list = list, !.q = q, !.state = st]
      /\ world' = world /\ sent' = sent
  BY DEF ReadOracles
<1>3. world.now \in Nat
  BY <1>1, WorldIs
<1>4. list \in Seq(Oracles) /\ \A n \in 1 .. Len(list) : list[n] > world.now
  BY <1>3, ListIs
<1>5. q \in Nat
  <2>1. CASE list = << >>
    BY <2>1
  <2>2. CASE list # << >>
    <3> HIDE DEF list
    <3>1. 1 \in 1 .. Len(list) /\ list[1] \in Oracles
      BY <1>4, <2>2, FirstOf
    <3>2. list[1] \in Int /\ list[1] > world.now
      <4>1. list[1] \in Nat
        BY <3>1, OracleType
      <4> QED
        BY <1>4, <3>1, <4>1
    <3> DEFINE d == Expiry(list[1]) - world.now
    <3>3. d \in Nat
      BY <1>3, <3>2 DEF Expiry
    <3> HIDE DEF d
    <3>4. Rate * d \in Nat
      BY <3>3, DeskConstants, ProductType
    <3> QED
      BY <2>2, <3>4 DEF d
  <2> QED
    BY <2>1, <2>2
<1> HIDE DEF list, q
<1>6. desk \in DeskType /\ desk.manager <= Len(world.managers)
      /\ (desk.state # NoState =>
            desk.state.id = First(desk.list) /\ desk.state.expiry = Expiry(desk.state.id))
  BY <1>1 DEF ShownInv, DeskType
<1>7. /\ st \in [id : Oracles, expiry : Nat, quote : DOMAIN Markets] \cup {NoState}
      /\ st # NoState => st.id = First(list) /\ st.expiry = Expiry(st.id)
  BY <1>6 DEF DeskType
<1> HIDE DEF st
<1>8. /\ desk' \in DeskType /\ desk'.manager = desk.manager /\ desk'.state = st /\ desk'.list = list
  BY <1>2, <1>4, <1>5, <1>6, <1>7 DEF DeskType
<1>9. ShownInv'
  BY <1>2, <1>6, <1>7, <1>8 DEF ShownInv, DeskType
<1> QED
  BY <1>2, <1>9, PageStep

LEMMA ReadStateStep == ASSUME HedgeDeskInv, ReadState PROVE HedgeDeskInv'
<1>1. /\ WorldInv /\ ShownInv /\ SentInv /\ HedgeFundsConserved
  BY DEF HedgeDeskInv
<1> DEFINE o == First(desk.list)
           st == [id |-> o, expiry |-> Expiry(o), quote |-> world.market[o]]
           b == IF desk.band = DefaultBand THEN SuggestedBand ELSE desk.band
<1>2. /\ o # 0 /\ desk' = [desk EXCEPT !.state = st, !.band = b]
      /\ world' = world /\ sent' = sent
  BY DEF ReadState
<1>3. desk \in DeskType /\ desk.manager <= Len(world.managers) /\ desk.list \in Seq(Oracles)
      /\ desk.band \in Bands
  BY <1>1 DEF ShownInv, DeskType
<1>4. o \in Oracles
  BY <1>2, <1>3, FirstOf
<1>5. world.market \in [Oracles -> DOMAIN Markets]
  BY <1>1, WorldIs
<1>6. o \in Nat
  BY <1>4, OracleType
<1> HIDE DEF o
<1>7. st \in [id : Oracles, expiry : Nat, quote : DOMAIN Markets] /\ st.id = o /\ st.expiry = Expiry(o)
  BY <1>4, <1>5, <1>6 DEF Expiry
<1>8. b \in Bands
  BY <1>3, DeskConstants
<1> HIDE DEF st, b
<1>9. desk' \in DeskType /\ desk'.manager = desk.manager /\ desk'.state = st /\ desk'.list = desk.list
  BY <1>2, <1>3, <1>7, <1>8 DEF DeskType
<1>10. ShownInv'
  BY <1>2, <1>3, <1>7, <1>9 DEF ShownInv, DeskType, o
<1> QED
  BY <1>2, <1>10, PageStep

LEMMA ReadManagerStep == ASSUME HedgeDeskInv, ReadManager PROVE HedgeDeskInv'
<1>1. /\ WorldInv /\ ShownInv /\ SentInv /\ HedgeFundsConserved
  BY DEF HedgeDeskInv
<1> DEFINE m == Least(1, world.indexed)
           rs == IF world.indexed = 0 THEN << >> ELSE world.managers[1].ranges
<1>2. /\ desk' = [desk EXCEPT !.manager = m, !.ranges = rs]
      /\ world' = world /\ sent' = sent
  BY DEF ReadManager
<1>3. desk \in DeskType /\ (desk.state # NoState =>
            desk.state.id = First(desk.list) /\ desk.state.expiry = Expiry(desk.state.id))
  BY <1>1 DEF ShownInv, DeskType
<1>4. /\ world.managers \in Seq(ManagerType) /\ world.indexed \in Nat
      /\ world.indexed <= Len(world.managers) /\ Len(world.managers) \in Nat
  BY <1>1, WorldIs
<1>5. m \in Nat /\ m <= Len(world.managers)
  BY <1>4 DEF Least
<1>6. rs \in Seq(HedgeRange)
  <2>1. CASE world.indexed = 0
    BY <2>1
  <2>2. CASE world.indexed # 0
    <3>1. 1 \in 1 .. Len(world.managers)
      BY <1>4, <2>2
    <3>2. world.managers[1] \in ManagerType
      BY <1>4, <3>1, ElementOfSeq
    <3> QED
      BY <2>2, <3>2 DEF ManagerType
  <2> QED
    BY <2>1, <2>2
<1> HIDE DEF m, rs
<1>7. desk' \in DeskType /\ desk'.manager = m /\ desk'.state = desk.state /\ desk'.list = desk.list
  BY <1>2, <1>3, <1>5, <1>6 DEF DeskType
<1>8. ShownInv'
  BY <1>2, <1>3, <1>5, <1>7 DEF ShownInv, DeskType
<1> QED
  BY <1>2, <1>8, PageStep

LEMMA DeskIsTyped == ShownInv => desk \in DeskType
BY DEF ShownInv, DeskType

LEMMA ReadPurseStep ==
  ASSUME HedgeDeskInv, ReadPurse \/ \E b \in Bands : Slide(b)
  PROVE  HedgeDeskInv'
<1>1. /\ WorldInv /\ ShownInv /\ desk \in DeskType
  BY DeskIsTyped DEF HedgeDeskInv
<1>2. world.purse \in Nat /\ Len(world.managers) \in Nat
  BY <1>1, WorldIs
<1>3. world' = world /\ sent' = sent
  BY DEF ReadPurse, Slide
<1>4. /\ desk' \in DeskType /\ desk'.list = desk.list /\ desk'.state = desk.state
      /\ desk'.manager = desk.manager
  <2>1. CASE ReadPurse
    BY <1>1, <1>2, <2>1 DEF ReadPurse, DeskType
  <2>2. CASE \E b \in Bands : Slide(b)
    BY <1>1, <2>2 DEF Slide, DeskType
  <2> QED
    BY <2>1, <2>2
<1>5. Len(world.managers) <= Len(world'.managers) /\ Len(world'.managers) \in Nat
  BY <1>2, <1>3
<1>6. ShownInv'
  BY <1>1, <1>2, <1>4, <1>5, DeskKept
<1> QED
  BY <1>3, <1>6, PageStep

\* A transaction goes out and the page clears its message.
LEMMA SendStep ==
  ASSUME HedgeDeskInv, NEW tx \in TxType, TxOK(tx, Len(world.managers)),
         desk' = [desk EXCEPT !.last = "none"], Send(tx)
  PROVE  HedgeDeskInv'
<1>1. /\ WorldInv /\ ShownInv /\ SentInv /\ HedgeFundsConserved /\ desk \in DeskType
  BY DeskIsTyped DEF HedgeDeskInv
<1>2. world' = world /\ sent' = Append(sent, tx)
  BY DEF Send
<1>3. WorldInv' /\ HedgeFundsConserved' /\ Len(world'.managers) = Len(world.managers)
  BY <1>1, <1>2, SameWorld
<1>4. Len(world.managers) \in Nat
  BY <1>1, WorldIs
<1>5. /\ desk' \in DeskType /\ desk'.list = desk.list /\ desk'.state = desk.state
      /\ desk'.manager = desk.manager
  BY <1>1 DEF DeskType
<1>6. ShownInv'
  <2>1. Len(world'.managers) \in Nat /\ Len(world.managers) <= Len(world'.managers)
    BY <1>3, <1>4
  <2> QED
    BY <1>1, <1>4, <1>5, <2>1, DeskKept
<1>7. SentInv'
  <2> DEFINE n == Len(sent)
  <2>1. sent \in Seq(TxType) /\ \A k \in DOMAIN sent : TxOK(sent[k], Len(world.managers))
    BY <1>1, SentInvIs
  <2>2. n \in Nat /\ DOMAIN sent = 1 .. n
    BY <2>1, LenProperties
  <2>3. /\ sent' \in Seq(TxType) /\ Len(sent') = n + 1 /\ sent'[n + 1] = tx
        /\ \A k \in 1 .. n : sent'[k] = sent[k]
    BY <1>2, <2>1, AppendProperties
  <2>4. DOMAIN sent' = 1 .. n + 1
    BY <2>3, LenProperties
  <2>5. ASSUME NEW k \in DOMAIN sent' PROVE TxOK(sent'[k], Len(world'.managers))
    <3>1. CASE k \in 1 .. n
      BY <1>3, <2>1, <2>2, <2>3, <3>1
    <3>2. CASE k = n + 1
      BY <1>3, <2>3, <3>2
    <3> QED
      BY <2>2, <2>4, <3>1, <3>2
  <2> QED
    BY <2>3, <2>5, SentInvIs
<1> QED
  BY <1>3, <1>6, <1>7 DEF HedgeDeskInv

LEMMA PlaceStep == ASSUME HedgeDeskInv, PlaceStrip PROVE HedgeDeskInv'
<1>1. /\ WorldInv /\ ShownInv /\ SentInv /\ HedgeFundsConserved /\ desk \in DeskType
  BY DeskIsTyped DEF HedgeDeskInv
<1>2. Strip # << >>
  BY DEF PlaceStrip
<1> DEFINE mint == [op |-> "mint", manager |-> desk.manager, oracle |-> First(desk.list),
                    expiry |-> desk.state.expiry, ranges |-> Strip, cost |-> Cost,
                    quoted |-> desk.state.quote]
           create == [op |-> "create"]
<1>3. \/ desk' = [desk EXCEPT !.last = "none"] /\ Send(create)
      \/ Message("err")
      \/ desk.manager # 0 /\ desk' = [desk EXCEPT !.last = "none"] /\ Send(mint)
  BY Zenon DEF PlaceStrip
<1>4. CASE desk' = [desk EXCEPT !.last = "none"] /\ Send(create)
  <2>1. create \in TxType /\ create.op = "create" /\ "create" # "mint"
    BY DEF TxType
  <2>2. TxOK(create, Len(world.managers))
    BY <2>1 DEF TxOK
  <2> HIDE DEF create
  <2> QED
    BY <1>4, <2>1, <2>2, SendStep
<1>5. CASE Message("err")
  <2>1. world' = world /\ sent' = sent /\ desk' = [desk EXCEPT !.last = "err"]
    BY <1>5 DEF Message
  <2>2. /\ desk' \in DeskType /\ desk'.list = desk.list /\ desk'.state = desk.state
        /\ desk'.manager = desk.manager
    BY <1>1, <2>1 DEF DeskType
  <2>3. Len(world.managers) \in Nat
    BY <1>1, WorldIs
  <2>4. Len(world'.managers) \in Nat /\ Len(world.managers) <= Len(world'.managers)
    BY <2>1, <2>3
  <2>5. ShownInv'
    BY <1>1, <2>2, <2>3, <2>4, DeskKept
  <2> QED
    BY <2>1, <2>5, PageStep
<1>6. CASE desk.manager # 0 /\ desk' = [desk EXCEPT !.last = "none"] /\ Send(mint)
  <2>1. /\ desk.state # NoState /\ desk.state.quote \in DOMAIN Markets /\ desk.state.id \in Oracles
        /\ Priceable(Strip) /\ Premium \in Nat
    BY <1>1, <1>2, ShownStrip
  <2>2. /\ desk.state.id = First(desk.list) /\ desk.state.expiry = Expiry(desk.state.id)
        /\ desk.manager <= Len(world.managers)
    BY <1>1, <2>1 DEF ShownInv
  <2>3. Cost \in Nat
    <3>1. Premium * Buffer \in Nat /\ 100 * Certain \in Nat /\ 100 * Certain > 0
      BY <2>1, DeskConstants
    <3> QED
      BY <3>1, CeilFacts DEF Cost
  <2>4. Strip \in Seq(HedgeRange)
    BY <2>1 DEF Priceable
  <2>5. desk.manager \in Nat \ {0}
    BY <1>1, <1>6 DEF DeskType
  <2>6. First(desk.list) \in Oracles /\ desk.state.expiry = Expiry(First(desk.list))
    BY <2>1, <2>2
  <2>7. desk.state.expiry \in Nat
    BY <2>6, OracleType DEF Expiry
  <2>8. mint \in MintTx
    BY <2>1, <2>3, <2>4, <2>5, <2>6, <2>7 DEF MintTx
  <2>9. /\ mint.manager = desk.manager /\ mint.oracle = First(desk.list)
        /\ mint.expiry = desk.state.expiry /\ mint.ranges = Strip
    OBVIOUS
  <2> HIDE DEF mint
  <2>10. TxOK(mint, Len(world.managers))
    BY <2>1, <2>2, <2>6, <2>9 DEF TxOK
  <2>11. mint \in TxType
    BY <2>8 DEF TxType
  <2> QED
    BY <1>6, <2>10, <2>11, SendStep
<1> QED
  BY <1>3, <1>4, <1>5, <1>6

\* A transaction is over: the others stay in flight.
LEMMA FlightEnds ==
  ASSUME WorldInv, SentInv, NEW k \in DOMAIN sent, sent' = RemoveAt(sent, k),
         Len(world'.managers) \in Nat, Len(world.managers) <= Len(world'.managers)
  PROVE  SentInv' /\ sent[k] \in TxType /\ TxOK(sent[k], Len(world.managers))
<1>1. sent \in Seq(TxType) /\ \A l \in DOMAIN sent : TxOK(sent[l], Len(world.managers))
  BY SentInvIs
<1>2. /\ sent[k] \in TxType /\ sent' \in Seq(TxType)
      /\ \A i \in DOMAIN sent' : \E l \in DOMAIN sent : sent'[i] = sent[l]
  BY <1>1, Taken
<1>3. Len(world.managers) \in Nat
  BY WorldIs
<1>4. ASSUME NEW i \in DOMAIN sent' PROVE TxOK(sent'[i], Len(world'.managers))
  <2>1. PICK l \in DOMAIN sent : sent'[i] = sent[l]
    BY <1>2
  <2>2. sent[l] \in TxType /\ TxOK(sent[l], Len(world.managers))
    BY <1>1, Taken
  <2>3. TxOK(sent[l], Len(world'.managers))
    BY <1>3, <2>2, TxKept
  <2> QED
    BY <2>1, <2>3
<1>5. SentInv'
  BY <1>2, <1>4, SentInvIs
<1> QED
  BY <1>1, <1>2, <1>5

\* The page shows a message when a transaction is over.
LEMMA MessageShown ==
  ASSUME WorldInv, ShownInv, NEW x \in {"none", "ok", "err"}, desk' = [desk EXCEPT !.last = x],
         Len(world'.managers) \in Nat, Len(world.managers) <= Len(world'.managers)
  PROVE  ShownInv'
<1>1. desk \in DeskType
  BY DeskIsTyped
<1>2. /\ desk' \in DeskType /\ desk'.list = desk.list /\ desk'.state = desk.state
      /\ desk'.manager = desk.manager
  BY <1>1 DEF DeskType
<1>3. Len(world.managers) \in Nat
  BY WorldIs
<1> QED
  BY <1>2, <1>3, DeskKept

LEMMA AbortStep ==
  ASSUME HedgeDeskInv, NEW k \in DOMAIN sent, Abort(k)
  PROVE  HedgeDeskInv'
<1>1. /\ WorldInv /\ ShownInv /\ SentInv /\ HedgeFundsConserved
  BY DEF HedgeDeskInv
<1>2. world' = world /\ sent' = RemoveAt(sent, k) /\ desk' = [desk EXCEPT !.last = "err"]
  BY DEF Abort
<1>3. WorldInv' /\ HedgeFundsConserved' /\ Len(world'.managers) = Len(world.managers)
  BY <1>1, <1>2, SameWorld
<1>4. Len(world'.managers) \in Nat /\ Len(world.managers) <= Len(world'.managers)
  BY <1>1, <1>3, WorldIs
<1>5. SentInv'
  BY <1>1, <1>2, <1>4, FlightEnds
<1>6. ShownInv'
  BY <1>1, <1>2, <1>4, MessageShown
<1> QED
  BY <1>3, <1>5, <1>6 DEF HedgeDeskInv

\* A manager is made.
LEMMA CreateLands ==
  ASSUME WorldInv, HedgeFundsConserved,
         world' = [world EXCEPT !.managers = Append(@, [held |-> 0, ranges |-> << >>])]
  PROVE  /\ WorldInv' /\ HedgeFundsConserved'
         /\ Len(world'.managers) \in Nat /\ Len(world.managers) <= Len(world'.managers)
<1> DEFINE m == [held |-> 0, ranges |-> << >>]
           ms == world.managers
           ns == Append(ms, m)
<1>1. m \in ManagerType /\ m.held = 0
  BY DEF ManagerType
<1> HIDE DEF m
<1>2. /\ ms \in Seq(ManagerType) /\ Len(ms) \in Nat /\ world.indexed <= Len(ms) /\ world.indexed \in Nat
  BY WorldIs
<1>3. ns \in Seq(ManagerType) /\ Len(ns) = Len(ms) + 1 /\ InManagers(ns) = InManagers(ms) + 0
  BY <1>1, <1>2, ManagerAdded
<1>4. InManagers(ms) \in Nat
  BY <1>2, HeldSum
<1>5. world' = [world EXCEPT !.managers = ns]
  BY DEF m
<1> HIDE DEF ns
<1>6. /\ world'.managers = ns /\ world'.purse = world.purse /\ world'.paid = world.paid
      /\ world'.indexed = world.indexed
      /\ world' \in [now : Nat, market : [Oracles -> DOMAIN Markets],
                     managers : Seq([held : Nat, ranges : Seq(HedgeRange)]), indexed : Nat,
                     purse : Nat, paid : Nat, placed : Nat]
  BY <1>3, <1>5 DEF WorldInv, ManagerType
<1>7. WorldInv'
  <2>1. world'.indexed <= Len(world'.managers)
    BY <1>2, <1>3, <1>6
  <2> QED
    BY <1>6, <2>1, Zenon DEF WorldInv
<1>8. HedgeFundsConserved'
  <2>1. InManagers(ns) = InManagers(ms)
    BY <1>3, <1>4
  <2>2. world.purse + world.paid + InManagers(ms) = Purse
    BY DEF HedgeFundsConserved
  <2> QED
    BY <1>6, <2>1, <2>2, Zenon DEF HedgeFundsConserved
<1> QED
  BY <1>2, <1>3, <1>6, <1>7, <1>8

\* A strip is minted: the deposit goes to the manager, who pays what Predict asks.
LEMMA MintLands ==
  ASSUME WorldInv, HedgeFundsConserved, NEW tx \in MintTx, TxOK(tx, Len(world.managers)),
         CanMint(tx), world' = Minted(tx)
  PROVE  /\ WorldInv' /\ HedgeFundsConserved'
         /\ Len(world'.managers) \in Nat /\ Len(world.managers) <= Len(world'.managers)
<1> DEFINE ms == world.managers
           j == tx.manager
           price == CeilDiv(PriceStripFromSvi(tx.ranges, Markets[world.market[tx.oracle]].above), Certain)
           m == [held |-> ms[j].held + tx.cost - price, ranges |-> ms[j].ranges \o tx.ranges]
           ns == [ms EXCEPT ![j] = m]
<1>1. /\ ms \in Seq(ManagerType) /\ Len(ms) \in Nat /\ world.indexed <= Len(ms)
      /\ world.purse \in Nat /\ world.paid \in Nat /\ world.placed \in Nat
      /\ world.market \in [Oracles -> DOMAIN Markets] /\ world.indexed \in Nat
  BY WorldIs
<1>2. /\ j \in Nat \ {0} /\ tx.oracle \in Oracles /\ tx.cost \in Nat /\ tx.ranges \in Seq(HedgeRange)
      /\ tx.op = "mint"
  BY DEF MintTx
<1>3. j \in 1 .. Len(ms) /\ Priceable(tx.ranges)
  BY <1>1, <1>2 DEF TxOK
<1>4. price \in Nat
  <2> DEFINE q == world.market[tx.oracle]
  <2>1. q \in DOMAIN Markets
    BY <1>1, <1>2
  <2> HIDE DEF q
  <2>2. tx.ranges \in Seq(HedgeRange) /\ Known(tx.ranges, Markets[q].above)
    BY <1>3, <2>1, KnownEverywhere
  <2>3. PriceStripFromSvi(tx.ranges, Markets[q].above) \in Nat
    BY <2>2, StripPriceType
  <2> QED
    BY <2>3, CeilFacts, DeskConstants DEF q
<1>5. world.purse >= tx.cost /\ ms[j].held + tx.cost >= price
  BY DEF CanMint
<1>6. ms[j] \in ManagerType /\ ms[j].held \in Nat /\ ms[j].ranges \in Seq(HedgeRange)
  <2>1. ms[j] \in ManagerType
    BY <1>1, <1>3, HeldSum
  <2> QED
    BY <2>1 DEF ManagerType
<1>7. /\ world'.purse = world.purse - tx.cost /\ world'.paid = world.paid + price
      /\ world'.managers = ns /\ world'.now = world.now /\ world'.market = world.market
      /\ world'.indexed = world.indexed /\ world'.placed = world.placed + 1
      /\ world' = [now |-> world.now, market |-> world.market, managers |-> ns,
                   indexed |-> world.indexed, purse |-> world.purse - tx.cost,
                   paid |-> world.paid + price, placed |-> world.placed + 1]
  <2> HIDE DEF price
  <2>1. world' = [world EXCEPT !.purse = @ - tx.cost, !.paid = @ + price, !.placed = @ + 1,
                    !.managers = ns]
    BY DEF Minted, price
  <2> HIDE DEF ns
  <2> QED
    BY <2>1 DEF WorldInv
<1>8. m \in ManagerType /\ m.held = ms[j].held + tx.cost - price
  <2>1. ms[j].held + tx.cost - price \in Nat
    BY <1>2, <1>4, <1>5, <1>6
  <2>2. ms[j].ranges \o tx.ranges \in Seq(HedgeRange)
    BY <1>2, <1>6, ConcatProperties
  <2> QED
    BY <2>1, <2>2 DEF ManagerType
<1> HIDE DEF price, m
<1>9. /\ ns \in Seq(ManagerType) /\ Len(ns) = Len(ms)
      /\ InManagers(ns) \in Nat /\ InManagers(ns) + ms[j].held = InManagers(ms) + m.held
  BY <1>1, <1>3, <1>8, ManagerChanged
<1> HIDE DEF ns
<1>10. InManagers(ms) \in Nat
  BY <1>1, HeldSum
<1>11. world.purse - tx.cost \in Nat /\ world.paid + price \in Nat /\ world.placed + 1 \in Nat
       /\ world.now \in Nat
  <2> DEFINE pu == world.purse
             pa == world.paid
             c == tx.cost
  <2>1. world.now \in Nat
    BY WorldIs
  <2>2. pu \in Nat /\ pa \in Nat /\ c \in Nat /\ price \in Nat /\ c <= pu
    BY <1>1, <1>2, <1>4, <1>5
  <2>3. world.placed + 1 \in Nat
    BY <1>1
  <2> HIDE DEF pu, pa, c
  <2>4. pu - c \in Nat /\ pa + price \in Nat
    BY <2>2
  <2> QED
    BY <2>1, <2>3, <2>4 DEF pu, pa, c
<1>12. WorldInv'
  BY <1>1, <1>7, <1>9, <1>11 DEF WorldInv, ManagerType
<1>13. HedgeFundsConserved'
  <2>1. world.purse + world.paid + InManagers(ms) = Purse
    BY DEF HedgeFundsConserved
  <2> DEFINE pu == world.purse
             pa == world.paid
             x == InManagers(ms)
             y == InManagers(ns)
             h == ms[j].held
             c == tx.cost
  <2>2. /\ pu \in Nat /\ pa \in Nat /\ x \in Nat /\ y \in Nat /\ h \in Nat /\ c \in Nat /\ price \in Nat
        /\ pu + pa + x = Purse /\ y + h = x + m.held /\ m.held = h + c - price
    BY <1>1, <1>2, <1>4, <1>6, <1>8, <1>9, <1>10, <2>1
  <2>3. Purse \in Nat
    BY DeskConstants
  <2> HIDE DEF pu, pa, x, y, h, c
  <2>4. (pu - c) + (pa + price) + y = Purse
    BY <2>2, <2>3
  <2> QED
    BY <1>7, <2>4, Zenon DEF HedgeFundsConserved, pu, pa, y, c
<1> QED
  BY <1>1, <1>7, <1>9, <1>12, <1>13

LEMMA LandStep ==
  ASSUME HedgeDeskInv, NEW k \in DOMAIN sent, Land(k)
  PROVE  HedgeDeskInv'
<1>1. /\ WorldInv /\ ShownInv /\ SentInv /\ HedgeFundsConserved
  BY DEF HedgeDeskInv
<1>2. sent' = RemoveAt(sent, k)
  BY DEF Land
<1>3. sent[k] \in TxType /\ TxOK(sent[k], Len(world.managers))
  BY <1>1, SentInvIs, Taken
<1>4. /\ WorldInv' /\ HedgeFundsConserved'
      /\ Len(world'.managers) \in Nat /\ Len(world.managers) <= Len(world'.managers)
      /\ \E x \in {"none", "ok", "err"} : desk' = [desk EXCEPT !.last = x]
  <2>1. CASE sent[k].op = "create"
    <3>1. /\ world' = [world EXCEPT !.managers = Append(@, [held |-> 0, ranges |-> << >>])]
          /\ desk' = [desk EXCEPT !.last = "err"]
      BY <2>1 DEF Land
    <3> QED
      BY <1>1, <3>1, CreateLands
  <2>2. CASE sent[k].op # "create"
    <3>1. CanMint(sent[k]) /\ world' = Minted(sent[k]) /\ desk' = [desk EXCEPT !.last = "ok"]
      BY <2>2 DEF Land
    <3>2. sent[k] \in MintTx
      BY <1>3, <2>2 DEF TxType
    <3> QED
      BY <1>1, <1>3, <3>1, <3>2, MintLands
  <2> QED
    BY <2>1, <2>2
<1>5. SentInv'
  BY <1>1, <1>2, <1>4, FlightEnds
<1>6. ShownInv'
  BY <1>1, <1>4, MessageShown
<1> QED
  BY <1>4, <1>5, <1>6 DEF HedgeDeskInv

-----------------------------------------------------------------------------
(* The hedge desk.                                                         *)

LEMMA HedgeStep == HedgeDeskInv /\ [HedgeNext]_hedgeVars => HedgeDeskInv'
<1> SUFFICES ASSUME HedgeDeskInv, [HedgeNext]_hedgeVars PROVE HedgeDeskInv'
  OBVIOUS
<1>1. CASE Time \/ Index \/ \E o \in Oracles, m \in DOMAIN Markets : QuoteOracle(o, m)
  BY <1>1, OutsideStep
<1>2. CASE ReadOracles
  BY <1>2, ReadOraclesStep
<1>3. CASE ReadState
  BY <1>3, ReadStateStep
<1>4. CASE ReadManager
  BY <1>4, ReadManagerStep
<1>5. CASE ReadPurse \/ \E b \in Bands : Slide(b)
  BY <1>5, ReadPurseStep
<1>6. CASE PlaceStrip
  BY <1>6, PlaceStep
<1>7. CASE \E k \in DOMAIN sent : Land(k)
  BY <1>7, LandStep
<1>8. CASE \E k \in DOMAIN sent : Abort(k)
  BY <1>8, AbortStep
<1>9. CASE UNCHANGED hedgeVars
  <2>1. world' = world /\ desk' = desk /\ sent' = sent
    BY <1>9 DEF hedgeVars
  <2>2. ShownInv'
    BY <2>1 DEF HedgeDeskInv, ShownInv
  <2> QED
    BY <2>1, <2>2, PageStep
<1> QED
  BY <1>1, <1>2, <1>3, <1>4, <1>5, <1>6, <1>7, <1>8, <1>9, Zenon DEF HedgeNext

LEMMA HedgeDeskInvImplies == HedgeDeskInv => HedgeInv
<1> SUFFICES ASSUME HedgeDeskInv PROVE HedgeInv
  OBVIOUS
<1>1. WorldInv /\ ShownInv /\ SentInv /\ HedgeFundsConserved
  BY DEF HedgeDeskInv
<1>2. HedgeTypeOK
  <2>1. /\ world.purse \in Nat /\ world.paid \in Nat /\ world.managers \in Seq(ManagerType)
        /\ world.indexed <= Len(world.managers) /\ Len(world.managers) \in Nat
    BY <1>1, WorldIs
  <2>2. \A i \in DOMAIN world.managers : world.managers[i].held \in Nat
    BY <2>1, HeldSum
  <2>3. desk.manager \in 0 .. Len(world.managers) /\ desk.q \in Nat /\ desk.list \in Seq(Oracles)
    BY <1>1, <2>1 DEF ShownInv
  <2>4. \A i \in DOMAIN desk.list : desk.list[i] \in Oracles
    BY <2>3, LenProperties, ElementOfSeq
  <2> QED
    BY <2>1, <2>2, <2>3, <2>4 DEF HedgeTypeOK
<1>3. StripsNameOneOracle
  <2> SUFFICES ASSUME NEW k \in DOMAIN sent, sent[k].op = "mint"
               PROVE  sent[k].oracle # 0 /\ sent[k].expiry = Expiry(sent[k].oracle)
    BY DEF StripsNameOneOracle
  <2>1. sent[k] \in TxType /\ TxOK(sent[k], Len(world.managers))
    BY <1>1, SentInvIs, Taken
  <2>2. sent[k].oracle \in Oracles
    BY <2>1 DEF TxType, MintTx
  <2> QED
    BY <2>1, <2>2, OracleType DEF TxOK
<1> QED
  BY <1>1, <1>2, <1>3, StripIsCovering, PremiumBound, OnePayoffShown DEF HedgeInv

\* The page, the indexer and what is in flight agree on oracles and managers, and every
\* strike in flight can be priced: the inductive invariant.
THEOREM HedgeDeskIsConsistent == HedgeSpec => []HedgeDeskInv
<1>1. HedgeInit => HedgeDeskInv
  BY HedgeInitOK
<1>2. HedgeDeskInv /\ [HedgeNext]_hedgeVars => HedgeDeskInv'
  BY HedgeStep
<1> QED
  BY <1>1, <1>2, PTL DEF HedgeSpec

\* However oracles expire, quotes move and reads race with transactions (usePredictManager.ts,
\* useMinerHedge.ts): DUSDC is conserved, a strip names one oracle, covers its band without
\* gap or overlap at a bounded premium, and curve, summary, ladder and simulation show one
\* payoff, whatever the band, the tick, the quotes and the number of bins.
THEOREM TheHedgeIsSound == HedgeSpec => []HedgeInv
<1>1. HedgeSpec => []HedgeDeskInv
  BY HedgeDeskIsConsistent
<1>2. HedgeDeskInv => HedgeInv
  BY HedgeDeskInvImplies
<1> QED
  BY <1>1, <1>2, PTL

=============================================================================
