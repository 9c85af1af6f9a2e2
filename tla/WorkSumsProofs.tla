--------------------------- MODULE WorkSumsProofs ---------------------------
(* The laws of SumOver, for every finite set and every natural function. *)
EXTENDS WorkSums, Integers, Sequences, FiniteSetTheorems, SequenceTheorems, WellFoundedInduction,
        TLAPS

\* The block of x has f[x] units.
LEMMA BlockSize ==
  ASSUME NEW x, NEW f, f[x] \in Nat
  PROVE  IsFiniteSet(Block(x, f)) /\ Cardinality(Block(x, f)) = f[x]
<1>1. IsFiniteSet({x}) /\ Cardinality({x}) = 1
  BY FS_Singleton
<1>2. IsFiniteSet(1 .. f[x]) /\ Cardinality(1 .. f[x]) = f[x]
  BY FS_Interval
<1>3. /\ IsFiniteSet({x} \X (1 .. f[x]))
      /\ Cardinality({x} \X (1 .. f[x])) = 1 * f[x]
  BY <1>1, <1>2, FS_Product
<1> QED
  BY <1>3 DEF Block

\* The sum over nothing is 0.
LEMMA SumEmpty ==
  ASSUME NEW f
  PROVE  IsFiniteSet(Units({}, f)) /\ SumOver({}, f) = 0
<1>1. Units({}, f) = {}
  BY DEF Units
<1> QED
  BY <1>1, FS_EmptySet DEF SumOver

\* Adding an element adds its value.
LEMMA SumAdd ==
  ASSUME NEW S, NEW f, NEW x, x \notin S, f[x] \in Nat, IsFiniteSet(Units(S, f))
  PROVE  /\ IsFiniteSet(Units(S \cup {x}, f))
         /\ SumOver(S, f) \in Nat
         /\ SumOver(S \cup {x}, f) = SumOver(S, f) + f[x]
<1>1. Units(S \cup {x}, f) = Units(S, f) \cup Block(x, f)
  BY DEF Units
<1>2. Units(S, f) \cap Block(x, f) = {}
  BY DEF Units, Block
<1>3. IsFiniteSet(Block(x, f)) /\ Cardinality(Block(x, f)) = f[x]
  BY BlockSize
<1>4. Cardinality({}) = 0
  BY FS_EmptySet
<1>5. Cardinality(Units(S, f)) \in Nat
  BY FS_CardinalityType
<1>6. /\ IsFiniteSet(Units(S, f) \cup Block(x, f))
      /\ Cardinality(Units(S, f) \cup Block(x, f))
           = Cardinality(Units(S, f)) + Cardinality(Block(x, f))
               - Cardinality(Units(S, f) \cap Block(x, f))
  BY <1>3, FS_Union
<1>a. Cardinality(Units(S, f) \cap Block(x, f)) = 0
  BY <1>2, <1>4
<1>7. Cardinality(Units(S, f) \cup Block(x, f)) = Cardinality(Units(S, f)) + f[x]
  BY <1>3, <1>5, <1>6, <1>a
<1>8. Cardinality(Units(S \cup {x}, f)) = Cardinality(Units(S, f)) + f[x]
  BY <1>1, <1>7
<1>9. IsFiniteSet(Units(S \cup {x}, f))
  BY <1>1, <1>6
<1> QED
  BY <1>5, <1>8, <1>9 DEF SumOver

\* The sum depends only on the values at the elements.
LEMMA SumExt ==
  ASSUME NEW S, NEW f, NEW g, \A x \in S : f[x] = g[x]
  PROVE  Units(S, f) = Units(S, g) /\ SumOver(S, f) = SumOver(S, g)
<1>1. \A x \in S : Block(x, f) = Block(x, g)
  BY DEF Block
<1>2. Units(S, f) = Units(S, g)
  BY <1>1 DEF Units
<1> QED
  BY <1>2 DEF SumOver

\* The sum over one element is its value.
LEMMA SumSingleton ==
  ASSUME NEW f, NEW x, f[x] \in Nat
  PROVE  SumOver({x}, f) = f[x]
<1>1. Units({x}, f) = Block(x, f)
  BY DEF Units
<1> QED
  BY <1>1, BlockSize DEF SumOver

\* A sum over a part is at most the sum over the whole.
LEMMA SumSubset ==
  ASSUME NEW S, NEW T \in SUBSET S, NEW f, IsFiniteSet(Units(S, f))
  PROVE  /\ IsFiniteSet(Units(T, f))
         /\ SumOver(T, f) \in Nat /\ SumOver(S, f) \in Nat
         /\ SumOver(T, f) <= SumOver(S, f)
<1>1. Units(T, f) \subseteq Units(S, f)
  BY DEF Units
<1> QED
  BY <1>1, FS_Subset, FS_CardinalityType DEF SumOver

\* A finite set of natural numbers has finitely many units.
LEMMA UnitsFinite ==
  ASSUME NEW S, IsFiniteSet(S), NEW f, \A x \in S : f[x] \in Nat
  PROVE  IsFiniteSet(Units(S, f)) /\ SumOver(S, f) \in Nat
<1> DEFINE T == {Block(x, f) : x \in S}
           g == [x \in S |-> Block(x, f)]
<1>1. g \in Surjection(S, T)
  BY DEF Surjection
<1>2. IsFiniteSet(T)
  BY <1>1, FS_Surjection
<1>3. \A B \in T : IsFiniteSet(B)
  BY BlockSize
<1>4. IsFiniteSet(UNION T)
  BY <1>2, <1>3, FS_UNION
<1> QED
  BY <1>4, FS_CardinalityType DEF Units, SumOver

\* A set with one more element, whose old elements keep their values.
LEMMA SumInsert ==
  ASSUME NEW S, IsFiniteSet(S), NEW f, NEW g, NEW y, y \notin S,
         \A z \in S : f[z] \in Nat /\ g[z] = f[z], g[y] \in Nat
  PROVE  /\ IsFiniteSet(S \cup {y})
         /\ SumOver(S, f) \in Nat
         /\ SumOver(S \cup {y}, g) = SumOver(S, f) + g[y]
<1>1. IsFiniteSet(S \cup {y})
  BY FS_AddElement
<1>2. IsFiniteSet(Units(S, f)) /\ SumOver(S, f) \in Nat
  BY UnitsFinite
<1>3. Units(S, g) = Units(S, f) /\ SumOver(S, g) = SumOver(S, f)
  BY SumExt
<1>4. SumOver(S \cup {y}, g) = SumOver(S, g) + g[y]
  BY <1>2, <1>3, SumAdd
<1> QED
  BY <1>1, <1>2, <1>3, <1>4

\* A set with one element less.
LEMMA SumRemove ==
  ASSUME NEW S, IsFiniteSet(S), NEW f, NEW g, NEW x \in S, \A z \in S : f[z] \in Nat,
         \A z \in S \ {x} : g[z] = f[z]
  PROVE  /\ IsFiniteSet(S \ {x})
         /\ SumOver(S \ {x}, g) \in Nat
         /\ SumOver(S, f) = SumOver(S \ {x}, g) + f[x]
<1> DEFINE R == S \ {x}
<1>1. IsFiniteSet(R) /\ S = R \cup {x} /\ x \notin R /\ f[x] \in Nat
  BY FS_RemoveElement
<1>2. \A z \in R : g[z] \in Nat /\ f[z] = g[z]
  OBVIOUS
<1> HIDE DEF R
<1>3. /\ SumOver(R, g) \in Nat
      /\ SumOver(R \cup {x}, f) = SumOver(R, g) + f[x]
  BY <1>1, <1>2, SumInsert
<1> QED
  BY <1>1, <1>3 DEF R

\* A set one of whose elements is replaced.
LEMMA SumReplace ==
  ASSUME NEW S, IsFiniteSet(S), NEW f, NEW g, NEW x \in S, NEW y, y \notin S \ {x},
         \A z \in S : f[z] \in Nat, \A z \in S \ {x} : g[z] = f[z], g[y] \in Nat
  PROVE  /\ IsFiniteSet((S \ {x}) \cup {y})
         /\ SumOver(S, f) \in Nat
         /\ SumOver((S \ {x}) \cup {y}, g) \in Nat
         /\ SumOver((S \ {x}) \cup {y}, g) + f[x] = SumOver(S, f) + g[y]
<1> DEFINE R == S \ {x}
<1>1. /\ IsFiniteSet(R) /\ SumOver(R, g) \in Nat
      /\ SumOver(S, f) = SumOver(R, g) + f[x]
  BY SumRemove
<1>2. \A z \in R : g[z] \in Nat
  OBVIOUS
<1>3. y \notin R /\ f[x] \in Nat
  OBVIOUS
<1> HIDE DEF R
<1>4. /\ IsFiniteSet(R \cup {y})
      /\ SumOver(R \cup {y}, g) = SumOver(R, g) + g[y]
  BY <1>1, <1>2, <1>3, SumInsert
<1>5. SumOver(R \cup {y}, g) + f[x] = SumOver(S, f) + g[y]
  BY <1>1, <1>3, <1>4
<1> QED
  BY <1>1, <1>3, <1>4, <1>5 DEF R

\* One element's value changes.
LEMMA SumUpdate ==
  ASSUME NEW S, IsFiniteSet(S), NEW f, NEW g, NEW x \in S,
         \A z \in S : f[z] \in Nat, \A z \in S \ {x} : g[z] = f[z], g[x] \in Nat
  PROVE  /\ SumOver(S, f) \in Nat /\ SumOver(S, g) \in Nat
         /\ SumOver(S, g) + f[x] = SumOver(S, f) + g[x]
<1>1. \A z \in S : g[z] \in Nat
  OBVIOUS
<1>2. SumOver(S \ {x}, g) \in Nat /\ SumOver(S, f) = SumOver(S \ {x}, g) + f[x]
  BY SumRemove
<1>3. SumOver(S, g) = SumOver(S \ {x}, g) + g[x]
  BY <1>1, SumRemove
<1> QED
  BY <1>2, <1>3

-----------------------------------------------------------------------------
(* Arithmetic of proportional amounts, rounded down.                       *)

\* What \div is.
LEMMA DivFacts ==
  ASSUME NEW x \in Nat, NEW c \in Nat, c > 0
  PROVE  x \div c \in Nat /\ c * (x \div c) <= x /\ x < c * (x \div c) + c
OBVIOUS

\* Quotient and remainder are unique.
LEMMA DivUnique ==
  ASSUME NEW a \in Nat, NEW b \in Nat, NEW i \in Nat, NEW j \in Nat, NEW c \in Nat,
         i < c, j < c, c * a + i = c * b + j
  PROVE  a = b /\ i = j
OBVIOUS

\* Two parts rounded down are at most the whole rounded down.
LEMMA DivSplit ==
  ASSUME NEW x \in Nat, NEW y \in Nat, NEW c \in Nat, c > 0
  PROVE  x \div c + y \div c <= (x + y) \div c
OBVIOUS

\* The whole is paid out at its own ratio.
LEMMA DivWhole ==
  ASSUME NEW x \in Nat, NEW c \in Nat, c > 0
  PROVE  (c * x) \div c = x
OBVIOUS

LEMMA ProductType ==
  ASSUME NEW x \in Nat, NEW y \in Nat
  PROVE  x * y \in Nat
OBVIOUS

LEMMA ProductCancel ==
  ASSUME NEW x \in Nat, NEW y \in Nat, NEW c \in Nat, c > 0, c * x <= c * y
  PROVE  x <= y
OBVIOUS

LEMMA ProductLess ==
  ASSUME NEW x \in Nat, NEW y \in Nat, NEW c \in Nat, c * x < c * y
  PROVE  x < y
OBVIOUS

LEMMA ProductMonotone ==
  ASSUME NEW x \in Nat, NEW y \in Nat, NEW c \in Nat, x <= y
  PROVE  c * x <= c * y
OBVIOUS

\* Position p of W units times T shares, read as (unit, share): the pairs of two bases
\* correspond one to one.
Quot(p, T) == p \div T
Rest(p, T) == p - T * (p \div T)

LEMMA QuotRest ==
  ASSUME NEW p \in Nat, NEW T \in Nat, T > 0
  PROVE  /\ Quot(p, T) \in Nat /\ Rest(p, T) \in Nat /\ Rest(p, T) < T
         /\ p = T * Quot(p, T) + Rest(p, T)
<1> DEFINE q == p \div T
           m == T * q
<1>1. q \in Nat /\ m <= p /\ p < m + T
  BY DivFacts
<1>2. m \in Nat
  BY <1>1, ProductType
<1> HIDE DEF m
<1>3. p - m \in Nat /\ p - m < T /\ p = m + (p - m)
  BY <1>1, <1>2
<1> QED
  BY <1>1, <1>3 DEF Quot, Rest, m

\* Parts of T in proportion to w, each rounded down, add up to at most T.  Every part r[x]
\* fits W times into w[x] * T; so there are at least as many pairs (unit of w, one of T)
\* as pairs (unit of r, one of W).
LEMMA SumProportion ==
  ASSUME NEW S, IsFiniteSet(S), NEW w, NEW r, NEW T \in Nat, NEW W \in Nat, W > 0,
         \A x \in S : w[x] \in Nat /\ r[x] \in Nat /\ W * r[x] <= w[x] * T,
         SumOver(S, w) = W
  PROVE  SumOver(S, r) \in Nat /\ SumOver(S, r) <= T
<1>1. /\ IsFiniteSet(Units(S, w)) /\ IsFiniteSet(Units(S, r))
      /\ SumOver(S, w) \in Nat /\ SumOver(S, r) \in Nat
  BY UnitsFinite
<1>2. CASE T = 0
  <2>1. \A x \in S : r[x] = 0
    <3>1. ASSUME NEW x \in S PROVE W * r[x] <= W * 0
      BY <1>2
    <3> QED
      BY <3>1, ProductCancel
  <2>2. Units(S, r) = {}
    BY <2>1 DEF Units, Block
  <2>3. SumOver(S, r) = 0
    BY <2>2, FS_EmptySet DEF SumOver
  <2> QED
    BY <1>1, <2>3
<1>3. CASE T > 0
  <2> DEFINE A == Units(S, r) \X (1 .. W)
             B == Units(S, w) \X (1 .. T)
             P(a) == W * (a[1][2] - 1) + (a[2] - 1)
             F == [a \in A |-> <<<<a[1][1], Quot(P(a), T) + 1>>, Rest(P(a), T) + 1>>]
  <2>1. ASSUME NEW a \in A
        PROVE  /\ a = <<<<a[1][1], a[1][2]>>, a[2]>>
               /\ a[1][1] \in S /\ a[1][2] \in 1 .. r[a[1][1]] /\ a[2] \in 1 .. W
    <3>1. a[1] \in Units(S, r) /\ a[2] \in 1 .. W /\ a = <<a[1], a[2]>>
      OBVIOUS
    <3>2. PICK x \in S : a[1] \in Block(x, r)
      BY <3>1 DEF Units
    <3>3. a[1] = <<a[1][1], a[1][2]>> /\ a[1][1] = x /\ a[1][2] \in 1 .. r[x]
      BY <3>2 DEF Block
    <3> QED
      BY <3>1, <3>3
  <2>2. ASSUME NEW a \in A
        PROVE  P(a) \in Nat /\ P(a) < w[a[1][1]] * T
    <3> DEFINE k == a[1][2]    j == a[2]    n == r[a[1][1]]    lo == W * (k - 1)
    <3>1. k \in Nat /\ k >= 1 /\ k <= n /\ n \in Nat /\ j \in Nat /\ j >= 1 /\ j <= W
      BY <2>1
    <3>2. W * n <= w[a[1][1]] * T /\ w[a[1][1]] * T \in Nat
      BY <2>1, ProductType
    <3> HIDE DEF k, j, n
    <3>3. lo \in Nat
      BY <3>1
    <3>4. lo + W = W * k
      BY <3>1
    <3>5. W * k <= W * n /\ W * n \in Nat /\ W * k \in Nat
      BY <3>1, ProductMonotone, ProductType
    <3> HIDE DEF lo
    <3>6. lo + (j - 1) \in Nat /\ lo + (j - 1) < w[a[1][1]] * T
      BY <3>1, <3>2, <3>3, <3>4, <3>5
    <3> QED
      BY <3>6 DEF lo, k, j
  <2> HIDE DEF P
  <2>3. ASSUME NEW a \in A
        PROVE  /\ Quot(P(a), T) \in Nat /\ Rest(P(a), T) \in Nat /\ Rest(P(a), T) < T
               /\ P(a) = T * Quot(P(a), T) + Rest(P(a), T)
    BY <1>3, <2>2, QuotRest
  <2>4. ASSUME NEW a \in A PROVE F[a] \in B
    <3> DEFINE x == a[1][1]    q == Quot(P(a), T)    m == Rest(P(a), T)
    <3>1. F[a] = <<<<x, q + 1>>, m + 1>>
      OBVIOUS
    <3>2. q \in Nat /\ m \in Nat /\ m < T /\ P(a) = T * q + m /\ P(a) < w[x] * T
      BY <2>2, <2>3
    <3>3. x \in S /\ w[x] \in Nat
      BY <2>1
    <3> HIDE DEF x, q, m
    <3>4. T * q \in Nat /\ T * w[x] \in Nat /\ T * w[x] = w[x] * T
      BY <3>2, <3>3
    <3>5. T * q < T * w[x]
      BY <3>2, <3>4
    <3>6. q < w[x]
      BY <3>2, <3>3, <3>5, ProductLess
    <3>7. <<x, q + 1>> \in Units(S, w) /\ m + 1 \in 1 .. T
      BY <3>2, <3>3, <3>6 DEF Units, Block
    <3> QED
      BY <3>1, <3>7
  <2>5. ASSUME NEW a \in A, NEW b \in A, F[a] = F[b] PROVE a = b
    <3>1. a[1][1] = b[1][1] /\ Quot(P(a), T) = Quot(P(b), T) /\ Rest(P(a), T) = Rest(P(b), T)
      BY <2>3, <2>5
    <3>2. P(a) = P(b)
      BY <2>3, <3>1
    <3> DEFINE k == a[1][2] - 1    i == a[2] - 1    l == b[1][2] - 1    j == b[2] - 1
    <3>3. k \in Nat /\ l \in Nat /\ i \in Nat /\ j \in Nat /\ i < W /\ j < W
      BY <2>1
    <3>4. W * k + i = W * l + j
      BY <3>2 DEF P
    <3>5. k = l /\ i = j
      <4> HIDE DEF k, i, l, j
      <4> QED
        BY <3>3, <3>4, DivUnique
    <3>6. a[1][2] = b[1][2] /\ a[2] = b[2]
      BY <2>1, <3>5
    <3> QED
      BY <2>1, <3>1, <3>6
  <2>6. F \in Injection(A, B)
    <3>1. F \in [A -> B] /\ DOMAIN F = A
      BY <2>4
    <3> HIDE DEF F
    <3> QED
      BY <2>5, <3>1 DEF Injection, IsInjective
  <2> HIDE DEF F
  <2>7. IsFiniteSet(1 .. W) /\ Cardinality(1 .. W) = W
    BY FS_Interval
  <2>8. IsFiniteSet(1 .. T) /\ Cardinality(1 .. T) = T
    BY <1>3, FS_Interval
  <2>9. IsFiniteSet(B) /\ Cardinality(B) = SumOver(S, w) * T
    BY <1>1, <2>8, FS_Product DEF SumOver
  <2>10. IsFiniteSet(A) /\ Cardinality(A) = SumOver(S, r) * W
    BY <1>1, <2>7, FS_Product DEF SumOver
  <2>11. Cardinality(A) <= Cardinality(B)
    BY <2>6, <2>9, FS_Injection
  <2>12. W * SumOver(S, r) <= W * T
    BY <1>1, <2>9, <2>10, <2>11
  <2> QED
    BY <1>1, <2>12, ProductCancel
<1> QED
  BY <1>2, <1>3

-----------------------------------------------------------------------------
(* Sums of a field over a set of records.                                  *)

\* The sum of field k over the records in S.
FieldSum(S, k) == SumOver(S, [x \in S |-> x[k]])

\* It is a natural number when every record's field is.
LEMMA FieldSumType ==
  ASSUME NEW S, IsFiniteSet(S), NEW k, \A z \in S : z[k] \in Nat
  PROVE  FieldSum(S, k) \in Nat
<1> DEFINE f == [x \in S |-> x[k]]
<1>1. \A z \in S : f[z] \in Nat
  OBVIOUS
<1> HIDE DEF f
<1>2. SumOver(S, f) \in Nat
  BY <1>1, UnitsFinite
<1> QED
  BY <1>2 DEF FieldSum, f

\* A record more adds its field.
LEMMA FieldSumInsert ==
  ASSUME NEW S, IsFiniteSet(S), NEW k, \A z \in S : z[k] \in Nat,
         NEW y, y \notin S, y[k] \in Nat
  PROVE  FieldSum(S \cup {y}, k) = FieldSum(S, k) + y[k]
<1> DEFINE f == [x \in S |-> x[k]]
           g == [x \in S \cup {y} |-> x[k]]
<1>1. (\A z \in S : f[z] \in Nat /\ g[z] = f[z]) /\ g[y] \in Nat
  OBVIOUS
<1>2. g[y] = y[k]
  OBVIOUS
<1> HIDE DEF f, g
<1>3. SumOver(S \cup {y}, g) = SumOver(S, f) + g[y]
  BY <1>1, SumInsert
<1> QED
  BY <1>2, <1>3 DEF FieldSum, f, g

\* A record that replaces another changes the sum by the difference of their fields.
LEMMA FieldSumReplace ==
  ASSUME NEW S, IsFiniteSet(S), NEW k, \A z \in S : z[k] \in Nat,
         NEW x \in S, NEW y, y \notin S \ {x}, y[k] \in Nat
  PROVE  /\ FieldSum((S \ {x}) \cup {y}, k) \in Nat
         /\ FieldSum((S \ {x}) \cup {y}, k) + x[k] = FieldSum(S, k) + y[k]
<1> DEFINE R == S \ {x}
<1>1. S = R \cup {x} /\ x \notin R /\ y \notin R /\ \A z \in R : z[k] \in Nat
  OBVIOUS
<1>2. IsFiniteSet(R)
  BY FS_Subset
<1>3. x[k] \in Nat
  OBVIOUS
<1> HIDE DEF R
<1>4. FieldSum(R \cup {x}, k) = FieldSum(R, k) + x[k]
  BY <1>1, <1>2, <1>3, FieldSumInsert
<1>5. FieldSum(R \cup {y}, k) = FieldSum(R, k) + y[k]
  BY <1>1, <1>2, FieldSumInsert
<1>6. FieldSum(R, k) \in Nat
  BY <1>1, <1>2, FieldSumType
<1>7. FieldSum(R \cup {y}, k) \in Nat
  BY <1>5, <1>6
<1>8. FieldSum(R \cup {y}, k) + x[k] = FieldSum(R \cup {x}, k) + y[k]
  BY <1>3, <1>4, <1>5, <1>6
<1> QED
  BY <1>1, <1>7, <1>8 DEF R

-----------------------------------------------------------------------------
(* Induction, with a set for the numbers that have the property; and what  *)
(* happens to a sequence that loses an element.                            *)

\* A set with 0 that is closed under successor has every natural number.
LEMMA SetInduction ==
  ASSUME NEW S, 0 \in S, \A n \in Nat : n \in S => n + 1 \in S
  PROVE  Nat \subseteq S
<1> SUFFICES ASSUME Nat \ S # {} PROVE FALSE
  OBVIOUS
<1> DEFINE R == OpToRel(<, Nat)
<1>1. PICK x \in Nat \ S : \A y \in Nat \ S : ~ (<<y, x>> \in R)
  <2>1. IsWellFoundedOn(R, Nat)
    BY NatLessThanWellFounded
  <2> HIDE DEF R
  <2> QED
    BY <2>1, WFMin
<1>2. x # 0 /\ x - 1 \in Nat /\ x = (x - 1) + 1
  BY SMT
<1>3. x - 1 \notin S
  BY <1>2
<1>4. <<x - 1, x>> \in R
  BY <1>2 DEF OpToRel
<1> QED
  BY <1>1, <1>2, <1>3, <1>4

\* Without its element at k a sequence is one element shorter and has no new ones.
LEMMA WithoutElement ==
  ASSUME NEW J, NEW s \in Seq(J), NEW k \in 1 .. Len(s)
  PROVE  LET r == SubSeq(s, 1, k - 1) \o SubSeq(s, k + 1, Len(s))
         IN  /\ r \in Seq(J) /\ Len(r) = Len(s) - 1
             /\ \A i \in 1 .. Len(r) : r[i] = IF i < k THEN s[i] ELSE s[i + 1]
<1> DEFINE a == SubSeq(s, 1, k - 1)
           b == SubSeq(s, k + 1, Len(s))
<1>1. Len(s) \in Nat /\ k \in Nat /\ k >= 1 /\ k <= Len(s)
  BY LenProperties
<1>2. /\ a \in Seq(J) /\ Len(a) = k - 1 /\ \A i \in 1 .. k - 1 : a[i] = s[i]
  BY <1>1, SMT
<1>3. /\ b \in Seq(J) /\ Len(b) = Len(s) - k
      /\ \A i \in 1 .. Len(s) - k : b[i] = s[k + i]
  BY <1>1, SMT
<1> HIDE DEF a, b
<1>4. /\ a \o b \in Seq(J) /\ Len(a \o b) = Len(a) + Len(b)
      /\ \A i \in 1 .. Len(a) + Len(b) :
            (a \o b)[i] = IF i <= Len(a) THEN a[i] ELSE b[i - Len(a)]
  BY <1>2, <1>3, ConcatProperties
<1>5. ASSUME NEW i \in 1 .. Len(s) - 1
      PROVE  (a \o b)[i] = IF i < k THEN s[i] ELSE s[i + 1]
  <2>1. CASE i < k
    BY <1>1, <1>2, <1>3, <1>4, <2>1
  <2>2. CASE i >= k
    <3>1. (a \o b)[i] = b[i - (k - 1)]
      BY <1>1, <1>2, <1>3, <1>4, <2>2
    <3>2. i - (k - 1) \in 1 .. Len(s) - k /\ k + (i - (k - 1)) = i + 1
      BY <1>1, <2>2
    <3> QED
      BY <1>1, <1>3, <2>2, <3>1, <3>2
  <2>3. i < k \/ i >= k
    BY <1>1
  <2> QED
    BY <2>1, <2>2, <2>3
<1>6. Len(a \o b) = Len(s) - 1
  BY <1>1, <1>2, <1>3, <1>4
<1>7. /\ a \o b \in Seq(J) /\ Len(a \o b) = Len(s) - 1
      /\ \A i \in 1 .. Len(a \o b) : (a \o b)[i] = IF i < k THEN s[i] ELSE s[i + 1]
  BY <1>4, <1>5, <1>6
<1> QED
  BY <1>7 DEF a, b

\* Sums over the front of a sequence.
LEMMA SumUpTo ==
  ASSUME NEW f, NEW n \in Nat, \A j \in 1 .. n : f[j] \in Nat
  PROVE  /\ SumOver(1 .. 0, f) = 0 /\ SumOver(1 .. n, f) \in Nat
         /\ \A k \in 0 .. n : SumOver(1 .. k, f) \in Nat /\ SumOver(1 .. k, f) <= SumOver(1 .. n, f)
         /\ \A k \in 1 .. n : SumOver(1 .. k, f) = SumOver(1 .. k - 1, f) + f[k]
<1>1. IsFiniteSet(1 .. n)
  BY FS_Interval
<1>2. IsFiniteSet(Units(1 .. n, f))
  BY <1>1, UnitsFinite
<1>3. SumOver(1 .. 0, f) = 0
  <2>1. 1 .. 0 = {}
    OBVIOUS
  <2> QED
    BY <2>1, SumEmpty
<1>4. ASSUME NEW k \in 0 .. n
      PROVE  /\ IsFiniteSet(Units(1 .. k, f)) /\ SumOver(1 .. k, f) \in Nat
             /\ SumOver(1 .. k, f) <= SumOver(1 .. n, f)
  <2>1. 1 .. k \in SUBSET (1 .. n)
    OBVIOUS
  <2> QED
    BY <1>2, <2>1, SumSubset
<1>5. ASSUME NEW k \in 1 .. n
      PROVE  SumOver(1 .. k, f) = SumOver(1 .. k - 1, f) + f[k]
  <2>1. 1 .. k = (1 .. k - 1) \cup {k} /\ k \notin 1 .. k - 1 /\ k - 1 \in 0 .. n
    OBVIOUS
  <2>2. IsFiniteSet(Units(1 .. k - 1, f)) /\ f[k] \in Nat
    BY <1>4, <2>1
  <2>3. SumOver((1 .. k - 1) \cup {k}, f) = SumOver(1 .. k - 1, f) + f[k]
    BY <2>1, <2>2, SumAdd
  <2> QED
    BY <2>1, <2>3
<1>6. n \in 0 .. n
  OBVIOUS
<1> QED
  BY <1>3, <1>4, <1>5, <1>6

\* Terms that are at most the steps of h sum up to at most what h climbs.
LEMMA TelescopeBoth ==
  ASSUME NEW n \in Nat, NEW f, \A i \in 1 .. n : f[i] \in Nat,
         NEW h, \A i \in 0 .. n : h[i] \in Int
  PROVE  /\ (\A i \in 1 .. n : f[i] <= h[i] - h[i - 1]) => SumOver(1 .. n, f) <= h[n] - h[0]
         /\ (\A i \in 1 .. n : f[i] = h[i] - h[i - 1]) => SumOver(1 .. n, f) = h[n] - h[0]
<1>1. /\ SumOver(1 .. 0, f) = 0 /\ \A k \in 0 .. n : SumOver(1 .. k, f) \in Nat
      /\ \A k \in 1 .. n : SumOver(1 .. k, f) = SumOver(1 .. k - 1, f) + f[k]
  BY SumUpTo
<1>2. ASSUME \A i \in 1 .. n : f[i] <= h[i] - h[i - 1]
      PROVE  SumOver(1 .. n, f) <= h[n] - h[0]
  <2> DEFINE S == {k \in Nat : k <= n => SumOver(1 .. k, f) <= h[k] - h[0]}
  <2>1. 0 \in S
    BY <1>1
  <2>2. ASSUME NEW k \in Nat, k \in S PROVE k + 1 \in S
    <3> SUFFICES ASSUME k + 1 <= n PROVE SumOver(1 .. k + 1, f) <= h[k + 1] - h[0]
      OBVIOUS
    <3>1. k \in 0 .. n /\ k + 1 \in 1 .. n /\ k + 1 \in 0 .. n /\ 0 \in 0 .. n /\ (k + 1) - 1 = k
      OBVIOUS
    <3>2. SumOver(1 .. k + 1, f) = SumOver(1 .. k, f) + f[k + 1] /\ f[k + 1] <= h[k + 1] - h[k]
      BY <1>1, <1>2, <3>1
    <3>3. /\ SumOver(1 .. k, f) <= h[k] - h[0] /\ SumOver(1 .. k, f) \in Nat
          /\ f[k + 1] \in Nat /\ h[k] \in Int /\ h[k + 1] \in Int /\ h[0] \in Int
      BY <1>1, <2>2, <3>1
    <3> QED
      BY <3>2, <3>3
  <2> HIDE DEF S
  <2>3. n \in S
    BY <2>1, <2>2, SetInduction
  <2> QED
    BY <2>3 DEF S
<1>3. ASSUME \A i \in 1 .. n : f[i] = h[i] - h[i - 1]
      PROVE  SumOver(1 .. n, f) = h[n] - h[0]
  <2> DEFINE S == {k \in Nat : k <= n => SumOver(1 .. k, f) = h[k] - h[0]}
  <2>1. 0 \in S
    BY <1>1
  <2>2. ASSUME NEW k \in Nat, k \in S PROVE k + 1 \in S
    <3> SUFFICES ASSUME k + 1 <= n PROVE SumOver(1 .. k + 1, f) = h[k + 1] - h[0]
      OBVIOUS
    <3>1. k \in 0 .. n /\ k + 1 \in 1 .. n /\ k + 1 \in 0 .. n /\ 0 \in 0 .. n /\ (k + 1) - 1 = k
      OBVIOUS
    <3>2. SumOver(1 .. k + 1, f) = SumOver(1 .. k, f) + f[k + 1] /\ f[k + 1] = h[k + 1] - h[k]
      BY <1>1, <1>3, <3>1
    <3>3. /\ SumOver(1 .. k, f) = h[k] - h[0] /\ SumOver(1 .. k, f) \in Nat
          /\ f[k + 1] \in Nat /\ h[k] \in Int /\ h[k + 1] \in Int /\ h[0] \in Int
      BY <1>1, <2>2, <3>1
    <3> QED
      BY <3>2, <3>3
  <2> HIDE DEF S
  <2>3. n \in S
    BY <2>1, <2>2, SetInduction
  <2> QED
    BY <2>3 DEF S
<1> QED
  BY <1>2, <1>3

StepsOf(f, h, n) == \A i \in 1 .. n : f[i] \in Nat /\ f[i] = h[i] - h[i - 1]

LEMMA Telescope ==
  ASSUME NEW n \in Nat, NEW f, NEW h, \A i \in 0 .. n : h[i] \in Int, StepsOf(f, h, n)
  PROVE  SumOver(1 .. n, f) = h[n] - h[0]
<1>1. \A i \in 1 .. n : f[i] \in Nat
  BY DEF StepsOf
<1>2. \A i \in 1 .. n : f[i] = h[i] - h[i - 1]
  BY DEF StepsOf
<1>3. (\A i \in 1 .. n : f[i] = h[i] - h[i - 1]) => SumOver(1 .. n, f) = h[n] - h[0]
  BY <1>1, TelescopeBoth
<1> QED
  BY <1>2, <1>3

LEMMA TelescopeUpTo ==
  ASSUME NEW n \in Nat, NEW f, \A i \in 1 .. n : f[i] \in Nat,
         NEW h, \A i \in 0 .. n : h[i] \in Int, \A i \in 1 .. n : f[i] <= h[i] - h[i - 1]
  PROVE  SumOver(1 .. n, f) <= h[n] - h[0]
<1>1. (\A i \in 1 .. n : f[i] <= h[i] - h[i - 1]) => SumOver(1 .. n, f) <= h[n] - h[0]
  BY TelescopeBoth
<1> QED
  BY <1>1

\* A finite set of integers has a least and a greatest element.
LEMMA Extremes ==
  ASSUME NEW S \in SUBSET Int, IsFiniteSet(S), S # {}
  PROVE  \E lo, hi \in S : \A x \in S : lo <= x /\ x <= hi
<1> DEFINE Bounded(T) == \E lo, hi \in T : \A x \in T : lo <= x /\ x <= hi
           N == {n \in Nat : \A T \in SUBSET Int :
                               IsFiniteSet(T) /\ Cardinality(T) = n + 1 => Bounded(T)}
<1>1. 0 \in N
  <2> SUFFICES ASSUME NEW T \in SUBSET Int, IsFiniteSet(T), Cardinality(T) = 1 PROVE Bounded(T)
    OBVIOUS
  <2>1. PICK x : T = {x}
    BY FS_Singleton
  <2> QED
    BY <2>1
<1>2. ASSUME NEW n \in Nat, n \in N PROVE n + 1 \in N
  <2> SUFFICES ASSUME NEW T \in SUBSET Int, IsFiniteSet(T), Cardinality(T) = (n + 1) + 1
               PROVE  Bounded(T)
    OBVIOUS
  <2>1. T # {}
    BY FS_EmptySet
  <2>2. PICK x \in T : TRUE
    BY <2>1
  <2> DEFINE R == T \ {x}
  <2>3. IsFiniteSet(R) /\ Cardinality(R) = Cardinality(T) - 1
    BY FS_RemoveElement
  <2>4. R \in SUBSET Int /\ Cardinality(R) = n + 1 /\ x \in Int
    BY <2>3
  <2>5. Bounded(R)
    BY <1>2, <2>3, <2>4
  <2>6. PICK lo \in R, hi \in R : \A y \in R : lo <= y /\ y <= hi
    BY <2>5
  <2>7. lo \in Int /\ hi \in Int
    BY <2>4, <2>6
  <2> DEFINE l == IF x < lo THEN x ELSE lo
             h == IF x > hi THEN x ELSE hi
  <2>8. l \in T /\ h \in T
    OBVIOUS
  <2>9. \A y \in T : l <= y /\ y <= h
    <3> SUFFICES ASSUME NEW y \in T PROVE l <= y /\ y <= h
      OBVIOUS
    <3>1. y \in Int /\ (y = x \/ (lo <= y /\ y <= hi))
      BY <2>6
    <3> QED
      BY <2>4, <2>7, <3>1
  <2> HIDE DEF l, h
  <2> QED
    BY <2>8, <2>9
<1> HIDE DEF N
<1>3. Nat \subseteq N
  BY <1>1, <1>2, SetInduction
<1>4. Cardinality(S) \in Nat /\ Cardinality(S) # 0
  BY FS_CardinalityType, FS_EmptySet
<1>5. Cardinality(S) - 1 \in Nat /\ (Cardinality(S) - 1) + 1 = Cardinality(S)
  BY <1>4
<1>6. Cardinality(S) - 1 \in N
  BY <1>3, <1>5
<1>7. Bounded(S)
  BY <1>5, <1>6 DEF N
<1> QED
  BY <1>7

=============================================================================
