------------------------------ MODULE WorkSums ------------------------------
(***************************************************************************)
(* Sums of natural numbers over a finite set.  The sum of f over S is the  *)
(* number of units in the disjoint union of the blocks 1 .. f[x], which    *)
(* needs no recursion: its laws follow from the laws of Cardinality.       *)
(***************************************************************************)
EXTENDS Naturals, FiniteSets

\* f[x] units standing for x.
Block(x, f) == {x} \X (1 .. f[x])

\* All the units of the elements of S.
Units(S, f) == UNION {Block(x, f) : x \in S}

\* The sum of f[x] for x in S.
SumOver(S, f) == Cardinality(Units(S, f))

=============================================================================
