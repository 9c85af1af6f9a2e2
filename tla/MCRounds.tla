------------------------------ MODULE MCRounds ------------------------------
(* A small instance of Rounds for TLC. *)
EXTENDS Rounds, TLC

CONSTANTS m1, m2, easy, block

\* "easy" meets the floor of 1, "block" also meets the network difficulty.
MCHashDifficulty == [n \in Nonces |-> IF n = block THEN 2 ELSE 1]

MinerSymmetry == Permutations(Miners)

=============================================================================
