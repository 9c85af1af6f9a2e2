---------------------------- MODULE MCBuyerLane ----------------------------
(* A small instance of BuyerLane for TLC. *)
EXTENDS BuyerLane, TLC

CONSTANTS m1, b1, b2, easy, block

\* "easy" meets the floor of 1, "block" also meets the network difficulty.
MCHashDifficulty == [n \in Nonces |-> IF n = block THEN 2 ELSE 1]

BuyerSymmetry == Permutations(Buyers)

=============================================================================
