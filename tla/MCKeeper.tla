------------------------------ MODULE MCKeeper ------------------------------
(* A small instance of Keeper for TLC. *)
EXTENDS Keeper, TLC

CONSTANTS k1, k2

KeeperSymmetry == Permutations(Keepers)

=============================================================================
