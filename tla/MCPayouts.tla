----------------------------- MODULE MCPayouts ------------------------------
(* A small instance of Payouts for TLC. *)
EXTENDS Payouts, TLC

CONSTANTS m1, m2, c1, c2

\* Miners are alike, and so are the caps.
PayoutsSymmetry == Permutations(Miners) \cup Permutations(Caps)

=============================================================================
