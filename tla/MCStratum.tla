----------------------------- MODULE MCStratum -----------------------------
(* A small instance of Stratum for TLC. *)
EXTENDS Stratum

CONSTANTS m1, m2, s1, txA, txB

=============================================================================
