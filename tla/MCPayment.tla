------------------------------ MODULE MCPayment ------------------------------
(* A small instance of Payment for TLC. *)
EXTENDS Payment, TLC

CONSTANTS s1, o1, o2, w1, w2, w3

Workers == Permutations(Worker)
=============================================================================
