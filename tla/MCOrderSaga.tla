---------------------------- MODULE MCOrderSaga ----------------------------
(* Small instances of OrderSaga for TLC. *)
EXTENDS OrderSaga

CONSTANTS e1, e2, w1, w2
=============================================================================
