------------------------------ MODULE MCOutbox ------------------------------
(* A small instance of Outbox for TLC. *)
EXTENDS Outbox

CONSTANTS m1, m2, p1, p2
=============================================================================
