------------------------------- MODULE MCMedia -------------------------------
(* A small instance of Media alone for TLC. *)
EXTENDS Media

CONSTANTS i1, i2
=============================================================================
