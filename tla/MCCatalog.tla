------------------------------ MODULE MCCatalog ------------------------------
(* A small instance of Catalog and Media for TLC.                           *)
(*                                                                          *)
(* Products and images share no table that both write.  What interleaves    *)
(* with nothing of the other part is not interleaved: in a behaviour one    *)
(* part runs, any way it can, and the other stays as it began.              *)
EXTENDS Catalog, Media

CONSTANTS i1, i2, i3

StoreInit == Init /\ MediaInit

StoreNext ==
    \/ Next /\ MediaInit /\ UNCHANGED imageVars
    \/ MediaNext /\ Init /\ UNCHANGED vars

StoreSpec == StoreInit /\ [][StoreNext]_<<vars, imageVars>>
=============================================================================
