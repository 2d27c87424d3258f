------------------------------- MODULE MCOrder -------------------------------
(* A small instance of Order and Cart for TLC: int64 is 4 bits wide, INT 3. *)
(* The body "wraps" has three lines of one SKU whose sum wraps round to 2;  *)
(* the total of "many" exceeds an int64, and so do two items of a cart at   *)
(* the high price.                                                          *)
(*                                                                          *)
(* Orders and carts share no table.  What interleaves with nothing of the   *)
(* other part is not interleaved: in a behaviour one part runs, any way it  *)
(* can, and the other stays as it began.                                    *)
EXTENDS Order, Cart, TLC

CONSTANTS w1, w2, s1, c1, c2

Line(sku, qty) == [sku |-> sku, qty |-> qty]

Bodies == {"one", "wraps", "many"}

LinesOfBody ==
    [b \in Bodies |->
       CASE b = "one" -> <<Line(1, 2)>>
         [] b = "wraps" -> <<Line(1, 7), Line(1, 7), Line(1, 4)>>
         [] b = "many" -> <<Line(3, 1), Line(1, 1), Line(2, 1)>>]

\* Before SKU 1 is for sale, and after.
Prices == {<<0, 7, 7>>, <<2, 7, 7>>}

ShopInit == Init /\ CartInit

ShopNext ==
    \/ Next /\ CartInit /\ UNCHANGED cartVars
    \/ CartNext /\ Init /\ UNCHANGED vars

ShopSpec == ShopInit /\ [][ShopNext]_<<vars, cartVars>>

Symmetry == Permutations(Worker) \cup Permutations(Client)
=============================================================================
