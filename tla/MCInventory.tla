---------------------------- MODULE MCInventory ----------------------------
(* Small instances of Inventory for TLC. *)
EXTENDS Inventory

CONSTANTS r1, r2, o1, o2, t1, t2

Line(s, q) == [sku |-> s, qty |-> q]

\* Two SKUs in descending order of lines; duplicate lines of one SKU; lines
\* whose sum wraps around a 3 bit int (3 + 3 = 6 = -2).
MCRequests ==
    {<<Line(2, 1), Line(1, 1)>>,
     <<Line(1, 1), Line(1, 1)>>,
     <<Line(2, 3), Line(2, 3)>>}

\* The same without the duplicate lines, for the liveness and refinement run.
MCRequestsLive == {<<Line(2, 1), Line(1, 1)>>, <<Line(2, 3), Line(2, 3)>>}

Symmetry == Permutations({r1, r2}) \cup Permutations({o1, o2}) \cup Permutations({t1, t2})
=============================================================================
