------------------------------ MODULE OrderBook ------------------------------
(***************************************************************************)
(* What the order service promises, seen from outside: under one user and  *)
(* idempotency key there is at most one order, it starts as PENDING, and   *)
(* its status only ever moves along the life cycle below.                  *)
(***************************************************************************)
CONSTANT Slot           \* pairs (user_id, idempotency_key)

VARIABLE book           \* the status of each slot's order, or "NONE"

Status == {"PENDING", "RESERVING_STOCK", "STOCK_RESERVED", "PAYING", "PAID",
           "CONFIRMED", "CANCELLED", "REFUNDED"}

\* The forward path of a checkout, and where it may be called off.
LifeCycle ==
    {<<"PENDING", "RESERVING_STOCK">>, <<"RESERVING_STOCK", "STOCK_RESERVED">>,
     <<"STOCK_RESERVED", "PAYING">>, <<"PAYING", "PAID">>, <<"PAID", "CONFIRMED">>,
     <<"PAID", "REFUNDED">>}
    \cup ({"PENDING", "RESERVING_STOCK", "STOCK_RESERVED", "PAYING"} \X {"CANCELLED"})

BookInit == book = [s \in Slot |-> "NONE"]

Place(s) ==
    /\ book[s] = "NONE"
    /\ book' = [book EXCEPT ![s] = "PENDING"]

Move(s) ==
    \E to \in Status :
        /\ <<book[s], to>> \in LifeCycle
        /\ book' = [book EXCEPT ![s] = to]

BookNext == \E s \in Slot : Place(s) \/ Move(s)

BookSpec == BookInit /\ [][BookNext]_book
=============================================================================
