----------------------------- MODULE StockLedger -----------------------------
(***************************************************************************)
(* What the inventory component promises its callers, without transactions *)
(* or locks: a ledger of stock rows and reservations in which receiving,   *)
(* reserving, committing and releasing stock each happen at one instant.   *)
(* Inventory.tla, the transactional implementation, refines it.            *)
(***************************************************************************)
EXTENDS Integers, FiniteSets

CONSTANTS
    SKU,        \* stock keeping units, a set of integers (their sort order)
    ResId,      \* reservation identifiers
    Order,      \* order identifiers
    NoOrder,    \* the order of a reservation row that does not exist
    MaxInt4     \* largest value of a 32 bit INT column

ASSUME LedgerAssumption ==
    /\ SKU \subseteq Int
    /\ IsFiniteSet(ResId)
    /\ NoOrder \notin Order
    /\ MaxInt4 \in Nat

VARIABLES
    onHand,     \* inventory.on_hand, 0 for a SKU without a row
    reserved,   \* inventory.reserved
    resv,       \* stock_reservations with their items
    received    \* history: units ever received by replenishment

ledgerVars == <<onHand, reserved, resv, received>>

ResStatus == {"NONE", "PENDING", "COMMITTED", "RELEASED"}

Quantities == [SKU -> 0 .. MaxInt4]

Reservation == [status : ResStatus, order : Order \cup {NoOrder}, qty : Quantities]

NoReservation ==
    [status |-> "NONE", order |-> NoOrder, qty |-> [s \in SKU |-> 0]]

LedgerInit ==
    /\ onHand = [s \in SKU |-> 0]
    /\ reserved = [s \in SKU |-> 0]
    /\ resv = [r \in ResId |-> NoReservation]
    /\ received = [s \in SKU |-> 0]

Receive(s, q) ==
    /\ onHand[s] + q <= MaxInt4
    /\ onHand' = [onHand EXCEPT ![s] = @ + q]
    /\ received' = [received EXCEPT ![s] = @ + q]
    /\ UNCHANGED <<reserved, resv>>

\* A reservation is all or nothing, and there is at most one per order.
Reserve(r, o, qty) ==
    /\ resv[r].status = "NONE"
    /\ \A x \in ResId : resv[x].order # o
    /\ \A s \in SKU : qty[s] <= onHand[s] - reserved[s]
    /\ reserved' = [s \in SKU |-> reserved[s] + qty[s]]
    /\ resv' = [resv EXCEPT ![r] =
                  [status |-> "PENDING", order |-> o, qty |-> qty]]
    /\ UNCHANGED <<onHand, received>>

Commit(r) ==
    /\ resv[r].status = "PENDING"
    /\ onHand' = [s \in SKU |-> onHand[s] - resv[r].qty[s]]
    /\ reserved' = [s \in SKU |-> reserved[s] - resv[r].qty[s]]
    /\ resv' = [resv EXCEPT ![r].status = "COMMITTED"]
    /\ UNCHANGED received

Release(r) ==
    /\ resv[r].status = "PENDING"
    /\ reserved' = [s \in SKU |-> reserved[s] - resv[r].qty[s]]
    /\ resv' = [resv EXCEPT ![r].status = "RELEASED"]
    /\ UNCHANGED <<onHand, received>>

LedgerNext ==
    \/ \E s \in SKU, q \in 1 .. MaxInt4 : Receive(s, q)
    \/ \E r \in ResId, o \in Order, qty \in Quantities : Reserve(r, o, qty)
    \/ \E r \in ResId : Commit(r) \/ Release(r)

\* The specification; as a property of Inventory it says that every call of
\* the service appears to its clients as one atomic operation.
LedgerSpec == LedgerInit /\ [][LedgerNext]_ledgerVars

-----------------------------------------------------------------------------
\* Quantities respect their INT columns and are never negative.
LedgerTypeOK ==
    /\ onHand \in [SKU -> 0 .. MaxInt4]
    /\ reserved \in [SKU -> 0 .. MaxInt4]
    /\ resv \in [ResId -> Reservation]
    /\ received \in [SKU -> Nat]

\* The units of SKU s that reservations in status st hold: unit i of
\* reservation r is the pair <<r, i>>.
Units(st, s) ==
    {u \in ResId \X (1 .. MaxInt4) :
        resv[u[1]].status = st /\ u[2] <= resv[u[1]].qty[s]}

\* No unit is promised twice and none is promised without a reservation: what
\* a stock row counts as reserved is what its pending reservations hold, and
\* it never exceeds what is on the shelf.
Conservation ==
    \A s \in SKU :
        /\ reserved[s] = Cardinality(Units("PENDING", s))
        /\ reserved[s] <= onHand[s]

\* Every unit received is either on the shelf or left it through a committed
\* reservation, exactly once.
ShelfBalance ==
    \A s \in SKU :
        onHand[s] + Cardinality(Units("COMMITTED", s)) = received[s]

\* Committed and released are final: the reservation row never changes again.
SettledForever ==
    [][\A r \in ResId :
          resv[r].status \in {"COMMITTED", "RELEASED"} => resv'[r] = resv[r]]_ledgerVars
=============================================================================
