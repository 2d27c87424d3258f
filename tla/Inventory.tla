------------------------------ MODULE Inventory ------------------------------
(***************************************************************************)
(* The inventory component: internal/domain/inventory over PostgreSQL at   *)
(* READ COMMITTED.  Each Tx is one call of the service in flight, with the *)
(* row locks its transaction holds.  SELECT ... ORDER BY sku FOR UPDATE    *)
(* takes the row locks one at a time, so calls interleave between any two  *)
(* of them.  The writes of a transaction touch only rows it has locked (or *)
(* a reservation row nobody else can see) and are applied in one step with *)
(* its commit; any CHECK or UNIQUE violation rolls the transaction back.   *)
(***************************************************************************)
EXTENDS StockLedger, Sequences, FiniteSetsExt, SequencesExt

CONSTANTS
    Tx,         \* calls of the service in flight at the same time
    NoTx,       \* a row lock nobody holds
    NoRes,      \* reservation id not given (lookup by order)
    Requests,   \* item lists of ReserveStock calls: sequences of [sku, qty]
    IntModulus  \* 2^w for the w bit int in which Go sums quantities

VARIABLES
    stocked,    \* SKUs that have an inventory row
    tx,         \* the calls
    skuLock,    \* holder of each inventory row lock
    resLock     \* holder of each stock_reservations row lock

vars == <<onHand, reserved, resv, received, stocked, tx, skuLock, resLock>>

Ops == {"none", "reserve", "commit", "release"}
Outcomes == {"none", "ok", "insufficient", "duplicate", "checkFailed",
             "notFound", "alreadyCommitted", "alreadyReleased", "aborted"}

-----------------------------------------------------------------------------
(* Request normalisation *)

\* Two's complement wrap-around of Go's int.
Wrap(n) == ((n + IntModulus \div 2) % IntModulus) - IntModulus \div 2

RequestedSkus(lines) == {s \in SKU : \E i \in DOMAIN lines : lines[i].sku = s}

\* Sum of the quantities of all lines of each requested SKU.
Consolidate(lines) ==
    [s \in SKU |->
        IF s \in RequestedSkus(lines)
        THEN FoldSeq(LAMBDA line, sum :
                        IF line.sku = s THEN Wrap(sum + line.qty) ELSE sum,
                     0, lines)
        ELSE 0]

\* Empty item lists, blank SKUs and quantities <= 0 are refused up front.
ValidRequest(lines) ==
    /\ lines # <<>>
    /\ \A i \in DOMAIN lines : lines[i].sku \in SKU /\ lines[i].qty > 0

ASSUME InventoryAssumption ==
    /\ NoTx \notin Tx
    /\ NoRes \notin ResId
    /\ IsFiniteSet(SKU)
    /\ \A lines \in Requests : Consolidate(lines) \in [SKU -> Int]

-----------------------------------------------------------------------------
(* Transactions and row locks *)

\* A call that holds no row lock and has read no items.
Call(op, pc, r, o, out) ==
    [op |-> op, pc |-> pc, rid |-> r, order |-> o,
     qty |-> [s \in SKU |-> 0], skus |-> {}, want |-> {}, out |-> out]

Init ==
    /\ onHand = [s \in SKU |-> 0]
    /\ reserved = [s \in SKU |-> 0]
    /\ resv = [r \in ResId |-> NoReservation]
    /\ received = [s \in SKU |-> 0]
    /\ stocked = {}
    /\ tx = [t \in Tx |-> Call("none", "idle", NoRes, NoOrder, "none")]
    /\ skuLock = [s \in SKU |-> NoTx]
    /\ resLock = [r \in ResId |-> NoTx]

Held(t) == {s \in SKU : skuLock[s] = t}

\* COMMIT or ROLLBACK: the call returns out and its row locks are freed.
EndTx(t, out) ==
    /\ tx' = [tx EXCEPT ![t] = Call(@.op, "idle", @.rid, @.order, out)]
    /\ skuLock' = [s \in SKU |-> IF skuLock[s] = t THEN NoTx ELSE skuLock[s]]
    /\ resLock' = [r \in ResId |-> IF resLock[r] = t THEN NoTx ELSE resLock[r]]

Rollback(t, out) ==
    /\ EndTx(t, out)
    /\ UNCHANGED <<onHand, reserved, resv, received, stocked>>

\* The CHECK constraints of an inventory row.
RowOK(h, v) == 0 <= h /\ h <= MaxInt4 /\ 0 <= v /\ v <= h

\* Mutant: a commit locks its rows in the order in which it stored them.
NextRowUnsorted(t) ==
    CHOOSE s \in tx[t].want :
        \A u \in tx[t].want : IF tx[t].op = "commit" THEN s >= u ELSE s <= u

\* The row the ORDER BY sku ASC FOR UPDATE statement of t locks next.
NextRow(t) == CHOOSE s \in tx[t].want : \A u \in tx[t].want : s <= u

\* One row lock of LockSKUsForUpdate; waits while another call holds it.
LockSKUsForUpdate(t) ==
    /\ tx[t].pc = "lockSkus"
    /\ tx[t].want # {}
    /\ LET s == NextRow(t) IN
          /\ skuLock[s] = NoTx
          /\ skuLock' = [skuLock EXCEPT ![s] = t]
          /\ tx' = [tx EXCEPT ![t].want = @ \ {s}]
    /\ UNCHANGED <<onHand, reserved, resv, received, stocked, resLock>>

\* Context cancelled, connection lost or process gone before COMMIT.
Abort(t) ==
    /\ tx[t].pc # "idle"
    /\ Rollback(t, "aborted")

-----------------------------------------------------------------------------
(* ReplenishStock: one upsert, which waits for the row lock. *)

\* Mutant: on_hand has no upper limit.
ReplenishUnlimited(s, q) ==
    /\ skuLock[s] = NoTx
    /\ stocked' = stocked \cup {s}
    /\ onHand' = [onHand EXCEPT ![s] = @ + q]
    /\ received' = [received EXCEPT ![s] = @ + q]
    /\ UNCHANGED <<reserved, resv, tx, skuLock, resLock>>

ReplenishStock(s, q) ==
    /\ skuLock[s] = NoTx
    /\ onHand[s] + q <= MaxInt4
    /\ stocked' = stocked \cup {s}
    /\ onHand' = [onHand EXCEPT ![s] = @ + q]
    /\ received' = [received EXCEPT ![s] = @ + q]
    /\ UNCHANGED <<reserved, resv, tx, skuLock, resLock>>

-----------------------------------------------------------------------------
(* ReserveStock *)

\* The rows to lock are those that exist when the locking statement starts.
ReserveStock(t, r, o, lines) ==
    /\ tx[t].pc = "idle"
    /\ ValidRequest(lines)
    /\ tx' = [tx EXCEPT ![t] =
                [op |-> "reserve", pc |-> "lockSkus", rid |-> r, order |-> o,
                 qty |-> Consolidate(lines), skus |-> RequestedSkus(lines),
                 want |-> RequestedSkus(lines) \cap stocked, out |-> "none"]]
    /\ UNCHANGED <<onHand, reserved, resv, received, stocked, skuLock, resLock>>

\* A requested SKU was not found, or has too little available.
Shortage(t) ==
    \E s \in tx[t].skus :
        s \notin Held(t) \/ onHand[s] - reserved[s] < tx[t].qty[s]

\* Mutant: order_id is not UNIQUE.
DuplicateIdOnly(t) == resv[tx[t].rid].status # "NONE"

\* UNIQUE violation on the reservation id or on the order.
Duplicate(t) ==
    \/ resv[tx[t].rid].status # "NONE"
    \/ \E r \in ResId : resv[r].order = tx[t].order

\* IncrementReserved on every row, then the quantity > 0 CHECK of the items.
ReserveRowsOK(t) ==
    \A s \in tx[t].skus : RowOK(onHand[s], reserved[s] + tx[t].qty[s])
ReserveItemsOK(t) == \A s \in tx[t].skus : tx[t].qty[s] > 0

CompleteReserve(t) ==
    /\ tx[t].pc = "lockSkus" /\ tx[t].op = "reserve" /\ tx[t].want = {}
    /\ \/ Shortage(t) /\ Rollback(t, "insufficient")
       \/ ~Shortage(t) /\ ~ReserveRowsOK(t) /\ Rollback(t, "checkFailed")
       \/ ~Shortage(t) /\ ReserveRowsOK(t) /\ Duplicate(t) /\ Rollback(t, "duplicate")
       \/ /\ ~Shortage(t) /\ ReserveRowsOK(t) /\ ~Duplicate(t) /\ ~ReserveItemsOK(t)
          /\ Rollback(t, "checkFailed")
       \/ /\ ~Shortage(t) /\ ReserveRowsOK(t) /\ ~Duplicate(t) /\ ReserveItemsOK(t)
          /\ reserved' = [s \in SKU |-> reserved[s] + tx[t].qty[s]]
          /\ resv' = [resv EXCEPT ![tx[t].rid] =
                        [status |-> "PENDING", order |-> tx[t].order, qty |-> tx[t].qty]]
          /\ EndTx(t, "ok")
          /\ UNCHANGED <<onHand, received, stocked>>

-----------------------------------------------------------------------------
(* CommitStock, ReleaseStock and their ...ByOrderID variants *)

\* The call names the reservation by id (o = NoOrder) or by order (r = NoRes).
SettleStock(t, op, r, o) ==
    /\ tx[t].pc = "idle"
    /\ tx' = [tx EXCEPT ![t] = Call(op, "lockRes", r, o, "none")]
    /\ UNCHANGED <<onHand, reserved, resv, received, stocked, skuLock, resLock>>

\* The committed reservation rows that match the lookup: at most one.
Matches(t) ==
    {r \in ResId : /\ resv[r].status # "NONE"
                   /\ r = tx[t].rid \/ resv[r].order = tx[t].order}

FinalStatus(op) == IF op = "commit" THEN "COMMITTED" ELSE "RELEASED"

\* Mutant: any settled reservation counts as a replay.
SettledAlways(op, status) == "ok"

\* What a call answers that finds the reservation settled already.
SettledReply(op, status) ==
    IF status = FinalStatus(op) THEN "ok"
    ELSE IF status = "COMMITTED" THEN "alreadyCommitted" ELSE "alreadyReleased"

ReservationNotFound(t) ==
    /\ tx[t].pc = "lockRes"
    /\ Matches(t) = {}
    /\ Rollback(t, "notFound")

\* Mutant: SELECT without FOR UPDATE.
LockReservationUnlocked(t) ==
    /\ tx[t].pc = "lockRes"
    /\ \E r \in Matches(t) :
          \/ /\ resv[r].status # "PENDING"
             /\ Rollback(t, SettledReply(tx[t].op, resv[r].status))
          \/ /\ resv[r].status = "PENDING"
             /\ tx' = [tx EXCEPT ![t] =
                   LET rows == {s \in SKU : resv[r].qty[s] > 0}
                   IN  [op |-> @.op, pc |-> "lockSkus", rid |-> r, order |-> @.order,
                        qty |-> resv[r].qty, skus |-> rows, want |-> rows, out |-> "none"]]
             /\ UNCHANGED <<onHand, reserved, resv, received, stocked, skuLock, resLock>>

\* SELECT ... FOR UPDATE on the reservation, then its status is examined and,
\* when it is still pending, its items give the inventory rows to lock.
LockReservation(t) ==
    /\ tx[t].pc = "lockRes"
    /\ \E r \in Matches(t) :
          /\ resLock[r] = NoTx
          /\ \/ /\ resv[r].status # "PENDING"
                /\ Rollback(t, SettledReply(tx[t].op, resv[r].status))
             \/ /\ resv[r].status = "PENDING"
                /\ resLock' = [resLock EXCEPT ![r] = t]
                /\ tx' = [tx EXCEPT ![t] =
                      LET rows == {s \in SKU : resv[r].qty[s] > 0}
                      IN  [op |-> @.op, pc |-> "lockSkus", rid |-> r, order |-> @.order,
                           qty |-> resv[r].qty, skus |-> rows, want |-> rows, out |-> "none"]]
                /\ UNCHANGED <<onHand, reserved, resv, received, stocked, skuLock>>

\* Mutant: a release takes the units off the shelf too.
OnHandAfterBoth(op, s, q) == onHand[s] - q

\* on_hand after the call, for a SKU whose reservation holds q units of it:
\* CommitStockOnHand takes them off the shelf, DecrementReserved does not.
OnHandAfter(op, s, q) == IF op = "commit" THEN onHand[s] - q ELSE onHand[s]

SettleRowsOK(t) ==
    \A s \in tx[t].skus :
        RowOK(OnHandAfter(tx[t].op, s, tx[t].qty[s]), reserved[s] - tx[t].qty[s])

CompleteSettle(t) ==
    /\ tx[t].pc = "lockSkus" /\ tx[t].op \in {"commit", "release"} /\ tx[t].want = {}
    /\ IF SettleRowsOK(t)
       THEN /\ onHand' = [s \in SKU |-> OnHandAfter(tx[t].op, s, tx[t].qty[s])]
            /\ reserved' = [s \in SKU |-> reserved[s] - tx[t].qty[s]]
            /\ resv' = [resv EXCEPT ![tx[t].rid].status = FinalStatus(tx[t].op)]
            /\ EndTx(t, "ok")
            /\ UNCHANGED <<received, stocked>>
       ELSE Rollback(t, "checkFailed")

-----------------------------------------------------------------------------
Next ==
    \/ \E s \in SKU, q \in 1 .. MaxInt4 : ReplenishStock(s, q)
    \/ \E t \in Tx :
          \/ \E r \in ResId, o \in Order, lines \in Requests : ReserveStock(t, r, o, lines)
          \/ \E op \in {"commit", "release"}, r \in ResId : SettleStock(t, op, r, NoOrder)
          \/ \E op \in {"commit", "release"}, o \in Order : SettleStock(t, op, NoRes, o)
          \/ LockSKUsForUpdate(t)
          \/ CompleteReserve(t)
          \/ ReservationNotFound(t)
          \/ LockReservation(t)
          \/ CompleteSettle(t)
          \/ Abort(t)

Spec == Init /\ [][Next]_vars

\* A started transaction runs on: its goroutine is scheduled, and PostgreSQL
\* queues the waiters of a row lock, so one that is free again and again is
\* finally granted.  Nothing obliges a client to make a call.
Fairness ==
    \A t \in Tx :
        /\ SF_vars(LockSKUsForUpdate(t)) /\ SF_vars(LockReservation(t))
        /\ WF_vars(ReservationNotFound(t))
        /\ WF_vars(CompleteReserve(t)) /\ WF_vars(CompleteSettle(t))

FairSpec == Spec /\ Fairness

-----------------------------------------------------------------------------
TxRecord ==
    [op : Ops, pc : {"idle", "lockRes", "lockSkus"}, rid : ResId \cup {NoRes},
     order : Order \cup {NoOrder}, qty : [SKU -> Int], skus : SUBSET SKU,
     want : SUBSET SKU, out : Outcomes]

\* The tables respect their column types and CHECK constraints, and the lock
\* tables name calls, whatever calls run.
TypeOK ==
    /\ LedgerTypeOK
    /\ stocked \in SUBSET SKU
    /\ tx \in [Tx -> TxRecord]
    /\ skuLock \in [SKU -> Tx \cup {NoTx}]
    /\ resLock \in [ResId -> Tx \cup {NoTx}]

\* Transaction t waits for a lock that u holds.
WaitsFor(t, u) ==
    \/ /\ tx[t].pc = "lockSkus" /\ tx[t].want # {}
       /\ skuLock[NextRow(t)] = u
    \/ tx[t].pc = "lockRes" /\ \E r \in Matches(t) : resLock[r] = u

\* The sorted row locking of LockSKUsForUpdate avoids deadlock: no group of
\* calls exists each of which waits for a lock another of them holds.
NoDeadlock ==
    \A S \in SUBSET Tx :
        S = {} \/ \E t \in S : \A u \in S : ~WaitsFor(t, u)

\* A pending reservation can always be settled: once CommitStock or
\* ReleaseStock has its locks, the CHECK constraints of the inventory rows
\* never roll it back, whatever was reserved, received or settled meanwhile.
SettleNeverRefused ==
    \A t \in Tx :
        (tx[t].pc = "lockSkus" /\ tx[t].op \in {"commit", "release"} /\ tx[t].want = {})
            => resv[tx[t].rid].status = "PENDING" /\ SettleRowsOK(t)

\* What a call answered stays true: after an ok from ReserveStock the order
\* has that reservation, after an ok from a commit (release) it is committed
\* (released), and the opposite error also names the status for good.
RepliesHold ==
    \A t \in Tx :
        LET final(st) == \E r \in ResId :
                            /\ r = tx[t].rid \/ resv[r].order = tx[t].order
                            /\ resv[r].status = st
        IN  tx[t].pc = "idle" =>
              /\ (tx[t].op = "reserve" /\ tx[t].out = "ok") =>
                     /\ resv[tx[t].rid].order = tx[t].order
                     /\ resv[tx[t].rid].status # "NONE"
              /\ (tx[t].op = "commit" /\ tx[t].out = "ok") => final("COMMITTED")
              /\ (tx[t].op = "release" /\ tx[t].out = "ok") => final("RELEASED")
              /\ tx[t].out = "alreadyCommitted" => final("COMMITTED")
              /\ tx[t].out = "alreadyReleased" => final("RELEASED")

\* Every call returns: it is not left waiting for row locks for ever.
CallReturns == \A t \in Tx : tx[t].pc # "idle" ~> tx[t].pc = "idle"
=============================================================================
