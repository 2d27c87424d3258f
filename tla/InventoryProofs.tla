--------------------------- MODULE InventoryProofs ---------------------------
(***************************************************************************)
(* Proofs about the stock ledger and the transactional inventory, for any  *)
(* set of SKUs, any finite set of reservations and any number of calls in  *)
(* flight.  The ledger conserves units, balances the shelf and never       *)
(* changes a settled reservation; the inventory implements the ledger, its *)
(* row locks cannot deadlock, and what it answered stays true.             *)
(***************************************************************************)
EXTENDS Inventory, FiniteSetTheorems, WellFoundedInduction, TLAPS

-----------------------------------------------------------------------------
(* The stock ledger *)

\* Adding the n units of one more reservation r to a finite set of units adds
\* n to its cardinality.
LEMMA AddUnits ==
    ASSUME NEW A, IsFiniteSet(A), NEW r, NEW n \in Nat,
           \A u \in A : u[1] # r
    PROVE  /\ IsFiniteSet(A \cup ({r} \X (1 .. n)))
           /\ Cardinality(A \cup ({r} \X (1 .. n))) = Cardinality(A) + n
<1> DEFINE B == {r} \X (1 .. n)
<1>1. IsFiniteSet(1 .. n) /\ Cardinality(1 .. n) = n
  <2>1. 1 \in Int /\ n \in Int
    OBVIOUS
  <2>2. /\ IsFiniteSet(1 .. n)
        /\ Cardinality(1 .. n) = IF 1 > n THEN 0 ELSE n - 1 + 1
    BY <2>1, FS_Interval
  <2> QED
    BY <2>2
<1>2. IsFiniteSet({r}) /\ Cardinality({r}) = 1
  BY FS_Singleton
<1>3. IsFiniteSet(B) /\ Cardinality(B) = 1 * n
  BY <1>1, <1>2, FS_Product
<1>4. A \cap B = {}
  OBVIOUS
<1>5. Cardinality(A \cap B) = 0
  BY <1>4, FS_EmptySet
<1>6. Cardinality(A) \in Nat
  BY FS_CardinalityType
<1> HIDE DEF B
<1>7. /\ IsFiniteSet(A \cup B)
      /\ Cardinality(A \cup B) = Cardinality(A) + Cardinality(B) - Cardinality(A \cap B)
  BY <1>3, FS_Union
<1>8. IsFiniteSet(A \cup B) /\ Cardinality(A \cup B) = Cardinality(A) + n
  BY <1>3, <1>5, <1>6, <1>7
<1> QED
  BY <1>8 DEF B

\* The units held in any status are finitely many.
LEMMA UnitsFinite ==
    ASSUME NEW st, NEW s \in SKU
    PROVE  IsFiniteSet(Units(st, s)) /\ Cardinality(Units(st, s)) \in Nat
<1>1. IsFiniteSet(ResId) /\ MaxInt4 \in Nat
  BY LedgerAssumption
<1>2. IsFiniteSet(1 .. MaxInt4)
  BY <1>1, FS_Interval
<1>3. IsFiniteSet(ResId \X (1 .. MaxInt4))
  BY <1>1, <1>2, FS_Product
<1>4. Units(st, s) \subseteq ResId \X (1 .. MaxInt4)
  BY DEF Units
<1>5. IsFiniteSet(Units(st, s))
  BY <1>3, <1>4, FS_Subset
<1> QED
  BY <1>5, FS_CardinalityType

\* The strengthened invariant: types, conservation and shelf balance support
\* each other (reserved stays a legal column value because it is bounded by
\* on_hand, which conservation and the availability check keep above it).
LedgerInv == LedgerTypeOK /\ Conservation /\ ShelfBalance

\* The empty ledger is in balance.
LEMMA LedgerInitInv == LedgerInit => LedgerInv
<1> SUFFICES ASSUME LedgerInit PROVE LedgerInv
  OBVIOUS
<1>1. LedgerTypeOK
  BY LedgerAssumption
     DEF LedgerInit, LedgerTypeOK, Reservation, NoReservation, ResStatus, Quantities
<1>2. ASSUME NEW s \in SKU, NEW st \in {"PENDING", "COMMITTED"}
      PROVE  Cardinality(Units(st, s)) = 0
  <2>1. Units(st, s) = {}
    BY DEF LedgerInit, Units, NoReservation
  <2> QED
    BY <2>1, FS_EmptySet
<1>3. Conservation
  BY <1>2 DEF Conservation, LedgerInit
<1>4. ShelfBalance
  BY <1>2 DEF ShelfBalance, LedgerInit
<1> QED
  BY <1>1, <1>3, <1>4 DEF LedgerInv

\* How the units in status st change when reservation r enters that status
\* with quantities qty: it contributes qty[s] new units.
LEMMA EnterStatus ==
    ASSUME LedgerTypeOK, NEW r \in ResId, NEW st, NEW qty \in Quantities, NEW s \in SKU,
           resv[r].status # st, resv'[r].status = st, resv'[r].qty = qty,
           \A x \in ResId : x # r => resv'[x] = resv[x]
    PROVE  Cardinality(Units(st, s)') = Cardinality(Units(st, s)) + qty[s]
<1>1. qty[s] \in Nat /\ qty[s] <= MaxInt4
  BY LedgerAssumption DEF Quantities
<1>2. Units(st, s)' = Units(st, s) \cup ({r} \X (1 .. qty[s]))
  BY <1>1, LedgerAssumption DEF Units
<1>3. \A u \in Units(st, s) : u[1] # r
  BY DEF Units
<1>4. IsFiniteSet(Units(st, s))
  BY UnitsFinite
<1> DEFINE A == Units(st, s)
           n == qty[s]
<1> HIDE DEF A, n
<1>5. IsFiniteSet(A) /\ n \in Nat /\ \A u \in A : u[1] # r
  BY <1>1, <1>3, <1>4 DEF A, n
<1>6. Cardinality(A \cup ({r} \X (1 .. n))) = Cardinality(A) + n
  BY <1>5, AddUnits
<1> QED
  BY <1>2, <1>6 DEF A, n

\* Conversely, a reservation that leaves status st takes its units with it.
LEMMA LeaveStatus ==
    ASSUME LedgerTypeOK, NEW r \in ResId, NEW st, NEW s \in SKU,
           resv[r].status = st, resv'[r].status # st,
           \A x \in ResId : x # r => resv'[x] = resv[x]
    PROVE  Cardinality(Units(st, s)') = Cardinality(Units(st, s)) - resv[r].qty[s]
<1> DEFINE n == resv[r].qty[s]
<1>1. n \in Nat /\ n <= MaxInt4
  BY LedgerAssumption DEF LedgerTypeOK, Reservation, Quantities
<1>2. Units(st, s) = Units(st, s)' \cup ({r} \X (1 .. n))
  BY <1>1, LedgerAssumption DEF Units
<1>3. \A u \in Units(st, s)' : u[1] # r
  BY DEF Units
<1>4. Units(st, s)' \subseteq Units(st, s)
  BY <1>2
<1>5. IsFiniteSet(Units(st, s)') /\ Cardinality(Units(st, s)') \in Nat
  BY <1>4, UnitsFinite, FS_Subset, FS_CardinalityType
<1> DEFINE A == Units(st, s)'
<1> HIDE DEF A, n
<1>6. IsFiniteSet(A) /\ n \in Nat /\ \A u \in A : u[1] # r
  BY <1>1, <1>3, <1>5 DEF A
<1>7. Cardinality(A \cup ({r} \X (1 .. n))) = Cardinality(A) + n
  BY <1>6, AddUnits
<1>8. Cardinality(A) \in Nat
  BY <1>5 DEF A
<1>9. Units(st, s) = A \cup ({r} \X (1 .. n))
  BY <1>2 DEF A
<1>10. Cardinality(Units(st, s)) = Cardinality(A) + n
  BY <1>7, <1>9
<1> QED
  BY <1>1, <1>8, <1>10 DEF A, n

\* A status that r neither leaves nor enters keeps its units.
LEMMA OtherStatus ==
    ASSUME NEW r \in ResId, NEW st, NEW s \in SKU,
           resv[r].status # st, resv'[r].status # st,
           \A x \in ResId : x # r => resv'[x] = resv[x]
    PROVE  Units(st, s)' = Units(st, s)
BY DEF Units

\* Received units go on the shelf.
LEMMA ReceiveInv ==
    ASSUME LedgerInv, NEW s \in SKU, NEW q \in 1 .. MaxInt4, Receive(s, q)
    PROVE  LedgerInv'
<1> USE LedgerAssumption
<1>1. LedgerTypeOK'
  BY DEF LedgerInv, LedgerTypeOK, Receive
<1>2. ASSUME NEW st, NEW x \in SKU
      PROVE  Units(st, x)' = Units(st, x)
  BY DEF Units, Receive
<1>3. ASSUME NEW st, NEW x \in SKU
      PROVE  Cardinality(Units(st, x)) \in Nat
  BY UnitsFinite
<1>4. Conservation'
  BY <1>2 DEF LedgerInv, LedgerTypeOK, Conservation, Receive
<1>5. ShelfBalance'
  BY <1>2, <1>3 DEF LedgerInv, LedgerTypeOK, ShelfBalance, Receive
<1> QED
  BY <1>1, <1>4, <1>5 DEF LedgerInv

\* Reserved units move from available to pending.
LEMMA ReserveInv ==
    ASSUME LedgerInv, NEW r \in ResId, NEW o \in Order, NEW qty \in Quantities,
           Reserve(r, o, qty)
    PROVE  LedgerInv'
<1> USE LedgerAssumption
<1>1. \A x \in SKU : qty[x] \in Nat /\ reserved[x] + qty[x] <= onHand[x]
  BY DEF LedgerInv, LedgerTypeOK, Reserve, Quantities
<1>2. LedgerTypeOK'
  BY <1>1 DEF LedgerInv, LedgerTypeOK, Reserve, Reservation, ResStatus, Quantities
<1>3. /\ resv[r].status = "NONE" /\ resv'[r].status = "PENDING" /\ resv'[r].qty = qty
      /\ \A x \in ResId : x # r => resv'[x] = resv[x]
  BY DEF LedgerInv, LedgerTypeOK, Reserve
<1>4. ASSUME NEW x \in SKU
      PROVE  Cardinality(Units("PENDING", x)') = Cardinality(Units("PENDING", x)) + qty[x]
  BY <1>3, EnterStatus DEF LedgerInv
<1>5. ASSUME NEW x \in SKU
      PROVE  Units("COMMITTED", x)' = Units("COMMITTED", x)
  BY <1>3, OtherStatus
<1>6. Conservation'
  BY <1>1, <1>4 DEF LedgerInv, Conservation, Reserve
<1>7. ShelfBalance'
  BY <1>5 DEF LedgerInv, ShelfBalance, Reserve
<1> QED
  BY <1>2, <1>6, <1>7 DEF LedgerInv

\* What a pending reservation holds is covered by the reserved column.
LEMMA PendingCovered ==
    ASSUME LedgerInv, NEW r \in ResId, resv[r].status = "PENDING", NEW s \in SKU
    PROVE  /\ resv[r].qty[s] \in Nat
           /\ resv[r].qty[s] <= reserved[s]
<1> DEFINE n == resv[r].qty[s]
           B == {r} \X (1 .. n)
           A == Units("PENDING", s) \ B
<1>1. n \in Nat /\ n <= MaxInt4
  BY LedgerAssumption DEF LedgerInv, LedgerTypeOK, Reservation, Quantities
<1>2. B \subseteq Units("PENDING", s)
  BY <1>1, LedgerAssumption DEF Units
<1>3. \A u \in A : u[1] # r
  BY <1>1, LedgerAssumption DEF Units
<1>4. IsFiniteSet(A) /\ Cardinality(A) \in Nat
  <2>1. IsFiniteSet(Units("PENDING", s))
    BY UnitsFinite
  <2> QED
    BY <2>1, FS_Difference, FS_CardinalityType
<1>5. A \cup B = Units("PENDING", s)
  BY <1>2
<1> HIDE DEF A, n
<1>6. Cardinality(A \cup ({r} \X (1 .. n))) = Cardinality(A) + n
  BY <1>1, <1>3, <1>4, AddUnits
<1>7. reserved[s] = Cardinality(A) + n
  BY <1>5, <1>6 DEF LedgerInv, Conservation
<1> QED
  BY <1>1, <1>4, <1>7 DEF n

\* Settled units are no longer pending; committed ones leave the shelf.
LEMMA SettleInv ==
    ASSUME LedgerInv, NEW r \in ResId, Commit(r) \/ Release(r)
    PROVE  LedgerInv'
<1> USE LedgerAssumption
<1>1. resv[r].status = "PENDING"
  BY DEF Commit, Release
<1>2. \A x \in SKU : /\ resv[r].qty[x] \in Nat
                     /\ resv[r].qty[x] <= reserved[x]
                     /\ reserved[x] <= onHand[x]
  BY <1>1, PendingCovered DEF LedgerInv, Conservation
<1>3. LedgerTypeOK'
  BY <1>2 DEF LedgerInv, LedgerTypeOK, Commit, Release, Reservation, ResStatus
<1>4. /\ resv'[r].status \in {"COMMITTED", "RELEASED"} /\ resv'[r].qty = resv[r].qty
      /\ resv[r].qty \in Quantities
      /\ \A x \in ResId : x # r => resv'[x] = resv[x]
  BY DEF LedgerInv, LedgerTypeOK, Commit, Release, Reservation
<1>5. ASSUME NEW x \in SKU
      PROVE  /\ Cardinality(Units("PENDING", x)')
                  = Cardinality(Units("PENDING", x)) - resv[r].qty[x]
             /\ Cardinality(Units("COMMITTED", x)) \in Nat
  BY <1>1, <1>4, LeaveStatus, UnitsFinite DEF LedgerInv
<1>6. Conservation'
  BY <1>2, <1>5 DEF LedgerInv, LedgerTypeOK, Conservation, Commit, Release
<1>7. ShelfBalance'
  <2>1. CASE Commit(r)
    <3>1. resv'[r].status = "COMMITTED"
      BY <2>1 DEF Commit, LedgerInv, LedgerTypeOK, Reservation
    <3>2. ASSUME NEW x \in SKU
          PROVE  Cardinality(Units("COMMITTED", x)')
                   = Cardinality(Units("COMMITTED", x)) + resv[r].qty[x]
      BY <1>1, <1>4, <3>1, EnterStatus DEF LedgerInv
    <3> QED
      BY <1>2, <1>5, <2>1, <3>2 DEF LedgerInv, LedgerTypeOK, ShelfBalance, Commit
  <2>2. CASE Release(r)
    <3>1. resv'[r].status = "RELEASED"
      BY <2>2 DEF Release, LedgerInv, LedgerTypeOK, Reservation
    <3>2. ASSUME NEW x \in SKU
          PROVE  Units("COMMITTED", x)' = Units("COMMITTED", x)
      BY <1>1, <1>4, <3>1, OtherStatus
    <3> QED
      BY <2>2, <3>2 DEF LedgerInv, ShelfBalance, Release
  <2> QED
    BY <2>1, <2>2
<1> QED
  BY <1>3, <1>6, <1>7 DEF LedgerInv

\* A step that leaves the ledger alone keeps its balance.
LEMMA LedgerStutter ==
    ASSUME LedgerInv, UNCHANGED ledgerVars
    PROVE  LedgerInv'
BY DEF ledgerVars, LedgerInv, LedgerTypeOK, Conservation, ShelfBalance, Units

\* LedgerInv is inductive: every step of the ledger preserves it.
LEMMA LedgerStepInv == LedgerInv /\ [LedgerNext]_ledgerVars => LedgerInv'
<1> SUFFICES ASSUME LedgerInv, [LedgerNext]_ledgerVars PROVE LedgerInv'
  OBVIOUS
<1>1. ASSUME NEW s \in SKU, NEW q \in 1 .. MaxInt4, Receive(s, q) PROVE LedgerInv'
  BY <1>1, ReceiveInv
<1>2. ASSUME NEW r \in ResId, NEW o \in Order, NEW qty \in Quantities, Reserve(r, o, qty)
      PROVE  LedgerInv'
  BY <1>2, ReserveInv
<1>3. ASSUME NEW r \in ResId, Commit(r) \/ Release(r) PROVE LedgerInv'
  BY <1>3, SettleInv
<1>4. CASE UNCHANGED ledgerVars
  BY <1>4, LedgerStutter
<1> QED
  BY <1>1, <1>2, <1>3, <1>4 DEF LedgerNext

\* In every behaviour of the ledger the types hold, units are conserved and
\* the shelf balances.
THEOREM LedgerSafe == LedgerSpec => [](LedgerTypeOK /\ Conservation /\ ShelfBalance)
<1>1. LedgerInv => LedgerTypeOK /\ Conservation /\ ShelfBalance
  BY DEF LedgerInv
<1> QED
  BY <1>1, LedgerInitInv, LedgerStepInv, PTL DEF LedgerSpec

\* In every behaviour of the ledger a settled reservation never changes.
THEOREM LedgerSettled == LedgerSpec => SettledForever
<1> DEFINE Kept == \A r \in ResId :
                resv[r].status \in {"COMMITTED", "RELEASED"} => resv'[r] = resv[r]
<1>1. LedgerInv /\ [LedgerNext]_ledgerVars => [Kept]_ledgerVars
  BY DEF LedgerInv, LedgerTypeOK, LedgerNext, Receive, Reserve, Commit, Release, Reservation
<1> QED
  BY <1>1, LedgerInitInv, LedgerStepInv, PTL DEF LedgerSpec, SettledForever

-----------------------------------------------------------------------------
(* The inventory *)

\* Only a call that is locking rows holds any row lock.
LocksHeld ==
    \A t \in Tx : tx[t].pc # "lockSkus" =>
        /\ \A s \in SKU : skuLock[s] # t
        /\ \A r \in ResId : resLock[r] # t

\* The rows a call still wants all come after the rows it holds.
LockOrder ==
    \A t \in Tx : tx[t].pc = "lockSkus" =>
        \A s \in SKU, w \in tx[t].want : skuLock[s] = t => s < w

\* A call that locks rows knows what for; a commit or release holds the row
\* lock of its reservation, and so finds it as it read it: pending.
CallState ==
    \A t \in Tx : tx[t].pc = "lockSkus" =>
        /\ tx[t].op \in {"reserve", "commit", "release"}
        /\ tx[t].rid \in ResId
        /\ tx[t].want \subseteq tx[t].skus
        /\ \A s \in SKU \ tx[t].skus : tx[t].qty[s] = 0
        /\ tx[t].op = "reserve" => tx[t].order \in Order
        /\ tx[t].op # "reserve" =>
              /\ resLock[tx[t].rid] = t
              /\ resv[tx[t].rid].status = "PENDING"
              /\ tx[t].qty = resv[tx[t].rid].qty

\* A call that waits for a reservation row is a commit or a release.
WaitingCall ==
    \A t \in Tx : tx[t].pc = "lockRes" => tx[t].op \in {"commit", "release"}

\* What the implementation needs to be true of its locks.
TxTypeOK ==
    /\ stocked \in SUBSET SKU
    /\ tx \in [Tx -> TxRecord]
    /\ skuLock \in [SKU -> Tx \cup {NoTx}]
    /\ resLock \in [ResId -> Tx \cup {NoTx}]

LockInv == TxTypeOK /\ LocksHeld /\ LockOrder /\ CallState /\ WaitingCall

IInv == LedgerInv /\ LockInv

\* At the start no call runs and the ledger is empty.
LEMMA InitIInv == Init => IInv /\ LedgerInit
<1> SUFFICES ASSUME Init PROVE IInv /\ LedgerInit
  OBVIOUS
<1>1. LedgerInit
  BY DEF Init, LedgerInit
<1>2. LedgerInv
  BY <1>1, LedgerInitInv
<1>3. LockInv
  BY InventoryAssumption, LedgerAssumption
     DEF Init, LockInv, TxTypeOK, TxRecord, Call, Ops, Outcomes, LocksHeld, LockOrder,
         CallState, WaitingCall
<1> QED
  BY <1>1, <1>2, <1>3 DEF IInv

\* The end of a transaction frees its locks and disturbs no other call.
LEMMA EndTxInv ==
    ASSUME LedgerTypeOK, LockInv, NEW t \in Tx, NEW out \in Outcomes, EndTx(t, out),
           stocked' = stocked,
           \A r \in ResId : resLock[r] # t => resv'[r] = resv[r] \/ resv[r].status = "NONE"
    PROVE  LockInv'
<1> DEFINE done == Call(tx[t].op, "idle", tx[t].rid, tx[t].order, out)
<1>0. done \in TxRecord /\ done.pc = "idle"
  <2>1. tx[t] \in TxRecord
    BY DEF LockInv, TxTypeOK
  <2>2. /\ tx[t].op \in Ops /\ tx[t].rid \in ResId \cup {NoRes}
        /\ tx[t].order \in Order \cup {NoOrder}
    BY <2>1 DEF TxRecord
  <2>3. [s \in SKU |-> 0] \in [SKU -> Int]
    OBVIOUS
  <2> QED
    BY <2>2, <2>3 DEF TxRecord, Call
<1>a. tx' = [tx EXCEPT ![t] = done]
  BY DEF EndTx
<1> HIDE DEF done
<1>1. /\ tx'[t].pc = "idle"
      /\ \A u \in Tx : u # t => tx'[u] = tx[u]
  BY <1>0, <1>a DEF LockInv, TxTypeOK
<1>2. TxTypeOK'
  BY <1>0, <1>a, InventoryAssumption DEF LockInv, TxTypeOK, EndTx
<1>3. /\ \A s \in SKU, u \in Tx : u # t => (skuLock'[s] = u <=> skuLock[s] = u)
      /\ \A r \in ResId, u \in Tx : u # t => (resLock'[r] = u <=> resLock[r] = u)
      /\ \A s \in SKU : skuLock'[s] # t
      /\ \A r \in ResId : resLock'[r] # t
  BY InventoryAssumption DEF LockInv, TxTypeOK, EndTx
<1>4. LocksHeld'
  BY <1>1, <1>3 DEF LockInv, LocksHeld
<1>5. LockOrder'
  BY <1>1, <1>3 DEF LockInv, LockOrder
<1>6. CallState'
  <2> SUFFICES ASSUME NEW u \in Tx, tx'[u].pc = "lockSkus"
               PROVE  CallState!(u)!2'
    BY DEF CallState
  <2> QED
    BY <1>1, <1>3 DEF LockInv, CallState
<1>7. WaitingCall'
  BY <1>1 DEF LockInv, WaitingCall
<1> QED
  BY <1>2, <1>4, <1>5, <1>6, <1>7 DEF LockInv

\* Rolling back changes no row, so it needs nothing but EndTxInv.
LEMMA RollbackInv ==
    ASSUME IInv, NEW t \in Tx, NEW out \in Outcomes, Rollback(t, out)
    PROVE  LockInv' /\ UNCHANGED ledgerVars
<1>1. LedgerTypeOK /\ LockInv
  BY DEF IInv, LedgerInv
<1>2. EndTx(t, out) /\ stocked' = stocked /\ resv' = resv /\ UNCHANGED ledgerVars
  BY DEF Rollback, ledgerVars
<1> QED
  BY <1>1, <1>2, EndTxInv

\* ReplenishStock is the ledger's Receive and takes no lock beyond its upsert.
LEMMA ReplenishStep ==
    ASSUME IInv, NEW s \in SKU, NEW q \in 1 .. MaxInt4, ReplenishStock(s, q)
    PROVE  LockInv' /\ LedgerNext
<1>1. Receive(s, q)
  BY DEF ReplenishStock, Receive
<1>2. LockInv'
  BY DEF IInv, LockInv, TxTypeOK, LocksHeld, LockOrder, CallState, WaitingCall, ReplenishStock
<1> QED
  BY <1>1, <1>2 DEF LedgerNext

\* The record of a call changes, its locks do not grow: what the other calls
\* rely on is untouched, so the new record alone has to be in order.
LEMMA CallStep ==
    ASSUME LockInv, NEW t \in Tx, NEW c \in TxRecord, tx' = [tx EXCEPT ![t] = c],
           UNCHANGED <<resv, stocked, skuLock, resLock>>,
           tx[t].pc # "lockSkus",
           c.pc = "lockRes" => c.op \in {"commit", "release"},
           c.pc = "lockSkus" =>
               /\ c.op = "reserve"
               /\ c.rid \in ResId /\ c.order \in Order
               /\ c.want \subseteq c.skus
               /\ \A s \in SKU \ c.skus : c.qty[s] = 0
    PROVE  LockInv'
<1>1. tx'[t] = c /\ \A u \in Tx : u # t => tx'[u] = tx[u]
  BY DEF LockInv, TxTypeOK
<1>2. TxTypeOK'
  BY DEF LockInv, TxTypeOK
<1>3. LocksHeld'
  BY <1>1 DEF LockInv, LocksHeld
<1>4. LockOrder'
  BY <1>1 DEF LockInv, LocksHeld, LockOrder
<1>5. CallState'
  BY <1>1 DEF LockInv, CallState
<1>6. WaitingCall'
  BY <1>1 DEF LockInv, WaitingCall
<1> QED
  BY <1>2, <1>3, <1>4, <1>5, <1>6 DEF LockInv

\* A ReserveStock call begins: it knows its quantities and holds nothing.
LEMMA ReserveStockStep ==
    ASSUME IInv, NEW t \in Tx, NEW r \in ResId, NEW o \in Order, NEW lines \in Requests,
           ReserveStock(t, r, o, lines)
    PROVE  LockInv' /\ UNCHANGED ledgerVars
<1> DEFINE c == [op |-> "reserve", pc |-> "lockSkus", rid |-> r, order |-> o,
                 qty |-> Consolidate(lines), skus |-> RequestedSkus(lines),
                 want |-> RequestedSkus(lines) \cap stocked, out |-> "none"]
<1>1. /\ Consolidate(lines) \in [SKU -> Int]
      /\ RequestedSkus(lines) \in SUBSET SKU
      /\ \A s \in SKU \ RequestedSkus(lines) : Consolidate(lines)[s] = 0
  BY InventoryAssumption DEF Consolidate, RequestedSkus
<1>2. c \in TxRecord
  BY <1>1 DEF TxRecord, Ops, Outcomes
<1>3. /\ c.pc = "lockSkus" /\ c.op = "reserve" /\ c.rid \in ResId /\ c.order \in Order
      /\ c.want \subseteq c.skus
      /\ \A s \in SKU \ c.skus : c.qty[s] = 0
  BY <1>1
<1>4. /\ tx' = [tx EXCEPT ![t] = c]
      /\ UNCHANGED <<resv, stocked, skuLock, resLock>> /\ UNCHANGED ledgerVars
      /\ tx[t].pc # "lockSkus"
  BY DEF ReserveStock, ledgerVars
<1> HIDE DEF c
<1>5. LockInv
  BY DEF IInv
<1> QED
  BY <1>2, <1>3, <1>4, <1>5, CallStep

\* A commit or release begins: it holds nothing yet.
LEMMA SettleStockStep ==
    ASSUME IInv, NEW t \in Tx, NEW op \in {"commit", "release"},
           NEW r \in ResId \cup {NoRes}, NEW o \in Order \cup {NoOrder},
           SettleStock(t, op, r, o)
    PROVE  LockInv' /\ UNCHANGED ledgerVars
<1> DEFINE c == Call(op, "lockRes", r, o, "none")
<1>1. c \in TxRecord /\ c.pc = "lockRes" /\ c.op \in {"commit", "release"}
  BY DEF TxRecord, Call, Ops, Outcomes
<1>2. /\ tx' = [tx EXCEPT ![t] = c]
      /\ UNCHANGED <<resv, stocked, skuLock, resLock>> /\ UNCHANGED ledgerVars
      /\ tx[t].pc # "lockSkus"
  BY DEF SettleStock, ledgerVars
<1> HIDE DEF c
<1>3. LockInv
  BY DEF IInv
<1> QED
  BY <1>1, <1>2, <1>3, CallStep

\* A finite, non-empty set of integers has a least element.
LEMMA LeastExists ==
    ASSUME NEW S, S \subseteq SKU, S # {}
    PROVE  \E s \in S : \A u \in S : s <= u
<1> DEFINE below(s) == {x \in SKU : x < s}
           T == {below(s) : s \in S}
<1>1. IsFiniteSet(SKU) /\ SKU \subseteq Int
  BY InventoryAssumption, LedgerAssumption
<1>2. IsWellFoundedOn(StrictSubsetOrdering(SKU), FiniteSubsetsOf(SKU))
  BY FS_StrictSubsetOrderingWellFounded
<1>3. T \subseteq FiniteSubsetsOf(SKU) /\ T # {}
  <2>1. FiniteSubsetsOf(SKU) = SUBSET SKU
    BY <1>1, FS_FiniteSubsetsOfFinite
  <2>2. T \subseteq SUBSET SKU
    OBVIOUS
  <2>3. T # {}
    OBVIOUS
  <2> QED
    BY <2>1, <2>2, <2>3
<1>4. \E m \in T : \A y \in T : ~ (<<y, m>> \in StrictSubsetOrdering(SKU))
  <2> HIDE DEF T
  <2> QED
    BY <1>2, <1>3, WFMin
<1>5. PICK s \in S : \A y \in T : ~ (<<y, below(s)>> \in StrictSubsetOrdering(SKU))
  BY <1>4
<1>6. ASSUME NEW u \in S, u < s PROVE FALSE
  <2>0. u \in Int /\ s \in Int /\ u \in SKU /\ \A x \in SKU : x \in Int
    BY <1>1
  <2>1. below(u) \subseteq below(s)
    <3>1. ASSUME NEW x \in SKU, x < u PROVE x < s
      BY <1>6, <2>0, <3>1
    <3> QED
      BY <3>1
  <2>a. u \in below(s) /\ u \notin below(u)
    BY <1>6, <2>0
  <2>2. <<below(u), below(s)>> \in StrictSubsetOrdering(SKU)
    BY <2>1, <2>a DEF StrictSubsetOrdering
  <2> QED
    BY <1>5, <2>2
<1> QED
  BY <1>1, <1>6

\* NextRow picks the least row wanted.
LEMMA NextRowLeast ==
    ASSUME LockInv, NEW t \in Tx, tx[t].want # {}
    PROVE  NextRow(t) \in tx[t].want /\ \A u \in tx[t].want : NextRow(t) <= u
<1>1. tx[t].want \subseteq SKU
  BY DEF LockInv, TxTypeOK, TxRecord
<1>2. \E s \in tx[t].want : \A u \in tx[t].want : s <= u
  BY <1>1, LeastExists
<1> QED
  BY <1>2 DEF NextRow

\* Taking the next row keeps the ascending order: NextRow is the least row
\* wanted, so it lies above every row held and below every row left.
LEMMA LockSKUsStep ==
    ASSUME IInv, NEW t \in Tx, LockSKUsForUpdate(t)
    PROVE  LockInv' /\ UNCHANGED ledgerVars
<1> DEFINE s == NextRow(t)
<1>1. tx[t].want \subseteq SKU /\ tx[t].want # {}
  BY DEF IInv, LockInv, TxTypeOK, TxRecord, LockSKUsForUpdate
<1>2. s \in tx[t].want /\ \A u \in tx[t].want : s <= u
  BY NextRowLeast DEF IInv, LockInv, LockSKUsForUpdate
<1> HIDE DEF s
<1>3. /\ skuLock[s] = NoTx
      /\ skuLock' = [skuLock EXCEPT ![s] = t]
      /\ tx' = [tx EXCEPT ![t].want = @ \ {s}]
      /\ UNCHANGED <<onHand, reserved, resv, received, stocked, resLock>>
  BY DEF LockSKUsForUpdate, s
<1>4. /\ tx'[t] = [tx[t] EXCEPT !.want = @ \ {s}]
      /\ \A u \in Tx : u # t => tx'[u] = tx[u]
  BY <1>3 DEF IInv, LockInv, TxTypeOK
<1>5. /\ tx'[t] \in TxRecord
      /\ tx'[t].want = tx[t].want \ {s}
      /\ tx'[t].pc = tx[t].pc /\ tx'[t].op = tx[t].op /\ tx'[t].rid = tx[t].rid
      /\ tx'[t].order = tx[t].order /\ tx'[t].qty = tx[t].qty /\ tx'[t].skus = tx[t].skus
  <2>1. tx[t] \in TxRecord
    BY DEF IInv, LockInv, TxTypeOK
  <2> QED
    BY <1>4, <2>1 DEF TxRecord
<1>6. TxTypeOK'
  BY <1>1, <1>2, <1>3, <1>4, <1>5 DEF IInv, LockInv, TxTypeOK
<1>7. LocksHeld'
  <2>1. tx'[t].pc = "lockSkus"
    BY <1>5 DEF LockSKUsForUpdate
  <2> QED
    BY <1>1, <1>2, <1>3, <1>4, <2>1, InventoryAssumption DEF IInv, LockInv, TxTypeOK, LocksHeld
<1>8. LockOrder'
  <2> SUFFICES ASSUME NEW u \in Tx, tx'[u].pc = "lockSkus",
                      NEW x \in SKU, NEW w \in tx'[u].want, skuLock'[x] = u
               PROVE  x < w
    BY DEF LockOrder
  <2>1. CASE u = t
    <3>1. w \in tx[t].want /\ w # s /\ w \in Int /\ s \in Int /\ x \in Int
      BY <1>1, <1>2, <1>5, <2>1, LedgerAssumption
    <3>2. CASE x = s
      BY <1>2, <3>1, <3>2
    <3>3. CASE x # s
      BY <1>3, <1>5, <2>1, <3>1, <3>3 DEF IInv, LockInv, TxTypeOK, LockOrder
    <3> QED
      BY <3>2, <3>3
  <2>2. CASE u # t
    BY <1>1, <1>2, <1>3, <1>4, <2>2 DEF IInv, LockInv, TxTypeOK, LockOrder
  <2> QED
    BY <2>1, <2>2
<1>9. CallState'
  <2> SUFFICES ASSUME NEW u \in Tx, tx'[u].pc = "lockSkus"
               PROVE  CallState!(u)!2'
    BY DEF CallState
  <2>1. CASE u = t
    BY <1>3, <1>5, <2>1 DEF IInv, LockInv, CallState
  <2>2. CASE u # t
    BY <1>3, <1>4, <2>2 DEF IInv, LockInv, CallState
  <2> QED
    BY <2>1, <2>2
<1>10. WaitingCall'
  BY <1>4, <1>5 DEF IInv, LockInv, WaitingCall
<1> QED
  BY <1>3, <1>6, <1>7, <1>8, <1>9, <1>10 DEF LockInv, ledgerVars

\* A reservation that is recorded satisfies the guard of the ledger's Reserve:
\* the rows asked for were locked and found sufficient, the others ask for 0.
LEMMA CompleteReserveStep ==
    ASSUME IInv, NEW t \in Tx, CompleteReserve(t)
    PROVE  LockInv' /\ (LedgerNext \/ UNCHANGED ledgerVars)
<1> DEFINE r == tx[t].rid
           qty == tx[t].qty
           Recorded ==
             /\ ~Shortage(t) /\ ReserveRowsOK(t) /\ ~Duplicate(t) /\ ReserveItemsOK(t)
             /\ reserved' = [s \in SKU |-> reserved[s] + qty[s]]
             /\ resv' = [resv EXCEPT ![r] =
                           [status |-> "PENDING", order |-> tx[t].order, qty |-> qty]]
             /\ EndTx(t, "ok")
             /\ UNCHANGED <<onHand, received, stocked>>
<1>1. \/ Recorded
      \/ \E out \in Outcomes : Rollback(t, out)
  BY DEF CompleteReserve, Outcomes
<1>2. CASE \E out \in Outcomes : Rollback(t, out)
  BY <1>2, RollbackInv
<1>3. CASE Recorded
  <2>0. LedgerTypeOK /\ LockInv /\ \A s \in SKU : reserved[s] <= onHand[s]
    BY DEF IInv, LedgerInv, Conservation
  <2>1. /\ r \in ResId /\ tx[t].order \in Order /\ qty \in [SKU -> Int]
        /\ tx[t].skus \subseteq SKU
        /\ \A s \in SKU \ tx[t].skus : qty[s] = 0
    BY <2>0 DEF LockInv, TxTypeOK, TxRecord, CallState, CompleteReserve
  <2>2. \A s \in SKU : onHand[s] \in 0 .. MaxInt4 /\ reserved[s] \in 0 .. MaxInt4
    BY <2>0 DEF LedgerTypeOK
  <2>3. \A s \in tx[t].skus : qty[s] > 0 /\ qty[s] <= onHand[s] - reserved[s]
    BY <1>3, <2>1, <2>2 DEF Shortage, ReserveItemsOK
  <2>4. \A s \in SKU : qty[s] \in 0 .. MaxInt4 /\ qty[s] <= onHand[s] - reserved[s]
    BY <2>0, <2>1, <2>2, <2>3, LedgerAssumption
  <2>5. qty \in Quantities
    BY <2>1, <2>4 DEF Quantities
  <2>6. resv[r].status = "NONE" /\ \A x \in ResId : resv[x].order # tx[t].order
    BY <1>3 DEF Duplicate
  <2>7. Reserve(r, tx[t].order, qty)
    BY <1>3, <2>4, <2>6 DEF Reserve
  <2>8. LedgerNext
    BY <2>1, <2>5, <2>7 DEF LedgerNext
  <2>9. \A x \in ResId : resv'[x] = resv[x] \/ resv[x].status = "NONE"
    BY <1>3, <2>0, <2>6 DEF LedgerTypeOK
  <2>10. "ok" \in Outcomes
    BY DEF Outcomes
  <2>11. LockInv'
    BY <1>3, <2>0, <2>9, <2>10, EndTxInv
  <2> QED
    BY <2>8, <2>11
<1> QED
  BY <1>1, <1>2, <1>3

\* The reservation row is locked and read while pending, or the call returns.
LEMMA LockReservationStep ==
    ASSUME IInv, NEW t \in Tx, LockReservation(t)
    PROVE  LockInv' /\ UNCHANGED ledgerVars
<1>1. PICK r \in Matches(t) :
        /\ resLock[r] = NoTx
        /\ \/ Rollback(t, SettledReply(tx[t].op, resv[r].status))
           \/ /\ resv[r].status = "PENDING"
              /\ resLock' = [resLock EXCEPT ![r] = t]
              /\ tx' = [tx EXCEPT ![t] =
                    LET rows == {s \in SKU : resv[r].qty[s] > 0}
                    IN  [op |-> tx[t].op, pc |-> "lockSkus", rid |-> r, order |-> tx[t].order,
                         qty |-> resv[r].qty, skus |-> rows, want |-> rows, out |-> "none"]]
              /\ UNCHANGED <<onHand, reserved, resv, received, stocked, skuLock>>
  BY DEF LockReservation
<1>2. CASE Rollback(t, SettledReply(tx[t].op, resv[r].status))
  <2>1. SettledReply(tx[t].op, resv[r].status) \in Outcomes
    BY DEF SettledReply, Outcomes
  <2> QED
    BY <1>2, <2>1, RollbackInv
<1>3. CASE ~Rollback(t, SettledReply(tx[t].op, resv[r].status))
  <2> DEFINE rows == {s \in SKU : resv[r].qty[s] > 0}
             c == [op |-> tx[t].op, pc |-> "lockSkus", rid |-> r, order |-> tx[t].order,
                   qty |-> resv[r].qty, skus |-> rows, want |-> rows, out |-> "none"]
  <2>0. LedgerTypeOK /\ LockInv /\ TxTypeOK /\ tx[t].pc = "lockRes"
    BY DEF IInv, LedgerInv, LockInv, LockReservation
  <2>1. r \in ResId /\ resv[r].qty \in Quantities
    BY <2>0 DEF Matches, LedgerTypeOK, Reservation
  <2>2. /\ resv[r].status = "PENDING" /\ resLock[r] = NoTx
        /\ resLock' = [resLock EXCEPT ![r] = t]
        /\ tx' = [tx EXCEPT ![t] = c]
        /\ UNCHANGED <<onHand, reserved, resv, received, stocked, skuLock>>
    BY <1>1, <1>3
  <2>3. tx[t].op \in {"commit", "release"}
    BY <2>0 DEF LockInv, WaitingCall
  <2>4. c \in TxRecord
    <3>1. tx[t].op \in Ops /\ tx[t].order \in Order \cup {NoOrder}
      BY <2>0 DEF TxTypeOK, TxRecord
    <3>2. resv[r].qty \in [SKU -> Int]
      BY <2>1 DEF Quantities
    <3> QED
      BY <2>1, <3>1, <3>2 DEF TxRecord, Outcomes
  <2>5. /\ c.op = tx[t].op /\ c.pc = "lockSkus" /\ c.rid = r
        /\ c.qty = resv[r].qty /\ c.want = c.skus
        /\ \A s \in SKU \ c.skus : c.qty[s] = 0
    BY <2>1, LedgerAssumption DEF Quantities
  <2> HIDE DEF c
  <2>6. tx'[t] = c /\ \A u \in Tx : u # t => tx'[u] = tx[u]
    BY <2>0, <2>2 DEF TxTypeOK
  <2>7. TxTypeOK'
    BY <2>0, <2>1, <2>2, <2>4 DEF TxTypeOK
  <2>8. LocksHeld'
    BY <2>0, <2>1, <2>2, <2>5, <2>6 DEF LockInv, LocksHeld, TxTypeOK
  <2>9. LockOrder'
    BY <2>0, <2>2, <2>6 DEF LockInv, LocksHeld, LockOrder
  <2>10. CallState'
    <3> SUFFICES ASSUME NEW u \in Tx, tx'[u].pc = "lockSkus"
                 PROVE  CallState!(u)!2'
      BY DEF CallState
    <3>1. CASE u = t
      <4>1. resLock'[r] = t
        BY <2>0, <2>1, <2>2 DEF TxTypeOK
      <4> QED
        BY <2>1, <2>2, <2>3, <2>5, <2>6, <3>1, <4>1
    <3>2. CASE u # t
      <4>1. tx[u].op # "reserve" => tx[u].rid # r
        BY <2>0, <2>2, <2>6, <3>2, InventoryAssumption DEF LockInv, CallState
      <4>2. \A x \in ResId : x # r => resLock'[x] = resLock[x]
        BY <2>0, <2>2 DEF TxTypeOK
      <4> QED
        BY <2>0, <2>2, <2>6, <3>2, <4>1, <4>2 DEF LockInv, CallState
    <3> QED
      BY <3>1, <3>2
  <2>11. WaitingCall'
    BY <2>0, <2>5, <2>6 DEF LockInv, WaitingCall
  <2> QED
    BY <2>2, <2>7, <2>8, <2>9, <2>10, <2>11 DEF LockInv, ledgerVars
<1> QED
  BY <1>2, <1>3

\* A commit or release that has its locks is the ledger's Commit or Release.
LEMMA CompleteSettleStep ==
    ASSUME IInv, NEW t \in Tx, CompleteSettle(t)
    PROVE  LockInv' /\ (LedgerNext \/ UNCHANGED ledgerVars)
<1> DEFINE r == tx[t].rid
<1>0. LedgerTypeOK /\ LockInv
  BY DEF IInv, LedgerInv
<1>1. /\ r \in ResId /\ resLock[r] = t
      /\ resv[r].status = "PENDING" /\ tx[t].qty = resv[r].qty
      /\ tx[t].op \in {"commit", "release"}
  BY <1>0 DEF LockInv, CallState, CompleteSettle
<1>2. CASE ~SettleRowsOK(t)
  <2>1. Rollback(t, "checkFailed") /\ "checkFailed" \in Outcomes
    BY <1>2 DEF CompleteSettle, Outcomes
  <2> QED
    BY <2>1, RollbackInv
<1>3. CASE SettleRowsOK(t)
  <2>1. /\ onHand' = [s \in SKU |-> OnHandAfter(tx[t].op, s, tx[t].qty[s])]
        /\ reserved' = [s \in SKU |-> reserved[s] - tx[t].qty[s]]
        /\ resv' = [resv EXCEPT ![r].status = FinalStatus(tx[t].op)]
        /\ EndTx(t, "ok")
        /\ UNCHANGED <<received, stocked>>
    BY <1>3 DEF CompleteSettle
  <2>2. Commit(r) \/ Release(r)
    <3>1. CASE tx[t].op = "commit"
      BY <1>1, <2>1, <3>1 DEF Commit, OnHandAfter, FinalStatus
    <3>2. CASE tx[t].op = "release"
      <4>1. onHand' = onHand
        BY <1>0, <2>1, <3>2 DEF OnHandAfter, LedgerTypeOK
      <4> QED
        BY <1>1, <2>1, <3>2, <4>1 DEF Release, FinalStatus
    <3> QED
      BY <1>1, <3>1, <3>2
  <2>3. LedgerNext
    BY <1>1, <2>2 DEF LedgerNext
  <2>4. \A x \in ResId : resLock[x] # t => resv'[x] = resv[x]
    BY <1>0, <1>1, <2>1 DEF LedgerTypeOK
  <2>5. LockInv'
    BY <1>0, <2>1, <2>4, EndTxInv DEF Outcomes
  <2> QED
    BY <2>3, <2>5
<1> QED
  BY <1>2, <1>3

\* IInv is inductive, and under it every step of the implementation is a
\* step of the ledger or leaves the ledger alone.
LEMMA StepIInv == IInv /\ [Next]_vars => IInv' /\ [LedgerNext]_ledgerVars
<1> SUFFICES ASSUME IInv, [Next]_vars
             PROVE  LockInv' /\ [LedgerNext]_ledgerVars
  BY LedgerStepInv DEF IInv
<1>1. ASSUME NEW s \in SKU, NEW q \in 1 .. MaxInt4, ReplenishStock(s, q)
      PROVE  LockInv' /\ [LedgerNext]_ledgerVars
  BY <1>1, ReplenishStep
<1>2. ASSUME NEW t \in Tx, NEW r \in ResId, NEW o \in Order, NEW lines \in Requests,
             ReserveStock(t, r, o, lines)
      PROVE  LockInv' /\ [LedgerNext]_ledgerVars
  BY <1>2, ReserveStockStep
<1>3. ASSUME NEW t \in Tx, NEW op \in {"commit", "release"}, NEW r \in ResId,
             SettleStock(t, op, r, NoOrder)
      PROVE  LockInv' /\ [LedgerNext]_ledgerVars
  BY <1>3, SettleStockStep
<1>4. ASSUME NEW t \in Tx, NEW op \in {"commit", "release"}, NEW o \in Order,
             SettleStock(t, op, NoRes, o)
      PROVE  LockInv' /\ [LedgerNext]_ledgerVars
  BY <1>4, SettleStockStep
<1>5. ASSUME NEW t \in Tx, LockSKUsForUpdate(t)
      PROVE  LockInv' /\ [LedgerNext]_ledgerVars
  BY <1>5, LockSKUsStep
<1>6. ASSUME NEW t \in Tx, CompleteReserve(t)
      PROVE  LockInv' /\ [LedgerNext]_ledgerVars
  BY <1>6, CompleteReserveStep
<1>7. ASSUME NEW t \in Tx, ReservationNotFound(t) \/ Abort(t)
      PROVE  LockInv' /\ [LedgerNext]_ledgerVars
  <2>1. \E out \in Outcomes : Rollback(t, out)
    BY <1>7 DEF ReservationNotFound, Abort, Outcomes
  <2> QED
    BY <2>1, RollbackInv
<1>8. ASSUME NEW t \in Tx, LockReservation(t)
      PROVE  LockInv' /\ [LedgerNext]_ledgerVars
  BY <1>8, LockReservationStep
<1>9. ASSUME NEW t \in Tx, CompleteSettle(t)
      PROVE  LockInv' /\ [LedgerNext]_ledgerVars
  BY <1>9, CompleteSettleStep
<1>10. CASE UNCHANGED vars
  BY <1>10 DEF vars, ledgerVars, IInv, LockInv, TxTypeOK, LocksHeld, LockOrder, CallState,
               WaitingCall
<1> QED
  BY <1>1, <1>2, <1>3, <1>4, <1>5, <1>6, <1>7, <1>8, <1>9, <1>10 DEF Next

\* The strengthened invariant holds in every reachable state.
LEMMA IInvAlways == Spec => []IInv
BY InitIInv, StepIInv, PTL DEF Spec

\* Every reachable state of the inventory service is well typed: in
\* particular both stock columns stay inside their INT range.
THEOREM InventoryTypes == Spec => []TypeOK
<1>1. IInv => TypeOK
  BY DEF IInv, LedgerInv, LockInv, TxTypeOK, TypeOK
<1> QED
  BY <1>1, IInvAlways, PTL

\* The transactional service implements the stock ledger: row locks, lookups
\* by order and rollbacks are invisible to the callers' view of the stock.
THEOREM InventoryRefinesLedger == Spec => LedgerSpec
BY InitIInv, StepIInv, PTL DEF Spec, LedgerSpec

\* No unit is promised twice: what a row counts as reserved is exactly what
\* its pending reservations hold, and it is on the shelf.
THEOREM InventoryConserves == Spec => []Conservation
BY InventoryRefinesLedger, LedgerSafe, PTL

\* Every unit received is on the shelf or left through one committed
\* reservation.
THEOREM InventoryBalances == Spec => []ShelfBalance
BY InventoryRefinesLedger, LedgerSafe, PTL

\* CommitStock and ReleaseStock never undo or repeat each other.
THEOREM InventorySettlesOnce == Spec => SettledForever
BY InventoryRefinesLedger, LedgerSettled, PTL

\* A commit or release that has its locks is never rolled back by the CHECK
\* constraints of the inventory rows.
THEOREM InventorySettles == Spec => []SettleNeverRefused
<1>1. IInv => SettleNeverRefused
  <2> SUFFICES ASSUME IInv, NEW t \in Tx, tx[t].pc = "lockSkus",
                      tx[t].op \in {"commit", "release"}
               PROVE  resv[tx[t].rid].status = "PENDING" /\ SettleRowsOK(t)
    BY DEF SettleNeverRefused
  <2>1. /\ tx[t].rid \in ResId /\ resv[tx[t].rid].status = "PENDING"
        /\ tx[t].qty = resv[tx[t].rid].qty /\ tx[t].skus \subseteq SKU
    BY DEF IInv, LockInv, CallState, TxTypeOK, TxRecord
  <2>2. \A s \in SKU : /\ tx[t].qty[s] \in Nat /\ tx[t].qty[s] <= reserved[s]
                       /\ reserved[s] <= onHand[s]
                       /\ onHand[s] \in 0 .. MaxInt4 /\ reserved[s] \in 0 .. MaxInt4
    BY <2>1, PendingCovered DEF IInv, LedgerInv, LedgerTypeOK, Conservation
  <2>3. ASSUME NEW s \in SKU
        PROVE  RowOK(OnHandAfter(tx[t].op, s, tx[t].qty[s]), reserved[s] - tx[t].qty[s])
    <3> DEFINE q == tx[t].qty[s]
               h == onHand[s]
               v == reserved[s]
    <3>1. /\ q \in Nat /\ h \in Nat /\ v \in Nat /\ MaxInt4 \in Nat
          /\ q <= v /\ v <= h /\ h <= MaxInt4
      BY <2>2, LedgerAssumption
    <3> HIDE DEF q, h, v
    <3>2. RowOK(h - q, v - q) /\ RowOK(h, v - q)
      BY <3>1 DEF RowOK
    <3>3. OnHandAfter(tx[t].op, s, q) \in {h - q, h}
      BY DEF OnHandAfter, h
    <3> QED
      BY <3>2, <3>3 DEF q, v
  <2> QED
    BY <2>1, <2>3 DEF SettleRowsOK
<1> QED
  BY <1>1, IInvAlways, PTL

\* Under IInv a call that is waited for holds a row and so, if it waits
\* itself, waits for a later one: in a group of calls that all wait for one
\* another the rows awaited would have no greatest element.
LEMMA WaitAscends ==
    ASSUME IInv, NEW t \in Tx, NEW u \in Tx, NEW v \in Tx,
           WaitsFor(t, u), WaitsFor(u, v)
    PROVE  /\ tx[u].pc = "lockSkus" /\ tx[u].want # {}
           /\ skuLock[NextRow(u)] = v
           /\ tx[t].pc = "lockSkus" => NextRow(t) < NextRow(u)
<1>0. LockInv
  BY DEF IInv
<1>1. tx[u].pc = "lockSkus"
  <2>1. (tx[t].pc = "lockSkus" /\ tx[t].want # {}) => NextRow(t) \in SKU
    BY <1>0, NextRowLeast DEF LockInv, TxTypeOK, TxRecord
  <2> QED
    BY <1>0, <2>1 DEF WaitsFor, LockInv, LocksHeld, Matches
<1>2. tx[u].want # {} /\ skuLock[NextRow(u)] = v
  BY <1>1 DEF WaitsFor
<1>3. ASSUME tx[t].pc = "lockSkus" PROVE NextRow(t) < NextRow(u)
  <2>1. tx[t].want # {} /\ skuLock[NextRow(t)] = u
    BY <1>3 DEF WaitsFor
  <2>2. NextRow(t) \in SKU /\ NextRow(u) \in tx[u].want
    BY <1>0, <1>2, <2>1, NextRowLeast DEF LockInv, TxTypeOK, TxRecord
  <2> QED
    BY <1>0, <1>1, <2>1, <2>2 DEF LockInv, LockOrder
<1> QED
  BY <1>1, <1>2, <1>3

\* Locking inventory rows in ascending SKU order, after the reservation row,
\* never deadlocks, however many calls run at once.
THEOREM InventoryDeadlockFree == Spec => []NoDeadlock
<1>1. IInv => NoDeadlock
  <2> SUFFICES ASSUME IInv, NEW S \in SUBSET Tx, S # {},
                      \A t \in S : \E u \in S : WaitsFor(t, u)
               PROVE  FALSE
    BY DEF NoDeadlock
  <2> DEFINE L == {t \in S : tx[t].pc = "lockSkus" /\ tx[t].want # {}}
             rows == {NextRow(t) : t \in L}
             above(s) == {x \in SKU : x > s}
             T == {above(s) : s \in rows}
  <2>0. LockInv /\ IsFiniteSet(SKU) /\ \A x \in SKU : x \in Int
    BY InventoryAssumption, LedgerAssumption DEF IInv
  <2>1. \A t \in S, u \in S : WaitsFor(t, u) => u \in L
    <3> SUFFICES ASSUME NEW t \in S, NEW u \in S, WaitsFor(t, u) PROVE u \in L
      OBVIOUS
    <3>1. PICK v \in S : WaitsFor(u, v)
      OBVIOUS
    <3> QED
      BY <3>1, WaitAscends
  <2>2. L # {}
    BY <2>1
  <2>3. rows \subseteq SKU /\ rows # {}
    BY <2>0, <2>2, NextRowLeast DEF LockInv, TxTypeOK, TxRecord
  <2>4. \A s \in rows : \E w \in rows : s < w
    <3> SUFFICES ASSUME NEW t \in L PROVE \E w \in rows : NextRow(t) < w
      OBVIOUS
    <3>1. PICK u \in S : WaitsFor(t, u)
      OBVIOUS
    <3>2. PICK v \in S : WaitsFor(u, v)
      OBVIOUS
    <3>3. u \in L
      BY <2>1, <3>1
    <3>4. NextRow(t) < NextRow(u)
      BY <3>1, <3>2, WaitAscends
    <3> QED
      BY <3>3, <3>4
  <2> HIDE DEF rows
  <2>5. IsWellFoundedOn(StrictSubsetOrdering(SKU), FiniteSubsetsOf(SKU))
    BY FS_StrictSubsetOrderingWellFounded
  <2>6. T \subseteq FiniteSubsetsOf(SKU) /\ T # {}
    <3>1. FiniteSubsetsOf(SKU) = SUBSET SKU
      BY <2>0, FS_FiniteSubsetsOfFinite
    <3>2. T \subseteq SUBSET SKU
      OBVIOUS
    <3>3. T # {}
      BY <2>3
    <3> QED
      BY <3>1, <3>2, <3>3
  <2>7. \E m \in T : \A y \in T : ~ (<<y, m>> \in StrictSubsetOrdering(SKU))
    <3> HIDE DEF T
    <3> QED
      BY <2>5, <2>6, WFMin
  <2>8. PICK s \in rows : \A y \in T : ~ (<<y, above(s)>> \in StrictSubsetOrdering(SKU))
    BY <2>7
  <2>9. PICK w \in rows : s < w
    BY <2>4
  <2>10. s \in SKU /\ w \in SKU /\ s \in Int /\ w \in Int
    BY <2>0, <2>3
  <2>11. above(w) \subseteq above(s)
    <3>1. ASSUME NEW x \in SKU, x > w PROVE x > s
      BY <2>0, <2>9, <2>10, <3>1
    <3> QED
      BY <3>1
  <2>12. w \in above(s) /\ w \notin above(w)
    BY <2>9, <2>10
  <2>13. <<above(w), above(s)>> \in StrictSubsetOrdering(SKU)
    BY <2>11, <2>12 DEF StrictSubsetOrdering
  <2> QED
    BY <2>8, <2>13
<1> QED
  BY <1>1, IInvAlways, PTL

-----------------------------------------------------------------------------
(* What the calls answered *)

\* The reservation that call c named has status st in the table rows.
Final(c, rows, st) ==
    \E r \in ResId : (r = c.rid \/ rows[r].order = c.order) /\ rows[r].status = st

\* The answer of c is true of the reservations in rows.
Answered(c, rows) ==
    /\ (c.op = "reserve" /\ c.out = "ok") =>
          /\ c.rid \in ResId
          /\ rows[c.rid].order = c.order /\ rows[c.rid].status # "NONE"
    /\ (c.op = "commit" /\ c.out = "ok") => Final(c, rows, "COMMITTED")
    /\ (c.op = "release" /\ c.out = "ok") => Final(c, rows, "RELEASED")
    /\ c.out = "alreadyCommitted" => Final(c, rows, "COMMITTED")
    /\ c.out = "alreadyReleased" => Final(c, rows, "RELEASED")

ReplyInv == \A t \in Tx : tx[t].pc = "idle" => Answered(tx[t], resv)

\* A reservation keeps its order, and once settled it keeps its status.
LEMMA ReservationsStay ==
    ASSUME LedgerTypeOK, [LedgerNext]_ledgerVars, NEW r \in ResId, resv[r].status # "NONE"
    PROVE  /\ resv'[r].order = resv[r].order /\ resv'[r].status # "NONE"
           /\ resv[r].status \in {"COMMITTED", "RELEASED"} => resv'[r].status = resv[r].status
<1>0. resv \in [ResId -> Reservation]
  BY DEF LedgerTypeOK
<1>1. ASSUME NEW s \in SKU, NEW q \in 1 .. MaxInt4, Receive(s, q) PROVE resv' = resv
  BY <1>1 DEF Receive
<1>2. ASSUME NEW x \in ResId, NEW o \in Order, NEW qty \in Quantities, Reserve(x, o, qty)
      PROVE  resv'[r] = resv[r]
  BY <1>0, <1>2 DEF Reserve
<1>3. ASSUME NEW x \in ResId, NEW st \in {"COMMITTED", "RELEASED"}, resv[x].status = "PENDING",
             resv' = [resv EXCEPT ![x].status = st]
      PROVE  /\ resv'[r].order = resv[r].order /\ resv'[r].status # "NONE"
             /\ resv[r].status \in {"COMMITTED", "RELEASED"} => resv'[r].status = resv[r].status
  BY <1>0, <1>3 DEF Reservation
<1>4. ASSUME NEW x \in ResId, Commit(x) \/ Release(x)
      PROVE  \E st \in {"COMMITTED", "RELEASED"} :
                resv[x].status = "PENDING" /\ resv' = [resv EXCEPT ![x].status = st]
  BY <1>4 DEF Commit, Release
<1>5. CASE UNCHANGED ledgerVars
  BY <1>5 DEF ledgerVars
<1> QED BY <1>1, <1>2, <1>3, <1>4, <1>5 DEF LedgerNext

\* So an answer, once true, stays true.
LEMMA AnswerStays ==
    ASSUME LedgerTypeOK, [LedgerNext]_ledgerVars, NEW c, Answered(c, resv)
    PROVE  Answered(c, resv')
<1>1. ASSUME NEW st \in {"COMMITTED", "RELEASED"}, Final(c, resv, st) PROVE Final(c, resv', st)
  <2>1. PICK r \in ResId : (r = c.rid \/ resv[r].order = c.order) /\ resv[r].status = st
    BY <1>1 DEF Final
  <2>2. resv'[r].order = resv[r].order /\ resv'[r].status = st
    BY <2>1, ReservationsStay
  <2> QED BY <2>1, <2>2 DEF Final
<1>2. ASSUME c.rid \in ResId, resv[c.rid].status # "NONE"
      PROVE  resv'[c.rid].order = resv[c.rid].order /\ resv'[c.rid].status # "NONE"
  BY <1>2, ReservationsStay
<1> QED BY <1>1, <1>2 DEF Answered

\* A step of call t leaves the answers of the others alone.
LEMMA ReplyStep ==
    ASSUME IInv, ReplyInv, [LedgerNext]_ledgerVars, NEW t \in Tx, NEW c, tx' = [tx EXCEPT ![t] = c],
           c.pc = "idle" => Answered(c, resv')
    PROVE  ReplyInv'
<1>1. tx'[t] = c /\ \A u \in Tx : u # t => tx'[u] = tx[u]
  BY DEF IInv, LockInv, TxTypeOK
<1>2. LedgerTypeOK
  BY DEF IInv, LedgerInv
<1>3. \A u \in Tx : tx[u].pc = "idle" => Answered(tx[u], resv')
  BY <1>2, AnswerStays DEF ReplyInv
<1> QED BY <1>1, <1>3 DEF ReplyInv

\* A call that returns answers what is true at its commit or rollback.
LEMMA EndTxReply ==
    ASSUME IInv, ReplyInv, [LedgerNext]_ledgerVars, NEW t \in Tx, NEW out, EndTx(t, out),
           (tx[t].op = "reserve" /\ out = "ok") =>
               /\ tx[t].rid \in ResId
               /\ resv'[tx[t].rid].order = tx[t].order /\ resv'[tx[t].rid].status # "NONE",
           (tx[t].op = "commit" /\ out = "ok") => Final(tx[t], resv', "COMMITTED"),
           (tx[t].op = "release" /\ out = "ok") => Final(tx[t], resv', "RELEASED"),
           out = "alreadyCommitted" => Final(tx[t], resv', "COMMITTED"),
           out = "alreadyReleased" => Final(tx[t], resv', "RELEASED")
    PROVE  ReplyInv'
<1> DEFINE c == Call(tx[t].op, "idle", tx[t].rid, tx[t].order, out)
<1>1. /\ c.op = tx[t].op /\ c.rid = tx[t].rid /\ c.order = tx[t].order /\ c.out = out
      /\ tx' = [tx EXCEPT ![t] = c]
  BY DEF EndTx, Call
<1> HIDE DEF c
<1>2. \A st : Final(c, resv', st) <=> Final(tx[t], resv', st)
  BY <1>1 DEF Final
<1>3. Answered(c, resv')
  BY <1>1, <1>2 DEF Answered
<1> QED BY <1>1, <1>3, ReplyStep

\* Every step of the service keeps the answers true.
LEMMA StepReplyInv == IInv /\ ReplyInv /\ [Next]_vars => ReplyInv'
<1> SUFFICES ASSUME IInv, ReplyInv, [Next]_vars PROVE ReplyInv'
  OBVIOUS
<1>0. LedgerTypeOK /\ LockInv /\ [LedgerNext]_ledgerVars
  BY StepIInv DEF IInv, LedgerInv
<1>1. CASE UNCHANGED tx
  BY <1>0, <1>1, AnswerStays DEF ReplyInv
<1>2. ASSUME NEW t \in Tx, NEW c, tx' = [tx EXCEPT ![t] = c], c.pc # "idle" PROVE ReplyInv'
  BY <1>0, <1>2, ReplyStep
<1>3. ASSUME NEW t \in Tx, NEW r, NEW o, NEW lines, ReserveStock(t, r, o, lines) PROVE ReplyInv'
  <2> DEFINE c == [op |-> "reserve", pc |-> "lockSkus", rid |-> r, order |-> o,
                   qty |-> Consolidate(lines), skus |-> RequestedSkus(lines),
                   want |-> RequestedSkus(lines) \cap stocked, out |-> "none"]
  <2>1. tx' = [tx EXCEPT ![t] = c] /\ c.pc # "idle"
    BY <1>3 DEF ReserveStock
  <2> HIDE DEF c
  <2> QED BY <1>2, <2>1
<1>4. ASSUME NEW t \in Tx, NEW op, NEW r, NEW o, SettleStock(t, op, r, o) PROVE ReplyInv'
  <2> DEFINE c == Call(op, "lockRes", r, o, "none")
  <2>1. tx' = [tx EXCEPT ![t] = c] /\ c.pc # "idle"
    BY <1>4 DEF SettleStock, Call
  <2> HIDE DEF c
  <2> QED BY <1>2, <2>1
<1>5. ASSUME NEW t \in Tx, LockSKUsForUpdate(t) PROVE ReplyInv'
  <2> DEFINE c == [tx[t] EXCEPT !.want = tx[t].want \ {NextRow(t)}]
  <2>1. tx[t] \in TxRecord /\ tx[t].pc = "lockSkus" /\ tx' = [tx EXCEPT ![t] = c]
    BY <1>0, <1>5 DEF LockInv, TxTypeOK, LockSKUsForUpdate
  <2>2. c.pc # "idle"
    BY <2>1 DEF TxRecord
  <2> HIDE DEF c
  <2> QED BY <1>2, <2>1, <2>2
<1>6. ASSUME NEW t \in Tx,
             NEW out \in {"insufficient", "checkFailed", "duplicate", "notFound", "aborted"},
             Rollback(t, out)
      PROVE  ReplyInv'
  BY <1>0, <1>6, EndTxReply DEF Rollback
<1>7. ASSUME NEW t \in Tx, CompleteReserve(t) PROVE ReplyInv'
  <2>1. tx[t].op = "reserve" /\ tx[t].rid \in ResId
    BY <1>0, <1>7 DEF LockInv, CallState, CompleteReserve
  <2>2. \/ \E out \in {"insufficient", "checkFailed", "duplicate"} : Rollback(t, out)
        \/ /\ EndTx(t, "ok")
           /\ resv' = [resv EXCEPT ![tx[t].rid] =
                         [status |-> "PENDING", order |-> tx[t].order, qty |-> tx[t].qty]]
    BY <1>7 DEF CompleteReserve
  <2>3. CASE \E out \in {"insufficient", "checkFailed", "duplicate"} : Rollback(t, out)
    BY <1>6, <2>3
  <2>4. CASE /\ EndTx(t, "ok")
             /\ resv' = [resv EXCEPT ![tx[t].rid] =
                           [status |-> "PENDING", order |-> tx[t].order, qty |-> tx[t].qty]]
    <3>1. resv'[tx[t].rid].order = tx[t].order /\ resv'[tx[t].rid].status = "PENDING"
      BY <1>0, <2>1, <2>4 DEF LedgerTypeOK
    <3> QED BY <1>0, <2>1, <2>4, <3>1, EndTxReply
  <2> QED BY <2>2, <2>3, <2>4
<1>8. ASSUME NEW t \in Tx, LockReservation(t) PROVE ReplyInv'
  <2>1. PICK r \in Matches(t) :
          \/ /\ resv[r].status # "PENDING"
             /\ Rollback(t, SettledReply(tx[t].op, resv[r].status))
          \/ \E rows : tx' = [tx EXCEPT ![t] =
                 [op |-> tx[t].op, pc |-> "lockSkus", rid |-> r, order |-> tx[t].order,
                  qty |-> resv[r].qty, skus |-> rows, want |-> rows, out |-> "none"]]
    BY <1>8 DEF LockReservation
  <2>2. CASE resv[r].status # "PENDING" /\ Rollback(t, SettledReply(tx[t].op, resv[r].status))
    <3> DEFINE st == resv[r].status
               out == SettledReply(tx[t].op, st)
    <3>1. r \in ResId /\ st \in {"COMMITTED", "RELEASED"} /\ (r = tx[t].rid \/ resv[r].order = tx[t].order)
      BY <1>0, <2>1, <2>2 DEF Matches, LedgerTypeOK, Reservation, ResStatus
    <3>2. EndTx(t, out) /\ resv' = resv
      BY <2>2 DEF Rollback
    <3>3. tx[t].op \in {"commit", "release"}
      BY <1>0, <1>8 DEF LockInv, WaitingCall, LockReservation
    <3>4. Final(tx[t], resv', st)
      BY <3>1, <3>2 DEF Final
    <3>5. /\ tx[t].op = "commit" /\ out = "ok" => st = "COMMITTED"
          /\ tx[t].op = "release" /\ out = "ok" => st = "RELEASED"
          /\ out = "alreadyCommitted" => st = "COMMITTED"
          /\ out = "alreadyReleased" => st = "RELEASED"
      BY <3>1, <3>3 DEF SettledReply, FinalStatus
    <3> HIDE DEF st, out
    <3> QED BY <1>0, <3>2, <3>3, <3>4, <3>5, EndTxReply
  <2>3. CASE \E rows : tx' = [tx EXCEPT ![t] =
                 [op |-> tx[t].op, pc |-> "lockSkus", rid |-> r, order |-> tx[t].order,
                  qty |-> resv[r].qty, skus |-> rows, want |-> rows, out |-> "none"]]
    <3>1. PICK rows : tx' = [tx EXCEPT ![t] =
                 [op |-> tx[t].op, pc |-> "lockSkus", rid |-> r, order |-> tx[t].order,
                  qty |-> resv[r].qty, skus |-> rows, want |-> rows, out |-> "none"]]
      BY <2>3
    <3> DEFINE c == [op |-> tx[t].op, pc |-> "lockSkus", rid |-> r, order |-> tx[t].order,
                     qty |-> resv[r].qty, skus |-> rows, want |-> rows, out |-> "none"]
    <3>2. tx' = [tx EXCEPT ![t] = c] /\ c.pc # "idle"
      BY <3>1
    <3> HIDE DEF c
    <3> QED BY <1>2, <3>2
  <2> QED BY <2>1, <2>2, <2>3
<1>9. ASSUME NEW t \in Tx, CompleteSettle(t) PROVE ReplyInv'
  <2>1. tx[t].op \in {"commit", "release"} /\ tx[t].rid \in ResId
    BY <1>0, <1>9 DEF LockInv, CallState, CompleteSettle
  <2>2. CASE ~SettleRowsOK(t)
    BY <1>6, <1>9, <2>2 DEF CompleteSettle
  <2>3. CASE SettleRowsOK(t)
    <3>1. EndTx(t, "ok") /\ resv' = [resv EXCEPT ![tx[t].rid].status = FinalStatus(tx[t].op)]
      BY <1>9, <2>3 DEF CompleteSettle
    <3>2. resv'[tx[t].rid].status = FinalStatus(tx[t].op)
      BY <1>0, <2>1, <3>1 DEF LedgerTypeOK, Reservation
    <3>3. Final(tx[t], resv', FinalStatus(tx[t].op))
      BY <2>1, <3>2 DEF Final
    <3> QED BY <1>0, <2>1, <3>1, <3>3, EndTxReply DEF FinalStatus
  <2> QED BY <2>2, <2>3
<1>10. ASSUME NEW t \in Tx, ReservationNotFound(t) \/ Abort(t) PROVE ReplyInv'
  BY <1>6, <1>10 DEF ReservationNotFound, Abort
<1>11. ASSUME NEW s \in SKU, NEW q \in 1 .. MaxInt4, ReplenishStock(s, q) PROVE ReplyInv'
  BY <1>1, <1>11 DEF ReplenishStock
<1>12. CASE UNCHANGED vars
  BY <1>1, <1>12 DEF vars
<1> QED
  BY <1>3, <1>4, <1>5, <1>7, <1>8, <1>9, <1>10, <1>11, <1>12 DEF Next

\* What ReserveStock, CommitStock and ReleaseStock answered stays true, however many
\* calls, retries and replays follow.
THEOREM InventoryRepliesHold == Spec => []RepliesHold
<1>1. Init => ReplyInv
  BY DEF Init, ReplyInv, Answered, Call
<1>2. ReplyInv => RepliesHold
  BY DEF ReplyInv, Answered, Final, RepliesHold
<1> QED
  BY <1>1, <1>2, IInvAlways, StepReplyInv, PTL DEF Spec
=============================================================================
