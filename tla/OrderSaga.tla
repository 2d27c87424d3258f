------------------------------ MODULE OrderSaga ------------------------------
(***************************************************************************)
(* One order's saga: internal/domain/saga (coordinator, repository,        *)
(* watchdog) with the services it drives through the adapters of           *)
(* cmd/shopflow/main.go and internal/domain/payment/adapter.go.  Sagas of  *)
(* different orders share nothing but the stock, so one saga is modelled   *)
(* and "enough stock or not" is a choice.  Executors run ExecuteSaga,      *)
(* watchdogs run ProcessExpiredSagas; any number of both may be at work on *)
(* the saga, and each database transaction or service call is one step.    *)
(*                                                                         *)
(* A timeout is not counted in seconds: the watchdog may find the saga     *)
(* timed out whenever it has not ended, however far an executor has come.  *)
(* Of the other sagas the model knows how many the watchdog takes up first.*)
(***************************************************************************)
EXTENDS Naturals, Sequences

CONSTANTS
    Executor,       \* processes that call ExecuteSaga
    Watchdog,       \* processes that run the watchdog
    OrderAdvances,  \* whether anything calls OrderCommander.UpdateStatus
    BatchSize,      \* sagas the watchdog takes up at a tick
    MaxAhead,       \* bound on the older sagas that are open as well
    MaxFaults       \* bound on crashes, failed calls and lost replies

ASSUME SagaAssumption ==
    /\ Executor \cap Watchdog = {}
    /\ OrderAdvances \in BOOLEAN
    /\ BatchSize \in Nat \ {0}
    /\ MaxAhead \in Nat
    /\ MaxFaults \in Nat

VARIABLES
    saga,       \* the order_sagas row: state and the ids in its payload
    log,        \* order_saga_logs: from_state, to_state and event_type
    resv,       \* status of the order's stock reservation
    pay,        \* status of the payment with the order id as idempotency key
    refunded,   \* whether payment_refunds has a row for it
    order,      \* status of the order
    proc,       \* where each process is, and the saga as it last read it
    faults,     \* faults so far
    ahead       \* other sagas, open and timed out, with an earlier timeout_at

vars == <<saga, log, resv, pay, refunded, order, proc, faults, ahead>>
services == <<resv, pay, refunded, order>>

Process == Executor \cup Watchdog

-----------------------------------------------------------------------------
(* The state machines *)

Terminal == {"CONFIRMED", "FAILED"}
SagaState == Terminal \cup
    {"STARTED", "RESERVING_STOCK", "STOCK_RESERVED", "PAYING", "PAID", "COMPENSATING"}

IsTerminal(s) == s \in Terminal

\* ValidTransitions, without PENDING and FAILED_COMPENSATED, which nothing
\* enters under the default configuration.
CanTransition(from, to) ==
    \/ from = "STARTED" /\ to = "RESERVING_STOCK"
    \/ from = "RESERVING_STOCK" /\ to = "STOCK_RESERVED"
    \/ from = "STOCK_RESERVED" /\ to = "PAYING"
    \/ from = "PAYING" /\ to = "PAID"
    \/ from = "PAID" /\ to = "CONFIRMED"
    \/ from \in SagaState \ (Terminal \cup {"COMPENSATING"}) /\ to = "COMPENSATING"
    \/ from \in SagaState \ Terminal /\ to = "FAILED"

\* OrderStatus.CanTransitionTo, the forward moves up to PAID.
OrderNext(s) ==
    CASE s = "PENDING" -> "RESERVING_STOCK"
      [] s = "RESERVING_STOCK" -> "STOCK_RESERVED"
      [] s = "STOCK_RESERVED" -> "PAYING"
      [] s = "PAYING" -> "PAID"
      [] OTHER -> s

Cancellable == {"PENDING", "RESERVING_STOCK", "STOCK_RESERVED", "PAYING"}
OrderState == Cancellable \cup {"PAID", "CONFIRMED", "CANCELLED"}

-----------------------------------------------------------------------------
(* Processes *)

NoSaga == [state |-> "NONE", resId |-> FALSE, payId |-> FALSE]

Init ==
    /\ saga = NoSaga
    /\ log = <<>>
    /\ resv = "NONE" /\ pay = "NONE" /\ refunded = FALSE
    /\ order = "PENDING"
    /\ proc = [p \in Process |-> [pc |-> "idle", seen |-> NoSaga]]
    /\ faults = 0
    /\ ahead \in 0 .. MaxAhead

At(p, l) == proc[p].pc = l
Goto(p, l) == proc' = [proc EXCEPT ![p] = [pc |-> l, seen |-> @.seen]]
Return(p) == proc' = [proc EXCEPT ![p] = [pc |-> "idle", seen |-> NoSaga]]

\* GetSagaByID: p goes on at l with what it read.
ReadSaga(p, l) == proc' = [proc EXCEPT ![p] = [pc |-> l, seen |-> saga]]

LogEntry(from, to, event) == [from |-> from, to |-> to, event |-> event]

\* Mutant: an UPDATE without "AND current_state = $5".
TransitionBlind(from, to, event, resId, payId) ==
    /\ saga.state # "NONE"
    /\ saga' = [state |-> to, resId |-> resId, payId |-> payId]
    /\ log' = Append(log, LogEntry(from, to, event))

\* transitionAndLog: compare-and-set of the state, new payload, log entry.
Transition(from, to, event, resId, payId) ==
    /\ CanTransition(from, to)
    /\ saga.state = from
    /\ saga' = [state |-> to, resId |-> resId, payId |-> payId]
    /\ log' = Append(log, LogEntry(from, to, event))

\* The compare-and-set finds another state.
Conflict(from) ==
    /\ saga.state # from
    /\ UNCHANGED <<saga, log>>

-----------------------------------------------------------------------------
(* StartSaga and ExecuteSaga *)

StartSaga ==
    /\ saga.state = "NONE"
    /\ saga' = [state |-> "STARTED", resId |-> FALSE, payId |-> FALSE]
    /\ log' = <<LogEntry("NONE", "STARTED", "SagaInitialized")>>
    /\ UNCHANGED <<services, proc, faults, ahead>>

ExecuteSaga(p) ==
    /\ At(p, "idle")
    /\ saga.state = "STARTED"
    /\ ReadSaga(p, "toReserving")
    /\ UNCHANGED <<saga, log, services, faults, ahead>>

ToReserving(p) ==
    /\ At(p, "toReserving")
    /\ \/ /\ Transition("STARTED", "RESERVING_STOCK", "StockReservationStarted",
                        saga.resId, saga.payId)
          /\ Goto(p, "reserve")
       \/ Conflict("STARTED") /\ Return(p)
    /\ UNCHANGED <<services, faults, ahead>>

\* Refresh the saga, then ReserveStock: refused for want of stock, or
\* because the order has a reservation already.
ReserveStock(p) ==
    /\ At(p, "reserve")
    /\ \/ resv = "NONE" /\ resv' = "PENDING" /\ ReadSaga(p, "toReserved")
       \/ ReadSaga(p, "failRead") /\ UNCHANGED resv
    /\ UNCHANGED <<saga, log, pay, refunded, order, faults, ahead>>

\* Mutant: updatedPayload is nil, so the reservation id is not stored.
ToReservedForgets(p) ==
    /\ At(p, "toReserved")
    /\ \/ /\ Transition("RESERVING_STOCK", "STOCK_RESERVED", "StockReserved",
                        saga.resId, saga.payId)
          /\ Goto(p, "toPaying")
       \/ Conflict("RESERVING_STOCK") /\ Goto(p, "undoReserve")
    /\ UNCHANGED <<services, faults, ahead>>

ToReserved(p) ==
    /\ At(p, "toReserved")
    /\ \/ /\ Transition("RESERVING_STOCK", "STOCK_RESERVED", "StockReserved",
                        TRUE, proc[p].seen.payId)
          /\ Goto(p, "toPaying")
       \/ Conflict("RESERVING_STOCK") /\ Goto(p, "undoReserve")
    /\ UNCHANGED <<services, faults, ahead>>

\* inventory.ReleaseStock: a pending reservation is released, a released one
\* stays so, and the call is refused for a committed one.
ReleaseStock == resv' = IF resv = "PENDING" THEN "RELEASED" ELSE resv

\* Release after the failed transition; its error is only logged.
UndoReserve(p) ==
    /\ At(p, "undoReserve")
    /\ ReleaseStock
    /\ Return(p)
    /\ UNCHANGED <<saga, log, pay, refunded, order, faults, ahead>>

ToPaying(p) ==
    /\ At(p, "toPaying")
    /\ \/ /\ Transition("STOCK_RESERVED", "PAYING", "PaymentInitiated", saga.resId, saga.payId)
          /\ Goto(p, "capture")
       \/ Conflict("STOCK_RESERVED") /\ Return(p)
    /\ UNCHANGED <<services, faults, ahead>>

\* AuthorizeAndCapture under the order's idempotency key: a payment that
\* exists is reused, otherwise it is captured or declined.
Capture(p) ==
    /\ At(p, "capture")
    /\ pay' \in IF pay = "NONE" THEN {"SUCCESS", "FAILED"} ELSE {pay}
    /\ Goto(p, IF pay' = "FAILED" THEN "compRead" ELSE "toPaid")
    /\ UNCHANGED <<saga, log, resv, refunded, order, faults, ahead>>

ToPaid(p) ==
    /\ At(p, "toPaid")
    /\ \/ Transition("PAYING", "PAID", "PaymentCaptured", TRUE, TRUE) /\ Goto(p, "commit")
       \/ Conflict("PAYING") /\ Return(p)
    /\ UNCHANGED <<services, faults, ahead>>

\* CommitStock, tried up to three times: succeeds unless already released.
CommitStock(p) ==
    /\ At(p, "commit")
    /\ \/ resv \in {"PENDING", "COMMITTED"} /\ resv' = "COMMITTED" /\ Goto(p, "confirm")
       \/ resv = "RELEASED" /\ Return(p) /\ UNCHANGED resv
    /\ UNCHANGED <<saga, log, pay, refunded, order, faults, ahead>>

\* ConfirmOrder is legal from PAID only (and a no-op when CONFIRMED).
ConfirmOrder(p) ==
    /\ At(p, "confirm")
    /\ \/ order \in {"PAID", "CONFIRMED"} /\ order' = "CONFIRMED" /\ Goto(p, "toConfirmed")
       \/ order \notin {"PAID", "CONFIRMED"} /\ Return(p) /\ UNCHANGED order
    /\ UNCHANGED <<saga, log, resv, pay, refunded, faults, ahead>>

ToConfirmed(p) ==
    /\ At(p, "toConfirmed")
    /\ \/ Transition("PAID", "CONFIRMED", "OrderConfirmed", saga.resId, saga.payId)
       \/ Conflict("PAID")
    /\ Return(p)
    /\ UNCHANGED <<services, faults, ahead>>

-----------------------------------------------------------------------------
(* handleStockReservationFailure *)

FailRead(p) ==
    /\ At(p, "failRead")
    /\ \/ IsTerminal(saga.state) /\ Return(p)
       \/ ~IsTerminal(saga.state) /\ ReadSaga(p, "failCancel")
    /\ UNCHANGED <<saga, log, services, faults, ahead>>

\* orders.CancelOrder: idempotent, refused from PAID and CONFIRMED.
CancelsTo(s) == IF s \in Cancellable THEN "CANCELLED" ELSE s

\* An error of CancelOrder is logged and ignored here.
FailCancel(p) ==
    /\ At(p, "failCancel")
    /\ order' = CancelsTo(order)
    /\ Goto(p, "toStockFailed")
    /\ UNCHANGED <<saga, log, resv, pay, refunded, faults, ahead>>

\* From whatever state was read to FAILED.
ToStockFailed(p) ==
    /\ At(p, "toStockFailed")
    /\ \/ Transition(proc[p].seen.state, "FAILED", "StockReservationFailed",
                     proc[p].seen.resId, proc[p].seen.payId)
       \/ Conflict(proc[p].seen.state)
    /\ Return(p)
    /\ UNCHANGED <<services, faults, ahead>>

-----------------------------------------------------------------------------
(* Compensate *)

CompRead(p) ==
    /\ At(p, "compRead")
    /\ \/ IsTerminal(saga.state) /\ Return(p)
       \/ saga.state = "COMPENSATING" /\ ReadSaga(p, "compRelease")
       \/ ~IsTerminal(saga.state) /\ saga.state # "COMPENSATING" /\ ReadSaga(p, "toCompensating")
    /\ UNCHANGED <<saga, log, services, faults, ahead>>

ToCompensating(p) ==
    /\ At(p, "toCompensating")
    /\ LET seen == proc[p].seen IN
          \/ /\ Transition(seen.state, "COMPENSATING", "CompensationStarted",
                           seen.resId, seen.payId)
             /\ Goto(p, "compRelease")
          \/ Conflict(seen.state) /\ Return(p)
    /\ UNCHANGED <<services, faults, ahead>>

\* Mutant: an error of ReleaseStock is only logged.
CompReleaseIgnored(p) ==
    /\ At(p, "compRelease")
    /\ IF proc[p].seen.resId THEN ReleaseStock ELSE UNCHANGED resv
    /\ Goto(p, "compRefund")
    /\ UNCHANGED <<saga, log, pay, refunded, order, faults, ahead>>

\* Release if the payload names a reservation; an error ends the attempt.
CompRelease(p) ==
    /\ At(p, "compRelease")
    /\ \/ ~proc[p].seen.resId /\ Goto(p, "compRefund") /\ UNCHANGED resv
       \/ proc[p].seen.resId /\ resv # "COMMITTED" /\ ReleaseStock /\ Goto(p, "compRefund")
       \/ proc[p].seen.resId /\ resv = "COMMITTED" /\ UNCHANGED resv /\ Return(p)
    /\ UNCHANGED <<saga, log, pay, refunded, order, faults, ahead>>

\* Mutant: a payment refunded before counts as success.
CompRefundReplayed(p) ==
    /\ At(p, "compRefund")
    /\ \/ ~proc[p].seen.payId /\ Goto(p, "compCancel") /\ UNCHANGED pay
       \/ proc[p].seen.payId /\ pay = "SUCCESS" /\ pay' = "REFUNDED" /\ Goto(p, "compRecord")
       \/ proc[p].seen.payId /\ pay # "SUCCESS" /\ Goto(p, "compCancel") /\ UNCHANGED pay
    /\ UNCHANGED <<saga, log, resv, refunded, order, faults, ahead>>

\* Refund if the payload names a payment: a compare-and-set of its status,
\* which refuses a payment refunded before, then the refund record.
CompRefund(p) ==
    /\ At(p, "compRefund")
    /\ \/ ~proc[p].seen.payId /\ Goto(p, "compCancel") /\ UNCHANGED pay
       \/ proc[p].seen.payId /\ pay = "SUCCESS" /\ pay' = "REFUNDED" /\ Goto(p, "compRecord")
       \/ proc[p].seen.payId /\ pay # "SUCCESS" /\ Return(p) /\ UNCHANGED pay
    /\ UNCHANGED <<saga, log, resv, refunded, order, faults, ahead>>

CompRecord(p) ==
    /\ At(p, "compRecord")
    /\ refunded' = TRUE
    /\ Goto(p, "compCancel")
    /\ UNCHANGED <<saga, log, resv, pay, order, faults, ahead>>

CompCancel(p) ==
    /\ At(p, "compCancel")
    /\ \/ CancelsTo(order) = "CANCELLED" /\ order' = "CANCELLED" /\ Goto(p, "toFailed")
       \/ CancelsTo(order) # "CANCELLED" /\ Return(p) /\ UNCHANGED order
    /\ UNCHANGED <<saga, log, resv, pay, refunded, faults, ahead>>

ToFailed(p) ==
    /\ At(p, "toFailed")
    /\ \/ Transition("COMPENSATING", "FAILED", "CompensationCompleted", saga.resId, saga.payId)
       \/ Conflict("COMPENSATING")
    /\ Return(p)
    /\ UNCHANGED <<services, faults, ahead>>

-----------------------------------------------------------------------------
(* The watchdog: the state it dispatches on may be stale when it acts. *)

\* Another of the open sagas ends, by whatever brings it to its end.
\* timeout_at is set when a saga is created, so none comes in ahead of ours.
OlderSagaEnds ==
    /\ ahead > 0
    /\ ahead' = ahead - 1
    /\ UNCHANGED <<saga, log, services, proc, faults>>

\* FindTimedOutSagas (ORDER BY timeout_at ASC LIMIT BatchSize) returns ours.
InBatch ==
    /\ saga.state # "NONE"
    /\ ~IsTerminal(saga.state)
    /\ ahead < BatchSize


ProcessExpiredSagas(w) ==
    /\ At(w, "idle")
    /\ InBatch
    /\ Goto(w, IF saga.state \in {"STARTED", "RESERVING_STOCK"} THEN "failRead" ELSE "compRead")
    /\ UNCHANGED <<saga, log, services, faults, ahead>>

-----------------------------------------------------------------------------
(* Faults and the order's other clients *)

\* Where a process goes on when the call it makes at l fails.
OnError(l) ==
    CASE l = "reserve" -> "failRead"
      [] l = "toReserved" -> "undoReserve"
      [] l = "capture" -> "compRead"
      [] l = "failCancel" -> "toStockFailed"
      [] OTHER -> "idle"

Fault == faults < MaxFaults /\ faults' = faults + 1

Crash(p) ==
    /\ Fault
    /\ ~At(p, "idle")
    /\ Return(p)
    /\ UNCHANGED <<saga, log, services, ahead>>

\* The call at p's place fails without effect, and p handles the error.
CallFails(p) ==
    /\ Fault
    /\ OnError(proc[p].pc) # "idle"
    /\ Goto(p, OnError(proc[p].pc))
    /\ UNCHANGED <<saga, log, services, ahead>>

\* The call takes effect but its reply is lost, so p sees an error.  (Where
\* an error ends the attempt this is the call followed by Crash.)
LostReply(p) ==
    /\ Fault
    /\ \/ /\ At(p, "reserve") /\ resv = "NONE" /\ resv' = "PENDING"
          /\ UNCHANGED <<saga, log, pay>>
       \/ /\ At(p, "toReserved")
          /\ Transition("RESERVING_STOCK", "STOCK_RESERVED", "StockReserved",
                        TRUE, proc[p].seen.payId)
          /\ UNCHANGED <<resv, pay>>
       \/ /\ At(p, "capture") /\ pay = "NONE" /\ pay' = "SUCCESS"
          /\ UNCHANGED <<saga, log, resv>>
    /\ Goto(p, OnError(proc[p].pc))
    /\ UNCHANGED <<refunded, order, ahead>>

\* The customer cancels through the order API.
UserCancel ==
    /\ order \in Cancellable
    /\ order' = "CANCELLED"
    /\ UNCHANGED <<saga, log, resv, pay, refunded, proc, faults, ahead>>

\* OrderCommander.UpdateStatus moves the order along its own state machine.
UpdateStatus ==
    /\ OrderAdvances
    /\ OrderNext(order) # order
    /\ order' = OrderNext(order)
    /\ UNCHANGED <<saga, log, resv, pay, refunded, proc, faults, ahead>>

-----------------------------------------------------------------------------
Forward(p) ==
    \/ ToReserving(p) \/ ReserveStock(p) \/ ToReserved(p) \/ UndoReserve(p)
    \/ ToPaying(p) \/ Capture(p) \/ ToPaid(p)
    \/ CommitStock(p) \/ ConfirmOrder(p) \/ ToConfirmed(p)

Backward(p) ==
    \/ FailRead(p) \/ FailCancel(p) \/ ToStockFailed(p)
    \/ CompRead(p) \/ ToCompensating(p) \/ CompRelease(p) \/ CompRefund(p)
    \/ CompRecord(p) \/ CompCancel(p) \/ ToFailed(p)

Next ==
    \/ StartSaga
    \/ \E p \in Executor : ExecuteSaga(p) \/ Forward(p) \/ Backward(p)
    \/ \E w \in Watchdog : ProcessExpiredSagas(w) \/ Backward(w)
    \/ \E p \in Process : Crash(p) \/ CallFails(p) \/ LostReply(p)
    \/ OlderSagaEnds
    \/ UserCancel
    \/ UpdateStatus

Spec == Init /\ [][Next]_vars

\* A call that is running goes on until it returns or crashes, and the
\* watchdog's ticker fires again and again, which reaches the saga when it is
\* in the batch.  Nothing makes a caller run ExecuteSaga, a customer cancel, an
\* older saga end or a fault happen.
Fairness ==
    /\ \A p \in Executor : WF_vars(Forward(p) \/ Backward(p))
    /\ \A w \in Watchdog : WF_vars(ProcessExpiredSagas(w)) /\ WF_vars(Backward(w))

FairSpec == Spec /\ Fairness

-----------------------------------------------------------------------------
(* Properties *)

Steps == {"idle", "toReserving", "reserve", "toReserved", "undoReserve", "toPaying",
          "capture", "toPaid", "commit", "confirm", "toConfirmed",
          "failRead", "failCancel", "toStockFailed",
          "compRead", "toCompensating", "compRelease", "compRefund", "compRecord",
          "compCancel", "toFailed"}

Events == {"SagaInitialized", "StockReservationStarted", "StockReserved",
           "PaymentInitiated", "PaymentCaptured", "OrderConfirmed",
           "StockReservationFailed", "CompensationStarted", "CompensationCompleted"}

SagaRow == [state : SagaState \cup {"NONE"}, resId : BOOLEAN, payId : BOOLEAN]

\* Every variable keeps its type: the statuses are those the tables' CHECK
\* constraints allow.
TypeOK ==
    /\ saga \in SagaRow
    /\ log \in Seq([from : SagaState \cup {"NONE"}, to : SagaState, event : Events])
    /\ resv \in {"NONE", "PENDING", "COMMITTED", "RELEASED"}
    /\ pay \in {"NONE", "SUCCESS", "FAILED", "REFUNDED"}
    /\ refunded \in BOOLEAN
    /\ order \in OrderState
    /\ proc \in [Process -> [pc : Steps, seen : SagaRow]]
    /\ faults \in 0 .. MaxFaults
    /\ ahead \in 0 .. MaxAhead

Logged(event) == \E i \in DOMAIN log : log[i].event = event

\* The rows have their types, and order_saga_logs is the saga's history: a path
\* of legal transitions that ends in the row's state and visits no state twice,
\* whatever executors and watchdogs do at the same time (the compare-and-set of
\* TransitionState and the log entry share a transaction).
LogIsPath ==
    /\ TypeOK
    /\ saga.state = "NONE" <=> log = <<>>
    /\ log # <<>> => log[1].to = "STARTED" /\ log[Len(log)].to = saga.state
    /\ \A i \in 2 .. Len(log) :
          log[i].from = log[i - 1].to /\ CanTransition(log[i].from, log[i].to)
    /\ \A i, j \in DOMAIN log : log[i].to = log[j].to => i = j

\* What the payload names exists: a reservation id only after a reservation
\* was made, a payment id only for a payment that was captured, also when
\* Compensate writes back a payload it read some steps earlier.
PayloadTruthful ==
    /\ saga.resId => resv # "NONE"
    /\ saga.payId => saga.resId /\ pay \in {"SUCCESS", "REFUNDED"}
    /\ Logged("StockReserved") => saga.resId
    /\ Logged("PaymentCaptured") => saga.payId

\* The terminal states mean what they say.  A saga that Compensate brought to
\* FAILED undid everything its payload names: the stock is released, the money
\* refunded with its refund record, the order cancelled, and nobody still at
\* work on the saga undoes that again.  A confirmed saga has its stock committed,
\* its payment kept and its order confirmed, however late a watchdog started to
\* compensate it.
EndIsComplete ==
    /\ Logged("CompensationCompleted") =>
          /\ saga.resId => resv = "RELEASED"
          /\ saga.payId => pay = "REFUNDED" /\ refunded
          /\ order = "CANCELLED"
    /\ saga.state = "CONFIRMED" =>
          resv = "COMMITTED" /\ pay = "SUCCESS" /\ order = "CONFIRMED"

\* Stock leaves the shelf only for money that was captured and is not given
\* back afterwards: CommitStock and the release that comes before every
\* refund exclude each other.
StockLeavesOnlyPaid == resv = "COMMITTED" => pay = "SUCCESS"

\* Compensate cannot end this saga any more: its stock was committed, which
\* ReleaseStock refuses; its order is PAID or CONFIRMED, which CancelOrder
\* refuses; or a fault cut its refund short, which Refund then refuses.
Stuck ==
    /\ saga.state = "COMPENSATING"
    /\ \/ resv = "COMMITTED"
       \/ order \in {"PAID", "CONFIRMED"}
       \/ pay = "REFUNDED" /\ faults > 0


-----------------------------------------------------------------------------
(* A property the repository states and the code does not have, of a state *)
(* in which no process is at work on the saga any more.                    *)

Quiet == \A p \in Process : At(p, "idle")

\* A saga that failed keeps no money (PROJECT.md, FEAT-SGA-03: a failed or
\* timed out payment is compensated).
NoMoneyKept == saga.state = "FAILED" /\ Quiet => pay # "SUCCESS"
=============================================================================
