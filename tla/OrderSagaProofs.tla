--------------------------- MODULE OrderSagaProofs ---------------------------
(***************************************************************************)
(* The safety of the order saga, for any number of executors, watchdogs    *)
(* and faults.                                                             *)
(***************************************************************************)
EXTENDS OrderSaga, TLAPS

(* The inductive invariant *)

\* How far a saga has come.  Every legal transition goes up, so that a state is
\* never entered twice and a compare-and-set that succeeds found the very row the
\* process read.
Rank(s) ==
    CASE s = "NONE" -> 0
      [] s = "STARTED" -> 1
      [] s = "RESERVING_STOCK" -> 2
      [] s = "STOCK_RESERVED" -> 3
      [] s = "PAYING" -> 4
      [] s = "PAID" -> 5
      [] s = "CONFIRMED" -> 6
      [] s = "COMPENSATING" -> 6
      [] s = "FAILED" -> 7

\* The log's states lie below the row's.
LogBelow == \A i \in DOMAIN log : Rank(log[i].to) <= Rank(saga.state)

\* What process p read is a past of the row: an earlier state with at most the ids
\* of today, or the row itself.
SeenIsPast(p) ==
    LET seen == proc[p].seen IN
    /\ Rank(seen.state) <= Rank(saga.state)
    /\ seen.state = saga.state => seen = saga
    /\ seen.resId => saga.resId
    /\ seen.payId => saga.payId

\* Which ids the payload has in which state.
PayloadOfState ==
    /\ saga.state \in {"STOCK_RESERVED", "PAYING", "PAID", "CONFIRMED"} => saga.resId
    /\ saga.payId => saga.state \in {"PAID", "CONFIRMED", "COMPENSATING", "FAILED"}
    /\ saga.state = "NONE" => ~saga.resId
    /\ Logged("CompensationCompleted") => saga.state = "FAILED"

\* What an executor that runs forward knows of the services.
ForwardKnows(p) ==
    /\ At(p, "toReserved") => resv # "NONE"
    /\ proc[p].pc \in {"toPaid", "commit"} => pay \in {"SUCCESS", "REFUNDED"}
    /\ proc[p].pc \in {"confirm", "toConfirmed"} => resv = "COMMITTED"
    /\ At(p, "toConfirmed") => order = "CONFIRMED"

\* What a process that compensates knows: the payload it read is the row's, and
\* what it undid stays undone.
BackwardKnows(p) ==
    LET seen == proc[p].seen IN
    /\ proc[p].pc \in {"compRelease", "compRefund", "compRecord", "compCancel", "toFailed"} =>
          /\ saga.state \in {"COMPENSATING", "FAILED"}
          /\ seen.resId = saga.resId /\ seen.payId = saga.payId
    /\ proc[p].pc \in {"compRefund", "compRecord", "compCancel", "toFailed"} /\ seen.resId =>
          resv = "RELEASED"
    /\ At(p, "compRecord") => pay = "REFUNDED"
    /\ proc[p].pc \in {"compCancel", "toFailed"} /\ seen.payId => pay = "REFUNDED" /\ refunded
    /\ At(p, "toFailed") => order = "CANCELLED"

\* A refund comes after a release.
RefundAfterRelease == pay = "REFUNDED" => resv = "RELEASED"

ProcInv == \A p \in Process : SeenIsPast(p) /\ ForwardKnows(p) /\ BackwardKnows(p)

IInv ==
    /\ LogIsPath /\ LogBelow
    /\ PayloadTruthful /\ PayloadOfState
    /\ EndIsComplete /\ StockLeavesOnlyPaid /\ RefundAfterRelease
    /\ ProcInv

-----------------------------------------------------------------------------
(* What a step may do.  Every action is shown to keep within these three      *)
(* formulas; that they keep the invariant is shown once for all actions.      *)

\* The services never go back: a reservation made stays made, committed or
\* released it stays so, a refund and a cancellation are final.
ServicesStep ==
    /\ resv' \in {"NONE", "PENDING", "COMMITTED", "RELEASED"}
    /\ pay' \in {"NONE", "SUCCESS", "FAILED", "REFUNDED"}
    /\ refunded' \in BOOLEAN
    /\ order' \in OrderState
    /\ faults' \in 0 .. MaxFaults /\ ahead' \in 0 .. MaxAhead
    /\ resv # "NONE" => resv' # "NONE"
    /\ resv \in {"COMMITTED", "RELEASED"} => resv' = resv
    /\ pay \in {"SUCCESS", "REFUNDED"} => pay' \in {"SUCCESS", "REFUNDED"}
    /\ pay = "REFUNDED" => pay' = "REFUNDED"
    /\ refunded => refunded'
    /\ order \in {"CANCELLED", "CONFIRMED"} => order' = order
    /\ StockLeavesOnlyPaid' /\ RefundAfterRelease'

\* A write of the row keeps the ids it has, adds one only when the service has
\* what the id names, and enters a terminal state only when its promise is kept.
Honest(to, event, resId, payId) ==
    /\ saga.resId => resId
    /\ saga.payId => payId
    /\ resId => saga.resId \/ (to = "STOCK_RESERVED" /\ resv # "NONE")
    /\ payId => saga.payId \/ (to = "PAID" /\ pay \in {"SUCCESS", "REFUNDED"})
    /\ to = "STOCK_RESERVED" \/ event = "StockReserved" => resId
    /\ event = "PaymentCaptured" => payId
    /\ event = "CompensationCompleted" =>
          /\ to = "FAILED" /\ order = "CANCELLED"
          /\ resId => resv = "RELEASED"
          /\ payId => pay = "REFUNDED" /\ refunded
    /\ to = "CONFIRMED" => resv = "COMMITTED" /\ order = "CONFIRMED"

RowStep ==
    \/ UNCHANGED <<saga, log>>
    \/ StartSaga
    \/ \E to \in SagaState, event \in Events, resId, payId \in BOOLEAN :
          /\ Transition(saga.state, to, event, resId, payId)
          /\ Honest(to, event, resId, payId)
          /\ UNCHANGED services

-----------------------------------------------------------------------------
(* The row and its log *)

\* The ranks, one by one.
LEMMA RankValues ==
    /\ Rank("NONE") = 0 /\ Rank("STARTED") = 1 /\ Rank("RESERVING_STOCK") = 2
    /\ Rank("STOCK_RESERVED") = 3 /\ Rank("PAYING") = 4 /\ Rank("PAID") = 5
    /\ Rank("CONFIRMED") = 6 /\ Rank("COMPENSATING") = 6 /\ Rank("FAILED") = 7
BY DEF Rank

\* A rank is a number, and only a row that is not there has rank 0.
LEMMA RankNat ==
    ASSUME NEW s \in SagaState \cup {"NONE"}
    PROVE  Rank(s) \in 0..7 /\ (Rank(s) = 0 <=> s = "NONE")
BY RankValues DEF SagaState, Terminal

\* Legal transitions go up, and lead neither out of a terminal state nor back to
\* the start.
LEMMA TransitionUp ==
    ASSUME NEW from, NEW to, CanTransition(from, to)
    PROVE  /\ from \in SagaState \ Terminal /\ to \in SagaState \ {"STARTED"}
           /\ Rank(from) < Rank(to)
           /\ from = "COMPENSATING" => to = "FAILED"
           /\ from = "PAID" => to \in {"CONFIRMED", "COMPENSATING", "FAILED"}
           /\ to \in {"PAYING", "PAID", "CONFIRMED"} =>
                 from \in {"STOCK_RESERVED", "PAYING", "PAID"}
<1>1. CASE to = "COMPENSATING"
  BY <1>1, RankValues DEF CanTransition, SagaState, Terminal
<1>2. CASE to = "FAILED"
  BY <1>2, RankValues DEF CanTransition, SagaState, Terminal
<1>3. CASE to \notin {"COMPENSATING", "FAILED"}
  BY <1>3, RankValues DEF CanTransition, SagaState, Terminal
<1> QED BY <1>1, <1>2, <1>3

\* What appending an entry does to the log.
LEMMA LogGrows ==
    ASSUME TypeOK, NEW e, log' = Append(log, e)
    PROVE  /\ Len(log) \in Nat /\ Len(log') = Len(log) + 1
           /\ DOMAIN log = 1 .. Len(log) /\ DOMAIN log' = 1 .. Len(log) + 1
           /\ log'[Len(log) + 1] = e
           /\ \A i \in 1 .. Len(log) : log'[i] = log[i]
           /\ \A i \in 1 .. Len(log) : log[i].to \in SagaState
<1> DEFINE T == [from : SagaState \cup {"NONE"}, to : SagaState, event : Events]
<1>1. log \in Seq(T)
  BY DEF TypeOK
<1>2. \A x \in T : x.to \in SagaState
  OBVIOUS
<1> HIDE DEF T
<1> QED BY <1>1, <1>2

\* Steps of the row keep its log a path of legal transitions.
LEMMA RowKeepsLog ==
    ASSUME IInv, RowStep, TypeOK' PROVE LogIsPath' /\ LogBelow'
<1>1. CASE UNCHANGED <<saga, log>>
  BY <1>1 DEF IInv, LogIsPath, LogBelow
<1>2. CASE StartSaga
  BY <1>2 DEF StartSaga, LogIsPath, LogBelow, LogEntry, Rank
<1>3. ASSUME NEW to \in SagaState, NEW event \in Events,
             NEW resId \in BOOLEAN, NEW payId \in BOOLEAN,
             Transition(saga.state, to, event, resId, payId)
      PROVE  LogIsPath' /\ LogBelow'
  <2>1. /\ CanTransition(saga.state, to)
        /\ saga'.state = to
        /\ log' = Append(log, LogEntry(saga.state, to, event))
    BY <1>3 DEF Transition
  <2>2. TypeOK /\ LogIsPath /\ LogBelow
    BY DEF IInv, LogIsPath
  <2> DEFINE n == Len(log)
  <2>3. /\ n \in Nat /\ Len(log') = n + 1
        /\ DOMAIN log = 1 .. n /\ DOMAIN log' = 1 .. n + 1
        /\ log'[n + 1].from = saga.state /\ log'[n + 1].to = to
        /\ \A i \in 1 .. n : log'[i] = log[i] /\ log[i].to \in SagaState
    BY <2>1, <2>2, LogGrows DEF LogEntry
  <2>4. /\ saga.state # "NONE" /\ to \in SagaState \ {"STARTED", "NONE"}
        /\ Rank(saga.state) \in Nat /\ Rank(to) \in Nat /\ Rank(saga.state) < Rank(to)
    BY <2>1, TransitionUp, RankNat DEF SagaState, Terminal
  <2>5. n # 0 /\ log[1].to = "STARTED" /\ log[n].to = saga.state
    BY <2>2, <2>3, <2>4 DEF LogIsPath, TypeOK
  <2>6. \A i \in 1 .. n : Rank(log'[i].to) \in Nat /\ Rank(log'[i].to) <= Rank(saga.state)
    BY <2>2, <2>3, RankNat DEF LogBelow
  <2>7. LogBelow'
    BY <2>1, <2>3, <2>4, <2>6 DEF LogBelow
  <2>8. \A i \in 2 .. Len(log') :
            log'[i].from = log'[i - 1].to /\ CanTransition(log'[i].from, log'[i].to)
    <3> SUFFICES ASSUME NEW i \in 2 .. n + 1
                 PROVE  log'[i].from = log'[i - 1].to /\ CanTransition(log'[i].from, log'[i].to)
      BY <2>3
    <3>1. CASE i = n + 1
      BY <2>1, <2>3, <2>5, <3>1, n \in 1 .. n
    <3>2. CASE i \in 2 .. n
      BY <2>2, <2>3, <3>2 DEF LogIsPath
    <3> QED BY <2>3, <3>1, <3>2
  <2>9. \A i, j \in DOMAIN log' : log'[i].to = log'[j].to => i = j
    <3>1. \A i \in 1 .. n : log'[i].to # log'[n + 1].to
      BY <2>3, <2>4, <2>6
    <3>2. \A i, j \in 1 .. n : log'[i].to = log'[j].to => i = j
      BY <2>2, <2>3 DEF LogIsPath
    <3>3. \A i \in 1 .. n + 1 : i \in 1 .. n \/ i = n + 1
      BY <2>3
    <3> QED BY <2>3, <3>1, <3>2, <3>3
  <2>10. /\ saga'.state # "NONE" /\ log' # <<>>
         /\ log'[1].to = "STARTED" /\ log'[Len(log')].to = saga'.state
    BY <2>1, <2>3, <2>4, <2>5
  <2> QED BY <2>7, <2>8, <2>9, <2>10 DEF LogIsPath
<1> QED BY <1>1, <1>2, <1>3 DEF RowStep

\* Appending an entry adds its event to the events logged.
LEMMA LoggedGrows ==
    ASSUME TypeOK, NEW from, NEW to, NEW event, NEW ev,
           log' = Append(log, LogEntry(from, to, event))
    PROVE  Logged(ev)' <=> Logged(ev) \/ event = ev
<1>1. LogEntry(from, to, event).event = event
  BY DEF LogEntry
<1>2. \A i \in 1 .. Len(log) + 1 : i \in 1 .. Len(log) \/ i = Len(log) + 1
  BY LogGrows
<1>3. 1 .. Len(log) \subseteq 1 .. Len(log) + 1 /\ Len(log) + 1 \in 1 .. Len(log) + 1
  BY LogGrows
<1> QED BY <1>1, <1>2, <1>3, LogGrows DEF Logged

\* What a step of the row does to it.
Up ==
    /\ saga' \in SagaRow
    /\ log' \in Seq([from : SagaState \cup {"NONE"}, to : SagaState, event : Events])
    /\ Rank(saga.state) <= Rank(saga'.state)
    /\ saga' # saga => Rank(saga.state) < Rank(saga'.state)
    /\ saga.resId => saga'.resId
    /\ saga.payId => saga'.payId
    /\ saga.state \in {"COMPENSATING", "FAILED"} =>
          /\ saga'.state \in {"COMPENSATING", "FAILED"}
          /\ saga'.resId = saga.resId /\ saga'.payId = saga.payId

\* The row only goes up: a step that leaves its state leaves it as it is, no id is
\* lost, and a compensation keeps both ids and is never undone.
LEMMA RowUp == ASSUME IInv, RowStep PROVE Up
<1>0. TypeOK /\ Rank(saga.state) \in Nat
  BY RankNat DEF IInv, LogIsPath, TypeOK, SagaRow
<1>1. CASE UNCHANGED <<saga, log>>
  BY <1>0, <1>1 DEF TypeOK, Up
<1>2. CASE StartSaga
  <2>1. /\ saga.state = "NONE" /\ saga'.state = "STARTED" /\ saga' \in SagaRow
        /\ log' = <<LogEntry("NONE", "STARTED", "SagaInitialized")>>
    BY <1>2 DEF StartSaga, SagaRow, SagaState
  <2>2. LogEntry("NONE", "STARTED", "SagaInitialized")
            \in [from : SagaState \cup {"NONE"}, to : SagaState, event : Events]
    BY DEF LogEntry, SagaState, Events
  <2>3. ~saga.resId /\ ~saga.payId
    BY <2>1 DEF IInv, PayloadOfState, PayloadTruthful
  <2>4. Rank(saga.state) < Rank(saga'.state)
    BY <2>1, RankValues
  <2>5. log' \in Seq([from : SagaState \cup {"NONE"}, to : SagaState, event : Events])
    BY <2>1, <2>2
  <2>6. Rank(saga.state) <= Rank(saga'.state)
    BY <2>1, RankValues
  <2> QED BY <2>1, <2>3, <2>4, <2>5, <2>6 DEF Up
<1>3. ASSUME NEW to \in SagaState, NEW event \in Events,
             NEW resId \in BOOLEAN, NEW payId \in BOOLEAN,
             Transition(saga.state, to, event, resId, payId), Honest(to, event, resId, payId)
      PROVE  Up
  <2>1. /\ CanTransition(saga.state, to)
        /\ saga' = [state |-> to, resId |-> resId, payId |-> payId]
        /\ log' = Append(log, LogEntry(saga.state, to, event))
    BY <1>3 DEF Transition
  <2>2. saga' \in SagaRow
    BY <2>1 DEF SagaRow
  <2>3. log' \in Seq([from : SagaState \cup {"NONE"}, to : SagaState, event : Events])
    BY <1>0, <2>1, TransitionUp DEF LogEntry, TypeOK
  <2>4. Rank(saga.state) < Rank(saga'.state)
    BY <2>1, TransitionUp
  <2>5. (saga.resId => saga'.resId) /\ (saga.payId => saga'.payId)
    BY <1>3, <2>1 DEF Honest
  <2>6. saga.state \in {"COMPENSATING", "FAILED"} =>
            /\ saga'.state \in {"COMPENSATING", "FAILED"}
            /\ saga'.resId = saga.resId /\ saga'.payId = saga.payId
    <3> SUFFICES ASSUME saga.state \in {"COMPENSATING", "FAILED"}
                 PROVE  /\ saga'.state \in {"COMPENSATING", "FAILED"}
                        /\ saga'.resId = saga.resId /\ saga'.payId = saga.payId
      OBVIOUS
    <3>1. to = "FAILED"
      BY <2>1, TransitionUp DEF Terminal
    <3>2. saga.resId \in BOOLEAN /\ saga.payId \in BOOLEAN
      BY <1>0 DEF TypeOK, SagaRow
    <3>3. (resId <=> saga.resId) /\ (payId <=> saga.payId)
      BY <1>3, <3>1 DEF Honest
    <3>4. resId = saga.resId /\ payId = saga.payId
      BY <3>2, <3>3, Zenon
    <3>5. saga'.state = to /\ saga'.resId = resId /\ saga'.payId = payId
      BY <2>1
    <3> QED BY <3>1, <3>4, <3>5, Zenon
  <2>7. Rank(saga.state) <= Rank(saga'.state)
    BY <1>0, <2>2, <2>4, RankNat DEF SagaRow
  <2> QED BY <2>2, <2>3, <2>4, <2>5, <2>6, <2>7 DEF Up
<1> QED BY <1>1, <1>2, <1>3 DEF RowStep

\* The payload names what exists and the terminal states keep their promises, as
\* long as the services do not go back.
LEMMA RowKeepsPayload ==
    ASSUME IInv, RowStep, ServicesStep
    PROVE  PayloadTruthful' /\ PayloadOfState' /\ EndIsComplete'
<1>0. /\ PayloadTruthful /\ PayloadOfState /\ EndIsComplete /\ StockLeavesOnlyPaid
      /\ TypeOK /\ saga.resId \in BOOLEAN /\ saga.payId \in BOOLEAN
  BY DEF IInv, LogIsPath, TypeOK, SagaRow
<1>1. CASE UNCHANGED <<saga, log>>
  BY <1>0, <1>1 DEF ServicesStep, StockLeavesOnlyPaid, RefundAfterRelease, PayloadTruthful,
       PayloadOfState, EndIsComplete, Logged
<1>2. CASE StartSaga
  <2>1. \A ev : Logged(ev)' <=> ev = "SagaInitialized"
    BY <1>2 DEF StartSaga, Logged, LogEntry
  <2> QED BY <1>2, <2>1 DEF StartSaga, PayloadTruthful, PayloadOfState, EndIsComplete
<1>3. ASSUME NEW to \in SagaState, NEW event \in Events,
             NEW resId \in BOOLEAN, NEW payId \in BOOLEAN,
             Transition(saga.state, to, event, resId, payId),
             Honest(to, event, resId, payId), UNCHANGED services
      PROVE  PayloadTruthful' /\ PayloadOfState' /\ EndIsComplete'
  <2>1. /\ CanTransition(saga.state, to)
        /\ saga'.state = to /\ saga'.resId = resId /\ saga'.payId = payId
        /\ log' = Append(log, LogEntry(saga.state, to, event))
    BY <1>3 DEF Transition
  <2>2. \A ev : Logged(ev)' <=> Logged(ev) \/ event = ev
    BY <1>0, <2>1, LoggedGrows
  <2>3. resv' = resv /\ pay' = pay /\ refunded' = refunded /\ order' = order
    BY <1>3 DEF services
  <2>4. PayloadTruthful'
    BY <1>0, <1>3, <2>1, <2>2, <2>3, TransitionUp
       DEF Honest, PayloadTruthful, PayloadOfState
  <2>5. PayloadOfState'
    BY <1>0, <1>3, <2>1, <2>2, TransitionUp
       DEF Honest, PayloadOfState, SagaState, Terminal
  <2>6. EndIsComplete'
    BY <1>0, <1>3, <2>1, <2>2, <2>3, TransitionUp
       DEF Honest, PayloadOfState, EndIsComplete, StockLeavesOnlyPaid, Terminal
  <2> QED BY <2>4, <2>5, <2>6
<1> QED BY <1>1, <1>2, <1>3 DEF RowStep

\* What a process knows stays true while others work.
LEMMA OthersKeep ==
    ASSUME IInv, RowStep, ServicesStep, NEW q \in Process, proc'[q] = proc[q]
    PROVE  SeenIsPast(q)' /\ ForwardKnows(q)' /\ BackwardKnows(q)'
<1>1. /\ saga \in SagaRow /\ proc[q].seen \in SagaRow
      /\ SeenIsPast(q) /\ ForwardKnows(q) /\ BackwardKnows(q)
  BY DEF IInv, LogIsPath, TypeOK, ProcInv
<1>2. Up
  BY RowUp
<1>3. SeenIsPast(q)'
  BY <1>1, <1>2, RankNat DEF Up, SeenIsPast, SagaRow
<1>4. ForwardKnows(q)'
  BY <1>1 DEF ServicesStep, ForwardKnows, At
<1>5. BackwardKnows(q)'
  BY <1>1, <1>2 DEF Up, ServicesStep, BackwardKnows, At
<1> QED BY <1>3, <1>4, <1>5

-----------------------------------------------------------------------------
(* The processes *)

\* Process p is at l with sn as the saga it read, and the others are where they were.
MovedTo(p, l, sn) ==
    /\ proc' \in [Process -> [pc : Steps, seen : SagaRow]]
    /\ proc'[p].pc = l /\ proc'[p].seen = sn
    /\ \A q \in Process \ {p} : proc'[q] = proc[q]

\* What the three ways to go on do.
LEMMA GotoMoves ==
    ASSUME TypeOK, NEW p \in Process, NEW l \in Steps, Goto(p, l)
    PROVE  MovedTo(p, l, proc[p].seen)
<1>1. proc[p].seen \in SagaRow
  BY DEF TypeOK
<1> QED BY <1>1 DEF TypeOK, Goto, MovedTo

\* A handler that returns leaves its process idle.
LEMMA ReturnMoves ==
    ASSUME TypeOK, NEW p \in Process, Return(p)
    PROVE  MovedTo(p, "idle", NoSaga)
<1>1. NoSaga \in SagaRow /\ "idle" \in Steps
  BY DEF NoSaga, SagaRow, Steps
<1> QED BY <1>1 DEF TypeOK, Return, MovedTo

\* A handler that reads the saga row works on a copy of it.
LEMMA ReadMoves ==
    ASSUME TypeOK, NEW p \in Process, NEW l \in Steps, ReadSaga(p, l)
    PROVE  MovedTo(p, l, saga)
BY DEF TypeOK, ReadSaga, MovedTo

\* A step within the bounds keeps the invariant when the process that takes it knows
\* what its new place asks for.
LEMMA StepKeeps ==
    ASSUME IInv, RowStep, ServicesStep, NEW p \in Process,
           NEW l, NEW sn, MovedTo(p, l, sn),
           SeenIsPast(p)', ForwardKnows(p)', BackwardKnows(p)'
    PROVE  IInv'
<1>1. TypeOK'
  BY RowUp DEF Up, ServicesStep, MovedTo, TypeOK
<1>2. ProcInv'
  BY OthersKeep DEF MovedTo, ProcInv
<1> QED BY <1>1, <1>2, RowKeepsLog, RowKeepsPayload DEF IInv, ServicesStep

\* A process that goes on with the saga it read before knows as much about it.
LEMMA SeenStaysPast ==
    ASSUME IInv, RowStep, NEW p \in Process, proc'[p].seen = proc[p].seen
    PROVE  SeenIsPast(p)'
<1>1. TypeOK /\ SeenIsPast(p) /\ Up
  BY RowUp DEF IInv, LogIsPath, ProcInv
<1>2. proc[p].seen \in SagaRow /\ saga \in SagaRow /\ saga' \in SagaRow
  BY <1>1 DEF Up, TypeOK
<1>3. \A x \in SagaRow : Rank(x.state) \in Nat
  BY RankNat DEF SagaRow
<1> QED BY <1>1, <1>2, <1>3 DEF Up, SeenIsPast

\* A process that returns has nothing to know.
LEMMA ReturnKeeps ==
    ASSUME IInv, RowStep, ServicesStep, NEW p \in Process, Return(p)
    PROVE  IInv'
<1>1. TypeOK /\ MovedTo(p, "idle", NoSaga)
  BY ReturnMoves DEF IInv, LogIsPath
<1>2. PayloadTruthful' /\ PayloadOfState' /\ saga' \in SagaRow
  BY RowKeepsPayload, RowUp DEF Up
<1>3. saga'.state = "NONE" => saga' = NoSaga
  BY <1>2 DEF PayloadTruthful, PayloadOfState, SagaRow, NoSaga
<1>4. SeenIsPast(p)'
  BY <1>1, <1>2, <1>3, RankNat, RankValues DEF MovedTo, SeenIsPast, SagaRow, NoSaga
<1>5. ForwardKnows(p)' /\ BackwardKnows(p)'
  BY <1>1 DEF MovedTo, ForwardKnows, BackwardKnows, At
<1> QED BY <1>1, <1>4, <1>5, StepKeeps

\* A process that goes on at l.
LEMMA GotoKeeps ==
    ASSUME IInv, RowStep, ServicesStep, NEW p \in Process, NEW l \in Steps, Goto(p, l),
           MovedTo(p, l, proc[p].seen) => ForwardKnows(p)' /\ BackwardKnows(p)'
    PROVE  IInv'
<1>1. TypeOK /\ MovedTo(p, l, proc[p].seen)
  BY GotoMoves DEF IInv, LogIsPath
<1>2. SeenIsPast(p)'
  BY <1>1, SeenStaysPast DEF MovedTo
<1> QED BY <1>1, <1>2, StepKeeps

\* A process that goes on at l with the row it just read.
LEMMA ReadKeeps ==
    ASSUME IInv, UNCHANGED <<saga, log>>, ServicesStep, NEW p \in Process, NEW l \in Steps,
           ReadSaga(p, l),
           MovedTo(p, l, saga) => ForwardKnows(p)' /\ BackwardKnows(p)'
    PROVE  IInv'
<1>1. TypeOK /\ MovedTo(p, l, saga) /\ RowStep
  BY ReadMoves DEF IInv, LogIsPath, RowStep
<1>2. SeenIsPast(p)'
  <2>1. saga \in SagaRow
    BY <1>1 DEF TypeOK
  <2> QED BY <1>1, <2>1, RankNat DEF MovedTo, SeenIsPast, SagaRow
<1> QED BY <1>1, <1>2, StepKeeps

-----------------------------------------------------------------------------
(* The actions *)

\* An honest transition is a step of the row.
LEMMA TransitionRow ==
    ASSUME NEW from, NEW to \in SagaState, NEW event \in Events,
           NEW resId \in BOOLEAN, NEW payId \in BOOLEAN,
           Transition(from, to, event, resId, payId), Honest(to, event, resId, payId),
           UNCHANGED services
    PROVE  RowStep
<1>1. from = saga.state
  BY DEF Transition
<1> QED BY <1>1 DEF RowStep

\* A step that leaves the services alone.
LEMMA SameServices ==
    ASSUME IInv, UNCHANGED services, faults' \in 0 .. MaxFaults, ahead' \in 0 .. MaxAhead
    PROVE  ServicesStep
BY
   DEF IInv, LogIsPath, TypeOK, services, ServicesStep, StockLeavesOnlyPaid,
       RefundAfterRelease

\* What the invariant says of the process that takes the step.
LEMMA Facts ==
    ASSUME IInv, NEW p \in Process
    PROVE  /\ TypeOK /\ faults \in 0 .. MaxFaults /\ ahead \in 0 .. MaxAhead
           /\ saga.resId \in BOOLEAN /\ saga.payId \in BOOLEAN
           /\ saga.state \in SagaState \cup {"NONE"}
           /\ proc[p].seen.resId \in BOOLEAN /\ proc[p].seen.payId \in BOOLEAN
           /\ PayloadTruthful /\ PayloadOfState /\ StockLeavesOnlyPaid /\ RefundAfterRelease
           /\ SeenIsPast(p) /\ ForwardKnows(p) /\ BackwardKnows(p)
<1>1. TypeOK /\ proc[p].seen \in SagaRow
  BY DEF IInv, LogIsPath, TypeOK
<1> QED BY <1>1 DEF IInv, ProcInv, TypeOK, SagaRow

\* A step in which no process moves.
LEMMA QuietKeeps ==
    ASSUME IInv, RowStep, ServicesStep, UNCHANGED proc PROVE IInv'
<1>1. TypeOK'
  BY RowUp DEF Up, ServicesStep, IInv, LogIsPath, TypeOK
<1>2. ProcInv'
  BY OthersKeep DEF ProcInv
<1>3. LogIsPath' /\ LogBelow'
  BY <1>1, RowKeepsLog
<1> QED BY <1>2, <1>3, RowKeepsPayload DEF IInv, ServicesStep

\* The start of a saga, the end of an older one, and the customer's and the
\* administrator's steps.
LEMMA EnvironmentKeeps ==
    ASSUME IInv, StartSaga \/ OlderSagaEnds \/ UserCancel \/ UpdateStatus PROVE IInv'
<1>1. RowStep /\ ServicesStep /\ UNCHANGED proc
  <2>1. TypeOK /\ StockLeavesOnlyPaid /\ RefundAfterRelease
    BY DEF IInv, LogIsPath
  <2>2. CASE StartSaga
    BY <2>1, <2>2, SameServices DEF StartSaga, RowStep, TypeOK
  <2>3. CASE UserCancel
    BY <2>1, <2>3 DEF UserCancel, RowStep, ServicesStep, TypeOK, StockLeavesOnlyPaid,
         RefundAfterRelease, OrderState, Cancellable
  <2>4. CASE UpdateStatus
    <3>1. OrderNext(order) \in OrderState /\ order \notin {"CANCELLED", "CONFIRMED"}
      BY <2>1, <2>4 DEF UpdateStatus, OrderNext, TypeOK, OrderState, Cancellable
    <3> QED BY <2>1, <2>4, <3>1 DEF UpdateStatus, RowStep, ServicesStep, TypeOK,
              StockLeavesOnlyPaid, RefundAfterRelease
  <2>5. CASE OlderSagaEnds
    <3>1. ahead' \in 0 .. MaxAhead
      BY <2>1, <2>5, SagaAssumption DEF OlderSagaEnds, TypeOK
    <3> QED BY <2>1, <2>5, <3>1, SameServices DEF OlderSagaEnds, RowStep, TypeOK
  <2> QED BY <2>2, <2>3, <2>4, <2>5
<1> QED BY <1>1, QuietKeeps

\* An executor's way forward: each compare-and-set either moves the row, or finds
\* it moved and gives up.
LEMMA ReservingKeeps ==
    ASSUME IInv, NEW p \in Process, ExecuteSaga(p) \/ ToReserving(p) \/ ReserveStock(p)
    PROVE  IInv'
<1> USE Facts
<1>1. CASE ExecuteSaga(p)
  BY <1>1, SameServices, ReadKeeps
     DEF ExecuteSaga, Steps, ForwardKnows, BackwardKnows, MovedTo, At
<1>2. CASE ToReserving(p)
  <2>1. ServicesStep
    BY <1>2, SameServices DEF ToReserving
  <2>2. CASE Transition("STARTED", "RESERVING_STOCK", "StockReservationStarted",
                        saga.resId, saga.payId) /\ Goto(p, "reserve")
    <3>1. Honest("RESERVING_STOCK", "StockReservationStarted", saga.resId, saga.payId)
      BY DEF Honest
    <3>2. RowStep
      BY <1>2, <2>2, <3>1, TransitionRow DEF ToReserving, SagaState, Events
    <3> QED BY <2>1, <2>2, <3>2, GotoKeeps
               DEF Steps, ForwardKnows, BackwardKnows, MovedTo, At
  <2>3. CASE Conflict("STARTED") /\ Return(p)
    BY <2>1, <2>3, ReturnKeeps DEF Conflict, RowStep
  <2> QED BY <1>2, <2>2, <2>3 DEF ToReserving
<1>3. CASE ReserveStock(p)
  <2>1. ServicesStep
    BY <1>3 DEF ReserveStock, ServicesStep, TypeOK, StockLeavesOnlyPaid, RefundAfterRelease
  <2>2. CASE resv' = "PENDING" /\ ReadSaga(p, "toReserved")
    BY <1>3, <2>1, <2>2, ReadKeeps
       DEF ReserveStock, Steps, ForwardKnows, BackwardKnows, MovedTo, At
  <2>3. CASE ReadSaga(p, "failRead")
    BY <1>3, <2>1, <2>3, ReadKeeps
       DEF ReserveStock, Steps, ForwardKnows, BackwardKnows, MovedTo, At
  <2> QED BY <1>3, <2>2, <2>3 DEF ReserveStock
<1> QED BY <1>1, <1>2, <1>3

\* The stock is reserved: its id goes into the payload, or it is released.
LEMMA ReservedKeeps ==
    ASSUME IInv, NEW p \in Process, ToReserved(p) \/ UndoReserve(p) \/ ToPaying(p)
    PROVE  IInv'
<1> USE Facts
<1>1. CASE ToReserved(p)
  <2>1. ServicesStep
    BY <1>1, SameServices DEF ToReserved
  <2>2. CASE /\ Transition("RESERVING_STOCK", "STOCK_RESERVED", "StockReserved",
                           TRUE, proc[p].seen.payId)
             /\ Goto(p, "toPaying")
    <3>1. Honest("STOCK_RESERVED", "StockReserved", TRUE, proc[p].seen.payId)
      BY <1>1, <2>2
         DEF ToReserved, Transition, Honest, PayloadOfState, SeenIsPast, ForwardKnows, At
    <3>2. RowStep
      BY <1>1, <2>2, <3>1, TransitionRow DEF ToReserved, SagaState, Terminal, Events
    <3> QED BY <1>1, <2>1, <2>2, <3>2, GotoKeeps
       DEF ToReserved, Transition, services, Steps, ForwardKnows, BackwardKnows, MovedTo, At
  <2>3. CASE Conflict("RESERVING_STOCK") /\ Goto(p, "undoReserve")
    BY <2>1, <2>3, GotoKeeps
       DEF Conflict, RowStep, Steps, ForwardKnows, BackwardKnows, MovedTo, At
  <2> QED BY <1>1, <2>2, <2>3 DEF ToReserved
<1>2. CASE UndoReserve(p)
  <2>1. ServicesStep
    BY <1>2
       DEF UndoReserve, ReleaseStock, ServicesStep, TypeOK, StockLeavesOnlyPaid,
           RefundAfterRelease
  <2> QED BY <1>2, <2>1, ReturnKeeps DEF UndoReserve, RowStep
<1>3. CASE ToPaying(p)
  <2>1. ServicesStep
    BY <1>3, SameServices DEF ToPaying
  <2>2. CASE /\ Transition("STOCK_RESERVED", "PAYING", "PaymentInitiated", saga.resId, saga.payId)
             /\ Goto(p, "capture")
    <3>1. Honest("PAYING", "PaymentInitiated", saga.resId, saga.payId)
      BY <1>3, <2>2 DEF ToPaying, Transition, Honest
    <3>2. RowStep
      BY <1>3, <2>2, <3>1, TransitionRow DEF ToPaying, SagaState, Terminal, Events
    <3> QED BY <1>3, <2>1, <2>2, <3>2, GotoKeeps
       DEF ToPaying, Transition, services, Steps, ForwardKnows, BackwardKnows, MovedTo, At
  <2>3. CASE Conflict("STOCK_RESERVED") /\ Return(p)
    BY <2>1, <2>3, ReturnKeeps DEF Conflict, RowStep
  <2> QED BY <1>3, <2>2, <2>3 DEF ToPaying
<1> QED BY <1>1, <1>2, <1>3

\* The payment is captured, and its id goes into the payload.
LEMMA PayingKeeps ==
    ASSUME IInv, NEW p \in Process, Capture(p) \/ ToPaid(p)
    PROVE  IInv'
<1> USE Facts
<1>1. CASE Capture(p)
  <2>1. ServicesStep /\ RowStep
    BY <1>1
       DEF Capture, RowStep, ServicesStep, TypeOK, StockLeavesOnlyPaid, RefundAfterRelease
  <2>2. CASE pay' = "FAILED" /\ Goto(p, "compRead")
    BY <2>1, <2>2, GotoKeeps DEF Steps, ForwardKnows, BackwardKnows, MovedTo, At
  <2>3. CASE pay' \in {"SUCCESS", "REFUNDED"} /\ Goto(p, "toPaid")
    BY <2>1, <2>3, GotoKeeps DEF Steps, ForwardKnows, BackwardKnows, MovedTo, At
  <2> QED BY <1>1, <2>2, <2>3 DEF Capture, TypeOK
<1>2. CASE ToPaid(p)
  <2>1. ServicesStep
    BY <1>2, SameServices DEF ToPaid
  <2>2. CASE /\ Transition("PAYING", "PAID", "PaymentCaptured", TRUE, TRUE)
             /\ Goto(p, "commit")
    <3>1. Honest("PAID", "PaymentCaptured", TRUE, TRUE)
      BY <1>2, <2>2 DEF ToPaid, Transition, Honest, PayloadOfState, ForwardKnows, At
    <3>2. RowStep
      BY <1>2, <2>2, <3>1, TransitionRow DEF ToPaid, SagaState, Terminal, Events
    <3> QED BY <1>2, <2>1, <2>2, <3>2, GotoKeeps
       DEF ToPaid, Transition, services, Steps, ForwardKnows, BackwardKnows, MovedTo, At
  <2>3. CASE Conflict("PAYING") /\ Return(p)
    BY <2>1, <2>3, ReturnKeeps DEF Conflict, RowStep
  <2> QED BY <1>2, <2>2, <2>3 DEF ToPaid
<1> QED BY <1>1, <1>2

\* The stock is committed, the order and the saga are confirmed.
LEMMA ConfirmingKeeps ==
    ASSUME IInv, NEW p \in Process, CommitStock(p) \/ ConfirmOrder(p) \/ ToConfirmed(p)
    PROVE  IInv'
<1> USE Facts
<1>1. CASE CommitStock(p)
  <2>1. RowStep
    BY <1>1 DEF CommitStock, RowStep
  <2>2. CASE resv \in {"PENDING", "COMMITTED"} /\ resv' = "COMMITTED" /\ Goto(p, "confirm")
    <3>1. ServicesStep
      BY <1>1, <2>2
         DEF CommitStock, ForwardKnows, At, ServicesStep, TypeOK, StockLeavesOnlyPaid,
             RefundAfterRelease
    <3> QED BY <2>1, <2>2, <3>1, GotoKeeps
               DEF Steps, ForwardKnows, BackwardKnows, MovedTo, At
  <2>3. CASE resv = "RELEASED" /\ Return(p) /\ UNCHANGED resv
    <3>1. ServicesStep
      BY <1>1, <2>3, SameServices DEF CommitStock, services
    <3> QED BY <2>1, <2>3, <3>1, ReturnKeeps
  <2> QED BY <1>1, <2>2, <2>3 DEF CommitStock
<1>2. CASE ConfirmOrder(p)
  <2>1. RowStep
    BY <1>2 DEF ConfirmOrder, RowStep
  <2>2. CASE order \in {"PAID", "CONFIRMED"} /\ order' = "CONFIRMED" /\ Goto(p, "toConfirmed")
    <3>1. ServicesStep
      BY <1>2, <2>2
         DEF ConfirmOrder, OrderState, ServicesStep, TypeOK, StockLeavesOnlyPaid,
             RefundAfterRelease
    <3> QED BY <1>2, <2>1, <2>2, <3>1, GotoKeeps
               DEF ConfirmOrder, Steps, ForwardKnows, BackwardKnows, MovedTo, At
  <2>3. CASE Return(p) /\ UNCHANGED order
    <3>1. ServicesStep
      BY <1>2, <2>3, SameServices DEF ConfirmOrder, services
    <3> QED BY <2>1, <2>3, <3>1, ReturnKeeps
  <2> QED BY <1>2, <2>2, <2>3 DEF ConfirmOrder
<1>3. CASE ToConfirmed(p)
  <2>1. ServicesStep
    BY <1>3, SameServices DEF ToConfirmed
  <2>2. CASE /\ Transition("PAID", "CONFIRMED", "OrderConfirmed", saga.resId, saga.payId)
             /\ Return(p)
    <3>1. Honest("CONFIRMED", "OrderConfirmed", saga.resId, saga.payId)
      BY <1>3, <2>2 DEF ToConfirmed, Transition, Honest, ForwardKnows, At
    <3>2. RowStep
      BY <1>3, <2>2, <3>1, TransitionRow DEF ToConfirmed, SagaState, Terminal, Events
    <3> QED BY <2>1, <2>2, <3>2, ReturnKeeps
  <2>3. CASE Conflict("PAID") /\ Return(p)
    BY <2>1, <2>3, ReturnKeeps DEF Conflict, RowStep
  <2> QED BY <1>3, <2>2, <2>3 DEF ToConfirmed
<1> QED BY <1>1, <1>2, <1>3

\* handleStockReservationFailure: the payload that is written back is the one of the
\* state that was read, because the compare-and-set found that state.
LEMMA StockFailureKeeps ==
    ASSUME IInv, NEW p \in Process, FailRead(p) \/ FailCancel(p) \/ ToStockFailed(p)
    PROVE  IInv'
<1> USE Facts
<1>1. CASE FailRead(p)
  <2>1. ServicesStep /\ RowStep
    BY <1>1, SameServices DEF FailRead, RowStep
  <2>2. CASE Return(p)
    BY <2>1, <2>2, ReturnKeeps
  <2>3. CASE ReadSaga(p, "failCancel")
    BY <1>1, <2>1, <2>3, ReadKeeps
       DEF FailRead, Steps, ForwardKnows, BackwardKnows, MovedTo, At
  <2> QED BY <1>1, <2>2, <2>3 DEF FailRead
<1>2. CASE FailCancel(p)
  <2>1. ServicesStep /\ RowStep
    BY <1>2
       DEF FailCancel, CancelsTo, RowStep, OrderState, Cancellable, ServicesStep,
           TypeOK, StockLeavesOnlyPaid, RefundAfterRelease
  <2> QED BY <1>2, <2>1, GotoKeeps
             DEF FailCancel, Steps, ForwardKnows, BackwardKnows, MovedTo, At
<1>3. CASE ToStockFailed(p)
  <2>1. ServicesStep
    BY <1>3, SameServices DEF ToStockFailed
  <2>2. CASE /\ Transition(proc[p].seen.state, "FAILED", "StockReservationFailed",
                           proc[p].seen.resId, proc[p].seen.payId)
             /\ Return(p)
    <3>1. Honest("FAILED", "StockReservationFailed", proc[p].seen.resId, proc[p].seen.payId)
      BY <1>3, <2>2 DEF ToStockFailed, Transition, Honest, SeenIsPast
    <3>2. RowStep
      BY <1>3, <2>2, <3>1, TransitionRow, ZenonT(60) DEF ToStockFailed, SagaState, Terminal, Events
    <3> QED BY <2>1, <2>2, <3>2, ReturnKeeps
  <2>3. CASE Conflict(proc[p].seen.state) /\ Return(p)
    BY <2>1, <2>3, ReturnKeeps DEF Conflict, RowStep
  <2> QED BY <1>3, <2>2, <2>3 DEF ToStockFailed
<1> QED BY <1>1, <1>2, <1>3

\* Compensate up to the release of the stock.
LEMMA CompensatingKeeps ==
    ASSUME IInv, NEW p \in Process, CompRead(p) \/ ToCompensating(p) \/ CompRelease(p)
    PROVE  IInv'
<1> USE Facts
<1>1. CASE CompRead(p)
  <2>1. ServicesStep /\ RowStep /\ UNCHANGED <<saga, log>>
    BY <1>1, SameServices DEF CompRead, RowStep
  <2>2. CASE Return(p)
    BY <2>1, <2>2, ReturnKeeps
  <2>3. CASE saga.state = "COMPENSATING" /\ ReadSaga(p, "compRelease")
    BY <2>1, <2>3, ReadKeeps DEF Steps, ForwardKnows, BackwardKnows, MovedTo, At
  <2>4. CASE ReadSaga(p, "toCompensating")
    BY <2>1, <2>4, ReadKeeps DEF Steps, ForwardKnows, BackwardKnows, MovedTo, At
  <2> QED BY <1>1, <2>2, <2>3, <2>4 DEF CompRead
<1>2. CASE ToCompensating(p)
  <2>1. ServicesStep
    BY <1>2, SameServices DEF ToCompensating
  <2>2. CASE /\ Transition(proc[p].seen.state, "COMPENSATING", "CompensationStarted",
                           proc[p].seen.resId, proc[p].seen.payId)
             /\ Goto(p, "compRelease")
    <3>1. Honest("COMPENSATING", "CompensationStarted", proc[p].seen.resId, proc[p].seen.payId)
      BY <1>2, <2>2 DEF ToCompensating, Transition, Honest, SeenIsPast
    <3>2. RowStep
      BY <1>2, <2>2, <3>1, TransitionRow, ZenonT(60) DEF ToCompensating, SagaState, Terminal, Events
    <3> QED BY <1>2, <2>1, <2>2, <3>2, GotoKeeps
       DEF ToCompensating, Transition, services, Steps, ForwardKnows, BackwardKnows, MovedTo, At
  <2>3. CASE Conflict(proc[p].seen.state) /\ Return(p)
    BY <2>1, <2>3, ReturnKeeps DEF Conflict, RowStep
  <2> QED BY <1>2, <2>2, <2>3 DEF ToCompensating
<1>3. CASE CompRelease(p)
  <2>1. RowStep
    BY <1>3 DEF CompRelease, RowStep
  <2>2. CASE ~proc[p].seen.resId /\ Goto(p, "compRefund") /\ UNCHANGED resv
    <3>1. ServicesStep
      BY <1>3, <2>2, SameServices DEF CompRelease, services
    <3> QED BY <1>3, <2>1, <2>2, <3>1, GotoKeeps
               DEF CompRelease, Steps, ForwardKnows, BackwardKnows, MovedTo, At
  <2>3. CASE proc[p].seen.resId /\ resv # "COMMITTED" /\ ReleaseStock /\ Goto(p, "compRefund")
    <3>1. ServicesStep
      BY <1>3, <2>3
         DEF CompRelease, ReleaseStock, ServicesStep, TypeOK, StockLeavesOnlyPaid,
             RefundAfterRelease
    <3>2. resv' = "RELEASED"
      BY <1>3, <2>3 DEF CompRelease, ReleaseStock, SeenIsPast, PayloadTruthful, TypeOK
    <3> QED BY <1>3, <2>1, <2>3, <3>1, <3>2, GotoKeeps
               DEF CompRelease, Steps, ForwardKnows, BackwardKnows, MovedTo, At
  <2>4. CASE UNCHANGED resv /\ Return(p)
    <3>1. ServicesStep
      BY <1>3, <2>4, SameServices DEF CompRelease, services
    <3> QED BY <2>1, <2>4, <3>1, ReturnKeeps
  <2> QED BY <1>3, <2>2, <2>3, <2>4 DEF CompRelease
<1> QED BY <1>1, <1>2, <1>3

\* Compensate from the refund on: the refund follows a release, so no stock leaves
\* without money.
LEMMA RefundingKeeps ==
    ASSUME IInv, NEW p \in Process, CompRefund(p) \/ CompRecord(p) \/ CompCancel(p) \/ ToFailed(p)
    PROVE  IInv'
<1> USE Facts
<1>1. CASE CompRefund(p)
  <2>1. RowStep
    BY <1>1 DEF CompRefund, RowStep
  <2>2. CASE ~proc[p].seen.payId /\ Goto(p, "compCancel") /\ UNCHANGED pay
    <3>1. ServicesStep
      BY <1>1, <2>2, SameServices DEF CompRefund, services
    <3> QED BY <1>1, <2>1, <2>2, <3>1, GotoKeeps
               DEF CompRefund, Steps, ForwardKnows, BackwardKnows, MovedTo, At
  <2>3. CASE proc[p].seen.payId /\ pay = "SUCCESS" /\ pay' = "REFUNDED" /\ Goto(p, "compRecord")
    <3>1. resv = "RELEASED"
      BY <1>1, <2>3 DEF CompRefund, At, BackwardKnows, PayloadTruthful
    <3>2. ServicesStep
      BY <1>1, <2>3, <3>1
         DEF CompRefund, ServicesStep, TypeOK, StockLeavesOnlyPaid, RefundAfterRelease
    <3> QED BY <1>1, <2>1, <2>3, <3>1, <3>2, GotoKeeps
               DEF CompRefund, Steps, ForwardKnows, BackwardKnows, MovedTo, At
  <2>4. CASE Return(p) /\ UNCHANGED pay
    <3>1. ServicesStep
      BY <1>1, <2>4, SameServices DEF CompRefund, services
    <3> QED BY <2>1, <2>4, <3>1, ReturnKeeps
  <2> QED BY <1>1, <2>2, <2>3, <2>4 DEF CompRefund
<1>2. CASE CompRecord(p)
  <2>1. ServicesStep /\ RowStep
    BY <1>2
       DEF CompRecord, RowStep, ServicesStep, TypeOK, StockLeavesOnlyPaid,
           RefundAfterRelease
  <2> QED BY <1>2, <2>1, GotoKeeps
             DEF CompRecord, Steps, ForwardKnows, BackwardKnows, MovedTo, At
<1>3. CASE CompCancel(p)
  <2>1. RowStep
    BY <1>3 DEF CompCancel, RowStep
  <2>2. CASE CancelsTo(order) = "CANCELLED" /\ order' = "CANCELLED" /\ Goto(p, "toFailed")
    <3>1. ServicesStep
      BY <1>3, <2>2
         DEF CompCancel, CancelsTo, OrderState, Cancellable, ServicesStep, TypeOK,
             StockLeavesOnlyPaid, RefundAfterRelease
    <3> QED BY <1>3, <2>1, <2>2, <3>1, GotoKeeps
               DEF CompCancel, Steps, ForwardKnows, BackwardKnows, MovedTo, At
  <2>3. CASE Return(p) /\ UNCHANGED order
    <3>1. ServicesStep
      BY <1>3, <2>3, SameServices DEF CompCancel, services
    <3> QED BY <2>1, <2>3, <3>1, ReturnKeeps
  <2> QED BY <1>3, <2>2, <2>3 DEF CompCancel
<1>4. CASE ToFailed(p)
  <2>1. ServicesStep
    BY <1>4, SameServices DEF ToFailed
  <2>2. CASE /\ Transition("COMPENSATING", "FAILED", "CompensationCompleted", saga.resId, saga.payId)
             /\ Return(p)
    <3>1. Honest("FAILED", "CompensationCompleted", saga.resId, saga.payId)
      BY <1>4, <2>2 DEF ToFailed, Transition, Honest, BackwardKnows, At
    <3>2. RowStep
      BY <1>4, <2>2, <3>1, TransitionRow DEF ToFailed, SagaState, Terminal, Events
    <3> QED BY <2>1, <2>2, <3>2, ReturnKeeps
  <2>3. CASE Conflict("COMPENSATING") /\ Return(p)
    BY <2>1, <2>3, ReturnKeeps DEF Conflict, RowStep
  <2> QED BY <1>4, <2>2, <2>3 DEF ToFailed
<1> QED BY <1>1, <1>2, <1>3, <1>4

\* The watchdog's dispatch, and the faults: a crash, a call that fails and a reply
\* that is lost.
LEMMA FaultKeeps ==
    ASSUME IInv, NEW p \in Process,
           ProcessExpiredSagas(p) \/ Crash(p) \/ CallFails(p) \/ LostReply(p)
    PROVE  IInv'
<1> USE Facts
<1>0. MaxFaults \in Nat
  BY SagaAssumption
<1>1. CASE ProcessExpiredSagas(p)
  <2>1. ServicesStep /\ RowStep
    BY <1>1, SameServices DEF ProcessExpiredSagas, RowStep
  <2>2. CASE Goto(p, "failRead")
    BY <2>1, <2>2, GotoKeeps DEF Steps, ForwardKnows, BackwardKnows, MovedTo, At
  <2>3. CASE Goto(p, "compRead")
    BY <2>1, <2>3, GotoKeeps DEF Steps, ForwardKnows, BackwardKnows, MovedTo, At
  <2> QED BY <1>1, <2>2, <2>3 DEF ProcessExpiredSagas
<1>2. CASE Crash(p)
  <2>1. ServicesStep /\ RowStep
    BY <1>0, <1>2, SameServices DEF Crash, Fault, RowStep
  <2> QED BY <1>2, <2>1, ReturnKeeps DEF Crash
<1>3. \A l \in {"failRead", "undoReserve", "compRead", "toStockFailed"} :
          RowStep /\ ServicesStep /\ Goto(p, l) => IInv'
  <2> SUFFICES ASSUME NEW l \in {"failRead", "undoReserve", "compRead", "toStockFailed"},
                      RowStep, ServicesStep, Goto(p, l)
               PROVE  IInv'
    OBVIOUS
  <2> QED BY GotoKeeps DEF Steps, ForwardKnows, BackwardKnows, MovedTo, At
<1>4. CASE CallFails(p)
  <2>1. ServicesStep /\ RowStep
    BY <1>0, <1>4, SameServices DEF CallFails, Fault, RowStep
  <2>2. OnError(proc[p].pc) \in {"failRead", "undoReserve", "compRead", "toStockFailed"}
    BY <1>4 DEF CallFails, OnError
  <2> QED BY <1>3, <1>4, <2>1, <2>2 DEF CallFails
<1>5. CASE LostReply(p)
  <2>1. /\ faults' \in 0 .. MaxFaults /\ ahead' \in 0 .. MaxAhead
        /\ UNCHANGED <<refunded, order>> /\ Goto(p, OnError(proc[p].pc))
    BY <1>0, <1>5 DEF LostReply, Fault
  <2>2. CASE /\ At(p, "reserve") /\ resv = "NONE" /\ resv' = "PENDING"
             /\ UNCHANGED <<saga, log, pay>>
    <3>1. ServicesStep /\ RowStep
      BY <2>1, <2>2
         DEF RowStep, ServicesStep, TypeOK, StockLeavesOnlyPaid, RefundAfterRelease
    <3> QED BY <1>3, <2>1, <2>2, <3>1 DEF OnError, At
  <2>3. CASE /\ At(p, "toReserved")
             /\ Transition("RESERVING_STOCK", "STOCK_RESERVED", "StockReserved",
                           TRUE, proc[p].seen.payId)
             /\ UNCHANGED <<resv, pay>>
    <3>1. Honest("STOCK_RESERVED", "StockReserved", TRUE, proc[p].seen.payId)
      BY <2>3 DEF Transition, Honest, PayloadOfState, SeenIsPast, ForwardKnows, At
    <3>2. UNCHANGED services
      BY <2>1, <2>3 DEF services
    <3>3. RowStep
      BY <2>3, <3>1, <3>2, TransitionRow DEF SagaState, Events
    <3>4. ServicesStep
      BY <2>1, <3>2, SameServices
    <3> QED BY <1>3, <2>1, <2>3, <3>3, <3>4 DEF OnError, At
  <2>4. CASE /\ At(p, "capture") /\ pay = "NONE" /\ pay' = "SUCCESS"
             /\ UNCHANGED <<saga, log, resv>>
    <3>1. ServicesStep /\ RowStep
      BY <2>1, <2>4
         DEF RowStep, ServicesStep, TypeOK, StockLeavesOnlyPaid, RefundAfterRelease
    <3> QED BY <1>3, <2>1, <2>4, <3>1 DEF OnError, At
  <2> QED BY <1>5, <2>2, <2>3, <2>4 DEF LostReply
<1> QED BY <1>1, <1>2, <1>4, <1>5

-----------------------------------------------------------------------------
(* The theorems *)

\* Before the saga is started there is nothing.
LEMMA InitIInv == Init => IInv
<1> SUFFICES ASSUME Init PROVE IInv
  OBVIOUS
<1>1. NoSaga \in SagaRow /\ NoSaga.state = "NONE" /\ ~NoSaga.resId /\ ~NoSaga.payId
  BY DEF NoSaga, SagaRow
<1>2. saga = NoSaga /\ log = <<>> /\ resv = "NONE" /\ pay = "NONE" /\ order = "PENDING"
  BY DEF Init
<1>3. \A p \in Process : proc[p].pc = "idle" /\ proc[p].seen = NoSaga
  BY DEF Init
<1>4. TypeOK
  <2>1. proc \in [Process -> [pc : Steps, seen : SagaRow]]
    <3>1. [pc |-> "idle", seen |-> NoSaga] \in [pc : Steps, seen : SagaRow]
      BY <1>1 DEF Steps
    <3> QED BY <3>1 DEF Init
  <2>2. log \in Seq([from : SagaState \cup {"NONE"}, to : SagaState, event : Events])
    BY <1>2
  <2>3. faults \in 0 .. MaxFaults /\ ahead \in 0 .. MaxAhead
    BY SagaAssumption DEF Init
  <2>4. refunded \in BOOLEAN
    BY Zenon DEF Init
  <2> QED BY <1>1, <1>2, <2>1, <2>2, <2>3, <2>4 DEF TypeOK, OrderState, Cancellable
<1>5. LogIsPath /\ LogBelow
  BY <1>1, <1>2, <1>4 DEF LogIsPath, LogBelow
<1>6. \A ev : ~Logged(ev)
  BY <1>2 DEF Logged
<1>7. ProcInv
  BY <1>1, <1>2, <1>3, RankValues
     DEF ProcInv, SeenIsPast, ForwardKnows, BackwardKnows, At
<1> QED BY <1>1, <1>2, <1>5, <1>6, <1>7
        DEF IInv, PayloadTruthful, PayloadOfState, EndIsComplete, StockLeavesOnlyPaid,
            RefundAfterRelease

\* Every step keeps the invariant, whoever takes it.
LEMMA NextIInv == IInv /\ [Next]_vars => IInv'
<1> SUFFICES ASSUME IInv, [Next]_vars PROVE IInv'
  OBVIOUS
<1>1. CASE UNCHANGED vars
  <2>1. UNCHANGED proc /\ UNCHANGED services /\ RowStep
    BY <1>1 DEF vars, services, RowStep
  <2>2. faults' \in 0 .. MaxFaults /\ ahead' \in 0 .. MaxAhead
    BY <1>1 DEF vars, IInv, LogIsPath, TypeOK
  <2> QED BY <2>1, <2>2, SameServices, QuietKeeps
<1>2. CASE StartSaga \/ OlderSagaEnds \/ UserCancel \/ UpdateStatus
  BY <1>2, EnvironmentKeeps
<1>3. ASSUME NEW p \in Process, ExecuteSaga(p) \/ Forward(p) PROVE IInv'
  BY <1>3, ReservingKeeps, ReservedKeeps, PayingKeeps, ConfirmingKeeps DEF Forward
<1>4. ASSUME NEW p \in Process, Backward(p) PROVE IInv'
  BY <1>4, StockFailureKeeps, CompensatingKeeps, RefundingKeeps DEF Backward
<1>5. ASSUME NEW p \in Process,
             ProcessExpiredSagas(p) \/ Crash(p) \/ CallFails(p) \/ LostReply(p)
      PROVE  IInv'
  BY <1>5, FaultKeeps
<1> QED BY <1>1, <1>2, <1>3, <1>4, <1>5 DEF Next, Process

\* The inductive invariant holds in every reachable state.
THEOREM Invariance == Spec => []IInv
BY InitIInv, NextIInv, PTL DEF Spec

\* Whatever executors and watchdogs do at once, order_saga_logs is a path of legal
\* transitions that ends in the row's state and visits no state twice.
THEOREM LogIsPathHolds == Spec => []LogIsPath
<1>1. IInv => LogIsPath
  BY DEF IInv
<1> QED BY <1>1, Invariance, PTL

\* A reservation or payment id in the payload names what exists, also after stale
\* payloads were written back.
THEOREM PayloadTruthfulHolds == Spec => []PayloadTruthful
<1>1. IInv => PayloadTruthful
  BY DEF IInv
<1> QED BY <1>1, Invariance, PTL

\* A saga that Compensate failed is undone completely and stays so; a confirmed one
\* keeps its stock, its money and its order.
THEOREM EndIsCompleteHolds == Spec => []EndIsComplete
<1>1. IInv => EndIsComplete
  BY DEF IInv
<1> QED BY <1>1, Invariance, PTL

\* No interleaving lets stock leave the shelf for money that was not captured or
\* was given back.
THEOREM StockLeavesOnlyPaidHolds == Spec => []StockLeavesOnlyPaid
<1>1. IInv => StockLeavesOnlyPaid
  BY DEF IInv
<1> QED BY <1>1, Invariance, PTL
=============================================================================
