---------------------------- MODULE PaymentProofs ----------------------------
(***************************************************************************)
(* The payment service charges once and refunds once, for any number of    *)
(* concurrent requests, keys, orders and payments.                         *)
(***************************************************************************)
EXTENDS Payment, FiniteSetTheorems, TLAPS

(* The inductive invariant *)

PaymentRow == [slot : Slot, order : OrderID, amount : Amount \ {0},
               status : {"SUCCESS", "FAILED", "REFUNDED"}]
RefundRow == [payment : Nat, amount : Amount \ {0}]

\* A request for a charge, and one for a refund.
Charging == [pc : {"lookup", "create", "refetch"}, slot : Slot, order : OrderID,
             amount : Amount \ {0}, trigger : Trigger]
Refunding == [pc : {"transition", "record"}, payment : Nat, amount : Amount \ {0}]

Shapes ==
    /\ payments \in Seq(PaymentRow)
    /\ refunds \in Seq(RefundRow)
    /\ worker \in [Worker -> {Idle} \cup Charging \cup Refunding]
    /\ untraced \subseteq DOMAIN payments

\* Under a key there is one payment.
OnePerSlot == \A i, j \in DOMAIN payments : payments[i].slot = payments[j].slot => i = j

\* Every answer is true of the payment it names.
TrueOf(a, rows) ==
    /\ a.payment \in DOMAIN rows
    /\ rows[a.payment].slot = a.slot /\ rows[a.payment].order = a.order
    /\ rows[a.payment].amount = a.amount
    /\ a.captured <=> rows[a.payment].status # "FAILED"
AnswersTrue == \A a \in answers : TrueOf(a, payments)

\* A refund under way, and one recorded, is of a payment and of at most its amount.
Refundable(i, amount) == i \in DOMAIN payments /\ amount <= payments[i].amount
RefundsFit ==
    /\ \A w \in Worker : worker[w].pc \in {"transition", "record"} =>
          Refundable(worker[w].payment, worker[w].amount)
    /\ \A j \in DOMAIN refunds : Refundable(refunds[j].payment, refunds[j].amount)

\* The three forms a refunded payment's refund can have.
Recorded(i, j) == refunds[j].payment = i
Writes(i, w) == At(w, "record") /\ worker[w].payment = i

\* A payment with a refund in any form is REFUNDED, and a REFUNDED one has it in
\* some form.
RefundedHasForm ==
    \A i \in DOMAIN payments :
        payments[i].status = "REFUNDED" <=>
            \/ \E j \in DOMAIN refunds : Recorded(i, j)
            \/ \E w \in Worker : Writes(i, w)
            \/ i \in untraced

\* It has it in one form only.
OneForm ==
    \A i \in DOMAIN payments :
        /\ \A j, k \in DOMAIN refunds : Recorded(i, j) /\ Recorded(i, k) => j = k
        /\ \A v, w \in Worker : Writes(i, v) /\ Writes(i, w) => v = w
        /\ \A j \in DOMAIN refunds, w \in Worker : ~(Recorded(i, j) /\ Writes(i, w))
        /\ \A j \in DOMAIN refunds : ~(Recorded(i, j) /\ i \in untraced)
        /\ \A w \in Worker : ~(Writes(i, w) /\ i \in untraced)

IInv == Shapes /\ OnePerSlot /\ AnswersTrue /\ RefundsFit /\ RefundedHasForm /\ OneForm

-----------------------------------------------------------------------------
(* The requests *)

\* What a request is about follows from where it is.
LEMMA Kinds ==
    ASSUME Shapes, NEW w \in Worker
    PROVE  /\ worker[w].pc \in {"lookup", "create", "refetch"} <=> worker[w] \in Charging
           /\ worker[w].pc \in {"transition", "record"} <=> worker[w] \in Refunding
BY DEF Shapes, Idle, Charging, Refunding

\* A request that becomes x, while the others stay as they are.
Became(w, x) ==
    /\ worker' \in [Worker -> {Idle} \cup Charging \cup Refunding]
    /\ worker'[w] = x
    /\ \A v \in Worker \ {w} : worker'[v] = worker[v]

\* A worker becomes x and the others stay as they are.
LEMMA BecomeBecomes ==
    ASSUME Shapes, NEW w \in Worker, NEW x \in {Idle} \cup Charging \cup Refunding, Become(w, x)
    PROVE  Became(w, x)
BY DEF Shapes, Become, Became

\* A charge goes on to its next step.
LEMMA GotoCharging ==
    ASSUME Shapes, NEW w \in Worker, NEW l \in {"lookup", "create", "refetch"},
           worker[w] \in Charging, Goto(w, l)
    PROVE  \E x \in Charging : x.pc = l /\ Became(w, x)
<1> DEFINE x == [worker[w] EXCEPT !.pc = l]
<1>1. x \in Charging /\ x.pc = l
  BY DEF Charging
<1>2. Become(w, x)
  BY DEF Goto, Become, Shapes
<1> QED BY <1>1, <1>2, BecomeBecomes

\* A refund goes on to its next step with the payment and amount it had.
LEMMA GotoRefunding ==
    ASSUME Shapes, NEW w \in Worker, NEW l \in {"transition", "record"},
           worker[w] \in Refunding, Goto(w, l)
    PROVE  \E x \in Refunding : /\ Became(w, x)
              /\ x.pc = l /\ x.payment = worker[w].payment /\ x.amount = worker[w].amount
<1> DEFINE x == [worker[w] EXCEPT !.pc = l]
<1>1. x \in Refunding /\ x.pc = l /\ x.payment = worker[w].payment /\ x.amount = worker[w].amount
  BY DEF Refunding
<1>2. Become(w, x)
  BY DEF Goto, Become, Shapes
<1> QED BY <1>1, <1>2, BecomeBecomes

-----------------------------------------------------------------------------
(* The steps *)

\* The rows of the tables are well formed.
LEMMA RowsHaveType ==
    ASSUME Shapes
    PROVE  /\ \A i \in DOMAIN payments : i \in Nat /\ payments[i] \in PaymentRow
           /\ \A j \in DOMAIN refunds : refunds[j] \in RefundRow
BY DEF Shapes

\* A step that touches no table: the request is on neither side of a refund
\* record.
LEMMA QuietKeeps ==
    ASSUME IInv, UNCHANGED <<payments, refunds, untraced>>, AnswersTrue',
           NEW w \in Worker, NEW x, Became(w, x), ~At(w, "record"), x.pc # "record",
           x.pc = "transition" => Refundable(x.payment, x.amount)
    PROVE  IInv'
<1>1. Shapes'
  BY DEF IInv, Shapes, Became
<1>2. OnePerSlot'
  BY DEF IInv, OnePerSlot
<1>3. \A i, v : v \in Worker => (Writes(i, v)' <=> Writes(i, v))
  BY DEF Became, Writes, At
<1>4. RefundsFit'
  BY DEF IInv, RefundsFit, Refundable, Became
<1>5. RefundedHasForm'
  BY <1>3 DEF IInv, RefundedHasForm, Recorded
<1>6. OneForm'
  BY <1>3 DEF IInv, OneForm, Recorded
<1> QED BY <1>1, <1>2, <1>4, <1>5, <1>6 DEF IInv

\* A charge that finds a payment under its key answers what is true of it.
LEMMA ReplayKeeps ==
    ASSUME IInv, NEW w \in Worker, worker[w] \in Charging, NEW i \in Under(worker[w].slot),
           Replay(w, i), UNCHANGED <<payments, refunds, untraced>>
    PROVE  IInv'
<1>1. Became(w, Idle)
  BY BecomeBecomes DEF IInv, Replay
<1>2. AnswersTrue'
  <2> DEFINE b == [slot |-> worker[w].slot, order |-> worker[w].order, amount |-> worker[w].amount,
                   payment |-> i, captured |-> payments[i].status # "FAILED"]
  <2>1. \A a \in answers : TrueOf(a, payments')
    BY DEF IInv, AnswersTrue, TrueOf
  <2>2. b.captured <=> payments[i].status # "FAILED"
    OBVIOUS
  <2>3. /\ b.payment = i /\ b.slot = worker[w].slot /\ b.order = worker[w].order
        /\ b.amount = worker[w].amount
    OBVIOUS
  <2>4. /\ answers' = IF SamePayload(worker[w], payments[i]) THEN answers \cup {b} ELSE answers
        /\ i \in DOMAIN payments /\ payments[i].slot = worker[w].slot
    BY DEF Replay, Under
  <2> HIDE DEF b
  <2>5. SamePayload(worker[w], payments[i]) => TrueOf(b, payments')
    BY <2>2, <2>3, <2>4 DEF SamePayload, TrueOf
  <2> QED BY <2>1, <2>4, <2>5 DEF AnswersTrue
<1>3. ~At(w, "record") /\ Idle.pc = "idle"
  BY DEF At, Charging, Idle
<1> QED BY <1>1, <1>2, <1>3, QuietKeeps

\* The steps of a charge that leave the table payments alone.
LEMMA ChargeKeeps ==
    ASSUME IInv, NEW w \in Worker,
           simulatePayment(w) \/ Lookup(w) \/ LookupFails(w) \/ Refetch(w)
    PROVE  IInv'
<1>0. Shapes /\ AnswersTrue
  BY DEF IInv
<1>1. CASE simulatePayment(w)
  <2> PICK s \in Slot, o \in OrderID, a \in Amount, t \in Trigger : Charge(w, s, o, a, t)
    BY <1>1 DEF simulatePayment
  <2> DEFINE x == [pc |-> "lookup", slot |-> s, order |-> o, amount |-> a, trigger |-> t]
  <2>1. x \in Charging
    BY PaymentAssumption DEF Charge, ValidAmount, Charging
  <2>2. Became(w, x)
    BY <1>0, <2>1, BecomeBecomes DEF Charge
  <2>3. AnswersTrue'
    BY <1>0 DEF Charge, AnswersTrue, TrueOf
  <2>4. ~At(w, "record") /\ x.pc = "lookup"
    BY DEF Charge, At
  <2> QED BY <2>2, <2>3, <2>4, QuietKeeps DEF Charge
<1>2. ASSUME worker[w] \in Charging, Goto(w, "create"),
             UNCHANGED <<payments, refunds, answers, untraced>>
      PROVE  IInv'
  <2> PICK x \in Charging : x.pc = "create" /\ Became(w, x)
    BY <1>0, <1>2, GotoCharging
  <2>1. AnswersTrue'
    BY <1>0, <1>2 DEF AnswersTrue, TrueOf
  <2>2. ~At(w, "record")
    BY <1>2 DEF At, Charging
  <2> QED BY <1>2, <2>1, <2>2, QuietKeeps
<1>3. CASE Lookup(w)
  <2>1. worker[w] \in Charging
    BY <1>0, <1>3, Kinds DEF Lookup, At
  <2> QED BY <1>2, <1>3, <2>1, ReplayKeeps DEF Lookup
<1>4. CASE LookupFails(w)
  <2>1. worker[w] \in Charging
    BY <1>0, <1>4, Kinds DEF LookupFails, At
  <2> QED BY <1>2, <1>4, <2>1 DEF LookupFails
<1>5. CASE Refetch(w)
  <2>1. worker[w] \in Charging
    BY <1>0, <1>5, Kinds DEF Refetch, At
  <2> QED BY <1>5, <2>1, ReplayKeeps DEF Refetch
<1> QED BY <1>1, <1>3, <1>4, <1>5

\* What appending a payment does to the table.
LEMMA PaymentsGrow ==
    ASSUME Shapes, NEW row \in PaymentRow, payments' = Append(payments, row)
    PROVE  /\ payments' \in Seq(PaymentRow) /\ Len(payments) \in Nat
           /\ DOMAIN payments = 1 .. Len(payments)
           /\ DOMAIN payments' = DOMAIN payments \cup {Len(payments) + 1}
           /\ Len(payments) + 1 \notin DOMAIN payments
           /\ payments'[Len(payments) + 1] = row
           /\ \A i \in DOMAIN payments : payments'[i] = payments[i]
<1>1. payments \in Seq(PaymentRow)
  BY DEF Shapes
<1> QED BY <1>1

\* The insert: the unique constraint refuses a second payment under a key.
LEMMA CreatePaymentKeeps ==
    ASSUME IInv, NEW w \in Worker, CreatePayment(w) PROVE IInv'
<1> DEFINE r == worker[w]
           status == IF r.trigger = "success" THEN "SUCCESS" ELSE "FAILED"
           row == [slot |-> r.slot, order |-> r.order, amount |-> r.amount, status |-> status]
           n == Len(payments) + 1
<1>0. Shapes /\ r \in Charging /\ r.pc = "create"
  BY Kinds DEF IInv, CreatePayment, At
<1>1. CASE Duplicate(r.slot)
  <2> PICK x \in Charging : x.pc = "refetch" /\ Became(w, x)
    BY <1>0, <1>1, GotoCharging DEF CreatePayment
  <2>1. AnswersTrue' /\ UNCHANGED <<payments, refunds, untraced>>
    BY <1>1 DEF IInv, CreatePayment, AnswersTrue, TrueOf
  <2> QED BY <1>0, <2>1, QuietKeeps DEF At
<1>2. CASE ~Duplicate(r.slot)
  <2>1. /\ payments' = Append(payments, row) /\ UNCHANGED <<refunds, untraced>>
        /\ answers' \in {answers,
                         answers \cup {[slot |-> r.slot, order |-> r.order, amount |-> r.amount,
                                        payment |-> n, captured |-> status = "SUCCESS"]}}
        /\ Become(w, Idle)
    BY <1>2 DEF CreatePayment
  <2>2. row \in PaymentRow
    BY <1>0 DEF Charging, PaymentRow
  <2>3. Became(w, Idle)
    BY <1>0, <2>1, BecomeBecomes
  <2>4. /\ payments' \in Seq(PaymentRow) /\ n \notin DOMAIN payments
        /\ DOMAIN payments' = DOMAIN payments \cup {n}
        /\ payments'[n] = row
        /\ \A i \in DOMAIN payments : payments'[i] = payments[i]
    BY <1>0, <2>1, <2>2, PaymentsGrow
  <2> HIDE DEF n
  <2>5. Shapes'
    BY <1>0, <2>1, <2>3, <2>4 DEF Shapes, Became
  <2>6. OnePerSlot'
    BY <1>2, <2>4 DEF IInv, OnePerSlot, Duplicate, Under
  <2>7. AnswersTrue'
    <3> DEFINE b == [slot |-> r.slot, order |-> r.order, amount |-> r.amount,
                     payment |-> n, captured |-> status = "SUCCESS"]
    <3>1. \A a \in answers : TrueOf(a, payments')
      BY <2>4 DEF IInv, AnswersTrue, TrueOf
    <3>2. b.captured <=> row.status # "FAILED"
      OBVIOUS
    <3>3. /\ b.payment = n /\ b.slot = row.slot /\ b.order = row.order
          /\ b.amount = row.amount
      OBVIOUS
    <3>4. answers' \in {answers, answers \cup {b}}
      BY <2>1
    <3> HIDE DEF b, row
    <3>5. TrueOf(b, payments')
      BY <2>4, <3>2, <3>3 DEF TrueOf
    <3> QED BY <3>1, <3>4, <3>5 DEF AnswersTrue
  <2>8. \A i, v : v \in Worker => (Writes(i, v)' <=> Writes(i, v))
    BY <1>0, <2>3 DEF Became, Writes, At, Idle
  <2>9. RefundsFit'
    BY <2>1, <2>3, <2>4 DEF IInv, RefundsFit, Refundable, Became, Idle
  <2>10. /\ \A j \in DOMAIN refunds : ~Recorded(n, j)
         /\ \A v \in Worker : ~Writes(n, v)
         /\ n \notin untraced
    BY <1>0, <2>4 DEF IInv, RefundsFit, Refundable, Recorded, Writes, At, Shapes
  <2>11. RefundedHasForm'
    BY <2>1, <2>4, <2>8, <2>10 DEF IInv, RefundedHasForm, Recorded
  <2>12. OneForm'
    BY <2>1, <2>4, <2>8, <2>10 DEF IInv, OneForm, Recorded
  <2> QED BY <2>5, <2>6, <2>7, <2>9, <2>11, <2>12 DEF IInv
<1> QED BY <1>1, <1>2

\* The steps of a refund that touch no table, and those that end a request.
LEMMA RefundKeeps ==
    ASSUME IInv, NEW w \in Worker, refundPayment(w) PROVE IInv'
<1> PICK i \in DOMAIN payments, a \in Amount : Refund(w, i, a)
  BY DEF refundPayment
<1> DEFINE x == [pc |-> "transition", payment |-> i, amount |-> a]
<1>1. payments[i].amount \in Nat /\ i \in Nat
  BY RowsHaveType, PaymentAssumption DEF IInv, PaymentRow
<1>2. x \in Refunding /\ Refundable(i, a)
  BY <1>1, PaymentAssumption DEF Refund, Refunding, Refundable
<1>3. Became(w, x)
  BY <1>2, BecomeBecomes DEF IInv, Refund
<1>4. AnswersTrue'
  BY DEF IInv, Refund, AnswersTrue, TrueOf
<1>5. ~At(w, "record")
  BY DEF Refund, At
<1>6. x.pc = "transition" /\ x.payment = i /\ x.amount = a
  OBVIOUS
<1> HIDE DEF x
<1> QED BY <1>2, <1>3, <1>4, <1>5, <1>6, QuietKeeps DEF Refund

\* The guarded UPDATE: a payment that was captured becomes REFUNDED, and the
\* request that did it is the one that writes the refund record.
LEMMA TransitionKeeps ==
    ASSUME IInv, NEW w \in Worker, TransitionPaymentStatus(w) PROVE IInv'
<1> DEFINE i == worker[w].payment
           row == [slot |-> payments[i].slot, order |-> payments[i].order,
                   amount |-> payments[i].amount, status |-> "REFUNDED"]
<1>0. /\ Shapes /\ worker[w] \in Refunding /\ At(w, "transition")
      /\ Refundable(i, worker[w].amount)
  BY Kinds DEF IInv, TransitionPaymentStatus, At, RefundsFit
<1>1. CASE ~TransitionMatches(i)
  <2>1. Become(w, Idle) /\ UNCHANGED <<payments, refunds, answers, untraced>>
    BY <1>1 DEF TransitionPaymentStatus
  <2>2. Became(w, Idle) /\ Idle.pc = "idle" /\ ~At(w, "record")
    BY <1>0, <2>1, BecomeBecomes DEF Idle, At
  <2>3. AnswersTrue'
    BY <2>1 DEF IInv, AnswersTrue, TrueOf
  <2> QED BY <2>1, <2>2, <2>3, QuietKeeps
<1>2. CASE TransitionMatches(i)
  <2>1. /\ payments' = [payments EXCEPT ![i] = row] /\ payments[i].status = "SUCCESS"
        /\ Goto(w, "record") /\ UNCHANGED <<refunds, answers, untraced>>
    BY <1>2 DEF TransitionPaymentStatus, TransitionMatches
  <2>2. PICK x \in Refunding : /\ Became(w, x)
              /\ x.pc = "record" /\ x.payment = i /\ x.amount = worker[w].amount
    BY <1>0, <2>1, GotoRefunding
  <2>3. row \in PaymentRow /\ i \in DOMAIN payments
    BY <1>0, RowsHaveType DEF PaymentRow, Refundable
  <2>4. /\ payments' \in Seq(PaymentRow) /\ DOMAIN payments' = DOMAIN payments
        /\ payments'[i] = row
        /\ \A k \in DOMAIN payments : k # i => payments'[k] = payments[k]
    BY <1>0, <2>1, <2>3 DEF Shapes
  <2>5. \A k \in DOMAIN payments :
            /\ payments'[k].slot = payments[k].slot /\ payments'[k].order = payments[k].order
            /\ payments'[k].amount = payments[k].amount
            /\ payments'[k].status # "FAILED" <=> payments[k].status # "FAILED"
    BY <2>1, <2>4
  <2>6. /\ \A k, v : v \in Worker \ {w} => (Writes(k, v)' <=> Writes(k, v))
        /\ \A k : ~Writes(k, w)
        /\ \A k : k # i => ~Writes(k, w)'
        /\ worker'[w].pc = "record" /\ worker'[w].payment = i
    BY <1>0, <2>2 DEF Became, Writes, At
  <2>7. /\ \A j \in DOMAIN refunds : ~Recorded(i, j)
        /\ \A v \in Worker : ~Writes(i, v)
        /\ i \notin untraced
    BY <2>1, <2>3 DEF IInv, RefundedHasForm
  <2>8. row.status = "REFUNDED"
    OBVIOUS
  <2> HIDE DEF row
  <2>9. Shapes'
    BY <1>0, <2>1, <2>2, <2>4 DEF Shapes, Became
  <2>10. OnePerSlot'
    BY <2>4, <2>5 DEF IInv, OnePerSlot
  <2>11. AnswersTrue'
    BY <2>1, <2>4, <2>5 DEF IInv, AnswersTrue, TrueOf
  <2>12. RefundsFit'
    BY <1>0, <2>1, <2>2, <2>4, <2>5 DEF IInv, RefundsFit, Refundable, Became
  <2>13. RefundedHasForm'
    <3> SUFFICES ASSUME NEW k \in DOMAIN payments
                 PROVE  payments'[k].status = "REFUNDED" <=>
                            \/ \E j \in DOMAIN refunds : Recorded(k, j)
                            \/ \E v \in Worker : Writes(k, v)'
                            \/ k \in untraced
      BY <2>1, <2>4 DEF RefundedHasForm, Recorded, Writes, At
    <3>1. CASE k = i
      BY <2>3, <2>4, <2>6, <2>8, <3>1 DEF Writes, At
    <3>2. CASE k # i
      BY <2>4, <2>6, <3>2 DEF IInv, RefundedHasForm
    <3> QED BY <3>1, <3>2
  <2>14. OneForm'
    BY <2>1, <2>4, <2>6, <2>7 DEF IInv, OneForm, Recorded
  <2> QED BY <2>9, <2>10, <2>11, <2>12, <2>13, <2>14 DEF IInv
<1> QED BY <1>1, <1>2

\* The refund record takes over from the request that writes it.
LEMMA CreateRefundKeeps ==
    ASSUME IInv, NEW w \in Worker, CreateRefund(w) PROVE IInv'
<1> DEFINE i == worker[w].payment
           n == Len(refunds) + 1
           row == [payment |-> i, amount |-> worker[w].amount]
<1>0. /\ Shapes /\ worker[w] \in Refunding /\ Writes(i, w)
      /\ Refundable(i, worker[w].amount)
  BY Kinds DEF IInv, CreateRefund, At, RefundsFit, Writes
<1>1. /\ refunds' = Append(refunds, row) /\ Become(w, Idle)
      /\ UNCHANGED <<payments, answers, untraced>>
  BY DEF CreateRefund
<1>2. Became(w, Idle)
  BY <1>0, <1>1, BecomeBecomes
<1>3. row \in RefundRow /\ row.payment = i /\ row.amount = worker[w].amount
  BY <1>0 DEF Refunding, RefundRow
<1>4. /\ refunds' \in Seq(RefundRow) /\ n \notin DOMAIN refunds
      /\ DOMAIN refunds' = DOMAIN refunds \cup {n}
      /\ refunds'[n] = row
      /\ \A j \in DOMAIN refunds : refunds'[j] = refunds[j]
  <2>1. refunds \in Seq(RefundRow)
    BY <1>0 DEF Shapes
  <2> HIDE DEF row
  <2> QED BY <1>1, <1>3, <2>1
<1> HIDE DEF n, row
<1>5. /\ \A k, v : v \in Worker \ {w} => (Writes(k, v)' <=> Writes(k, v))
      /\ \A k : ~Writes(k, w)'
      /\ \A k : k # i => ~Writes(k, w)
  BY <1>0, <1>2 DEF Became, Writes, At, Idle
<1>6. /\ \A j \in DOMAIN refunds : refunds'[j].payment = refunds[j].payment
      /\ refunds'[n].payment = i
  BY <1>3, <1>4
<1>7. Shapes'
  BY <1>0, <1>1, <1>2, <1>4 DEF Shapes, Became
<1>8. OnePerSlot' /\ AnswersTrue'
  BY <1>1 DEF IInv, OnePerSlot, AnswersTrue, TrueOf
<1>9. RefundsFit'
  BY <1>0, <1>1, <1>2, <1>3, <1>4 DEF IInv, RefundsFit, Refundable, Became, Idle
<1>10. RefundedHasForm'
  BY <1>0, <1>1, <1>4, <1>5, <1>6 DEF IInv, RefundedHasForm, Recorded
<1>11. OneForm'
  BY <1>0, <1>1, <1>4, <1>5, <1>6 DEF IInv, OneForm, Recorded
<1> QED BY <1>7, <1>8, <1>9, <1>10, <1>11 DEF IInv

\* A request that breaks off between the two statements leaves an untraced refund.
LEMMA AbortKeeps ==
    ASSUME IInv, NEW w \in Worker, Abort(w) PROVE IInv'
<1>0. /\ Shapes /\ Become(w, Idle) /\ UNCHANGED <<payments, refunds, answers>>
      /\ Idle.pc = "idle"
  BY DEF IInv, Abort, Idle
<1>1. Became(w, Idle) /\ AnswersTrue'
  BY <1>0, BecomeBecomes DEF IInv, AnswersTrue, TrueOf
<1>2. CASE ~At(w, "record")
  BY <1>0, <1>1, <1>2, QuietKeeps DEF Abort
<1>3. CASE At(w, "record")
  <2> DEFINE i == worker[w].payment
  <2>1. untraced' = untraced \cup {i} /\ i \in DOMAIN payments /\ Writes(i, w)
    BY <1>0, <1>3 DEF Abort, IInv, RefundsFit, Refundable, Writes, At
  <2>2. /\ \A k, v : v \in Worker \ {w} => (Writes(k, v)' <=> Writes(k, v))
        /\ \A k : ~Writes(k, w)'
        /\ \A k : k # i => ~Writes(k, w)
    BY <1>0, <1>1 DEF Became, Writes, At
  <2>3. Shapes' /\ OnePerSlot'
    BY <1>0, <1>1, <2>1 DEF IInv, Shapes, OnePerSlot, Became
  <2>4. RefundsFit'
    BY <1>0, <1>1 DEF IInv, RefundsFit, Refundable, Became
  <2>5. RefundedHasForm'
    BY <1>0, <2>1, <2>2 DEF IInv, RefundedHasForm, Recorded
  <2>6. OneForm'
    BY <1>0, <2>1, <2>2 DEF IInv, OneForm, Recorded
  <2> QED BY <1>1, <2>3, <2>4, <2>5, <2>6 DEF IInv
<1> QED BY <1>2, <1>3

-----------------------------------------------------------------------------
(* The theorems *)

\* At the start there is no payment and no request.
LEMMA InitIInv == Init => IInv
BY DEF Init, IInv, Shapes, OnePerSlot, AnswersTrue, RefundsFit, RefundedHasForm, OneForm, Idle

\* Every step keeps the invariant.
LEMMA NextIInv == IInv /\ [Next]_vars => IInv'
<1> SUFFICES ASSUME IInv, [Next]_vars PROVE IInv'
  OBVIOUS
<1>1. CASE UNCHANGED vars
  BY <1>1 DEF vars, IInv, Shapes, OnePerSlot, AnswersTrue, TrueOf, RefundsFit, Refundable,
       RefundedHasForm, OneForm, Recorded, Writes, At
<1>2. CASE Next
  BY <1>2, ChargeKeeps, CreatePaymentKeeps, RefundKeeps, TransitionKeeps, CreateRefundKeeps,
     AbortKeeps DEF Next
<1> QED BY <1>1, <1>2

\* The inductive invariant holds in every reachable state.
THEOREM Invariance == Spec => []IInv
BY InitIInv, NextIInv, PTL DEF Spec

\* A charge repeated under its key, concurrently, after a lost answer or after a
\* failed lookup never charges again, and every answer stays true of its payment.
THEOREM ChargedOnceHolds == Spec => []ChargedOnce
<1>1. IInv => ChargedOnce
  <2> SUFFICES ASSUME IInv PROVE ChargedOnce
    OBVIOUS
  <2>1. TypeOK
    <3>1. Shapes /\ RefundsFit
      BY DEF IInv
    <3>2. \A i \in DOMAIN payments : payments[i] \in PaymentRow
      BY <3>1, RowsHaveType
    <3>3. \A j \in DOMAIN refunds : refunds[j] \in RefundRow
      BY <3>1, RowsHaveType
    <3> QED BY <3>1, <3>2, <3>3 DEF Shapes, PaymentRow, RefundRow, RefundsFit, Refundable, TypeOK
  <2> QED BY <2>1 DEF IInv, OnePerSlot, AnswersTrue, TrueOf, ChargedOnce
<1> QED BY <1>1, Invariance, PTL

\* A payment is REFUNDED exactly when its refund is recorded once, about to be
\* recorded by one request, or broke off between the two statements.
THEOREM RefundsBalanceHolds == Spec => []RefundsBalance
<1>1. IInv => RefundsBalance
  <2> SUFFICES ASSUME IInv, NEW i \in DOMAIN payments
               PROVE  LET records == {j \in DOMAIN refunds : refunds[j].payment = i}
                          writers == {w \in Worker : At(w, "record") /\ worker[w].payment = i}
                      IN  /\ Cardinality(records) + Cardinality(writers)
                                + Cardinality(untraced \cap {i})
                                = IF payments[i].status = "REFUNDED" THEN 1 ELSE 0
                          /\ \A j \in records : refunds[j].amount <= payments[i].amount
    BY DEF RefundsBalance
  <2> DEFINE records == {j \in DOMAIN refunds : refunds[j].payment = i}
             writers == {w \in Worker : At(w, "record") /\ worker[w].payment = i}
             lost == untraced \cap {i}
  <2>1. /\ payments[i].status = "REFUNDED" <=> records # {} \/ writers # {} \/ lost # {}
        /\ \A j, k \in records : j = k
        /\ \A v, w \in writers : v = w
        /\ records = {} \/ writers = {}
        /\ records = {} \/ lost = {}
        /\ writers = {} \/ lost = {}
    BY DEF IInv, RefundedHasForm, OneForm, Recorded, Writes
  <2>2. ASSUME NEW S, \A x, y \in S : x = y
        PROVE  Cardinality(S) = IF S = {} THEN 0 ELSE 1
    <3>1. CASE S = {}
      BY <3>1, FS_EmptySet
    <3>2. CASE S # {}
      <4> PICK x : x \in S
        BY <3>2
      <4>1. S = {x}
        BY <2>2
      <4> QED BY <3>2, <4>1, FS_Singleton
    <3> QED BY <3>1, <3>2
  <2>3. /\ Cardinality(records) = IF records = {} THEN 0 ELSE 1
        /\ Cardinality(writers) = IF writers = {} THEN 0 ELSE 1
        /\ Cardinality(lost) = IF lost = {} THEN 0 ELSE 1
    BY <2>1, <2>2
  <2>4. \A j \in records : refunds[j].amount <= payments[i].amount
    BY DEF IInv, RefundsFit, Refundable
  <2> HIDE DEF records, writers, lost
  <2>5. Cardinality(records) + Cardinality(writers) + Cardinality(lost)
            = IF payments[i].status = "REFUNDED" THEN 1 ELSE 0
    BY <2>1, <2>3
  <2> QED BY <2>4, <2>5 DEF records, writers, lost
<1> QED BY <1>1, Invariance, PTL
=============================================================================
