------------------------------- MODULE Payment -------------------------------
(***************************************************************************)
(* The payment service: internal/domain/payment.  A charge looks for a     *)
(* payment under its idempotency key, simulates the gateway and inserts a  *)
(* row; only the table's unique constraint keeps two charges under one key *)
(* apart.  A refund is two statements: the payment becomes REFUNDED, then  *)
(* a refund record is written.  Nothing of this runs in a transaction.     *)
(***************************************************************************)
EXTENDS Naturals, Sequences, FiniteSets

CONSTANTS
    Slot,           \* pairs (user_id, idempotency_key)
    OrderID,
    Amount,         \* amounts in minor units
    Worker,         \* concurrent requests
    MaxPayments     \* bound on payments

ASSUME PaymentAssumption ==
    /\ Amount \subseteq Nat
    /\ MaxPayments \in Nat

VARIABLES
    payments,   \* payments, in the order of their creation
    refunds,    \* payment_refunds
    answers,    \* answers to charges that name a payment
    untraced,   \* payments whose refund failed between its two statements
    worker

vars == <<payments, refunds, answers, untraced, worker>>

\* What the simulation trigger stands for; decline, timeout and network error
\* all store a FAILED payment.
Trigger == {"success", "failure"}

Idle == [pc |-> "idle"]

Init ==
    /\ payments = <<>> /\ refunds = <<>>
    /\ answers = {} /\ untraced = {}
    /\ worker = [w \in Worker |-> Idle]

At(w, l) == worker[w].pc = l
Become(w, state) == worker' = [worker EXCEPT ![w] = state]
Goto(w, l) == worker' = [worker EXCEPT ![w].pc = l]

\* GetPaymentByIdempotency
Under(s) == {i \in DOMAIN payments : payments[i].slot = s}

-----------------------------------------------------------------------------
(* AuthorizeAndCapture *)

\* The service's check, Payment.Validate and the table's CHECK.
ValidAmount(amount) == amount > 0

Charge(w, s, o, amount, trigger) ==
    /\ At(w, "idle") /\ Len(payments) < MaxPayments
    /\ ValidAmount(amount)
    /\ Become(w, [pc |-> "lookup", slot |-> s, order |-> o, amount |-> amount,
                  trigger |-> trigger])
    /\ UNCHANGED <<payments, refunds, answers, untraced>>

SamePayload(r, p) == p.order = r.order /\ p.amount = r.amount

\* A charge that finds payment i under its key answers with it, or with a
\* conflict.
Replay(w, i) ==
    /\ answers' = IF SamePayload(worker[w], payments[i])
                  THEN answers \cup {[slot |-> worker[w].slot, order |-> worker[w].order,
                                      amount |-> worker[w].amount, payment |-> i,
                                      captured |-> payments[i].status # "FAILED"]}
                  ELSE answers
    /\ Become(w, Idle)

Lookup(w) ==
    /\ At(w, "lookup")
    /\ \/ \E i \in Under(worker[w].slot) : Replay(w, i)
       \/ Under(worker[w].slot) = {} /\ Goto(w, "create") /\ UNCHANGED answers
    /\ UNCHANGED <<payments, refunds, untraced>>

\* An error of the lookup is taken for "not found".
LookupFails(w) ==
    /\ At(w, "lookup")
    /\ Goto(w, "create")
    /\ UNCHANGED <<payments, refunds, answers, untraced>>

\* Mutant: payments has no unique constraint.
NotUnique(s) == FALSE

\* uq_payments_user_idempotency
Duplicate(s) == Under(s) # {}

\* CreatePayment.  The client may not see the answer.
CreatePayment(w) ==
    LET r == worker[w]
        status == IF r.trigger = "success" THEN "SUCCESS" ELSE "FAILED"
    IN  /\ At(w, "create")
        /\ IF Duplicate(r.slot)
           THEN Goto(w, "refetch") /\ UNCHANGED <<payments, answers>>
           ELSE /\ payments' = Append(payments, [slot |-> r.slot, order |-> r.order,
                                                 amount |-> r.amount, status |-> status])
                /\ answers' \in {answers,
                                 answers \cup {[slot |-> r.slot, order |-> r.order,
                                                amount |-> r.amount,
                                                payment |-> Len(payments) + 1,
                                                captured |-> status = "SUCCESS"]}}
                /\ Become(w, Idle)
        /\ UNCHANGED <<refunds, untraced>>

\* The row the insert ran into.
Refetch(w) ==
    /\ At(w, "refetch")
    /\ \E i \in Under(worker[w].slot) : Replay(w, i)
    /\ UNCHANGED <<payments, refunds, untraced>>

-----------------------------------------------------------------------------
(* Refund *)

\* The payment is read and the amount checked against it.
Refund(w, i, amount) ==
    /\ At(w, "idle")
    /\ payments[i].status = "SUCCESS"
    /\ amount \in 1 .. payments[i].amount
    /\ Become(w, [pc |-> "transition", payment |-> i, amount |-> amount])
    /\ UNCHANGED <<payments, refunds, answers, untraced>>

\* Mutant: WHERE id = $1.
TransitionMatchesAny(i) == TRUE

\* WHERE id = $1 AND status = 'SUCCESS'
TransitionMatches(i) == payments[i].status = "SUCCESS"

TransitionPaymentStatus(w) ==
    LET i == worker[w].payment IN
    /\ At(w, "transition")
    /\ IF TransitionMatches(i)
       THEN /\ payments' = [payments EXCEPT ![i] = [slot |-> @.slot, order |-> @.order,
                                                    amount |-> @.amount, status |-> "REFUNDED"]]
            /\ Goto(w, "record")
       ELSE Become(w, Idle) /\ UNCHANGED payments
    /\ UNCHANGED <<refunds, answers, untraced>>

CreateRefund(w) ==
    LET r == worker[w] IN
    /\ At(w, "record")
    /\ refunds' = Append(refunds, [payment |-> r.payment, amount |-> r.amount])
    /\ Become(w, Idle)
    /\ UNCHANGED <<payments, answers, untraced>>

\* A database error, a cancelled context or a crash.
Abort(w) ==
    /\ ~At(w, "idle")
    /\ untraced' = IF At(w, "record") THEN untraced \cup {worker[w].payment} ELSE untraced
    /\ Become(w, Idle)
    /\ UNCHANGED <<payments, refunds, answers>>

\* POST /payments/simulate: a missing Idempotency-Key is replaced by a fresh one.
simulatePayment(w) ==
    \E s \in Slot, o \in OrderID, a \in Amount, t \in Trigger : Charge(w, s, o, a, t)

\* POST /payments/{id}/refund: any payment, of any customer; the
\* Idempotency-Key is not used.
refundPayment(w) == \E i \in DOMAIN payments, a \in Amount : Refund(w, i, a)

Next ==
    \E w \in Worker :
        \/ simulatePayment(w) \/ refundPayment(w)
        \/ Lookup(w) \/ LookupFails(w) \/ CreatePayment(w) \/ Refetch(w)
        \/ TransitionPaymentStatus(w) \/ CreateRefund(w)
        \/ Abort(w)

Spec == Init /\ [][Next]_vars

-----------------------------------------------------------------------------
(* Properties *)

\* Stored payments and refunds satisfy the tables' constraints.
TypeOK ==
    /\ \A i \in DOMAIN payments :
          /\ payments[i].slot \in Slot /\ payments[i].order \in OrderID
          /\ payments[i].amount \in Amount \ {0}
          /\ payments[i].status \in {"SUCCESS", "FAILED", "REFUNDED"}
    /\ \A j \in DOMAIN refunds :
          refunds[j].payment \in DOMAIN payments /\ refunds[j].amount \in Amount \ {0}
    /\ untraced \subseteq DOMAIN payments

\* A charge repeated under its key, at once, after a lost answer or after a
\* failed lookup, never charges the customer again: under a key there is one
\* well-formed payment.  And every answer under the key stays true of the
\* payment it names: what was answered as captured (declined) was captured
\* (declined) for that order and amount, whichever of several concurrent
\* requests made the charge.
ChargedOnce ==
    /\ TypeOK
    /\ \A i, j \in DOMAIN payments : payments[i].slot = payments[j].slot => i = j
    /\ \A a \in answers :
          LET p == payments[a.payment]
          IN  /\ a.payment \in DOMAIN payments
              /\ p.slot = a.slot /\ p.order = a.order /\ p.amount = a.amount
              /\ a.captured <=> p.status # "FAILED"

\* Money goes back once, and not unnoticed: a payment is REFUNDED exactly when
\* it has one refund record of at most its amount, or is about to get it, or
\* its refund broke off between the two statements.
RefundsBalance ==
    \A i \in DOMAIN payments :
        LET records == {j \in DOMAIN refunds : refunds[j].payment = i}
            writers == {w \in Worker : At(w, "record") /\ worker[w].payment = i}
        IN  /\ Cardinality(records) + Cardinality(writers) + Cardinality(untraced \cap {i})
                  = IF payments[i].status = "REFUNDED" THEN 1 ELSE 0
            /\ \A j \in records : refunds[j].amount <= payments[i].amount
=============================================================================
