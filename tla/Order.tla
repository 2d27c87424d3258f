-------------------------------- MODULE Order --------------------------------
(***************************************************************************)
(* The order service: internal/domain/order and the saga's adapter in      *)
(* cmd/shopflow/main.go.  A checkout prices its lines before its           *)
(* transaction, which takes the idempotency key and stores the order, its  *)
(* items, its event and the cached answer together.  A status change reads *)
(* the order first and decides on what it read; the guarded UPDATE in its  *)
(* transaction has to notice when that is out of date.                     *)
(*                                                                         *)
(* A slot is a pair (user_id, idempotency_key).  The row of a slot in      *)
(* idempotency_keys is locked from LockIdempotencyKey to the end of the    *)
(* transaction; order rows are not locked between statements.              *)
(***************************************************************************)
EXTENDS Pricing

CONSTANTS
    Slot,           \* pairs (user_id, idempotency_key)
    Body,           \* request bodies
    LinesOf,        \* the lines of each body
    PriceList,      \* prices the catalog may have when it is read; 0 is "not for sale"
    Worker,         \* concurrent requests
    NONE,           \* no order, no row, no holder
    MaxOrders,      \* bound on orders
    MaxVersion,     \* bound on an order's version
    MaxMessages     \* bound on the messages stored before a status change begins

ASSUME OrderAssumption ==
    /\ LinesOf \in [Body -> Seq([sku : Sku, qty : Int])]
    /\ PriceList \subseteq [Sku -> 0 .. MaxInt64]
    /\ NONE \notin Worker
    /\ MaxOrders \in Nat /\ MaxVersion \in Nat \ {0} /\ MaxMessages \in Nat

VARIABLES
    orders,     \* orders and order_items, in the order of their creation
    events,     \* outbox_messages of the orders, in the order in which they commit
    idem,       \* idempotency_keys, committed rows
    holder,     \* the transaction that has locked a slot's key
    answers,    \* successful answers to checkouts
    worker      \* where each request is and what it has read

vars == <<orders, events, idem, holder, answers, worker>>

Status == {"PENDING", "RESERVING_STOCK", "STOCK_RESERVED", "PAYING", "PAID",
           "CONFIRMED", "CANCELLED", "REFUNDED"}

Idle == [pc |-> "idle"]

Init ==
    /\ orders = <<>> /\ events = <<>> /\ answers = {}
    /\ idem = [s \in Slot |-> NONE]
    /\ holder = [s \in Slot |-> NONE]
    /\ worker = [w \in Worker |-> Idle]

At(w, l) == worker[w].pc = l
Become(w, state) == worker' = [worker EXCEPT ![w] = state]

-----------------------------------------------------------------------------
(* Placing an order *)

\* The items of an order: one per SKU, in SKU order, at the catalog's prices.
LineItems(body, price) ==
    LET qty == Consolidate(LinesOf[body])
        skus == Ascending(DOMAIN qty)
    IN  [i \in DOMAIN skus |-> [sku |-> skus[i], price |-> price[skus[i]], qty |-> qty[skus[i]]]]

\* CreateOrder up to its transaction: the lines are valid, every product is
\* for sale, the total fits.
StartCreate(w, s, body, price) ==
    /\ At(w, "idle")
    /\ Len(orders) < MaxOrders
    /\ \A i \in DOMAIN LinesOf[body] : LinesOf[body][i].qty > 0
    /\ LET items == LineItems(body, price)
           sum == OrderTotal(items)
       IN  /\ sum.err = "NONE"
           /\ Become(w, [pc |-> "lock", slot |-> s, body |-> body, items |-> items,
                         total |-> sum.total])
    /\ UNCHANGED <<orders, events, idem, holder, answers>>

\* Mutant: the request hash is not compared.
KeyOutcomeAnyBody(row, body) ==
    IF row = NONE \/ row.expired THEN "new"
    ELSE IF row.status = "PROCESSING" THEN "busy"
    ELSE IF row.status = "FAILED" THEN "new" ELSE "cached"

\* What LockIdempotencyKey finds in the slot's row.
KeyOutcome(row, body) ==
    IF row = NONE \/ row.expired THEN "new"
    ELSE IF row.body # body THEN "conflict"
    ELSE IF row.status = "PROCESSING" THEN "busy"
    ELSE IF row.status = "FAILED" THEN "new" ELSE "cached"

\* The INSERT waits for a transaction that holds the key.  Then the request
\* goes on with the row as its own, or ends with the cached answer or an
\* error; either way the answer may be lost on its way to the client.
LockIdempotencyKey(w) ==
    /\ At(w, "lock")
    /\ LET s == worker[w].slot
           found == KeyOutcome(idem[s], worker[w].body)
       IN  /\ holder[s] = NONE
           /\ IF found = "new"
              THEN /\ holder' = [holder EXCEPT ![s] = w]
                   /\ worker' = [worker EXCEPT ![w].pc = "insert"]
                   /\ UNCHANGED answers
              ELSE /\ Become(w, Idle)
                   /\ answers' \in IF found = "cached"
                                   THEN {answers, answers \cup {[slot |-> s, body |-> worker[w].body,
                                                                 order |-> idem[s].order]}}
                                   ELSE {answers}
                   /\ UNCHANGED holder
    /\ UNCHANGED <<orders, events, idem>>

\* uq_orders_user_idempotency
Duplicate(s) == \E i \in DOMAIN orders : orders[i].slot = s

\* The CHECKs and column types of orders and order_items.
RowsOK(items, total) ==
    /\ total >= 0
    /\ \A i \in DOMAIN items : items[i].qty \in 1 .. MaxInt32 /\ items[i].price > 0

\* CompleteIdempotencyKey: the row inserted or reset by LockIdempotencyKey.
PlacedKey(s, body, id) ==
    [status |-> "COMPLETED", body |-> body, order |-> id, expired |-> FALSE]

\* The transaction ends: its changes are gone, its key is free again.
Rollback(w) ==
    /\ holder' = [holder EXCEPT ![worker[w].slot] = NONE]
    /\ Become(w, Idle)

\* A row of outbox_messages.  The payload of OrderStatusChanged has from, to and version,
\* and its event_type names from and to; the others have neither from nor version, where
\* these are the call's.  History: did the storing transaction itself make that version?
Message(type, o, from, to, ver, own) ==
    [type |-> type, order |-> o, from |-> from, to |-> to, version |-> ver, own |-> own]

\* CreateOrderWithItemsAndOutbox and CompleteIdempotencyKey, then COMMIT; the
\* client may not see the answer.
CreateOrderTx(w) ==
    LET r == worker[w]
        id == Len(orders) + 1
    IN  /\ At(w, "insert")
        /\ IF Duplicate(r.slot) \/ ~RowsOK(r.items, r.total)
           THEN UNCHANGED <<orders, events, idem, answers>>
           ELSE /\ orders' = Append(orders, [slot |-> r.slot, body |-> r.body, items |-> r.items,
                                             total |-> r.total, status |-> "PENDING", version |-> 1,
                                             past |-> <<"PENDING">>])
                /\ events' = Append(events, Message("OrderCreated", id, "NONE", "PENDING", 1, TRUE))
                /\ idem' = [idem EXCEPT ![r.slot] = PlacedKey(r.slot, r.body, id)]
                /\ answers' \in {answers,
                                 answers \cup {[slot |-> r.slot, body |-> r.body, order |-> id]}}
        /\ Rollback(w)

-----------------------------------------------------------------------------
(* Changing an order's status *)

CanTransitionTo(from, to) ==
    \/ from = to
    \/ from = "PENDING" /\ to \in {"RESERVING_STOCK", "CANCELLED"}
    \/ from = "RESERVING_STOCK" /\ to \in {"STOCK_RESERVED", "CANCELLED"}
    \/ from = "STOCK_RESERVED" /\ to \in {"PAYING", "CANCELLED"}
    \/ from = "PAYING" /\ to \in {"PAID", "CANCELLED"}
    \/ from = "PAID" /\ to \in {"CONFIRMED", "REFUNDED"}

\* A call of op that will write status to, given what it read.
Writer(l, op, o, from, to, ver) ==
    [pc |-> l, op |-> op, order |-> o, from |-> from, to |-> to, ver |-> ver]

Unbounded(o) == orders[o].version < MaxVersion /\ Len(events) < MaxMessages

\* Up to its transaction.
TransitionStatus(w, o, from, to, ver) ==
    /\ CanTransitionTo(from, to)
    /\ Become(w, Writer("update", "transition", o, from, to, ver))

\* orderCommanderAdapter.UpdateStatus: one read, then TransitionStatus.
UpdateStatus(w, o, to) ==
    /\ At(w, "idle") /\ Unbounded(o)
    /\ TransitionStatus(w, o, orders[o].status, to, orders[o].version)
    /\ UNCHANGED <<orders, events, idem, holder, answers>>

\* Service.CancelOrder up to its transaction.  The saga's adapter reads the
\* order once more before, which can only end the call earlier.
CancelOrder(w, o) ==
    /\ At(w, "idle") /\ Unbounded(o)
    /\ CanTransitionTo(orders[o].status, "CANCELLED")
    /\ Become(w, Writer("update", "cancel", o, orders[o].status, "CANCELLED",
                        orders[o].version))
    /\ UNCHANGED <<orders, events, idem, holder, answers>>

\* orderCommanderAdapter.ConfirmOrder: the version the UPDATE will expect.
AdapterRead(w, o) ==
    /\ At(w, "idle") /\ Unbounded(o)
    /\ orders[o].status # "CONFIRMED"
    /\ Become(w, Writer("confirm", "confirm", o, "NONE", "CONFIRMED", orders[o].version))
    /\ UNCHANGED <<orders, events, idem, holder, answers>>

\* Service.ConfirmOrder: the status is read again, the version is the
\* adapter's.
ConfirmOrder(w) ==
    /\ At(w, "confirm")
    /\ LET o == worker[w].order
           s == orders[o].status
       IN  IF s # "CONFIRMED" /\ CanTransitionTo(s, "CONFIRMED")
           THEN Become(w, Writer("update", "confirm", o, s, "CONFIRMED", worker[w].ver))
           ELSE Become(w, Idle)
    /\ UNCHANGED <<orders, events, idem, holder, answers>>

\* Mutant: WHERE id = $2.
UpdateMatchesAny(o, from, ver) == TRUE

\* WHERE id = $2 AND status = $3 AND version = $4
UpdateMatches(o, from, ver) == orders[o].status = from /\ orders[o].version = ver

\* The messages that a call r stores with version ver of its order, in this order.
Announce(r, ver, own) ==
    LET msg(type) == Message(type, r.order, r.from, r.to, ver, own)
    IN  CASE r.op = "cancel" -> <<msg("OrderCancelled")>>
          [] r.op = "confirm" -> <<msg("OrderStatusChanged"), msg("OrderConfirmed")>>
          [] r.op = "transition" -> <<msg("OrderStatusChanged")>>

\* The UPDATE finds its row: status, version and messages commit together.
UpdateOrderStatus(w) ==
    LET r == worker[w]
        new == orders[r.order].version + 1
    IN  /\ At(w, "update")
        /\ UpdateMatches(r.order, r.from, r.ver)
        /\ orders' = [orders EXCEPT ![r.order] =
                        [slot |-> @.slot, body |-> @.body, items |-> @.items, total |-> @.total,
                         status |-> r.to, version |-> new, past |-> Append(@.past, r.to)]]
        /\ events' = events \o Announce(r, new, TRUE)
        /\ Become(w, Idle)
        /\ UNCHANGED <<idem, holder, answers>>

\* Mutant: an "idempotent success" reports the version the caller expected.
SeenVersionExpected(w) == worker[w].ver

SeenVersion(w) == orders[worker[w].order].version

\* It finds none: the row is read again, without a lock.  In the target
\* status this counts as success, and the messages are inserted all the same;
\* anything else is an error.
CheckCurrent(w) ==
    LET r == worker[w] IN
    /\ At(w, "update")
    /\ ~UpdateMatches(r.order, r.from, r.ver)
    /\ IF orders[r.order].status = r.to
       THEN Become(w, Writer("announce", r.op, r.order, r.from, r.to, SeenVersion(w)))
       ELSE Become(w, Idle)
    /\ UNCHANGED <<orders, events, idem, holder, answers>>

AnnounceAgain(w) ==
    /\ At(w, "announce")
    /\ events' = events \o Announce(worker[w], worker[w].ver, FALSE)
    /\ Become(w, Idle)
    /\ UNCHANGED <<orders, idem, holder, answers>>

-----------------------------------------------------------------------------
(* The environment *)

\* A database error, a cancelled context or a crash ends a request; its
\* transaction, if it has one, is rolled back.
Abort(w) ==
    /\ ~At(w, "idle")
    /\ IF At(w, "insert") THEN Rollback(w) ELSE Become(w, Idle) /\ UNCHANGED holder
    /\ UNCHANGED <<orders, events, idem, answers>>

\* expires_at passes.
KeyExpires(s) ==
    /\ idem[s] # NONE /\ ~idem[s].expired
    /\ idem' = [idem EXCEPT ![s] = [status |-> @.status, body |-> @.body, order |-> @.order,
                                    expired |-> TRUE]]
    /\ UNCHANGED <<orders, events, holder, answers, worker>>

Orders == DOMAIN orders

\* POST /orders: any body under any key of the customer, at the catalog's prices
\* of the moment.
createOrder(w) ==
    \E s \in Slot, body \in Body, price \in PriceList : StartCreate(w, s, body, price)

\* POST /orders/{id}/cancel, by the customer who placed the order.
cancelOrder(w) == \E o \in Orders : CancelOrder(w, o)

\* The saga's calls.
orderCommanderAdapter(w) ==
    \E o \in Orders : AdapterRead(w, o) \/ \E to \in Status : UpdateStatus(w, o, to)

Next ==
    \/ \E w \in Worker :
          \/ createOrder(w) \/ cancelOrder(w) \/ orderCommanderAdapter(w)
          \/ LockIdempotencyKey(w) \/ CreateOrderTx(w)
          \/ ConfirmOrder(w) \/ UpdateOrderStatus(w) \/ CheckCurrent(w) \/ AnnounceAgain(w)
          \/ Abort(w)
    \/ \E s \in Slot : KeyExpires(s)

Spec == Init /\ [][Next]_vars

-----------------------------------------------------------------------------
(* Properties *)

\* Stored rows satisfy the tables' constraints, and a key is locked exactly
\* while the transaction that inserts under it is open.
TypeOK ==
    /\ \A o \in Orders :
          /\ orders[o].slot \in Slot /\ orders[o].status \in Status
          /\ orders[o].version \in 1 .. MaxVersion
    /\ \A i \in DOMAIN events : events[i].order \in Orders
    /\ \A s \in Slot :
          /\ idem[s] # NONE => idem[s].order \in Orders
          /\ holder[s] # NONE <=> \E w \in Worker : At(w, "insert") /\ worker[w].slot = s
          /\ \A w \in Worker : At(w, "insert") /\ worker[w].slot = s => holder[s] = w

\* The rows are well formed, and every successful answer under a key names that
\* key's order and was given for the body that order was placed with.
AnswersAgree ==
    /\ TypeOK
    /\ \A a \in answers :
          /\ a.order \in Orders
          /\ orders[a.order].slot = a.slot
          /\ orders[a.order].body = a.body

\* A message names the status the order had in its version.  Its writer names the
\* status before it, too; one who found the order already there names a status the
\* order had some time before, not always the last.
MessageTrue(e) ==
    LET past == orders[e.order].past IN
    /\ e.version \in DOMAIN past /\ past[e.version] = e.to
    /\ e.own => e.from = IF e.version = 1 THEN "NONE" ELSE past[e.version - 1]
    /\ ~e.own => \E v \in DOMAIN past : v < e.version /\ past[v] = e.from

\* The writer's message comes before every other of its version, and once: only
\* OrderConfirmed follows the status change it belongs to.
StoredAfter(d, e) ==
    d.version < e.version \/ (d.version = e.version /\ d.own
                              /\ d.type = "OrderStatusChanged" /\ e.type = "OrderConfirmed")

\* Every version of every order is announced once by the call that wrote it, with
\* the change it really was, in the order of the versions; whatever an "idempotent
\* success" announces comes after, and names the status of that version but perhaps
\* another status before.  Cancelling a cancelled order is a version of its own here.
EventsTruthful ==
    /\ \A o \in Orders : \A v \in 1 .. orders[o].version :
          \E i \in DOMAIN events : events[i].own /\ events[i].order = o /\ events[i].version = v
    /\ \A i \in DOMAIN events : MessageTrue(events[i])
    /\ \A i \in DOMAIN events :
          IF events[i].own
          THEN \A j \in 1 .. i - 1 :
                  events[j].order = events[i].order => StoredAfter(events[j], events[i])
          ELSE \E j \in 1 .. i - 1 :
                  /\ events[j].own /\ events[j].order = events[i].order
                  /\ events[j].version = events[i].version

\* The overflow guards of CalculateTotals hold up: the total of a stored order is an
\* int64 and the exact sum of its items, whatever the catalog's prices were when they
\* were read.  The quantities of the items are those that were summed, without a
\* guard, from the lines of the body.
TotalExact ==
    \A o \in Orders :
        /\ orders[o].total \in 0 .. MaxInt64
        /\ orders[o].total = ExactTotal(orders[o].items)

\* The one order of a slot; the order book knows no slot with two.
BookOf(s) ==
    LET placed == {o \in Orders : orders[o].slot = s}
    IN  CASE placed = {} -> "NONE"
          [] Cardinality(placed) = 1 -> orders[CHOOSE o \in placed : TRUE].status
          [] OTHER -> "MANY"

Book == INSTANCE OrderBook WITH book <- [s \in Slot |-> BookOf(s)]

\* The order service implements the order book: a checkout repeated under its
\* key, at once, concurrently, after a lost answer or after the key expired, never
\* creates a second order, and under interleaved cancellations, confirmations and
\* status updates, each on stale reads, an order moves along the life cycle only.
ImplementsBook == Book!BookSpec
=============================================================================
