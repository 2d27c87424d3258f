------------------------------- MODULE Pricing -------------------------------
(***************************************************************************)
(* Money and totals: internal/domain/money, Order.CalculateTotals,         *)
(* Cart.CalculateTotals and the consolidation of an order's lines.  Every  *)
(* amount is an int64 of minor units: a sum or a product the code does not *)
(* guard wraps round.                                                      *)
(***************************************************************************)
EXTENDS Integers, Sequences, FiniteSets

CONSTANTS
    Sku,            \* SKUs, numbered in their order as strings
    MaxInt64,       \* math.MaxInt64
    MaxInt32        \* the largest value of an INT column

ASSUME PricingAssumption ==
    /\ Sku \subseteq Nat /\ IsFiniteSet(Sku)
    /\ MaxInt64 \in Nat \ {0} /\ MaxInt32 \in 1 .. MaxInt64

\* Two's complement arithmetic.
Wrap(n) == ((n + MaxInt64 + 1) % (2 * (MaxInt64 + 1))) - (MaxInt64 + 1)

Money(amount, currency) == [err |-> "NONE", amount |-> amount, currency |-> currency]
MoneyError(e) == [err |-> e, amount |-> 0, currency |-> "NONE"]

\* Codes of three capital letters.
Currency == {"USD", "EUR"}

New(amount, currency) ==
    IF amount < 0 THEN MoneyError("NEGATIVE_AMOUNT")
    ELSE IF currency \notin Currency THEN MoneyError("INVALID_CURRENCY")
    ELSE Money(amount, currency)

Add(m, other) ==
    IF m.currency # other.currency THEN MoneyError("CURRENCY_MISMATCH")
    ELSE IF other.amount > 0 /\ m.amount > MaxInt64 - other.amount THEN MoneyError("OVERFLOW")
    ELSE Money(Wrap(m.amount + other.amount), m.currency)

Sub(m, other) ==
    IF m.currency # other.currency THEN MoneyError("CURRENCY_MISMATCH")
    ELSE IF m.amount < other.amount THEN MoneyError("NEGATIVE_AMOUNT")
    ELSE Money(Wrap(m.amount - other.amount), m.currency)

\* Mutant: the guard looks at the product, which has wrapped by then.
MultiplyLate(m, quantity) ==
    IF quantity < 0 THEN MoneyError("NEGATIVE_MULTIPLIER")
    ELSE IF Wrap(m.amount * quantity) < 0 THEN MoneyError("OVERFLOW")
    ELSE Money(Wrap(m.amount * quantity), m.currency)

Multiply(m, quantity) ==
    IF quantity < 0 THEN MoneyError("NEGATIVE_MULTIPLIER")
    ELSE IF quantity = 0 \/ m.amount = 0 THEN Money(0, m.currency)
    ELSE IF m.amount > MaxInt64 \div quantity THEN MoneyError("OVERFLOW")
    ELSE Money(Wrap(m.amount * quantity), m.currency)

-----------------------------------------------------------------------------
\* What the loops of CalculateTotals carry: the first error, the total so far.
NoTotal(e) == [err |-> e, total |-> 0]
TotalOf(t) == [err |-> "NONE", total |-> t]

\* Mutant: the sum is not guarded.
AddSubtotalWraps(acc, item) ==
    IF item.price > MaxInt64 \div item.qty THEN NoTotal("OVERFLOW")
    ELSE TotalOf(Wrap(acc.total + item.price * item.qty))

\* One item with a positive quantity is priced and added.
AddSubtotal(acc, item) ==
    LET subtotal == Wrap(item.price * item.qty)
    IN  IF \/ item.price > MaxInt64 \div item.qty
           \/ subtotal > 0 /\ acc.total > MaxInt64 - subtotal
        THEN NoTotal("OVERFLOW")
        ELSE TotalOf(Wrap(acc.total + subtotal))

OrderLine(acc, item) ==
    IF acc.err # "NONE" THEN acc
    ELSE IF item.qty <= 0 THEN NoTotal("INVALID_QUANTITY")
    ELSE IF item.price <= 0 THEN NoTotal("INVALID_PRICE")
    ELSE AddSubtotal(acc, item)

CartLine(acc, item) ==
    IF acc.err # "NONE" THEN acc
    ELSE IF item.qty <= 0 THEN NoTotal("INVALID_QUANTITY")
    ELSE IF item.price < 0 THEN NoTotal("INVALID_PRICE")
    ELSE AddSubtotal(acc, item)

OrderTotal(items) ==
    LET sum[i \in 0 .. Len(items)] ==
            IF i = 0 THEN TotalOf(0) ELSE OrderLine(sum[i - 1], items[i])
    IN  IF items = <<>> THEN NoTotal("EMPTY_ORDER_ITEMS") ELSE sum[Len(items)]

CartTotal(items) ==
    LET sum[i \in 0 .. Len(items)] ==
            IF i = 0 THEN TotalOf(0) ELSE CartLine(sum[i - 1], items[i])
    IN  sum[Len(items)]

\* skuMap[sku] += quantity, line by line, in Go's int.
AddQuantity(sku, n, line) == IF line.sku = sku THEN Wrap(n + line.qty) ELSE n

QuantityOf(sku, lines) ==
    LET sum[i \in 0 .. Len(lines)] ==
            IF i = 0 THEN 0 ELSE AddQuantity(sku, sum[i - 1], lines[i])
    IN  sum[Len(lines)]

Consolidate(lines) ==
    [sku \in {lines[i].sku : i \in DOMAIN lines} |-> QuantityOf(sku, lines)]

\* The SKUs in their order.
Ascending(skus) ==
    CHOOSE s \in [1 .. Cardinality(skus) -> skus] :
        \A i, j \in DOMAIN s : i < j => s[i] < s[j]

-----------------------------------------------------------------------------
(* The reference definition *)

\* The sum of price times quantity as a mathematical integer.
ExactTotal(items) ==
    LET sum[i \in 0 .. Len(items)] ==
            IF i = 0 THEN 0 ELSE sum[i - 1] + items[i].price * items[i].qty
    IN  sum[Len(items)]
=============================================================================
