----------------------------- MODULE OrderProofs -----------------------------
(***************************************************************************)
(* The order service implements the order book, answers consistently,      *)
(* announces every version truthfully and prices its orders exactly, for   *)
(* any number of keys, requests and orders; a cart loses no update and     *)
(* shows what it holds at its exact price, for any number of clients.      *)
(***************************************************************************)
EXTENDS Order, Cart, FiniteSetTheorems, SequenceTheorems, TLAPS

-----------------------------------------------------------------------------
(* Induction, loops and ascending sequences *)

\* A non-empty set of naturals has a least element.
LEMMA LeastExists ==
    ASSUME NEW S, S \subseteq Nat, S # {}
    PROVE  \E n \in S : \A m \in S : n <= m
<1> DEFINE below(n) == 0 .. (n - 1)
           T == {below(n) : n \in S}
<1>1. IsWellFoundedOn(StrictSubsetOrdering(Nat), FiniteSubsetsOf(Nat))
  BY FS_StrictSubsetOrderingWellFounded
<1>2. T \subseteq FiniteSubsetsOf(Nat) /\ T # {}
  <2>1. ASSUME NEW n \in S PROVE below(n) \subseteq Nat /\ IsFiniteSet(below(n))
    <3>1. 0 \in Int /\ n - 1 \in Int
      OBVIOUS
    <3> QED
      BY <3>1, FS_Interval
  <2> QED
    BY <2>1 DEF FiniteSubsetsOf
<1>3. \E m \in T : \A y \in T : ~ (<<y, m>> \in StrictSubsetOrdering(Nat))
  <2> HIDE DEF T
  <2> QED
    BY <1>1, <1>2, WFMin
<1>4. PICK n \in S : \A y \in T : ~ (<<y, below(n)>> \in StrictSubsetOrdering(Nat))
  BY <1>3
<1>5. ASSUME NEW m \in S, m < n PROVE FALSE
  <2>1. m \in Nat /\ n \in Nat
    OBVIOUS
  <2>2. below(m) \subseteq below(n) /\ m \in below(n) /\ m \notin below(m)
    BY <1>5, <2>1
  <2>3. below(m) \subseteq Nat /\ below(n) \subseteq Nat
    BY <2>1
  <2>4. <<below(m), below(n)>> \in StrictSubsetOrdering(Nat)
    BY <2>2, <2>3 DEF StrictSubsetOrdering
  <2> QED
    BY <1>4, <2>4
<1> QED
  BY <1>5

\* Induction up to n, for a set given by its elements.
LEMMA UpTo ==
    ASSUME NEW n \in Nat, NEW S, 0 \in S, \A i \in 1 .. n : i - 1 \in S => i \in S
    PROVE  0 .. n \subseteq S
<1> DEFINE bad == {i \in 0 .. n : i \notin S}
<1>1. ASSUME bad # {} PROVE FALSE
  <2>1. bad \subseteq Nat
    OBVIOUS
  <2>2. PICK i \in bad : \A j \in bad : i <= j
    <3> HIDE DEF bad
    <3> QED
      BY <1>1, <2>1, LeastExists
  <2>3. i \in 1 .. n /\ i - 1 \in 0 .. n /\ i - 1 < i
    BY <2>2
  <2>4. i - 1 \in S
    BY <2>1, <2>2, <2>3
  <2> QED
    BY <2>2, <2>3, <2>4
<1> QED
  BY <1>1

\* f are the values of a loop of n rounds in V: g[<<i, v>>] is the value after its
\* i-th round when it was v before.
RunOf(f, n, V, start, g) ==
    /\ f \in [0 .. n -> V]
    /\ f[0] = start
    /\ \A i \in 1 .. n : f[i] = g[<<i, f[i - 1]>>]
Rounds(n, V) == [(1 .. n) \X V -> V]

\* A loop has its sequence of values.
LEMMA LoopRuns ==
    ASSUME NEW n \in Nat, NEW V, NEW start \in V, NEW g \in Rounds(n, V)
    PROVE  \E f : RunOf(f, n, V, start, g)
<1> USE DEF Rounds
<1> DEFINE runs(m) == {f \in [0 .. m -> V] : f[0] = start
                                             /\ \A i \in 1 .. m : f[i] = g[<<i, f[i - 1]>>]}
           S == {m \in 0 .. n : runs(m) # {}}
<1>1. 0 \in S
  <2>1. [i \in 0 .. 0 |-> start] \in runs(0)
    OBVIOUS
  <2> QED
    BY <2>1
<1>2. ASSUME NEW m \in 1 .. n, m - 1 \in S PROVE m \in S
  <2>1. PICK f \in [0 .. (m - 1) -> V] : f[0] = start
                                         /\ \A i \in 1 .. (m - 1) : f[i] = g[<<i, f[i - 1]>>]
    BY <1>2
  <2> DEFINE h == [i \in 0 .. m |-> IF i = m THEN g[<<m, f[m - 1]>>] ELSE f[i]]
  <2>2. f[m - 1] \in V /\ <<m, f[m - 1]>> \in (1 .. n) \X V
    OBVIOUS
  <2>3. h \in [0 .. m -> V]
    <3>1. g[<<m, f[m - 1]>>] \in V
      BY <2>2
    <3>2. \A i \in 0 .. m : i # m => f[i] \in V
      OBVIOUS
    <3> QED
      BY <3>1, <3>2
  <2>4. h[0] = start
    BY <2>1
  <2>5. ASSUME NEW i \in 1 .. m PROVE h[i] = g[<<i, h[i - 1]>>]
    <3>1. h[i - 1] = f[i - 1]
      OBVIOUS
    <3>2. CASE i = m
      <4>1. h[i] = g[<<m, f[m - 1]>>]
        BY <3>2
      <4> HIDE DEF h
      <4> QED
        BY <3>1, <3>2, <4>1
    <3>3. CASE i # m
      <4>1. i \in 1 .. (m - 1) /\ h[i] = f[i]
        BY <3>3
      <4> HIDE DEF h
      <4> QED
        BY <2>1, <3>1, <4>1
    <3> QED
      BY <3>2, <3>3
  <2>6. h \in runs(m)
    BY <2>3, <2>4, <2>5
  <2>7. m \in 0 .. n
    OBVIOUS
  <2> HIDE DEF h, runs
  <2> QED
    BY <2>6, <2>7
<1>3. n \in 0 .. n
  OBVIOUS
<1> HIDE DEF S
<1>4. 0 .. n \subseteq S
  BY <1>1, <1>2, UpTo
<1>5. n \in S
  BY <1>3, <1>4
<1> QED
  BY <1>5 DEF S, RunOf

\* What holds at the start of a loop and is kept by its rounds holds of its values.
LEMMA LoopStays ==
    ASSUME NEW n \in Nat, NEW V, NEW h, h = [i \in 0 .. n |-> h[i]], h[0] \in V,
           \A i \in 1 .. n : h[i - 1] \in V => h[i] \in V
    PROVE  h \in [0 .. n -> V]
<1> DEFINE S == {i \in 0 .. n : h[i] \in V}
<1>1. 0 \in S /\ \A i \in 1 .. n : i - 1 \in S => i \in S
  OBVIOUS
<1>2. 0 .. n \subseteq S
  <2> HIDE DEF S
  <2> QED
    BY <1>1, UpTo
<1>3. \A i \in 0 .. n : h[i] \in V
  BY <1>2
<1> QED
  BY <1>3

\* Every finite set of SKUs has its ascending sequence.
LEMMA AscendingExists ==
    ASSUME NEW S, S \subseteq Nat, IsFiniteSet(S)
    PROVE  \E s \in [1 .. Cardinality(S) -> S] : \A i, j \in DOMAIN s : i < j => s[i] < s[j]
<1> DEFINE seqs(X) == {s \in [1 .. Cardinality(X) -> X] : \A i, j \in DOMAIN s : i < j => s[i] < s[j]}
           bad == {X \in FiniteSubsetsOf(Nat) : seqs(X) = {}}
<1>1. ASSUME bad # {} PROVE FALSE
  <2>1. bad \subseteq FiniteSubsetsOf(Nat)
    OBVIOUS
  <2>2. IsWellFoundedOn(StrictSubsetOrdering(Nat), FiniteSubsetsOf(Nat))
    BY FS_StrictSubsetOrderingWellFounded
  <2>3. PICK X \in bad : \A Y \in bad : ~ (<<Y, X>> \in StrictSubsetOrdering(Nat))
    <3> HIDE DEF bad
    <3> QED
      BY <1>1, <2>1, <2>2, WFMin
  <2>4. X \subseteq Nat /\ IsFiniteSet(X) /\ seqs(X) = {}
    BY <2>3 DEF FiniteSubsetsOf
  <2>5. X # {}
    <3>1. ASSUME X = {} PROVE FALSE
      <4>1. Cardinality(X) = 0
        BY <3>1, FS_EmptySet
      <4>2. [i \in 1 .. 0 |-> 0] \in seqs(X)
        BY <3>1, <4>1
      <4> QED
        BY <2>4, <4>2
    <3> QED
      BY <3>1
  <2>6. PICK m \in X : \A k \in X : m <= k
    <3> HIDE DEF seqs
    <3> QED
      BY <2>4, <2>5, LeastExists
  <2> DEFINE Y == X \ {m}
             n == Cardinality(Y)
  <2>7. IsFiniteSet(Y) /\ n \in Nat /\ Cardinality(X) = n + 1
    <3>1. IsFiniteSet(Y) /\ Cardinality(Y) = Cardinality(X) - 1 /\ Cardinality(X) \in Nat
      BY <2>4, <2>6, FS_RemoveElement, FS_CardinalityType
    <3>2. Cardinality(Y) \in Nat
      BY <3>1, FS_CardinalityType
    <3> QED
      BY <3>1, <3>2
  <2>8. <<Y, X>> \in StrictSubsetOrdering(Nat) /\ Y \in FiniteSubsetsOf(Nat)
    BY <2>4, <2>6, <2>7 DEF StrictSubsetOrdering, FiniteSubsetsOf
  <2>9. seqs(Y) # {}
    BY <2>3, <2>8
  <2>10. PICK t \in [1 .. n -> Y] : \A i, j \in 1 .. n : i < j => t[i] < t[j]
    BY <2>9
  <2> HIDE DEF n
  <2> DEFINE s == [i \in 1 .. (n + 1) |-> IF i = 1 THEN m ELSE t[i - 1]]
  <2>11. \A i \in 2 .. (n + 1) : i - 1 \in 1 .. n /\ t[i - 1] \in Y
    BY <2>7, <2>10
  <2>12. s \in [1 .. (n + 1) -> X]
    BY <2>6, <2>7, <2>11
  <2>13. ASSUME NEW i \in 1 .. (n + 1), NEW j \in 1 .. (n + 1), i < j PROVE s[i] < s[j]
    <3>1. j \in 2 .. (n + 1) /\ j - 1 \in 1 .. n /\ s[j] = t[j - 1] /\ t[j - 1] \in Y
      BY <2>7, <2>11, <2>13
    <3>2. CASE i = 1
      <4>1. m <= t[j - 1] /\ m # t[j - 1] /\ m \in Nat /\ t[j - 1] \in Nat
        BY <2>4, <2>6, <3>1
      <4> QED
        BY <3>1, <3>2, <4>1
    <3>3. CASE i # 1
      <4>1. i \in 2 .. (n + 1) /\ i - 1 \in 1 .. n /\ s[i] = t[i - 1] /\ i - 1 < j - 1
        BY <2>7, <2>13, <3>3
      <4> QED
        BY <2>10, <3>1, <4>1
    <3> QED
      BY <3>2, <3>3
  <2>14. s \in seqs(X)
    <3> HIDE DEF s
    <3> QED
      BY <2>7, <2>12, <2>13
  <2> QED
    BY <2>4, <2>14
<1>2. S \in FiniteSubsetsOf(Nat)
  BY DEF FiniteSubsetsOf
<1>3. seqs(S) # {}
  BY <1>1, <1>2
<1> QED
  BY <1>3

\* A set's SKUs in their order are its SKUs.
LEMMA AscendingIsSeq ==
    ASSUME NEW S, S \subseteq Nat, IsFiniteSet(S)
    PROVE  /\ Ascending(S) \in [1 .. Cardinality(S) -> S] /\ Ascending(S) \in Seq(S)
           /\ \A i, j \in DOMAIN Ascending(S) : i < j => Ascending(S)[i] < Ascending(S)[j]
<1>1. /\ Ascending(S) \in [1 .. Cardinality(S) -> S]
      /\ \A i, j \in DOMAIN Ascending(S) : i < j => Ascending(S)[i] < Ascending(S)[j]
  BY AscendingExists DEF Ascending
<1>2. Cardinality(S) \in Nat
  BY FS_CardinalityType
<1> HIDE DEF Ascending
<1> QED
  BY <1>1, <1>2

-----------------------------------------------------------------------------
(* Two's complement *)

\* Wrap is the identity on int64, stays in int64, and does not tell apart numbers
\* that differ by whole turns.
LEMMA WrapIsMod ==
    ASSUME NEW a \in Int
    PROVE  /\ Wrap(a) \in -(MaxInt64 + 1) .. MaxInt64
           /\ a \in -(MaxInt64 + 1) .. MaxInt64 => Wrap(a) = a
           /\ \E k \in Int : Wrap(a) = a + k * (2 * (MaxInt64 + 1))
<1> DEFINE w == 2 * (MaxInt64 + 1)
           b == a + MaxInt64 + 1
<1>0. MaxInt64 \in Nat \ {0}
  BY PricingAssumption
<1>1. w \in Nat \ {0} /\ b \in Int
  BY <1>0
<1>2. Wrap(a) = (b % w) - (MaxInt64 + 1)
  BY DEF Wrap
<1>3. w = 2 * MaxInt64 + 2 /\ b = a + MaxInt64 + 1
  BY <1>0
<1> HIDE DEF w, b
<1>4. b % w \in 0 .. (w - 1)
  BY <1>1
<1>5. Wrap(a) \in -(MaxInt64 + 1) .. MaxInt64
  BY <1>0, <1>2, <1>3, <1>4
<1>6. ASSUME a \in -(MaxInt64 + 1) .. MaxInt64 PROVE Wrap(a) = a
  <2>1. b \in 0 .. (w - 1)
    BY <1>0, <1>3, <1>6
  <2>2. b % w = b
    BY <1>1, <2>1
  <2> QED
    BY <1>0, <1>2, <1>3, <2>2
<1>7. \E k \in Int : Wrap(a) = a + k * w
  <2>1. b \div w \in Int /\ b % w = b - (b \div w) * w
    BY <1>1
  <2>2. PICK q \in Int : b % w = b - q * w
    BY <2>1
  <2>3. -q \in Int /\ (-q) * w = -(q * w) /\ q * w \in Int
    BY <1>1
  <2>4. Wrap(a) = a + (-q) * w
    BY <1>0, <1>2, <1>3, <2>2, <2>3
  <2> QED
    BY <2>3, <2>4
<1> QED
  BY <1>5, <1>6, <1>7 DEF w

\* The guard of a product: a price is above the quotient exactly when the product
\* does not fit.
LEMMA ProductFits ==
    ASSUME NEW p \in Nat, NEW q \in Nat \ {0}
    PROVE  /\ MaxInt64 \div q \in Nat
           /\ p <= MaxInt64 \div q <=> p * q <= MaxInt64
           /\ p * q \in Nat
<1>0. MaxInt64 \in Nat \ {0}
  BY PricingAssumption
<1>1. PICK d \in Nat : d = MaxInt64 \div q /\ d * q <= MaxInt64 /\ MaxInt64 < d * q + q
  BY <1>0
<1>2. p * q \in Nat
  OBVIOUS
<1>3. ASSUME p <= d PROVE p * q <= MaxInt64
  <2>1. p * q <= d * q
    BY <1>3
  <2> QED
    BY <1>0, <1>1, <1>2, <2>1
<1>4. ASSUME ~(p <= d) PROVE ~(p * q <= MaxInt64)
  <2>1. p >= d + 1
    BY <1>4
  <2>2. p * q >= (d + 1) * q /\ (d + 1) * q = d * q + q
    BY <2>1
  <2> QED
    BY <1>0, <1>1, <1>2, <2>2
<1> QED
  BY <1>1, <1>2, <1>3, <1>4

-----------------------------------------------------------------------------
(* The loops of CalculateTotals and of the consolidation *)

Errors == {"NONE", "OVERFLOW", "INVALID_QUANTITY", "INVALID_PRICE"}
Acc == [err : Errors, total : 0 .. MaxInt64]

\* A line adds its exact price to the total, or is an error.
LEMMA AddSubtotalExact ==
    ASSUME NEW acc \in Acc, NEW item, item.price \in Nat, item.qty \in Nat \ {0}
    PROVE  /\ AddSubtotal(acc, item) \in Acc
           /\ AddSubtotal(acc, item).err = "NONE" =>
                 AddSubtotal(acc, item).total = acc.total + item.price * item.qty
<1> DEFINE x == item.price * item.qty
<1>0. MaxInt64 \in Nat \ {0} /\ acc.total \in 0 .. MaxInt64 /\ x \in Nat
  BY PricingAssumption DEF Acc
<1>1. CASE item.price > MaxInt64 \div item.qty
  <2>1. AddSubtotal(acc, item) = NoTotal("OVERFLOW")
    BY <1>1 DEF AddSubtotal
  <2> QED
    BY <1>0, <2>1 DEF NoTotal, Acc, Errors
<1>2. CASE ~(item.price > MaxInt64 \div item.qty)
  <2>1. x \in 0 .. MaxInt64
    BY <1>0, <1>2, ProductFits
  <2>2. Wrap(x) = x
    BY <1>0, <2>1, WrapIsMod
  <2>3. CASE x > 0 /\ acc.total > MaxInt64 - x
    <3>1. AddSubtotal(acc, item) = NoTotal("OVERFLOW")
      BY <2>2, <2>3 DEF AddSubtotal
    <3> QED
      BY <1>0, <3>1 DEF NoTotal, Acc, Errors
  <2>4. CASE ~(x > 0 /\ acc.total > MaxInt64 - x)
    <3>1. acc.total + x \in 0 .. MaxInt64
      BY <1>0, <2>1, <2>4
    <3>2. Wrap(acc.total + x) = acc.total + x
      BY <1>0, <3>1, WrapIsMod
    <3>3. AddSubtotal(acc, item) = TotalOf(Wrap(acc.total + x))
      BY <1>2, <2>2, <2>4 DEF AddSubtotal
    <3> HIDE DEF x
    <3> QED
      BY <3>1, <3>2, <3>3 DEF TotalOf, Acc, Errors, x
  <2> QED
    BY <2>3, <2>4
<1> QED
  BY <1>1, <1>2

\* One round of the loop over an order's items.
LEMMA OrderLineExact ==
    ASSUME NEW acc \in Acc, NEW item, item.price \in Int, item.qty \in Int
    PROVE  /\ OrderLine(acc, item) \in Acc
           /\ OrderLine(acc, item).err = "NONE" =>
                 acc.err = "NONE" /\ OrderLine(acc, item).total = acc.total + item.price * item.qty
<1>0. MaxInt64 \in Nat \ {0}
  BY PricingAssumption
<1>1. CASE acc.err # "NONE"
  <2>1. OrderLine(acc, item) = acc
    BY <1>1 DEF OrderLine
  <2> QED
    BY <1>1, <2>1
<1>2. CASE acc.err = "NONE" /\ (item.qty <= 0 \/ item.price <= 0)
  <2>1. OrderLine(acc, item) \in {NoTotal("INVALID_QUANTITY"), NoTotal("INVALID_PRICE")}
    BY <1>2 DEF OrderLine
  <2> QED
    BY <1>0, <2>1 DEF NoTotal, Acc, Errors
<1>3. CASE acc.err = "NONE" /\ ~(item.qty <= 0) /\ ~(item.price <= 0)
  <2>1. OrderLine(acc, item) = AddSubtotal(acc, item)
    BY <1>3 DEF OrderLine
  <2>2. item.price \in Nat /\ item.qty \in Nat \ {0}
    BY <1>3
  <2> QED
    BY <1>3, <2>1, <2>2, AddSubtotalExact
<1> QED
  BY <1>1, <1>2, <1>3

\* One round of the loop over a cart's items.
LEMMA CartLineExact ==
    ASSUME NEW acc \in Acc, NEW item, item.price \in Int, item.qty \in Int
    PROVE  /\ CartLine(acc, item) \in Acc
           /\ CartLine(acc, item).err = "NONE" =>
                 acc.err = "NONE" /\ CartLine(acc, item).total = acc.total + item.price * item.qty
<1>0. MaxInt64 \in Nat \ {0}
  BY PricingAssumption
<1>1. CASE acc.err # "NONE"
  <2>1. CartLine(acc, item) = acc
    BY <1>1 DEF CartLine
  <2> QED
    BY <1>1, <2>1
<1>2. CASE acc.err = "NONE" /\ (item.qty <= 0 \/ item.price < 0)
  <2>1. CartLine(acc, item) \in {NoTotal("INVALID_QUANTITY"), NoTotal("INVALID_PRICE")}
    BY <1>2 DEF CartLine
  <2> QED
    BY <1>0, <2>1 DEF NoTotal, Acc, Errors
<1>3. CASE acc.err = "NONE" /\ ~(item.qty <= 0) /\ ~(item.price < 0)
  <2>1. CartLine(acc, item) = AddSubtotal(acc, item)
    BY <1>3 DEF CartLine
  <2>2. item.price \in Nat /\ item.qty \in Nat \ {0}
    BY <1>3
  <2> QED
    BY <1>3, <2>1, <2>2, AddSubtotalExact
<1> QED
  BY <1>1, <1>2, <1>3

\* What wraps is an integer.
LEMMA WrapInt == \A a \in Int : Wrap(a) \in Int
BY WrapIsMod, PricingAssumption

\* The rounds of Order.CalculateTotals.
LEMMA OrderTotalRuns ==
    ASSUME NEW its, Len(its) \in Nat,
           \A i \in 1 .. Len(its) : its[i].price \in Int /\ its[i].qty \in Int
    PROVE  \E f \in [0 .. Len(its) -> Acc] :
               /\ f[0] = TotalOf(0)
               /\ \A i \in 1 .. Len(its) : f[i] = OrderLine(f[i - 1], its[i])
               /\ OrderTotal(its) = IF its = <<>> THEN NoTotal("EMPTY_ORDER_ITEMS") ELSE f[Len(its)]
<1> DEFINE n == Len(its)
           step(i, v) == OrderLine(v, its[i])
           g == [p \in (1 .. n) \X Acc |-> step(p[1], p[2])]
           sum[i \in 0 .. Len(its)] == IF i = 0 THEN TotalOf(0) ELSE OrderLine(sum[i - 1], its[i])
           Runs(f) == f = [i \in 0 .. n |-> IF i = 0 THEN TotalOf(0) ELSE step(i, f[i - 1])]
<1>1. n \in Nat /\ TotalOf(0) \in Acc
  BY PricingAssumption DEF TotalOf, Acc, Errors
<1>2. \A i \in 1 .. n, v \in Acc : step(i, v) \in Acc
  BY OrderLineExact
<1>3. sum = CHOOSE h : Runs(h)
  BY DEF sum
<1>4. OrderTotal(its) = IF its = <<>> THEN NoTotal("EMPTY_ORDER_ITEMS") ELSE sum[Len(its)]
  BY DEF sum, OrderTotal
<1> HIDE DEF sum, step, n
<1>5. g \in Rounds(n, Acc)
  BY <1>2 DEF Rounds
<1>6. PICK f : RunOf(f, n, Acc, TotalOf(0), g)
  <2> HIDE DEF g
  <2> QED
    BY <1>1, <1>5, LoopRuns
<1>7. Runs(f)
  <2>1. /\ f \in [0 .. n -> Acc] /\ f[0] = TotalOf(0)
        /\ \A i \in 1 .. n : f[i - 1] \in Acc /\ f[i] = g[<<i, f[i - 1]>>]
    <3> HIDE DEF g
    <3> QED
      BY <1>1, <1>6 DEF RunOf
  <2>2. \A i \in 1 .. n : f[i] = step(i, f[i - 1])
    BY <2>1
  <2>3. \A i \in 0 .. n : f[i] = IF i = 0 THEN TotalOf(0) ELSE step(i, f[i - 1])
    BY <1>1, <2>1, <2>2
  <2> QED
    BY <2>1, <2>3
<1>8. Runs(sum)
  <2> HIDE DEF Runs
  <2> QED
    BY <1>3, <1>7
<1>9. /\ sum = [i \in 0 .. n |-> sum[i]] /\ sum[0] = TotalOf(0)
      /\ \A i \in 1 .. n : sum[i] = step(i, sum[i - 1])
  BY <1>1, <1>8
<1>10. sum \in [0 .. n -> Acc]
  <2>1. sum[0] \in Acc /\ \A i \in 1 .. n : sum[i - 1] \in Acc => sum[i] \in Acc
    BY <1>1, <1>2, <1>9
  <2> QED
    BY <1>1, <1>9, <2>1, LoopStays
<1> QED
  BY <1>4, <1>9, <1>10 DEF step, n

\* The rounds of Cart.CalculateTotals.
LEMMA CartTotalRuns ==
    ASSUME NEW its, Len(its) \in Nat,
           \A i \in 1 .. Len(its) : its[i].price \in Int /\ its[i].qty \in Int
    PROVE  \E f \in [0 .. Len(its) -> Acc] :
               /\ f[0] = TotalOf(0)
               /\ \A i \in 1 .. Len(its) : f[i] = CartLine(f[i - 1], its[i])
               /\ CartTotal(its) = f[Len(its)]
<1> DEFINE n == Len(its)
           step(i, v) == CartLine(v, its[i])
           g == [p \in (1 .. n) \X Acc |-> step(p[1], p[2])]
           sum[i \in 0 .. Len(its)] == IF i = 0 THEN TotalOf(0) ELSE CartLine(sum[i - 1], its[i])
           Runs(f) == f = [i \in 0 .. n |-> IF i = 0 THEN TotalOf(0) ELSE step(i, f[i - 1])]
<1>1. n \in Nat /\ TotalOf(0) \in Acc
  BY PricingAssumption DEF TotalOf, Acc, Errors
<1>2. \A i \in 1 .. n, v \in Acc : step(i, v) \in Acc
  BY CartLineExact
<1>3. sum = CHOOSE h : Runs(h)
  BY DEF sum
<1>4. CartTotal(its) = sum[Len(its)]
  BY DEF sum, CartTotal
<1> HIDE DEF sum, step, n
<1>5. g \in Rounds(n, Acc)
  BY <1>2 DEF Rounds
<1>6. PICK f : RunOf(f, n, Acc, TotalOf(0), g)
  <2> HIDE DEF g
  <2> QED
    BY <1>1, <1>5, LoopRuns
<1>7. Runs(f)
  <2>1. /\ f \in [0 .. n -> Acc] /\ f[0] = TotalOf(0)
        /\ \A i \in 1 .. n : f[i - 1] \in Acc /\ f[i] = g[<<i, f[i - 1]>>]
    <3> HIDE DEF g
    <3> QED
      BY <1>1, <1>6 DEF RunOf
  <2>2. \A i \in 1 .. n : f[i] = step(i, f[i - 1])
    BY <2>1
  <2>3. \A i \in 0 .. n : f[i] = IF i = 0 THEN TotalOf(0) ELSE step(i, f[i - 1])
    BY <1>1, <2>1, <2>2
  <2> QED
    BY <2>1, <2>3
<1>8. Runs(sum)
  <2> HIDE DEF Runs
  <2> QED
    BY <1>3, <1>7
<1>9. /\ sum = [i \in 0 .. n |-> sum[i]] /\ sum[0] = TotalOf(0)
      /\ \A i \in 1 .. n : sum[i] = step(i, sum[i - 1])
  BY <1>1, <1>8
<1>10. sum \in [0 .. n -> Acc]
  <2>1. sum[0] \in Acc /\ \A i \in 1 .. n : sum[i - 1] \in Acc => sum[i] \in Acc
    BY <1>1, <1>2, <1>9
  <2> QED
    BY <1>1, <1>9, <2>1, LoopStays
<1> QED
  BY <1>4, <1>9, <1>10 DEF step, n

\* The rounds of the exact sum.
LEMMA ExactTotalRuns ==
    ASSUME NEW its, Len(its) \in Nat,
           \A i \in 1 .. Len(its) : its[i].price \in Int /\ its[i].qty \in Int
    PROVE  \E f \in [0 .. Len(its) -> Int] :
               /\ f[0] = 0
               /\ \A i \in 1 .. Len(its) : f[i] = f[i - 1] + its[i].price * its[i].qty
               /\ ExactTotal(its) = f[Len(its)]
<1> DEFINE n == Len(its)
           step(i, v) == v + its[i].price * its[i].qty
           g == [p \in (1 .. n) \X Int |-> step(p[1], p[2])]
           sum[i \in 0 .. Len(its)] == IF i = 0 THEN 0 ELSE sum[i - 1] + its[i].price * its[i].qty
           Runs(f) == f = [i \in 0 .. n |-> IF i = 0 THEN 0 ELSE step(i, f[i - 1])]
<1>1. n \in Nat /\ 0 \in Int
  OBVIOUS
<1>2. \A i \in 1 .. n, v \in Int : step(i, v) \in Int
  OBVIOUS
<1>3. sum = CHOOSE h : Runs(h)
  BY DEF sum
<1>4. ExactTotal(its) = sum[Len(its)]
  BY DEF sum, ExactTotal
<1> HIDE DEF sum, step, n
<1>5. g \in Rounds(n, Int)
  BY <1>2 DEF Rounds
<1>6. PICK f : RunOf(f, n, Int, 0, g)
  <2> HIDE DEF g
  <2> QED
    BY <1>1, <1>5, LoopRuns
<1>7. Runs(f)
  <2>1. /\ f \in [0 .. n -> Int] /\ f[0] = 0
        /\ \A i \in 1 .. n : f[i - 1] \in Int /\ f[i] = g[<<i, f[i - 1]>>]
    <3> HIDE DEF g
    <3> QED
      BY <1>1, <1>6 DEF RunOf
  <2>2. \A i \in 1 .. n : f[i] = step(i, f[i - 1])
    BY <2>1
  <2>3. \A i \in 0 .. n : f[i] = IF i = 0 THEN 0 ELSE step(i, f[i - 1])
    BY <1>1, <2>1, <2>2
  <2> QED
    BY <2>1, <2>3
<1>8. Runs(sum)
  <2> HIDE DEF Runs
  <2> QED
    BY <1>3, <1>7
<1>9. /\ sum = [i \in 0 .. n |-> sum[i]] /\ sum[0] = 0
      /\ \A i \in 1 .. n : sum[i] = step(i, sum[i - 1])
  BY <1>1, <1>8
<1>10. sum \in [0 .. n -> Int]
  <2>1. sum[0] \in Int /\ \A i \in 1 .. n : sum[i - 1] \in Int => sum[i] \in Int
    BY <1>1, <1>2, <1>9
  <2> QED
    BY <1>1, <1>9, <2>1, LoopStays
<1> QED
  BY <1>4, <1>9, <1>10 DEF step, n

\* The rounds of the consolidation, for one SKU.
LEMMA QuantityRuns ==
    ASSUME NEW sku, NEW lines, Len(lines) \in Nat, \A i \in 1 .. Len(lines) : lines[i].qty \in Int
    PROVE  \E f \in [0 .. Len(lines) -> Int] :
               /\ f[0] = 0
               /\ \A i \in 1 .. Len(lines) : f[i] = AddQuantity(sku, f[i - 1], lines[i])
               /\ QuantityOf(sku, lines) = f[Len(lines)]
<1> DEFINE n == Len(lines)
           step(i, v) == AddQuantity(sku, v, lines[i])
           g == [p \in (1 .. n) \X Int |-> step(p[1], p[2])]
           sum[i \in 0 .. Len(lines)] == IF i = 0 THEN 0 ELSE AddQuantity(sku, sum[i - 1], lines[i])
           Runs(f) == f = [i \in 0 .. n |-> IF i = 0 THEN 0 ELSE step(i, f[i - 1])]
<1>1. n \in Nat /\ 0 \in Int
  OBVIOUS
<1>2. \A i \in 1 .. n, v \in Int : step(i, v) \in Int
  BY WrapInt, SMTT(60) DEF AddQuantity
<1>3. sum = CHOOSE h : Runs(h)
  BY DEF sum
<1>4. QuantityOf(sku, lines) = sum[Len(lines)]
  BY DEF sum, QuantityOf
<1> HIDE DEF sum, step, n
<1>5. g \in Rounds(n, Int)
  BY <1>2 DEF Rounds
<1>6. PICK f : RunOf(f, n, Int, 0, g)
  <2> HIDE DEF g
  <2> QED
    BY <1>1, <1>5, LoopRuns
<1>7. Runs(f)
  <2>1. /\ f \in [0 .. n -> Int] /\ f[0] = 0
        /\ \A i \in 1 .. n : f[i - 1] \in Int /\ f[i] = g[<<i, f[i - 1]>>]
    <3> HIDE DEF g
    <3> QED
      BY <1>1, <1>6 DEF RunOf
  <2>2. \A i \in 1 .. n : f[i] = step(i, f[i - 1])
    BY <2>1
  <2>3. \A i \in 0 .. n : f[i] = IF i = 0 THEN 0 ELSE step(i, f[i - 1])
    BY <1>1, <2>1, <2>2
  <2> QED
    BY <2>1, <2>3
<1>8. Runs(sum)
  <2> HIDE DEF Runs
  <2> QED
    BY <1>3, <1>7
<1>9. /\ sum = [i \in 0 .. n |-> sum[i]] /\ sum[0] = 0
      /\ \A i \in 1 .. n : sum[i] = step(i, sum[i - 1])
  BY <1>1, <1>8
<1>10. sum \in [0 .. n -> Int]
  <2>1. sum[0] \in Int /\ \A i \in 1 .. n : sum[i - 1] \in Int => sum[i] \in Int
    BY <1>1, <1>2, <1>9
  <2> QED
    BY <1>1, <1>9, <2>1, LoopStays
<1> QED
  BY <1>4, <1>9, <1>10 DEF step, n

\* The total of an order is exact and fits, or is refused.
LEMMA OrderTotalExact ==
    ASSUME NEW its, Len(its) \in Nat,
           \A i \in 1 .. Len(its) : its[i].price \in Int /\ its[i].qty \in Int,
           OrderTotal(its).err = "NONE"
    PROVE  OrderTotal(its).total = ExactTotal(its) /\ OrderTotal(its).total \in 0 .. MaxInt64
<1> DEFINE n == Len(its)
<1>1. PICK f \in [0 .. n -> Acc] :
          /\ f[0] = TotalOf(0)
          /\ \A i \in 1 .. n : f[i] = OrderLine(f[i - 1], its[i])
          /\ OrderTotal(its) = IF its = <<>> THEN NoTotal("EMPTY_ORDER_ITEMS") ELSE f[n]
  BY OrderTotalRuns
<1>2. PICK e \in [0 .. n -> Int] :
          /\ e[0] = 0
          /\ \A i \in 1 .. n : e[i] = e[i - 1] + its[i].price * its[i].qty
          /\ ExactTotal(its) = e[n]
  BY ExactTotalRuns
<1> DEFINE S == {i \in 0 .. n : f[i].err = "NONE" => f[i].total = e[i]}
<1>3. 0 \in S
  BY <1>1, <1>2 DEF TotalOf
<1>4. ASSUME NEW i \in 1 .. n, i - 1 \in S PROVE i \in S
  <2>1. /\ f[i - 1] \in Acc /\ f[i] = OrderLine(f[i - 1], its[i])
        /\ e[i] = e[i - 1] + its[i].price * its[i].qty
        /\ its[i].price \in Int /\ its[i].qty \in Int
    <3>1. f[i - 1] \in Acc /\ f[i] = OrderLine(f[i - 1], its[i])
      BY <1>1
    <3>2. e[i] = e[i - 1] + its[i].price * its[i].qty
      BY <1>2
    <3> QED
      BY <3>1, <3>2
  <2>2. f[i].err = "NONE" =>
            f[i - 1].err = "NONE" /\ f[i].total = f[i - 1].total + its[i].price * its[i].qty
    BY <2>1, OrderLineExact
  <2> QED
    BY <1>4, <2>1, <2>2
<1>5. n \in S
  <2>1. n \in 0 .. n
    OBVIOUS
  <2> HIDE DEF S, n
  <2>2. n \in Nat
    BY DEF n
  <2>3. 0 .. n \subseteq S
    BY <1>3, <1>4, <2>2, UpTo
  <2> QED
    BY <2>1, <2>3
<1>6. OrderTotal(its) = f[n]
  BY <1>1 DEF NoTotal
<1>7. f[n] \in Acc
  BY <1>1
<1> HIDE DEF n
<1> QED
  BY <1>2, <1>5, <1>6, <1>7 DEF Acc

\* The total of a cart is exact and fits, or is refused.
LEMMA CartTotalExact ==
    ASSUME NEW its, Len(its) \in Nat,
           \A i \in 1 .. Len(its) : its[i].price \in Int /\ its[i].qty \in Int,
           CartTotal(its).err = "NONE"
    PROVE  CartTotal(its).total = ExactTotal(its) /\ CartTotal(its).total \in 0 .. MaxInt64
<1> DEFINE n == Len(its)
<1>1. PICK f \in [0 .. n -> Acc] :
          /\ f[0] = TotalOf(0)
          /\ \A i \in 1 .. n : f[i] = CartLine(f[i - 1], its[i])
          /\ CartTotal(its) = f[n]
  BY CartTotalRuns
<1>2. PICK e \in [0 .. n -> Int] :
          /\ e[0] = 0
          /\ \A i \in 1 .. n : e[i] = e[i - 1] + its[i].price * its[i].qty
          /\ ExactTotal(its) = e[n]
  BY ExactTotalRuns
<1> DEFINE S == {i \in 0 .. n : f[i].err = "NONE" => f[i].total = e[i]}
<1>3. 0 \in S
  BY <1>1, <1>2 DEF TotalOf
<1>4. ASSUME NEW i \in 1 .. n, i - 1 \in S PROVE i \in S
  <2>1. /\ f[i - 1] \in Acc /\ f[i] = CartLine(f[i - 1], its[i])
        /\ e[i] = e[i - 1] + its[i].price * its[i].qty
        /\ its[i].price \in Int /\ its[i].qty \in Int
    <3>1. f[i - 1] \in Acc /\ f[i] = CartLine(f[i - 1], its[i])
      BY <1>1
    <3>2. e[i] = e[i - 1] + its[i].price * its[i].qty
      BY <1>2
    <3> QED
      BY <3>1, <3>2
  <2>2. f[i].err = "NONE" =>
            f[i - 1].err = "NONE" /\ f[i].total = f[i - 1].total + its[i].price * its[i].qty
    BY <2>1, CartLineExact
  <2> QED
    BY <1>4, <2>1, <2>2
<1>5. n \in S
  <2>1. n \in 0 .. n
    OBVIOUS
  <2> HIDE DEF S, n
  <2>2. n \in Nat
    BY DEF n
  <2>3. 0 .. n \subseteq S
    BY <1>3, <1>4, <2>2, UpTo
  <2> QED
    BY <2>1, <2>3
<1>6. CartTotal(its) = f[n]
  BY <1>1
<1>7. f[n] \in Acc
  BY <1>1
<1> HIDE DEF n
<1> QED
  BY <1>2, <1>5, <1>6, <1>7 DEF Acc

-----------------------------------------------------------------------------
(* Money *)

\* r is the exact result n, or an error exactly when n is not an int64 of at least 0.
IsExactResult(r, n) ==
    IF n \in 0 .. MaxInt64 THEN r.err = "NONE" /\ r.amount = n ELSE r.err # "NONE"

\* The operations of the money package are exact or refuse.
LEMMA MoneyOps ==
    ASSUME NEW t \in 0 .. MaxInt64, NEW a \in 0 .. MaxInt64
    PROVE  /\ IsExactResult(Add(New(t, "USD"), New(a, "USD")), t + a)
           /\ IsExactResult(Sub(New(t, "USD"), New(a, "USD")), t - a)
           /\ IsExactResult(Multiply(New(t, "USD"), a), t * a)
           /\ Add(New(t, "USD"), New(a, "EUR")).err # "NONE"
           /\ Sub(New(t, "USD"), New(a, "EUR")).err # "NONE"
<1>0. MaxInt64 \in Nat \ {0} /\ t \in Nat /\ a \in Nat /\ t <= MaxInt64 /\ a <= MaxInt64
  BY PricingAssumption
<1> DEFINE m == New(t, "USD")
           o == New(a, "USD")
<1>1. /\ m.err = "NONE" /\ m.amount = t /\ m.currency = "USD"
      /\ o.err = "NONE" /\ o.amount = a /\ o.currency = "USD"
      /\ New(a, "EUR").currency = "EUR"
  BY <1>0 DEF New, Money, Currency
<1>2. Add(m, New(a, "EUR")).err # "NONE" /\ Sub(m, New(a, "EUR")).err # "NONE"
  BY <1>1 DEF Add, Sub, MoneyError
<1> HIDE DEF m, o
<1>3. IsExactResult(Add(m, o), t + a)
  <2>1. CASE t + a <= MaxInt64
    <3>1. Wrap(t + a) = t + a /\ t + a \in 0 .. MaxInt64
      BY <1>0, <2>1, WrapIsMod
    <3>2. Add(m, o) = Money(Wrap(t + a), "USD")
      BY <1>0, <1>1, <2>1 DEF Add
    <3> QED
      BY <3>1, <3>2 DEF IsExactResult, Money
  <2>2. CASE ~(t + a <= MaxInt64)
    <3>1. Add(m, o) = MoneyError("OVERFLOW")
      BY <1>0, <1>1, <2>2 DEF Add
    <3> QED
      BY <1>0, <2>2, <3>1 DEF IsExactResult, MoneyError
  <2> QED
    BY <2>1, <2>2
<1>4. IsExactResult(Sub(m, o), t - a)
  <2>1. CASE t >= a
    <3>1. Wrap(t - a) = t - a /\ t - a \in 0 .. MaxInt64
      BY <1>0, <2>1, WrapIsMod
    <3>2. Sub(m, o) = Money(Wrap(t - a), "USD")
      BY <1>0, <1>1, <2>1 DEF Sub
    <3> QED
      BY <3>1, <3>2 DEF IsExactResult, Money
  <2>2. CASE ~(t >= a)
    <3>1. Sub(m, o) = MoneyError("NEGATIVE_AMOUNT")
      BY <1>0, <1>1, <2>2 DEF Sub
    <3> QED
      BY <1>0, <2>2, <3>1 DEF IsExactResult, MoneyError
  <2> QED
    BY <2>1, <2>2
<1>5. IsExactResult(Multiply(m, a), t * a)
  <2>1. CASE a = 0 \/ t = 0
    <3>1. t * a = 0 /\ 0 \in 0 .. MaxInt64
      BY <1>0, <2>1
    <3>2. Multiply(m, a) = Money(0, "USD")
      BY <1>0, <1>1, <2>1 DEF Multiply
    <3> QED
      BY <3>1, <3>2 DEF IsExactResult, Money
  <2>2. CASE ~(a = 0 \/ t = 0)
    <3>1. /\ MaxInt64 \div a \in Nat /\ t * a \in Nat
          /\ t <= MaxInt64 \div a <=> t * a <= MaxInt64
      BY <1>0, <2>2, ProductFits
    <3>2. CASE t * a <= MaxInt64
      <4>1. Wrap(t * a) = t * a /\ t * a \in 0 .. MaxInt64
        BY <1>0, <3>1, <3>2, WrapIsMod
      <4>2. Multiply(m, a) = Money(Wrap(t * a), "USD")
        BY <1>0, <1>1, <2>2, <3>1, <3>2 DEF Multiply
      <4> QED
        BY <4>1, <4>2 DEF IsExactResult, Money
    <3>3. CASE ~(t * a <= MaxInt64)
      <4>1. Multiply(m, a) = MoneyError("OVERFLOW")
        BY <1>0, <1>1, <2>2, <3>1, <3>3 DEF Multiply
      <4> QED
        BY <1>0, <3>1, <3>3, <4>1 DEF IsExactResult, MoneyError
    <3> QED
      BY <3>2, <3>3
  <2> QED
    BY <2>1, <2>2
<1> QED
  BY <1>2, <1>3, <1>4, <1>5 DEF m, o

-----------------------------------------------------------------------------
(* Orders *)

(* The inductive invariant *)

\* What a body can be priced as, and the totals that come out.
ItemLists == {LineItems(body, price) : body \in Body, price \in PriceList}
Totals == {OrderTotal(its).total : its \in ItemLists}

OrderRow == [slot : Slot, body : Body, items : ItemLists, total : Totals,
             status : Status, version : 1 .. MaxVersion, past : Seq(Status)]
KeyRow == [status : {"COMPLETED"}, body : Body, order : Nat, expired : BOOLEAN]

\* A checkout, and a call that changes an order's status.
Creating == [pc : {"lock", "insert"}, slot : Slot, body : Body, items : ItemLists, total : Totals]
Ops == {"transition", "cancel", "confirm"}
Writing == [pc : {"confirm", "update", "announce"}, op : Ops, order : Nat,
            from : Status \cup {"NONE"}, to : Status, ver : 1 .. MaxVersion]

Shapes ==
    /\ orders \in Seq(OrderRow)
    /\ idem \in [Slot -> {NONE} \cup KeyRow]
    /\ holder \in [Slot -> {NONE} \cup Worker]
    /\ worker \in [Worker -> {Idle} \cup Creating \cup Writing]

\* Under a key there is one order.
OnePerSlot == \A i, j \in Orders : orders[i].slot = orders[j].slot => i = j

\* A key's row names its order and the body that order was placed with.
Names(row, s, rows) ==
    row.order \in DOMAIN rows /\ rows[row.order].slot = s /\ rows[row.order].body = row.body
KeysTrue == \A s \in Slot : idem[s] # NONE => Names(idem[s], s, orders)
AnswersTrue == \A a \in answers : Names(a, a.slot, orders)

\* A key is locked by the transaction that inserts under it.
LockHeld ==
    /\ \A s \in Slot : holder[s] # NONE => At(holder[s], "insert") /\ worker[holder[s]].slot = s
    /\ \A w \in Worker : At(w, "insert") => holder[worker[w].slot] = w

\* A call that changes a status has read the order, is about to make a legal
\* move from a status the order had, and one that announces again names a version
\* the order had, and a status it had before.
Legal(x, rows) ==
    /\ x.order \in DOMAIN rows
    /\ x.pc # "announce" => x.ver < MaxVersion
    /\ x.pc = "update" => /\ CanTransitionTo(x.from, x.to)
                          /\ \E v \in DOMAIN rows[x.order].past : rows[x.order].past[v] = x.from
                          /\ x.op = "confirm" => x.from # x.to
                          /\ x.op # "confirm" => /\ x.ver \in DOMAIN rows[x.order].past
                                                 /\ rows[x.order].past[x.ver] = x.from
    /\ x.pc = "confirm" => x.to = "CONFIRMED" /\ x.op = "confirm"
    /\ x.pc = "announce" => /\ x.ver \in DOMAIN rows[x.order].past
                            /\ rows[x.order].past[x.ver] = x.to
                            /\ \E v \in DOMAIN rows[x.order].past :
                                  v < x.ver /\ rows[x.order].past[v] = x.from
WritersLegal == \A w \in Worker : worker[w] \in Writing => Legal(worker[w], orders)

\* The statuses of an order are those of its versions.
PastIsVersions ==
    \A o \in Orders :
        /\ Len(orders[o].past) = orders[o].version
        /\ orders[o].past[orders[o].version] = orders[o].status

\* A row of outbox_messages.
MessageRow == [type : {"OrderCreated", "OrderStatusChanged", "OrderConfirmed", "OrderCancelled"},
               order : Nat, from : Status \cup {"NONE"}, to : Status, version : Nat,
               own : BOOLEAN]

\* A message is true of the order's past.
EventTrue(e, rows) ==
    LET past == rows[e.order].past IN
    /\ e.order \in DOMAIN rows
    /\ e.version \in DOMAIN past /\ past[e.version] = e.to
    /\ e.own => e.from = IF e.version = 1 THEN "NONE" ELSE past[e.version - 1]
    /\ ~e.own => \E v \in DOMAIN past : v < e.version /\ past[v] = e.from

\* Message e may follow those of ev.
Follows(e, ev, n) ==
    /\ e.own => \A j \in 1 .. n : ev[j].order = e.order => StoredAfter(ev[j], e)
    /\ ~e.own => \E j \in 1 .. n : ev[j].own /\ ev[j].order = e.order /\ ev[j].version = e.version

\* The messages are true and in turn, and every version has one of its writer.
Told(ev, rows) ==
    /\ ev \in Seq(MessageRow)
    /\ \A i \in DOMAIN ev : EventTrue(ev[i], rows) /\ Follows(ev[i], ev, i - 1)
Announced(ev, rows) ==
    \A o \in DOMAIN rows : \A v \in 1 .. rows[o].version :
        \E i \in DOMAIN ev : ev[i].own /\ ev[i].order = o /\ ev[i].version = v
EventsHold(ev, rows) == Told(ev, rows) /\ Announced(ev, rows)

IInv ==
    /\ Shapes /\ OnePerSlot /\ KeysTrue /\ AnswersTrue /\ LockHeld
    /\ WritersLegal /\ PastIsVersions /\ EventsHold(events, orders)

-----------------------------------------------------------------------------
(* The requests and the rows *)

\* What a request is about follows from where it is.
LEMMA Kinds ==
    ASSUME Shapes, NEW w \in Worker
    PROVE  /\ worker[w].pc \in {"lock", "insert"} <=> worker[w] \in Creating
           /\ worker[w].pc \in {"confirm", "update", "announce"} <=> worker[w] \in Writing
BY DEF Shapes, Idle, Creating, Writing

\* A request that becomes x, while the others stay as they are.
Became(w, x) ==
    /\ worker' \in [Worker -> {Idle} \cup Creating \cup Writing]
    /\ worker'[w] = x
    /\ \A v \in Worker \ {w} : worker'[v] = worker[v]

\* A worker becomes x and the others stay as they are.
LEMMA BecomeBecomes ==
    ASSUME Shapes, NEW w \in Worker, NEW x \in {Idle} \cup Creating \cup Writing, Become(w, x)
    PROVE  Became(w, x)
BY DEF Shapes, Become, Became

\* The rows are well formed.
LEMMA RowsHaveType ==
    ASSUME Shapes
    PROVE  /\ Len(orders) \in Nat /\ Orders = 1 .. Len(orders)
           /\ \A o \in Orders : o \in Nat /\ orders[o] \in OrderRow
BY DEF Shapes, Orders

\* An order keeps its key, its body and its past.
Kept(o) ==
    /\ o \in DOMAIN orders'
    /\ orders'[o].slot = orders[o].slot /\ orders'[o].body = orders[o].body
    /\ \A v \in DOMAIN orders[o].past :
          v \in DOMAIN orders'[o].past /\ orders'[o].past[v] = orders[o].past[v]
OrdersKept == \A o \in Orders : Kept(o)

\* An order's status is the last of its past.
LEMMA CurrentIsPast ==
    ASSUME Shapes, PastIsVersions
    PROVE  \A o \in Orders : /\ orders[o].version \in DOMAIN orders[o].past
                             /\ orders[o].past[orders[o].version] = orders[o].status
<1> SUFFICES ASSUME NEW o \in Orders
             PROVE  /\ orders[o].version \in DOMAIN orders[o].past
                    /\ orders[o].past[orders[o].version] = orders[o].status
  OBVIOUS
<1>1. orders[o].past \in Seq(Status) /\ orders[o].version \in 1 .. MaxVersion
  BY RowsHaveType DEF OrderRow
<1> QED BY <1>1 DEF PastIsVersions

\* What was true of the orders stays true when they are kept: of a key or an
\* answer, of a call that changes a status and of an event.
LEMMA KeptNames ==
    ASSUME OrdersKept, NEW row, NEW s, Names(row, s, orders) PROVE Names(row, s, orders')
BY DEF OrdersKept, Kept, Names, Orders

\* A status change that was legal when it was read stays legal while orders keep their past.
LEMMA KeptLegal ==
    ASSUME OrdersKept, NEW x, Legal(x, orders) PROVE Legal(x, orders')
BY DEF OrdersKept, Kept, Legal, Orders

\* A message that is true stays true while orders keep their past.
LEMMA KeptEvent ==
    ASSUME Shapes, OrdersKept, NEW e \in MessageRow, EventTrue(e, orders)
    PROVE  EventTrue(e, orders')
<1>1. e.order \in Orders /\ orders[e.order].past \in Seq(Status)
  BY RowsHaveType DEF EventTrue, Orders, OrderRow
<1>2. Kept(e.order)
  BY <1>1 DEF OrdersKept
<1>3. e.version # 1 => e.version - 1 \in DOMAIN orders[e.order].past
  BY <1>1 DEF EventTrue
<1>4. e.own \in BOOLEAN
  BY DEF MessageRow
<1> QED BY <1>2, <1>3, <1>4 DEF EventTrue, Kept

\* The messages stored stay true and in turn.
LEMMA KeptTold ==
    ASSUME Shapes, OrdersKept, Told(events, orders)
    PROVE  Told(events, orders')
<1>1. \A i \in DOMAIN events : events[i] \in MessageRow
  BY DEF Told
<1> QED BY <1>1, KeptEvent DEF Told

\* One more message, which is true and may follow those there are.
LEMMA TellMore ==
    ASSUME NEW rows, NEW ev, Told(ev, rows), NEW e \in MessageRow, EventTrue(e, rows),
           Follows(e, ev, Len(ev))
    PROVE  /\ Told(Append(ev, e), rows)
           /\ Len(Append(ev, e)) = Len(ev) + 1 /\ Append(ev, e)[Len(ev) + 1] = e
           /\ \A j \in 1 .. Len(ev) : Append(ev, e)[j] = ev[j]
<1> DEFINE more == Append(ev, e)
           n == Len(ev)
<1>1. ev \in Seq(MessageRow) /\ n \in Nat /\ DOMAIN ev = 1 .. n
  BY DEF Told
<1>2. /\ more \in Seq(MessageRow) /\ Len(more) = n + 1 /\ DOMAIN more = 1 .. n + 1
      /\ more[n + 1] = e /\ \A j \in 1 .. n : more[j] = ev[j]
  BY <1>1
<1> HIDE DEF more, n
<1>3. ASSUME NEW i \in 1 .. n + 1 PROVE EventTrue(more[i], rows) /\ Follows(more[i], more, i - 1)
  <2>1. \A j \in 1 .. i - 1 : more[j] = ev[j]
    BY <1>1, <1>2
  <2>2. CASE i = n + 1
    <3>1. i - 1 = n /\ Follows(e, ev, n)
      BY <1>1, <2>2 DEF n
    <3>2. Follows(e, more, i - 1)
      BY <2>1, <3>1 DEF Follows
    <3> QED BY <1>2, <2>2, <3>2
  <2>3. CASE i # n + 1
    <3>1. i \in DOMAIN ev /\ more[i] = ev[i]
      BY <1>1, <1>2, <2>3
    <3>2. EventTrue(ev[i], rows) /\ Follows(ev[i], ev, i - 1)
      BY <3>1 DEF Told
    <3>3. Follows(ev[i], more, i - 1)
      BY <2>1, <3>2 DEF Follows
    <3> QED BY <3>1, <3>2, <3>3
  <2> QED BY <2>2, <2>3
<1> QED BY <1>2, <1>3 DEF Told, more, n

\* A message of call r.
Says(e, r, ver, own) ==
    /\ e \in MessageRow
    /\ e.order = r.order /\ e.from = r.from /\ e.to = r.to /\ e.version = ver /\ e.own = own

\* A call stores one message, or a status change and the confirmation after it.
LEMMA AnnounceSays ==
    ASSUME NEW r \in Writing, NEW ver \in Nat, NEW own \in BOOLEAN, NEW ev \in Seq(MessageRow)
    PROVE  \/ \E e : Says(e, r, ver, own) /\ ev \o Announce(r, ver, own) = Append(ev, e)
           \/ \E d, e : /\ Says(d, r, ver, own) /\ Says(e, r, ver, own)
                        /\ d.type = "OrderStatusChanged" /\ e.type = "OrderConfirmed"
                        /\ ev \o Announce(r, ver, own) = Append(Append(ev, d), e)
<1> DEFINE msg(type) == Message(type, r.order, r.from, r.to, ver, own)
<1>1. /\ r.op \in Ops /\ r.order \in Nat /\ r.from \in Status \cup {"NONE"} /\ r.to \in Status
  BY DEF Writing
<1>2. \A type \in {"OrderStatusChanged", "OrderConfirmed", "OrderCancelled"} :
          Says(msg(type), r, ver, own) /\ msg(type).type = type
  BY <1>1 DEF Says, Message, MessageRow
<1>3. \A e \in MessageRow : ev \o <<e>> = Append(ev, e)
  BY AppendIsConcat
<1>4. \A d, e \in MessageRow : ev \o <<d, e>> = Append(Append(ev, d), e)
  <2> SUFFICES ASSUME NEW d \in MessageRow, NEW e \in MessageRow
               PROVE  ev \o <<d, e>> = Append(Append(ev, d), e)
    OBVIOUS
  <2>1. <<d>> \in Seq(MessageRow) /\ <<e>> \in Seq(MessageRow) /\ <<d>> \o <<e>> = <<d, e>>
    <3>1. <<d>> \in Seq(MessageRow) /\ <<e>> \in Seq(MessageRow)
      OBVIOUS
    <3>2. Append(<<d>>, e) = <<d>> \o <<e>>
      BY <3>1, AppendIsConcat
    <3>3. Append(<<d>>, e) = <<d, e>>
      <4>1. /\ Append(<<d>>, e) \in Seq(MessageRow) /\ Len(Append(<<d>>, e)) = 2
            /\ Append(<<d>>, e)[1] = d /\ Append(<<d>>, e)[2] = e
        BY <3>1, AppendProperties
      <4>2. /\ <<d, e>> \in Seq(MessageRow) /\ Len(<<d, e>>) = 2
            /\ <<d, e>>[1] = d /\ <<d, e>>[2] = e
        OBVIOUS
      <4>3. \A i \in 1 .. 2 : Append(<<d>>, e)[i] = <<d, e>>[i]
        BY <4>1, <4>2
      <4> QED BY <4>1, <4>2, <4>3, SeqEqual
    <3> QED BY <3>1, <3>2, <3>3
  <2>2. (ev \o <<d>>) \o <<e>> = ev \o (<<d>> \o <<e>>)
    BY <2>1, ConcatAssociative
  <2>3. Append(ev, d) \in Seq(MessageRow)
    OBVIOUS
  <2>4. Append(Append(ev, d), e) = Append(ev, d) \o <<e>>
    BY <2>3, AppendIsConcat
  <2> QED BY <1>3, <2>1, <2>2, <2>4
<1>5. CASE r.op = "cancel"
  <2>1. Announce(r, ver, own) = <<msg("OrderCancelled")>>
    BY <1>5 DEF Announce
  <2>2. Says(msg("OrderCancelled"), r, ver, own)
    BY <1>2
  <2> HIDE DEF msg
  <2> QED BY <1>3, <2>1, <2>2 DEF Says
<1>6. CASE r.op = "transition"
  <2>1. Announce(r, ver, own) = <<msg("OrderStatusChanged")>>
    BY <1>6 DEF Announce
  <2>2. Says(msg("OrderStatusChanged"), r, ver, own)
    BY <1>2
  <2> HIDE DEF msg
  <2> QED BY <1>3, <2>1, <2>2 DEF Says
<1>7. CASE r.op = "confirm"
  <2>1. Announce(r, ver, own) = <<msg("OrderStatusChanged"), msg("OrderConfirmed")>>
    BY <1>7 DEF Announce
  <2>2. /\ Says(msg("OrderStatusChanged"), r, ver, own) /\ Says(msg("OrderConfirmed"), r, ver, own)
        /\ msg("OrderStatusChanged").type = "OrderStatusChanged"
        /\ msg("OrderConfirmed").type = "OrderConfirmed"
    BY <1>2
  <2> HIDE DEF msg
  <2> QED BY <1>4, <2>1, <2>2 DEF Says
<1> QED BY <1>1, <1>5, <1>6, <1>7 DEF Ops

\* A call adds its messages to those there are: they are true, the first may follow
\* and, when the call's own, lets the second follow.
LEMMA AnnounceTells ==
    ASSUME NEW rows, NEW r \in Writing, NEW ver \in Nat, NEW own \in BOOLEAN, NEW ev,
           Told(ev, rows),
           \A e : Says(e, r, ver, own) => EventTrue(e, rows) /\ Follows(e, ev, Len(ev))
    PROVE  LET more == ev \o Announce(r, ver, own) IN
           /\ Told(more, rows) /\ Len(more) \in Nat /\ Len(more) > Len(ev)
           /\ \A j \in 1 .. Len(ev) : more[j] = ev[j]
           /\ Says(more[Len(ev) + 1], r, ver, own)
<1> DEFINE more == ev \o Announce(r, ver, own)
<1>1. ev \in Seq(MessageRow) /\ Len(ev) \in Nat /\ DOMAIN ev = 1 .. Len(ev)
  BY DEF Told
<1>2. CASE \E e : Says(e, r, ver, own) /\ more = Append(ev, e)
  <2> PICK e : Says(e, r, ver, own) /\ more = Append(ev, e)
    BY <1>2
  <2> HIDE DEF more
  <2>1. e \in MessageRow
    BY DEF Says
  <2> QED BY <1>1, <2>1, TellMore DEF more
<1>3. CASE \E d, e : /\ Says(d, r, ver, own) /\ Says(e, r, ver, own)
                     /\ d.type = "OrderStatusChanged" /\ e.type = "OrderConfirmed"
                     /\ more = Append(Append(ev, d), e)
  <2> PICK d, e : /\ Says(d, r, ver, own) /\ Says(e, r, ver, own)
                  /\ d.type = "OrderStatusChanged" /\ e.type = "OrderConfirmed"
                  /\ more = Append(Append(ev, d), e)
    BY <1>3
  <2> DEFINE one == Append(ev, d)
             n == Len(ev)
  <2> HIDE DEF more, one, n
  <2>1. d \in MessageRow /\ e \in MessageRow /\ more = Append(one, e)
    BY DEF Says, one
  <2>2. /\ Told(one, rows) /\ Len(one) = n + 1 /\ one[n + 1] = d
        /\ \A j \in 1 .. n : one[j] = ev[j]
    BY <2>1, TellMore DEF one, n
  <2>3. Follows(e, one, n + 1)
    <3>1. n \in Nat /\ \A j \in 1 .. n + 1 : j \in 1 .. n \/ j = n + 1
      BY <1>1 DEF n
    <3>2. Follows(e, ev, n)
      BY DEF n
    <3>3. /\ e.order = d.order /\ e.version = d.version /\ e.own = d.own
          /\ e.own \in BOOLEAN
      BY DEF Says
    <3>4. CASE e.own
      <4>1. StoredAfter(d, e)
        BY <3>3, <3>4 DEF StoredAfter
      <4> QED BY <2>2, <3>1, <3>2, <3>4, <4>1 DEF Follows
    <3>5. CASE ~e.own
      <4>1. PICK j \in 1 .. n : ev[j].own /\ ev[j].order = e.order /\ ev[j].version = e.version
        BY <3>2, <3>5 DEF Follows
      <4>2. j \in 1 .. n + 1 /\ one[j] = ev[j]
        BY <2>2, <3>1
      <4> QED BY <3>5, <4>1, <4>2 DEF Follows
    <3> QED BY <3>4, <3>5
  <2>4. /\ Told(more, rows) /\ Len(more) = n + 2
        /\ \A j \in 1 .. n + 1 : more[j] = one[j]
    <3>1. EventTrue(e, rows) /\ Follows(e, one, Len(one))
      BY <2>2, <2>3
    <3>2. /\ Told(Append(one, e), rows) /\ Len(Append(one, e)) = Len(one) + 1
          /\ \A j \in 1 .. Len(one) : Append(one, e)[j] = one[j]
      BY <2>1, <2>2, <3>1, TellMore
    <3>3. n \in Nat
      BY <1>1 DEF n
    <3> QED BY <2>1, <2>2, <3>2, <3>3
  <2>5. more[n + 1] = d /\ n \in Nat /\ \A j \in 1 .. n : more[j] = ev[j]
    BY <1>1, <2>2, <2>4 DEF n
  <2> QED BY <2>4, <2>5 DEF more, n
<1>4. \/ \E e : Says(e, r, ver, own) /\ more = Append(ev, e)
      \/ \E d, e : /\ Says(d, r, ver, own) /\ Says(e, r, ver, own)
                   /\ d.type = "OrderStatusChanged" /\ e.type = "OrderConfirmed"
                   /\ more = Append(Append(ev, d), e)
  BY <1>1, AnnounceSays
<1> QED BY <1>2, <1>3, <1>4

-----------------------------------------------------------------------------
(* The steps *)

\* A step that touches no row and no lock.
LEMMA QuietKeeps ==
    ASSUME IInv, UNCHANGED <<orders, events, idem, holder>>, AnswersTrue',
           NEW w \in Worker, NEW x, Became(w, x), ~At(w, "insert"), x.pc # "insert",
           x \in Writing => Legal(x, orders)
    PROVE  IInv'
<1>1. Shapes'
  BY DEF IInv, Shapes, Became
<1>2. OnePerSlot' /\ KeysTrue' /\ PastIsVersions' /\ EventsHold(events', orders')
  BY DEF IInv, OnePerSlot, KeysTrue, Names, PastIsVersions, Orders
<1>3. LockHeld'
  BY DEF IInv, LockHeld, Became, At, Shapes
<1>4. WritersLegal'
  BY DEF IInv, WritersLegal, Became
<1> QED BY <1>1, <1>2, <1>3, <1>4 DEF IInv

\* A checkout up to its transaction: nothing is stored yet.
LEMMA StartCreateKeeps ==
    ASSUME IInv, NEW w \in Worker, createOrder(w) PROVE IInv'
<1> PICK s \in Slot, body \in Body, price \in PriceList : StartCreate(w, s, body, price)
  BY DEF createOrder
<1> DEFINE its == LineItems(body, price)
           x == [pc |-> "lock", slot |-> s, body |-> body, items |-> its,
                 total |-> OrderTotal(its).total]
<1>1. its \in ItemLists
  BY DEF ItemLists
<1>2. OrderTotal(its).total \in Totals
  BY <1>1 DEF Totals
<1>3. Become(w, x) /\ At(w, "idle") /\ UNCHANGED <<orders, events, idem, holder, answers>>
  BY DEF StartCreate
<1> HIDE DEF its
<1>4. x \in Creating /\ x.pc = "lock" /\ x \notin Writing
  BY <1>1, <1>2 DEF Creating, Writing
<1>5. Became(w, x)
  BY <1>3, <1>4, BecomeBecomes DEF IInv
<1>6. AnswersTrue'
  BY <1>3 DEF IInv, AnswersTrue, Names
<1> HIDE DEF x
<1> QED BY <1>3, <1>4, <1>5, <1>6, QuietKeeps DEF At

\* Taking and giving back the lock of slot s.
LEMMA LockMoves ==
    ASSUME Shapes, LockHeld, NEW w \in Worker, NEW x, Became(w, x), NEW s \in Slot,
           worker[w].slot = s,
           \/ /\ ~At(w, "insert") /\ x.pc = "insert" /\ x.slot = s
              /\ holder[s] = NONE /\ holder' = [holder EXCEPT ![s] = w]
           \/ At(w, "insert") /\ x.pc # "insert" /\ holder' = [holder EXCEPT ![s] = NONE]
    PROVE  LockHeld'
<1>1. /\ LockHeld /\ holder \in [Slot -> {NONE} \cup Worker] /\ NONE \notin Worker
      /\ \A v \in Worker : At(v, "insert") => worker[v].slot \in Slot
  BY Kinds, OrderAssumption DEF Shapes, At, Creating
<1>2. \A v \in Worker \ {w} : worker'[v] = worker[v]
  BY DEF Became
<1>3. CASE /\ x.pc = "insert" /\ x.slot = s
           /\ holder[s] = NONE /\ holder' = [holder EXCEPT ![s] = w]
  <2>1. worker'[w].pc = "insert" /\ worker'[w].slot = s
    BY <1>3 DEF Became
  <2> QED BY <1>1, <1>2, <1>3, <2>1 DEF LockHeld, At
<1>4. CASE At(w, "insert") /\ x.pc # "insert" /\ holder' = [holder EXCEPT ![s] = NONE]
  <2>1. worker'[w].pc # "insert" /\ holder[s] = w
    BY <1>1, <1>4 DEF Became, LockHeld
  <2> QED BY <1>1, <1>2, <1>4, <2>1 DEF LockHeld, At
<1> QED BY <1>3, <1>4

\* A step of w that takes or gives back the lock of slot s.
LEMMA LockKeeps ==
    ASSUME IInv, UNCHANGED <<orders, events, idem, answers>>,
           NEW w \in Worker, NEW x, Became(w, x), x \notin Writing, NEW s \in Slot,
           worker[w].slot = s,
           \/ /\ ~At(w, "insert") /\ x.pc = "insert" /\ x.slot = s
              /\ holder[s] = NONE /\ holder' = [holder EXCEPT ![s] = w]
           \/ At(w, "insert") /\ x.pc # "insert" /\ holder' = [holder EXCEPT ![s] = NONE]
    PROVE  IInv'
<1>1. Shapes'
  BY DEF IInv, Shapes, Became
<1>2. /\ OnePerSlot' /\ KeysTrue' /\ AnswersTrue' /\ PastIsVersions'
      /\ EventsHold(events', orders')
  BY DEF IInv, OnePerSlot, KeysTrue, AnswersTrue, Names, PastIsVersions, Orders
<1>3. LockHeld'
  BY LockMoves DEF IInv
<1>4. WritersLegal'
  BY DEF IInv, WritersLegal, Became
<1> QED BY <1>1, <1>2, <1>3, <1>4 DEF IInv

\* The INSERT of the key: the row is the request's, or its cached answer is the
\* order placed under the key with the same body.
LEMMA LockIdempotencyKeyKeeps ==
    ASSUME IInv, NEW w \in Worker, LockIdempotencyKey(w) PROVE IInv'
<1> DEFINE s == worker[w].slot
           found == KeyOutcome(idem[s], worker[w].body)
<1>0. Shapes /\ worker[w] \in Creating /\ At(w, "lock") /\ s \in Slot
  BY Kinds DEF IInv, LockIdempotencyKey, At, Creating
<1>1. CASE found = "new"
  <2> DEFINE x == [worker[w] EXCEPT !.pc = "insert"]
  <2>1. x \in Creating /\ x.pc = "insert" /\ x.slot = s /\ x \notin Writing
    BY <1>0 DEF Creating, Writing
  <2>2. Become(w, x) /\ holder[s] = NONE /\ holder' = [holder EXCEPT ![s] = w]
    BY <1>1 DEF LockIdempotencyKey, Become
  <2>3. UNCHANGED <<orders, events, idem, answers>>
    BY <1>1 DEF LockIdempotencyKey
  <2>4. Became(w, x)
    BY <1>0, <2>1, <2>2, BecomeBecomes
  <2> HIDE DEF x
  <2> QED BY <1>0, <2>1, <2>2, <2>3, <2>4, LockKeeps DEF At
<1>2. CASE found # "new"
  <2> DEFINE a == [slot |-> s, body |-> worker[w].body, order |-> idem[s].order]
  <2>1. /\ Become(w, Idle) /\ UNCHANGED <<orders, events, idem, holder>>
        /\ answers' \in IF found = "cached" THEN {answers, answers \cup {a}} ELSE {answers}
    BY <1>2 DEF LockIdempotencyKey
  <2>2. found = "cached" => idem[s] # NONE /\ idem[s].body = worker[w].body
    BY DEF KeyOutcome
  <2>3. found = "cached" => Names(idem[s], s, orders)
    BY <1>0, <2>2 DEF IInv, KeysTrue
  <2>4. found = "cached" => Names(a, a.slot, orders)
    BY <2>2, <2>3 DEF Names
  <2> HIDE DEF a, found
  <2>5. AnswersTrue'
    BY <2>1, <2>4 DEF IInv, AnswersTrue
  <2>6. Became(w, Idle) /\ Idle.pc = "idle" /\ Idle \notin Writing
    BY <1>0, <2>1, BecomeBecomes DEF Idle, Writing
  <2> QED BY <1>0, <2>1, <2>5, <2>6, QuietKeeps DEF At
<1> QED BY <1>1, <1>2

\* A transaction that is rolled back leaves only its lock behind, and gives that up.
LEMMA RollbackKeeps ==
    ASSUME IInv, NEW w \in Worker, At(w, "insert"), Rollback(w),
           UNCHANGED <<orders, events, idem, answers>>
    PROVE  IInv'
<1>1. Shapes /\ worker[w].slot \in Slot
  BY Kinds DEF IInv, At, Creating
<1>2. Became(w, Idle) /\ Idle.pc = "idle" /\ Idle \notin Writing
  BY <1>1, BecomeBecomes DEF Idle, Writing, Rollback
<1> QED BY <1>1, <1>2, LockKeeps DEF Rollback

\* The transaction of a checkout commits: a first order under its key, its event, its
\* cached answer.
LEMMA CreateOrderTxKeeps ==
    ASSUME IInv, NEW w \in Worker, CreateOrderTx(w) PROVE IInv'
<1> DEFINE r == worker[w]
           n == Len(orders) + 1
           row == [slot |-> r.slot, body |-> r.body, items |-> r.items, total |-> r.total,
                   status |-> "PENDING", version |-> 1, past |-> <<"PENDING">>]
           created == Message("OrderCreated", n, "NONE", "PENDING", 1, TRUE)
           key == PlacedKey(r.slot, r.body, n)
           a == [slot |-> r.slot, body |-> r.body, order |-> n]
<1>0. Shapes /\ r \in Creating /\ At(w, "insert") /\ r.slot \in Slot /\ r.body \in Body
  BY Kinds DEF IInv, CreateOrderTx, At, Creating
<1>1. CASE UNCHANGED <<orders, events, idem, answers>>
  BY <1>0, <1>1, RollbackKeeps DEF CreateOrderTx
<1>2. CASE /\ ~Duplicate(r.slot)
           /\ orders' = Append(orders, row)
           /\ events' = Append(events, created)
           /\ idem' = [idem EXCEPT ![r.slot] = key]
           /\ answers' \in {answers, answers \cup {a}}
  <2>1. row \in OrderRow
    BY <1>0, OrderAssumption DEF OrderRow, Creating, Status
  <2>2. /\ row.slot = r.slot /\ row.body = r.body /\ row.status = "PENDING" /\ row.version = 1
        /\ Len(row.past) = 1 /\ row.past[1] = "PENDING" /\ DOMAIN row.past = 1 .. 1
    OBVIOUS
  <2>3. /\ created.order = n /\ created.to = "PENDING" /\ created.version = 1
        /\ created.from = "NONE" /\ created.own = TRUE /\ created \in MessageRow
    BY <1>0, RowsHaveType DEF Message, MessageRow, Status
  <2>4. a.order = n /\ a.slot = r.slot /\ a.body = r.body
    OBVIOUS
  <2>5. n \in Nat /\ key \in KeyRow /\ key.order = n /\ key.body = r.body
    BY <1>0, RowsHaveType DEF PlacedKey, KeyRow
  <2> HIDE DEF row, created, a, key
  <2>6. /\ orders' \in Seq(OrderRow) /\ n \notin Orders /\ DOMAIN orders' = Orders \cup {n}
        /\ orders'[n] = row
        /\ \A o \in Orders : orders'[o] = orders[o]
    <3>1. orders \in Seq(OrderRow)
      BY <1>0 DEF Shapes
    <3> QED BY <1>2, <2>1, <3>1 DEF Orders
  <2> HIDE DEF n
  <2>7. OrdersKept
    BY <2>6 DEF OrdersKept, Kept
  <2>8. Became(w, Idle) /\ Idle.pc = "idle" /\ Idle \notin Writing
    BY <1>0, BecomeBecomes DEF CreateOrderTx, Rollback, Idle, Writing
  <2>9. holder' = [holder EXCEPT ![r.slot] = NONE]
    BY DEF CreateOrderTx, Rollback
  <2>10. Shapes'
    BY <1>0, <1>2, <2>5, <2>6, <2>8, <2>9 DEF Shapes, Became
  <2>11. OnePerSlot'
    BY <1>2, <2>2, <2>6 DEF IInv, OnePerSlot, Duplicate, Orders
  <2>12. KeysTrue'
    <3> SUFFICES ASSUME NEW s \in Slot, idem'[s] # NONE PROVE Names(idem'[s], s, orders')
      BY DEF KeysTrue
    <3>1. CASE s = r.slot
      BY <1>0, <1>2, <2>2, <2>5, <2>6, <3>1 DEF Names, Shapes
    <3>2. CASE s # r.slot
      BY <1>0, <1>2, <2>7, <3>2, KeptNames DEF IInv, KeysTrue, Shapes
    <3> QED BY <3>1, <3>2
  <2>13. AnswersTrue'
    <3>1. Names(a, a.slot, orders')
      BY <2>2, <2>4, <2>6 DEF Names
    <3>2. \A b \in answers : Names(b, b.slot, orders')
      BY <2>7, KeptNames DEF IInv, AnswersTrue
    <3> QED BY <1>2, <3>1, <3>2 DEF AnswersTrue
  <2>14. LockHeld'
    BY <1>0, <2>8, <2>9, LockMoves DEF IInv
  <2>15. WritersLegal'
    BY <2>7, <2>8, KeptLegal DEF IInv, WritersLegal, Became
  <2>16. PastIsVersions'
    BY <2>2, <2>6 DEF IInv, PastIsVersions, Orders
  <2>17. EventsHold(events', orders')
    <3>1. Told(events, orders) /\ Announced(events, orders) /\ events \in Seq(MessageRow)
      BY DEF IInv, EventsHold, Told
    <3>2. Told(events, orders')
      BY <1>0, <2>7, <3>1, KeptTold
    <3>3. EventTrue(created, orders')
      BY <2>2, <2>3, <2>6 DEF EventTrue
    <3>4. Follows(created, events, Len(events))
      BY <2>3, <2>6, <3>1 DEF Follows, Told, EventTrue, Orders
    <3>5. /\ Told(events', orders') /\ Len(events') = Len(events) + 1
          /\ events'[Len(events) + 1] = created
          /\ \A j \in 1 .. Len(events) : events'[j] = events[j]
      BY <1>2, <2>3, <3>2, <3>3, <3>4, TellMore
    <3>6. /\ Len(events) \in Nat /\ DOMAIN events = 1 .. Len(events)
          /\ DOMAIN events' = 1 .. Len(events) + 1
      BY <3>1, <3>5 DEF Told
    <3>7. Announced(events', orders')
      <4> SUFFICES ASSUME NEW o \in DOMAIN orders', NEW v \in 1 .. orders'[o].version
                   PROVE  \E i \in DOMAIN events' : /\ events'[i].own /\ events'[i].order = o
                                                    /\ events'[i].version = v
        BY DEF Announced
      <4>1. CASE o = n
        <5>1. v = 1
          BY <2>2, <2>6, <4>1
        <5>2. Len(events) + 1 \in DOMAIN events'
          BY <3>6
        <5> QED BY <2>3, <3>5, <4>1, <5>1, <5>2
      <4>2. CASE o # n
        <5>1. o \in DOMAIN orders /\ v \in 1 .. orders[o].version
          BY <2>6, <4>2 DEF Orders
        <5>2. PICK i \in DOMAIN events : events[i].own /\ events[i].order = o /\ events[i].version = v
          BY <3>1, <5>1 DEF Announced
        <5>3. i \in DOMAIN events' /\ events'[i] = events[i]
          BY <3>5, <3>6
        <5> QED BY <5>2, <5>3
      <4> QED BY <4>1, <4>2
    <3> QED BY <3>5, <3>7 DEF EventsHold
  <2> QED BY <2>10, <2>11, <2>12, <2>13, <2>14, <2>15, <2>16, <2>17 DEF IInv
<1> QED BY <1>1, <1>2 DEF CreateOrderTx

\* A call that changes a status reads the order, once or twice, and decides on what it
\* read; only then may the order change under it.
LEMMA BecomesWriter ==
    ASSUME IInv, NEW w \in Worker, ~At(w, "insert"), NEW x \in Writing, Become(w, x),
           Legal(x, orders), UNCHANGED <<orders, events, idem, holder, answers>>
    PROVE  IInv'
<1>1. Became(w, x) /\ x.pc # "insert"
  BY BecomeBecomes DEF IInv, Writing
<1>2. AnswersTrue'
  BY DEF IInv, AnswersTrue, Names
<1> QED BY <1>1, <1>2, QuietKeeps

\* A worker without a row lock may give up at any time.
LEMMA BecomesIdle ==
    ASSUME IInv, NEW w \in Worker, ~At(w, "insert"), Become(w, Idle),
           UNCHANGED <<orders, events, idem, holder, answers>>
    PROVE  IInv'
<1>1. Became(w, Idle) /\ Idle.pc # "insert" /\ Idle \notin Writing
  BY BecomeBecomes DEF IInv, Idle, Writing
<1>2. AnswersTrue'
  BY DEF IInv, AnswersTrue, Names
<1> QED BY <1>1, <1>2, QuietKeeps

\* The calls that read an order and plan a change of its status.
LEMMA ReadersKeep ==
    ASSUME IInv, NEW w \in Worker, cancelOrder(w) \/ orderCommanderAdapter(w)
    PROVE  IInv'
<1>0. Shapes
  BY DEF IInv
<1>4. \A o \in Orders : /\ orders[o].version \in DOMAIN orders[o].past
                        /\ orders[o].past[orders[o].version] = orders[o].status
  BY CurrentIsPast DEF IInv
<1>1. ASSUME NEW o \in Orders, CancelOrder(w, o) PROVE IInv'
  <2> DEFINE x == Writer("update", "cancel", o, orders[o].status, "CANCELLED", orders[o].version)
  <2>1. x \in Writing /\ Legal(x, orders)
    BY <1>0, <1>1, <1>4, RowsHaveType
       DEF CancelOrder, Unbounded, Writer, Writing, Ops, Legal, OrderRow, Status, Orders
  <2> QED BY <1>1, <2>1, BecomesWriter DEF CancelOrder, At
<1>2. ASSUME NEW o \in Orders, AdapterRead(w, o) PROVE IInv'
  <2> DEFINE x == Writer("confirm", "confirm", o, "NONE", "CONFIRMED", orders[o].version)
  <2>1. x \in Writing /\ Legal(x, orders)
    BY <1>0, <1>2, RowsHaveType
       DEF AdapterRead, Unbounded, Writer, Writing, Ops, Legal, OrderRow, Status, Orders
  <2> QED BY <1>2, <2>1, BecomesWriter DEF AdapterRead, At
<1>3. ASSUME NEW o \in Orders, NEW to \in Status, UpdateStatus(w, o, to) PROVE IInv'
  <2> DEFINE x == Writer("update", "transition", o, orders[o].status, to, orders[o].version)
  <2>1. x \in Writing /\ Legal(x, orders)
    BY <1>0, <1>3, <1>4, RowsHaveType
       DEF UpdateStatus, TransitionStatus, Unbounded, Writer, Writing, Ops, Legal, OrderRow, Orders
  <2> QED BY <1>3, <2>1, BecomesWriter DEF UpdateStatus, TransitionStatus, At
<1> QED BY <1>1, <1>2, <1>3 DEF cancelOrder, orderCommanderAdapter

\* ConfirmOrder goes on from the order it read.
LEMMA ConfirmOrderKeeps ==
    ASSUME IInv, NEW w \in Worker, ConfirmOrder(w) PROVE IInv'
<1> DEFINE o == worker[w].order
           st == orders[o].status
           x == Writer("update", "confirm", o, st, "CONFIRMED", worker[w].ver)
<1>0. /\ Shapes /\ worker[w] \in Writing /\ At(w, "confirm") /\ o \in Orders
      /\ worker[w].ver \in 1 .. MaxVersion /\ worker[w].ver < MaxVersion
  BY Kinds DEF IInv, ConfirmOrder, At, Writing, WritersLegal, Legal, Orders
<1>1. UNCHANGED <<orders, events, idem, holder, answers>> /\ ~At(w, "insert")
  BY <1>0 DEF ConfirmOrder, At
<1>2. CASE st # "CONFIRMED" /\ CanTransitionTo(st, "CONFIRMED") /\ Become(w, x)
  <2>1. /\ st \in Status /\ o \in Nat
        /\ \E v \in DOMAIN orders[o].past : orders[o].past[v] = st
    BY <1>0, RowsHaveType, CurrentIsPast DEF OrderRow, IInv
  <2> HIDE DEF o, st
  <2>2. x \in Writing /\ Legal(x, orders)
    BY <1>0, <1>2, <2>1 DEF Writer, Writing, Ops, Legal, Status, Orders
  <2> QED BY <1>1, <1>2, <2>2, BecomesWriter
<1>3. CASE Become(w, Idle)
  BY <1>1, <1>3, BecomesIdle
<1> QED BY <1>2, <1>3 DEF ConfirmOrder

\* What a status change under way consists of.
LEMMA WritingFields ==
    ASSUME NEW r \in Writing
    PROVE  r.op \in Ops /\ r.order \in Nat /\ r.from \in Status \cup {"NONE"} /\ r.to \in Status
BY DEF Writing

\* The UPDATE that found no row reads it again: in the target status the version
\* read is one the order had in that status.
LEMMA CheckCurrentKeeps ==
    ASSUME IInv, NEW w \in Worker, CheckCurrent(w) PROVE IInv'
<1> DEFINE r == worker[w]
           x == Writer("announce", r.op, r.order, r.from, r.to, orders[r.order].version)
<1>0. /\ Shapes /\ r \in Writing /\ At(w, "update") /\ r.order \in Orders
  BY Kinds DEF IInv, CheckCurrent, At, Writing, WritersLegal, Legal, Orders
<1>1. UNCHANGED <<orders, events, idem, holder, answers>> /\ ~At(w, "insert")
  BY <1>0 DEF CheckCurrent, At
<1>2. CASE orders[r.order].status = r.to /\ Become(w, x)
  <2>1. /\ orders[r.order].version \in 1 .. MaxVersion
        /\ orders[r.order].past \in Seq(Status)
    BY <1>0, RowsHaveType DEF OrderRow
  <2>2. /\ orders[r.order].version \in DOMAIN orders[r.order].past
        /\ orders[r.order].past[orders[r.order].version] = r.to
    BY <1>0, <1>2, <2>1 DEF IInv, PastIsVersions
  <2>3. /\ x.pc = "announce" /\ x.order = r.order /\ x.to = r.to /\ x.from = r.from
        /\ x.ver = orders[r.order].version
    BY DEF Writer
  <2>6. \E v \in DOMAIN orders[r.order].past :
            v < orders[r.order].version /\ orders[r.order].past[v] = r.from
    <3> DEFINE past == orders[r.order].past
               now == orders[r.order].version
    <3>1. /\ r.op = "confirm" => r.from # r.to
          /\ r.op # "confirm" => r.ver \in DOMAIN past /\ past[r.ver] = r.from
          /\ \E v \in DOMAIN past : past[v] = r.from
      BY <1>0 DEF IInv, WritersLegal, Legal, At
    <3>2. DOMAIN past = 1 .. now /\ now \in Nat
      BY <1>0, <2>1 DEF IInv, PastIsVersions
    <3>3. past[now] = r.to /\ ~(r.from = r.to /\ now = r.ver)
      BY <1>2, <2>2 DEF CheckCurrent, UpdateMatches
    <3> HIDE DEF past, now, r
    <3>4. PICK v \in DOMAIN past : past[v] = r.from /\ v # now
      <4>1. CASE r.op = "confirm"
        BY <3>1, <3>3, <4>1
      <4>2. CASE r.op # "confirm"
        BY <3>1, <3>3, <4>2
      <4> QED BY <4>1, <4>2
    <3>5. v < now
      BY <3>2, <3>4
    <3> QED BY <3>4, <3>5 DEF past, now
  <2>4. x \in Writing
    <3>1. /\ r.op \in Ops /\ r.order \in Nat /\ r.from \in Status \cup {"NONE"} /\ r.to \in Status
      BY <1>0, WritingFields
    <3> HIDE DEF r
    <3> QED BY ONLY <2>1, <3>1 DEF x, Writer, Writing
  <2>5. Legal(x, orders)
    BY <1>0, <2>2, <2>3, <2>6 DEF Legal, Orders
  <2> QED BY <1>1, <1>2, <2>4, <2>5, BecomesWriter
<1>3. CASE Become(w, Idle)
  BY <1>1, <1>3, BecomesIdle
<1> QED BY <1>2, <1>3 DEF CheckCurrent, SeenVersion

\* The guarded UPDATE adds a version to the order; what the row was before stays in
\* its past.
LEMMA UpdatedRow ==
    ASSUME IInv, NEW w \in Worker, UpdateOrderStatus(w)
    PROVE  LET r == worker[w] IN
           /\ r \in Writing /\ r.order \in Orders /\ CanTransitionTo(r.from, r.to)
           /\ orders[r.order].status = r.from
           /\ orders' \in Seq(OrderRow) /\ DOMAIN orders' = Orders
           /\ \A o \in Orders : o # r.order => orders'[o] = orders[o]
           /\ orders'[r.order].slot = orders[r.order].slot
           /\ orders'[r.order].body = orders[r.order].body
           /\ orders'[r.order].status = r.to
           /\ orders'[r.order].version = orders[r.order].version + 1
           /\ orders'[r.order].past = Append(orders[r.order].past, r.to)
<1> DEFINE r == worker[w]
           old == orders[r.order]
           row == [slot |-> old.slot, body |-> old.body, items |-> old.items, total |-> old.total,
                   status |-> r.to, version |-> old.version + 1, past |-> Append(old.past, r.to)]
<1>1. /\ Shapes /\ r \in Writing /\ At(w, "update") /\ r.order \in Orders
      /\ CanTransitionTo(r.from, r.to) /\ r.ver < MaxVersion
  BY Kinds DEF IInv, UpdateOrderStatus, At, WritersLegal, Legal, Orders
<1>2. old \in OrderRow /\ old.status = r.from /\ old.version = r.ver
  BY <1>1, RowsHaveType DEF UpdateOrderStatus, UpdateMatches
<1>3. orders' = [orders EXCEPT ![r.order] = row]
  BY DEF UpdateOrderStatus
<1>4. row \in OrderRow
  BY <1>1, <1>2, OrderAssumption DEF OrderRow, Writing
<1>5. /\ row.slot = old.slot /\ row.body = old.body /\ row.status = r.to
      /\ row.version = old.version + 1 /\ row.past = Append(old.past, r.to)
  OBVIOUS
<1> HIDE DEF row
<1>6. /\ orders' \in Seq(OrderRow) /\ DOMAIN orders' = Orders /\ orders'[r.order] = row
      /\ \A o \in Orders : o # r.order => orders'[o] = orders[o]
  BY <1>1, <1>3, <1>4 DEF Shapes, Orders
<1> QED BY <1>1, <1>2, <1>5, <1>6

\* A sequence that grows by one element keeps the elements it had.
LEMMA AppendKeeps ==
    ASSUME NEW S, NEW s \in Seq(S), NEW e \in S
    PROVE  LET n == Len(s) + 1 IN
           /\ Len(Append(s, e)) = n /\ DOMAIN Append(s, e) = 1 .. n /\ Append(s, e)[n] = e
           /\ \A v \in DOMAIN s : v \in 1 .. n /\ Append(s, e)[v] = s[v]
OBVIOUS

\* The new version and its messages commit together.
LEMMA UpdateOrderStatusKeeps ==
    ASSUME IInv, NEW w \in Worker, UpdateOrderStatus(w) PROVE IInv'
<1> DEFINE r == worker[w]
           new == orders[r.order].version + 1
<1>1. /\ r \in Writing /\ r.order \in Orders
      /\ orders' \in Seq(OrderRow) /\ DOMAIN orders' = Orders
      /\ \A o \in Orders : o # r.order => orders'[o] = orders[o]
      /\ orders'[r.order].slot = orders[r.order].slot
      /\ orders'[r.order].body = orders[r.order].body
      /\ orders'[r.order].status = r.to
      /\ orders'[r.order].version = new
      /\ orders'[r.order].past = Append(orders[r.order].past, r.to)
      /\ orders[r.order].status = r.from
  BY UpdatedRow
<1>2. /\ events' = events \o Announce(r, new, TRUE) /\ Become(w, Idle) /\ At(w, "update")
      /\ UNCHANGED <<idem, holder, answers>>
  BY SMTT(60) DEF UpdateOrderStatus
<1>3. /\ orders[r.order].past \in Seq(Status) /\ orders[r.order].version \in Nat
      /\ Len(orders[r.order].past) = orders[r.order].version /\ r.to \in Status
  BY <1>1, RowsHaveType, SMTT(60) DEF IInv, OrderRow, PastIsVersions, Writing
<1>4. /\ Len(orders'[r.order].past) = new /\ DOMAIN orders'[r.order].past = 1 .. new
      /\ orders'[r.order].past[new] = r.to
      /\ \A v \in DOMAIN orders[r.order].past :
            v \in 1 .. new /\ orders'[r.order].past[v] = orders[r.order].past[v]
  <2> DEFINE old == orders[r.order].past
             more == Append(old, r.to)
  <2>1. /\ Len(more) = Len(old) + 1 /\ DOMAIN more = 1 .. (Len(old) + 1)
        /\ more[Len(old) + 1] = r.to
        /\ \A v \in DOMAIN old : v \in 1 .. (Len(old) + 1) /\ more[v] = old[v]
    BY <1>3, AppendKeeps, SMTT(60)
  <2>2. orders'[r.order].past = more /\ Len(old) + 1 = new
    BY <1>1, <1>3
  <2> QED BY ONLY <2>1, <2>2
<1>5. OrdersKept
  <2> SUFFICES ASSUME NEW o \in Orders PROVE Kept(o)
    BY SMTT(60) DEF OrdersKept
  <2>1. CASE o = r.order
    BY <1>1, <1>4, <2>1 DEF Kept
  <2>2. CASE o # r.order
    BY <1>1, <2>2 DEF Kept
  <2> QED BY <2>1, <2>2
<1>6. Became(w, Idle) /\ Idle.pc = "idle" /\ Idle \notin Writing
  BY <1>2, BecomeBecomes, SMTT(60) DEF IInv, Idle, Writing
<1>7. Shapes'
  BY <1>1, <1>2, <1>6 DEF IInv, Shapes, Became
<1>8. OnePerSlot'
  BY <1>1, <1>5 DEF IInv, OnePerSlot, OrdersKept, Kept, Orders
<1>9. KeysTrue' /\ AnswersTrue'
  BY <1>2, <1>5, KeptNames DEF IInv, KeysTrue, AnswersTrue
<1>10. LockHeld'
  BY <1>2, <1>6 DEF IInv, LockHeld, Became, At, Shapes
<1>11. WritersLegal'
  BY <1>5, <1>6, KeptLegal DEF IInv, WritersLegal, Became
<1>12. PastIsVersions'
  BY <1>1, <1>4 DEF IInv, PastIsVersions, Orders
<1>13. EventsHold(events', orders')
  <2>1. Told(events, orders) /\ Announced(events, orders) /\ events \in Seq(MessageRow) /\ Shapes
    BY DEF IInv, EventsHold, Told
  <2>2. Told(events, orders')
    BY <1>5, <2>1, KeptTold
  <2>3. /\ new \in Nat /\ new # 1 /\ new \in 1 .. new
        /\ new - 1 \in DOMAIN orders[r.order].past /\ orders[r.order].past[new - 1] = r.from
    <3>1. /\ orders[r.order].version \in 1 .. MaxVersion
          /\ orders[r.order].past[orders[r.order].version] = orders[r.order].status
          /\ DOMAIN orders[r.order].past = 1 .. orders[r.order].version
      <4>1. orders[r.order] \in OrderRow
        BY <1>1, <2>1, RowsHaveType
      <4>2. orders[r.order].version \in 1 .. MaxVersion
        BY <4>1 DEF OrderRow
      <4>3. orders[r.order].past[orders[r.order].version] = orders[r.order].status
        BY <1>1 DEF IInv, PastIsVersions
      <4>4. DOMAIN orders[r.order].past = 1 .. orders[r.order].version
        BY <1>3
      <4> QED BY <4>2, <4>3, <4>4
    <3> DEFINE k == orders[r.order].version
               past == orders[r.order].past
    <3>2. k \in 1 .. MaxVersion /\ past[k] = r.from /\ DOMAIN past = 1 .. k /\ new = k + 1
      BY <1>1, <3>1
    <3> HIDE DEF k, past, new
    <3>3. new \in Nat /\ new # 1 /\ new \in 1 .. new /\ new - 1 = k /\ k \in 1 .. k
      BY <3>2
    <3> QED BY <3>2, <3>3 DEF past
  <2>4. ASSUME NEW e, Says(e, r, new, TRUE)
        PROVE  EventTrue(e, orders') /\ Follows(e, events, Len(events))
    <3>1. /\ e.order = r.order /\ e.from = r.from /\ e.to = r.to /\ e.version = new /\ e.own = TRUE
      BY ONLY <2>4 DEF Says
    <3>2. EventTrue(e, orders')
      <4> DEFINE past == orders'[r.order].past
      <4>1. /\ r.order \in DOMAIN orders' /\ DOMAIN past = 1 .. new /\ past[new] = r.to
            /\ past[new - 1] = r.from
        BY ONLY <1>1, <1>4, <2>3, Zenon
      <4>2. new \in 1 .. new /\ new # 1
        BY <2>3
      <4> HIDE DEF past, new, r
      <4>3. /\ new \in DOMAIN past /\ past[new] = r.to
            /\ r.from = IF new = 1 THEN "NONE" ELSE past[new - 1]
        BY <4>1, <4>2
      <4> QED BY ONLY <3>1, <4>1, <4>3 DEF EventTrue, past
    <3>3. ASSUME NEW j \in 1 .. Len(events), events[j].order = e.order
          PROVE  events[j].version < new
      <4>1. j \in DOMAIN events
        BY <2>1
      <4>2. EventTrue(events[j], orders)
        BY <2>1, <4>1 DEF Told
      <4>3. events[j].version \in DOMAIN orders[r.order].past
        BY <3>1, <3>3, <4>2 DEF EventTrue
      <4> QED BY <1>3, <4>3, SMTT(60)
    <3> QED BY <3>1, <3>2, <3>3 DEF Follows, StoredAfter
  <2> DEFINE more == events \o Announce(r, new, TRUE)
  <2>5. /\ Told(more, orders') /\ Len(more) \in Nat /\ Len(more) > Len(events)
        /\ \A j \in 1 .. Len(events) : more[j] = events[j]
        /\ Says(more[Len(events) + 1], r, new, TRUE)
    <3> HIDE DEF r, new
    <3>1. r \in Writing /\ new \in Nat
      BY <1>1, <2>3
    <3> QED BY <2>2, <2>4, <3>1, AnnounceTells
  <2>6. /\ Len(events) \in Nat /\ DOMAIN events = 1 .. Len(events) /\ events' = more
        /\ DOMAIN more = 1 .. Len(more)
    BY <1>2, <2>1, <2>5 DEF Told
  <2> HIDE DEF more
  <2>7. ASSUME NEW o \in DOMAIN orders', NEW v \in 1 .. orders'[o].version
        PROVE  \E i \in DOMAIN more : more[i].own /\ more[i].order = o /\ more[i].version = v
    <3>1. CASE o = r.order /\ v = new
      <4>1. Len(events) + 1 \in DOMAIN more
        BY <2>5, <2>6
      <4> QED BY <2>5, <3>1, <4>1 DEF Says
    <3>2. CASE ~(o = r.order /\ v = new)
      <4>1. o \in DOMAIN orders /\ v \in 1 .. orders[o].version
        <5>1. CASE o # r.order
          BY <1>1, <2>7, <5>1 DEF Orders
        <5>2. CASE o = r.order
          <6> DEFINE k == orders[o].version
                     l == orders'[o].version
          <6>1. k \in Nat /\ l = k + 1 /\ v # k + 1
            BY <1>1, <1>3, <3>2, <5>2
          <6>2. v \in 1 .. l
            BY <2>7
          <6> HIDE DEF k, l
          <6>3. v \in 1 .. k
            BY <6>1, <6>2
          <6> QED BY <1>1, <5>2, <6>3 DEF k, Orders
        <5> QED BY <5>1, <5>2
      <4>2. PICK i \in DOMAIN events : events[i].own /\ events[i].order = o /\ events[i].version = v
        BY <2>1, <4>1 DEF Announced
      <4>3. i \in DOMAIN more /\ more[i] = events[i]
        BY <2>5, <2>6
      <4> QED BY <4>2, <4>3
    <3> QED BY <3>1, <3>2
  <2> QED BY <2>5, <2>6, <2>7 DEF EventsHold, Announced
<1> QED BY <1>7, <1>8, <1>9, <1>10, <1>11, <1>12, <1>13 DEF IInv

\* An "idempotent success" announces a version the order had.
LEMMA AnnounceAgainKeeps ==
    ASSUME IInv, NEW w \in Worker, AnnounceAgain(w) PROVE IInv'
<1> DEFINE r == worker[w]
<1>1. /\ Shapes /\ r \in Writing /\ At(w, "announce") /\ Legal(r, orders)
      /\ events' = events \o Announce(r, r.ver, FALSE) /\ Become(w, Idle)
      /\ UNCHANGED <<orders, idem, holder, answers>>
  BY Kinds DEF IInv, AnnounceAgain, At, WritersLegal
<1>2. Became(w, Idle) /\ Idle.pc = "idle" /\ Idle \notin Writing
  BY <1>1, BecomeBecomes DEF Idle, Writing
<1>3. Shapes'
  BY <1>1, <1>2 DEF Shapes, Became
<1>4. OnePerSlot' /\ KeysTrue' /\ AnswersTrue' /\ PastIsVersions'
  BY <1>1 DEF IInv, OnePerSlot, KeysTrue, AnswersTrue, Names, PastIsVersions, Orders
<1>5. LockHeld'
  BY <1>1, <1>2 DEF IInv, LockHeld, Became, At, Shapes
<1>6. WritersLegal'
  BY <1>1, <1>2 DEF IInv, WritersLegal, Became
<1>7. EventsHold(events', orders')
  <2>1. Told(events, orders) /\ Announced(events, orders) /\ events \in Seq(MessageRow)
    BY DEF IInv, EventsHold, Told
  <2>2. /\ r.order \in DOMAIN orders /\ r.ver \in DOMAIN orders[r.order].past /\ r.ver \in Nat
        /\ orders[r.order].past[r.ver] = r.to
        /\ \E v \in DOMAIN orders[r.order].past : v < r.ver /\ orders[r.order].past[v] = r.from
    BY <1>1 DEF Legal, At, Writing
  <2>3. r.ver \in 1 .. orders[r.order].version
    <3>1. orders[r.order].past \in Seq(Status) /\ Len(orders[r.order].past) = orders[r.order].version
      BY <1>1, <2>2, RowsHaveType DEF IInv, PastIsVersions, Orders, OrderRow
    <3> QED BY <2>2, <3>1
  <2>4. PICK i \in DOMAIN events :
            events[i].own /\ events[i].order = r.order /\ events[i].version = r.ver
    BY <2>1, <2>2, <2>3 DEF Announced
  <2>5. ASSUME NEW e, Says(e, r, r.ver, FALSE)
        PROVE  EventTrue(e, orders) /\ Follows(e, events, Len(events))
    <3>1. /\ e.order = r.order /\ e.from = r.from /\ e.to = r.to /\ e.version = r.ver
          /\ e.own = FALSE
      BY <2>5 DEF Says
    <3>2. EventTrue(e, orders)
      BY <2>2, <3>1 DEF EventTrue
    <3>3. i \in 1 .. Len(events)
      BY <2>1
    <3> QED BY <2>4, <3>1, <3>2, <3>3 DEF Follows
  <2> DEFINE more == events \o Announce(r, r.ver, FALSE)
  <2>6. /\ Told(more, orders) /\ Len(more) \in Nat /\ Len(more) > Len(events)
        /\ \A j \in 1 .. Len(events) : more[j] = events[j]
    <3>1. r \in Writing /\ r.ver \in Nat /\ FALSE \in BOOLEAN /\ Told(events, orders)
      BY <1>1, <2>1, <2>2
    <3>2. \A e : Says(e, r, r.ver, FALSE) => EventTrue(e, orders) /\ Follows(e, events, Len(events))
      BY <2>5
    <3> DEFINE k == r.ver
               no == FALSE
    <3>3. /\ r \in Writing /\ k \in Nat /\ no \in BOOLEAN /\ Told(events, orders)
          /\ \A e : Says(e, r, k, no) => EventTrue(e, orders) /\ Follows(e, events, Len(events))
          /\ more = events \o Announce(r, k, no)
      BY <3>1, <3>2
    <3> HIDE DEF r, k, no, more
    <3> QED BY <3>3, AnnounceTells
  <2>7. events' = more /\ orders' = orders
    BY <1>1
  <2> HIDE DEF more
  <2>8. \A j \in DOMAIN events : j \in DOMAIN more /\ more[j] = events[j]
    BY <2>1, <2>6 DEF Told
  <2>9. Announced(more, orders)
    BY <2>1, <2>8 DEF Announced
  <2> QED BY <2>6, <2>7, <2>9 DEF EventsHold
<1> QED BY <1>3, <1>4, <1>5, <1>6, <1>7 DEF IInv

\* A call that is cancelled or fails: its transaction, if any, is rolled back.
LEMMA AbortKeeps ==
    ASSUME IInv, NEW w \in Worker, Abort(w) PROVE IInv'
<1>1. CASE At(w, "insert")
  BY <1>1, RollbackKeeps DEF Abort
<1>2. CASE ~At(w, "insert")
  BY <1>2, BecomesIdle DEF Abort
<1> QED BY <1>1, <1>2

\* An expired key still names its order.
LEMMA KeyExpiresKeeps ==
    ASSUME IInv, NEW s \in Slot, KeyExpires(s) PROVE IInv'
<1> DEFINE key == [status |-> idem[s].status, body |-> idem[s].body, order |-> idem[s].order,
                   expired |-> TRUE]
<1>1. /\ idem[s] # NONE /\ idem' = [idem EXCEPT ![s] = key]
      /\ UNCHANGED <<orders, events, holder, answers, worker>>
  BY DEF KeyExpires
<1>2. idem[s] \in KeyRow
  BY <1>1 DEF IInv, Shapes
<1>3. key \in KeyRow /\ key.body = idem[s].body /\ key.order = idem[s].order
  BY <1>2 DEF KeyRow
<1> HIDE DEF key
<1>4. Shapes'
  BY <1>1, <1>3 DEF IInv, Shapes
<1>5. KeysTrue'
  BY <1>1, <1>3 DEF IInv, KeysTrue, Names, Shapes
<1>6. /\ OnePerSlot' /\ AnswersTrue' /\ LockHeld' /\ WritersLegal' /\ PastIsVersions'
      /\ EventsHold(events', orders')
  BY <1>1 DEF IInv, OnePerSlot, AnswersTrue, Names, LockHeld, WritersLegal, Legal,
       PastIsVersions, Orders, At
<1> QED BY <1>4, <1>5, <1>6 DEF IInv

-----------------------------------------------------------------------------
(* The theorems *)

\* At the start there is no order, key or request.
LEMMA InitIInv == Init => IInv
BY DEF Init, IInv, Shapes, OnePerSlot, KeysTrue, AnswersTrue, LockHeld, WritersLegal,
     PastIsVersions, EventsHold, Told, Announced, Orders, At, Idle, Writing

\* Every step keeps the invariant.
LEMMA NextIInv == IInv /\ [Next]_vars => IInv'
<1> SUFFICES ASSUME IInv, [Next]_vars PROVE IInv'
  OBVIOUS
<1>1. CASE UNCHANGED vars
  BY <1>1 DEF vars, IInv, Shapes, OnePerSlot, KeysTrue, AnswersTrue, Names, LockHeld,
       WritersLegal, Legal, PastIsVersions, Orders, At
<1>2. CASE Next
  BY <1>2, StartCreateKeeps, LockIdempotencyKeyKeeps, CreateOrderTxKeeps, ReadersKeep,
     ConfirmOrderKeeps, UpdateOrderStatusKeeps, CheckCurrentKeeps, AnnounceAgainKeeps,
     AbortKeeps, KeyExpiresKeeps DEF Next
<1> QED BY <1>1, <1>2

\* The inductive invariant holds in every reachable state.
THEOREM Invariance == Spec => []IInv
BY InitIInv, NextIInv, PTL DEF Spec

\* Every successful answer under a key names that key's order and was given for the
\* body that order was placed with, and a key is locked exactly while a transaction
\* inserts under it.
THEOREM AnswersAgreeHolds == Spec => []AnswersAgree
<1>1. IInv => AnswersAgree
  <2> SUFFICES ASSUME IInv PROVE AnswersAgree
    OBVIOUS
  <2>1. \A o \in Orders : orders[o] \in OrderRow
    BY RowsHaveType DEF IInv
  <2>2. \A o \in Orders : /\ orders[o].slot \in Slot /\ orders[o].status \in Status
                          /\ orders[o].version \in 1 .. MaxVersion
    BY <2>1 DEF OrderRow
  <2>3. \A s \in Slot : idem[s] # NONE => idem[s].order \in Orders
    BY DEF IInv, KeysTrue, Names, Orders
  <2>4. \A s \in Slot :
            /\ holder[s] # NONE <=> \E w \in Worker : At(w, "insert") /\ worker[w].slot = s
            /\ \A w \in Worker : At(w, "insert") /\ worker[w].slot = s => holder[s] = w
    BY OrderAssumption DEF IInv, LockHeld, Shapes
  <2> QED BY <2>2, <2>3, <2>4 DEF IInv, EventsHold, Told, EventTrue, AnswersTrue, Names, AnswersAgree, TypeOK, Orders
<1> QED BY <1>1, Invariance, PTL

\* Every version of every order is announced once by the call that wrote it, with the
\* change it really was and in the order of the versions; an "idempotent success"
\* announces a version again after its writer did, with the order's status in that
\* version and a status it had before.
THEOREM EventsTruthfulHolds == Spec => []EventsTruthful
<1>1. IInv => EventsTruthful
  <2> SUFFICES ASSUME EventsHold(events, orders) PROVE EventsTruthful
    BY DEF IInv
  <2>1. \A i \in DOMAIN events : MessageTrue(events[i])
    BY DEF EventsHold, Told, EventTrue, MessageTrue
  <2>2. \A i \in DOMAIN events : Follows(events[i], events, i - 1)
    BY DEF EventsHold, Told
  <2> QED BY <2>1, <2>2 DEF EventsHold, Announced, EventsTruthful, Follows, Orders
<1> QED BY <1>1, Invariance, PTL

-----------------------------------------------------------------------------
(* The refinement of the order book *)

\* The book of a slot in the given rows: with one order per slot, the status of its
\* order.
BookIn(rows, s) ==
    LET placed == {o \in DOMAIN rows : rows[o].slot = s}
    IN  CASE placed = {} -> "NONE"
          [] Cardinality(placed) = 1 -> rows[CHOOSE o \in placed : TRUE].status
          [] OTHER -> "MANY"

\* The book has the status of the one order of a slot, or NONE.
LEMMA BookOfSlot ==
    ASSUME NEW rows, \A i, j \in DOMAIN rows : rows[i].slot = rows[j].slot => i = j, NEW s
    PROVE  /\ \A o \in DOMAIN rows : rows[o].slot = s => BookIn(rows, s) = rows[o].status
           /\ (\A o \in DOMAIN rows : rows[o].slot # s) => BookIn(rows, s) = "NONE"
<1> DEFINE placed == {o \in DOMAIN rows : rows[o].slot = s}
<1>1. BookIn(rows, s) = CASE placed = {} -> "NONE"
                          [] Cardinality(placed) = 1 -> rows[CHOOSE o \in placed : TRUE].status
                          [] OTHER -> "MANY"
  BY DEF BookIn
<1>2. ASSUME NEW o \in DOMAIN rows, rows[o].slot = s PROVE BookIn(rows, s) = rows[o].status
  <2>1. placed = {o}
    BY <1>2
  <2>2. Cardinality({o}) = 1 /\ {o} # {}
    BY FS_Singleton
  <2>3. (CHOOSE x \in {o} : TRUE) = o
    OBVIOUS
  <2> HIDE DEF placed
  <2>4. BookIn(rows, s) = rows[CHOOSE x \in placed : TRUE].status
    BY <1>1, <2>1, <2>2, Zenon
  <2> QED BY <2>1, <2>3, <2>4
<1>3. ASSUME \A o \in DOMAIN rows : rows[o].slot # s PROVE BookIn(rows, s) = "NONE"
  <2>1. placed = {}
    BY <1>3
  <2>2. Cardinality({}) # 1
    BY FS_EmptySet
  <2> HIDE DEF placed
  <2> QED BY <1>1, <2>1, <2>2, Zenon
<1> QED BY <1>2, <1>3

\* The legal moves of a status are those of the life cycle.
LEMMA MovesAreLifeCycle ==
    ASSUME NEW from \in Status, NEW to \in Status, CanTransitionTo(from, to), from # to
    PROVE  <<from, to>> \in Book!LifeCycle
BY DEF CanTransitionTo, Book!LifeCycle, Status

\* A slot whose orders did not change has the book it had.
LEMMA BookOfOthers ==
    ASSUME NEW s, DOMAIN orders \subseteq DOMAIN orders',
           \A o \in DOMAIN orders' : orders'[o].slot = s => o \in DOMAIN orders,
           \A o \in DOMAIN orders : orders'[o].slot = orders[o].slot,
           \A o \in DOMAIN orders : orders[o].slot = s => orders'[o].status = orders[o].status,
           OnePerSlot, OnePerSlot'
    PROVE  BookIn(orders', s) = BookIn(orders, s)
<1>0. /\ \A i, j \in DOMAIN orders : orders[i].slot = orders[j].slot => i = j
      /\ \A i, j \in DOMAIN orders' : orders'[i].slot = orders'[j].slot => i = j
  BY DEF OnePerSlot, Orders
<1>1. CASE \E o \in DOMAIN orders : orders[o].slot = s
  <2> PICK o \in DOMAIN orders : orders[o].slot = s
    BY <1>1
  <2>1. BookIn(orders, s) = orders[o].status
    BY <1>0, BookOfSlot
  <2>2. BookIn(orders', s) = orders'[o].status
    BY <1>0, BookOfSlot
  <2> QED BY <2>1, <2>2
<1>2. CASE \A o \in DOMAIN orders : orders[o].slot # s
  <2>1. BookIn(orders, s) = "NONE"
    BY <1>0, <1>2, BookOfSlot
  <2>2. \A o \in DOMAIN orders' : orders'[o].slot # s
    BY <1>2
  <2>3. BookIn(orders', s) = "NONE"
    BY <1>0, <2>2, BookOfSlot
  <2> QED BY <2>1, <2>3
<1> QED BY <1>1, <1>2

book == [s \in Slot |-> BookIn(orders, s)]

\* The mapped book is the book of the stored rows.
LEMMA BookIsMapped ==
    /\ [s \in Slot |-> BookOf(s)] = book
    /\ [s \in Slot |-> BookOf(s)]' = book'
BY DEF BookOf, BookIn, book, Orders

\* A checkout that commits places the order of a slot that had none.
LEMMA CreatePlaces ==
    ASSUME IInv, OnePerSlot', NEW w \in Worker, CreateOrderTx(w), orders' # orders
    PROVE  \E s \in Slot : book[s] = "NONE" /\ book' = [book EXCEPT ![s] = "PENDING"]
<1> DEFINE r == worker[w]
           n == Len(orders) + 1
           row == [slot |-> r.slot, body |-> r.body, items |-> r.items, total |-> r.total,
                   status |-> "PENDING", version |-> 1, past |-> <<"PENDING">>]
<1>0. Shapes /\ r \in Creating /\ r.slot \in Slot
  BY Kinds DEF IInv, CreateOrderTx, At, Creating
<1>1. ~Duplicate(r.slot) /\ orders' = Append(orders, row)
  BY DEF CreateOrderTx
<1>2. row.slot = r.slot /\ row.status = "PENDING" /\ row \in OrderRow
  BY <1>0, OrderAssumption DEF OrderRow, Creating, Status
<1> HIDE DEF row
<1>3. /\ DOMAIN orders' = DOMAIN orders \cup {n} /\ n \notin DOMAIN orders
      /\ orders'[n] = row /\ \A o \in DOMAIN orders : orders'[o] = orders[o]
  <2>1. orders \in Seq(OrderRow)
    BY <1>0 DEF Shapes
  <2> QED BY <1>1, <1>2, <2>1
<1> HIDE DEF n
<1>4. /\ OnePerSlot
      /\ \A i, j \in DOMAIN orders : orders[i].slot = orders[j].slot => i = j
      /\ \A i, j \in DOMAIN orders' : orders'[i].slot = orders'[j].slot => i = j
  BY DEF IInv, OnePerSlot, Orders
<1>5. BookIn(orders, r.slot) = "NONE"
  BY <1>1, <1>4, BookOfSlot DEF Duplicate
<1>6. BookIn(orders', r.slot) = "PENDING"
  BY <1>2, <1>3, <1>4, BookOfSlot
<1>7. \A s \in Slot : s # r.slot => BookIn(orders', s) = BookIn(orders, s)
  BY <1>2, <1>3, <1>4, BookOfOthers
<1> QED BY <1>0, <1>5, <1>6, <1>7 DEF book

\* A status change moves the book of its order's slot along the life cycle, or
\* leaves it as it is.
LEMMA UpdateMoves ==
    ASSUME IInv, OnePerSlot', NEW w \in Worker, UpdateOrderStatus(w)
    PROVE  \/ book' = book
           \/ \E s \in Slot, to \in Status : /\ <<book[s], to>> \in Book!LifeCycle
                                             /\ book' = [book EXCEPT ![s] = to]
<1> DEFINE o == worker[w].order
           from == worker[w].from
           to == worker[w].to
<1>1. /\ o \in DOMAIN orders /\ CanTransitionTo(from, to)
      /\ to \in Status /\ orders[o].status = from
      /\ DOMAIN orders' = DOMAIN orders
      /\ \A i \in DOMAIN orders : i # o => orders'[i] = orders[i]
      /\ orders'[o].slot = orders[o].slot /\ orders'[o].status = to
  BY UpdatedRow DEF Orders, Writing
<1>2. from \in Status /\ orders[o].slot \in Slot
  BY <1>1, RowsHaveType DEF IInv, Orders, OrderRow
<1> HIDE DEF o, from, to
<1>4. /\ OnePerSlot
      /\ \A i, j \in DOMAIN orders : orders[i].slot = orders[j].slot => i = j
      /\ \A i, j \in DOMAIN orders' : orders'[i].slot = orders'[j].slot => i = j
  BY DEF IInv, OnePerSlot, Orders
<1>5. BookIn(orders, orders[o].slot) = from
  BY <1>1, <1>4, BookOfSlot
<1>6. BookIn(orders', orders[o].slot) = to
  BY <1>1, <1>4, BookOfSlot
<1>7. ASSUME NEW s \in Slot, s # orders[o].slot PROVE BookIn(orders', s) = BookIn(orders, s)
  <2>1. \A i \in DOMAIN orders : orders'[i].slot = orders[i].slot
    BY <1>1
  <2>2. \A i \in DOMAIN orders : orders[i].slot = s => orders'[i].status = orders[i].status
    BY <1>1, <1>7
  <2> QED BY <1>1, <1>4, <2>1, <2>2, BookOfOthers
<1>8. CASE from = to
  BY <1>5, <1>6, <1>7, <1>8 DEF book
<1>9. CASE from # to
  <2>1. book' = [book EXCEPT ![orders[o].slot] = to]
    BY <1>2, <1>6, <1>7 DEF book
  <2>2. <<book[orders[o].slot], to>> \in Book!LifeCycle
    BY <1>1, <1>2, <1>5, <1>9, MovesAreLifeCycle DEF book
  <2> QED BY <1>1, <1>2, <2>1, <2>2
<1> QED BY <1>8, <1>9

\* No other step touches an order.
LEMMA OthersStutter ==
    ASSUME [Next]_vars, \A w \in Worker : ~CreateOrderTx(w) /\ ~UpdateOrderStatus(w)
    PROVE  orders' = orders
BY DEF Next, vars, createOrder, StartCreate, cancelOrder, CancelOrder, orderCommanderAdapter,
       AdapterRead, UpdateStatus, LockIdempotencyKey, ConfirmOrder, CheckCurrent, AnnounceAgain,
       Abort, KeyExpires

\* Every step of the service is a step of the book or leaves it unchanged.
LEMMA StepRefines ==
    ASSUME IInv, IInv', [Next]_vars
    PROVE  [Book!BookNext]_([s \in Slot |-> BookOf(s)])
<1> DEFINE mapped == [s \in Slot |-> BookOf(s)]
<1>0. mapped = book /\ mapped' = book' /\ OnePerSlot'
  BY BookIsMapped DEF IInv
<1>1. CASE \E s \in Slot : book[s] = "NONE" /\ book' = [book EXCEPT ![s] = "PENDING"]
  BY <1>0, <1>1 DEF Book!BookNext, Book!Place
<1>2. CASE \E s \in Slot, to \in Status : /\ <<book[s], to>> \in Book!LifeCycle
                                          /\ book' = [book EXCEPT ![s] = to]
  BY <1>0, <1>2 DEF Book!BookNext, Book!Move, Book!Status, Status
<1>3. CASE orders' = orders
  BY <1>0, <1>3 DEF book
<1>4. CASE book' = book
  BY <1>0, <1>4
<1> QED BY <1>0, <1>1, <1>2, <1>3, <1>4, CreatePlaces, UpdateMoves, OthersStutter

\* The order service implements the order book: however checkouts under a key are
\* repeated and status changes interleave on stale reads, a slot has one order at
\* most and its status moves along the life cycle only.
THEOREM ImplementsBookHolds == Spec => ImplementsBook
<1>1. Init => Book!BookInit
  <2> SUFFICES ASSUME Init PROVE [s \in Slot |-> BookOf(s)] = [s \in Slot |-> "NONE"]
    BY DEF Book!BookInit
  <2>1. DOMAIN orders = {}
    BY DEF Init
  <2>2. \A s \in Slot : BookIn(orders, s) = "NONE"
    BY <2>1, BookOfSlot
  <2> QED BY <2>2, BookIsMapped DEF book
<1>2. IInv /\ IInv' /\ [Next]_vars => [Book!BookNext]_([s \in Slot |-> BookOf(s)])
  BY StepRefines
<1> QED BY <1>1, <1>2, Invariance, PTL DEF Spec, ImplementsBook, Book!BookSpec

-----------------------------------------------------------------------------
(* Totals *)

\* x was priced by CreateOrder at some prices of the catalog.
Priced(x) ==
    \E price \in PriceList :
        /\ x.items = LineItems(x.body, price)
        /\ OrderTotal(x.items).err = "NONE"
        /\ x.total = OrderTotal(x.items).total

\* Every order and every checkout under way was priced.
PricedInv ==
    /\ \A o \in DOMAIN orders : Priced(orders[o])
    /\ \A w \in Worker : worker[w] \in Creating => Priced(worker[w])

\* What a body is priced as: one item per SKU, with a price and an int quantity.
LEMMA LineItemsShape ==
    ASSUME NEW body \in Body, NEW price \in PriceList, NEW its, its = LineItems(body, price)
    PROVE  /\ Len(its) \in Nat /\ DOMAIN its = 1 .. Len(its)
           /\ \A i \in 1 .. Len(its) : its[i].price \in Int /\ its[i].qty \in Int
<1> DEFINE lines == LinesOf[body]
           qty == Consolidate(lines)
           skus == Ascending(DOMAIN qty)
           n == Cardinality(DOMAIN qty)
<1>1. lines \in Seq([sku : Sku, qty : Int])
  BY OrderAssumption
<1>2. /\ Len(lines) \in Nat /\ DOMAIN lines = 1 .. Len(lines)
      /\ \A i \in 1 .. Len(lines) : lines[i].sku \in Sku /\ lines[i].qty \in Int
  <2> DEFINE line == [sku : Sku, qty : Int]
  <2>1. lines \in Seq(line)
    BY <1>1
  <2> HIDE DEF lines, line
  <2>2. Len(lines) \in Nat /\ DOMAIN lines = 1 .. Len(lines) /\ \A i \in 1 .. Len(lines) : lines[i] \in line
    BY <2>1
  <2> QED
    BY <2>2 DEF line
<1>3. DOMAIN qty \subseteq Sku
  BY <1>2 DEF Consolidate
<1>4. \A k \in DOMAIN qty : qty[k] \in Int
  <2>1. \A k \in DOMAIN qty : qty[k] = QuantityOf(k, lines)
    BY DEF Consolidate
  <2> HIDE DEF lines, qty
  <2> SUFFICES ASSUME NEW k \in DOMAIN qty PROVE QuantityOf(k, lines) \in Int
    BY <2>1
  <2>2. PICK f \in [0 .. Len(lines) -> Int] : QuantityOf(k, lines) = f[Len(lines)]
    BY <1>2, QuantityRuns
  <2> QED
    BY <1>2, <2>2
<1> HIDE DEF lines, qty
<1>5. DOMAIN qty \subseteq Nat /\ IsFiniteSet(DOMAIN qty)
  BY <1>3, PricingAssumption, FS_Subset
<1>6. skus \in [1 .. n -> DOMAIN qty] /\ n \in Nat
  BY <1>5, AscendingIsSeq, FS_CardinalityType
<1>7. its = [i \in DOMAIN skus |-> [sku |-> skus[i], price |-> price[skus[i]], qty |-> qty[skus[i]]]]
  BY DEF LineItems, lines, qty
<1> HIDE DEF skus, n
<1>8. \A i \in 1 .. n : its[i] = [sku |-> skus[i], price |-> price[skus[i]], qty |-> qty[skus[i]]]
  BY <1>6, <1>7
<1>9. \A i \in 1 .. n : /\ its[i].sku = skus[i] /\ its[i].price = price[skus[i]]
                        /\ its[i].qty = qty[skus[i]] /\ skus[i] \in DOMAIN qty
  <2>1. ASSUME NEW i \in 1 .. n
        PROVE  /\ its[i].sku = skus[i] /\ its[i].price = price[skus[i]]
               /\ its[i].qty = qty[skus[i]]
    <3> DEFINE a == price[skus[i]]
               b == qty[skus[i]]
    <3>1. its[i] = [sku |-> skus[i], price |-> a, qty |-> b]
      BY <1>8
    <3> HIDE DEF a, b
    <3>2. its[i].sku = skus[i] /\ its[i].price = a /\ its[i].qty = b
      BY <3>1
    <3> QED
      BY <3>2 DEF a, b
  <2>2. \A i \in 1 .. n : skus[i] \in DOMAIN qty
    BY <1>6
  <2> QED
    BY <2>1, <2>2
<1>10. Len(its) = n /\ DOMAIN its = 1 .. n
  BY <1>6, <1>7
<1>11. \A k \in Sku : price[k] \in Int
  <2>1. price \in [Sku -> 0 .. MaxInt64]
    BY OrderAssumption
  <2> QED
    BY <2>1, PricingAssumption
<1> QED
  BY <1>3, <1>4, <1>6, <1>9, <1>10, <1>11 DEF lines

\* An order that was priced has an exact total.
LEMMA PricedExact ==
    ASSUME NEW x, x.body \in Body, Priced(x)
    PROVE  x.total \in 0 .. MaxInt64 /\ x.total = ExactTotal(x.items)
<1> DEFINE its == x.items
<1>1. PICK price \in PriceList :
          its = LineItems(x.body, price) /\ OrderTotal(its).err = "NONE" /\ x.total = OrderTotal(its).total
  BY DEF Priced
<1> HIDE DEF its
<1>2. /\ Len(its) \in Nat /\ DOMAIN its = 1 .. Len(its)
      /\ \A i \in 1 .. Len(its) : its[i].price \in Int /\ its[i].qty \in Int
  BY <1>1, LineItemsShape
<1>3. OrderTotal(its).total = ExactTotal(its) /\ OrderTotal(its).total \in 0 .. MaxInt64
  BY <1>1, <1>2, OrderTotalExact
<1> QED
  BY <1>1, <1>2, <1>3 DEF its

\* Two requests or rows that agree on body, items and total are priced alike.
LEMMA PricedAlike ==
    ASSUME NEW x, NEW y, Priced(x), y.body = x.body, y.items = x.items, y.total = x.total
    PROVE  Priced(y)
BY DEF Priced

\* A request becomes x and no order is touched.
LEMMA PricedWorker ==
    ASSUME IInv, PricedInv, NEW w \in Worker, NEW x, worker' = [worker EXCEPT ![w] = x],
           x \in Creating => Priced(x), UNCHANGED orders
    PROVE  PricedInv'
<1>1. \A v \in Worker : worker'[v] = IF v = w THEN x ELSE worker[v]
  BY DEF IInv, Shapes
<1> QED
  BY <1>1 DEF PricedInv, Priced

\* Every step keeps orders and checkouts priced.
LEMMA PricedStep == IInv /\ PricedInv /\ [Next]_vars => PricedInv'
<1> SUFFICES ASSUME IInv, PricedInv, [Next]_vars PROVE PricedInv'
  OBVIOUS
<1>0. Shapes
  BY DEF IInv
<1>1. Idle \notin Creating /\ \A x \in Creating : x.pc \in {"lock", "insert"}
  BY DEF Idle, Creating
<1>2. CASE UNCHANGED vars
  BY <1>2 DEF vars, PricedInv, Priced
<1>3. ASSUME NEW s \in Slot, KeyExpires(s) PROVE PricedInv'
  BY <1>3 DEF KeyExpires, PricedInv, Priced
<1>4. ASSUME NEW w \in Worker, createOrder(w) PROVE PricedInv'
  <2> PICK s \in Slot, body \in Body, price \in PriceList : StartCreate(w, s, body, price)
    BY <1>4 DEF createOrder
  <2> DEFINE its == LineItems(body, price)
             x == [pc |-> "lock", slot |-> s, body |-> body, items |-> its,
                   total |-> OrderTotal(its).total]
  <2>1. /\ OrderTotal(its).err = "NONE" /\ UNCHANGED orders
        /\ worker' = [worker EXCEPT ![w] = x]
    BY DEF StartCreate, Become
  <2>2. x.body = body /\ x.items = its /\ x.total = OrderTotal(its).total
    OBVIOUS
  <2>3. Priced(x)
    <3> HIDE DEF x
    <3> QED
      BY <2>1, <2>2 DEF Priced
  <2> HIDE DEF x
  <2> QED
    BY <2>1, <2>3, PricedWorker
<1>5. ASSUME NEW w \in Worker, NEW x, Become(w, x), UNCHANGED orders,
             x.pc \notin {"lock", "insert"}
      PROVE  PricedInv'
  BY <1>1, <1>5, PricedWorker DEF Become
<1>6. Idle.pc = "idle"
  BY DEF Idle
<1>7. ASSUME NEW w \in Worker, LockIdempotencyKey(w) PROVE PricedInv'
  <2>1. worker[w] \in Creating /\ UNCHANGED orders
    BY <1>0, <1>7, Kinds DEF LockIdempotencyKey, At
  <2>2. CASE Become(w, Idle)
    BY <1>5, <1>6, <2>1, <2>2
  <2>3. CASE worker' = [worker EXCEPT ![w].pc = "insert"]
    <3> DEFINE x == [worker[w] EXCEPT !.pc = "insert"]
    <3>1. worker' = [worker EXCEPT ![w] = x]
      BY <2>3
    <3>2. x.body = worker[w].body /\ x.items = worker[w].items /\ x.total = worker[w].total
      BY <2>1 DEF Creating
    <3>3. Priced(worker[w])
      BY <2>1 DEF PricedInv
    <3> HIDE DEF x
    <3>4. Priced(x)
      BY <3>2, <3>3, PricedAlike
    <3> QED
      BY <2>1, <3>1, <3>4, PricedWorker
  <2> QED
    BY <1>7, <2>2, <2>3 DEF LockIdempotencyKey
<1>8. ASSUME NEW w \in Worker, CreateOrderTx(w) PROVE PricedInv'
  <2>1. worker[w] \in Creating /\ Become(w, Idle) /\ Priced(worker[w])
    BY <1>0, <1>8, Kinds DEF CreateOrderTx, At, Rollback, PricedInv
  <2>2. CASE UNCHANGED orders
    BY <1>5, <1>6, <2>1, <2>2
  <2>3. CASE ~(UNCHANGED orders)
    <3> DEFINE r == worker[w]
               row == [slot |-> r.slot, body |-> r.body, items |-> r.items, total |-> r.total,
                       status |-> "PENDING", version |-> 1, past |-> <<"PENDING">>]
    <3>1. orders' = Append(orders, row)
      BY <1>8, <2>3 DEF CreateOrderTx
    <3>2. row.body = r.body /\ row.items = r.items /\ row.total = r.total
      OBVIOUS
    <3>3. Priced(row)
      <4> HIDE DEF row
      <4> QED
        BY <2>1, <3>2, PricedAlike
    <3> HIDE DEF row
    <3>4. \A o \in DOMAIN orders' : orders'[o] = row \/ (o \in DOMAIN orders /\ orders'[o] = orders[o])
      BY <1>0, <3>1 DEF Shapes
    <3>5. \A o \in DOMAIN orders' : Priced(orders'[o])
      BY <3>3, <3>4 DEF PricedInv
    <3>6. \A v \in Worker : worker'[v] \in Creating => worker'[v] = worker[v]
      BY <1>0, <1>1, <2>1 DEF Become, Shapes
    <3>7. \A v \in Worker : worker'[v] \in Creating => Priced(worker'[v])
      BY <3>6 DEF PricedInv
    <3> QED
      BY <3>5, <3>7 DEF PricedInv, Priced
  <2> QED
    BY <2>2, <2>3
<1>9. ASSUME NEW w \in Worker, UpdateOrderStatus(w) PROVE PricedInv'
  <2> DEFINE r == worker[w]
             old == orders[r.order]
             row == [slot |-> old.slot, body |-> old.body, items |-> old.items, total |-> old.total,
                     status |-> r.to, version |-> old.version + 1, past |-> Append(old.past, r.to)]
  <2>1. orders' = [orders EXCEPT ![r.order] = row] /\ Become(w, Idle)
    BY <1>9 DEF UpdateOrderStatus
  <2>2. row.body = old.body /\ row.items = old.items /\ row.total = old.total
    OBVIOUS
  <2> HIDE DEF row
  <2>3. \A o \in DOMAIN orders' :
            o \in DOMAIN orders /\ (orders'[o] = orders[o] \/ (o = r.order /\ orders'[o] = row))
    BY <1>0, <2>1 DEF Shapes
  <2>4. \A o \in DOMAIN orders' : Priced(orders'[o])
    <3>1. ASSUME NEW o \in DOMAIN orders' PROVE Priced(orders'[o])
      <4>1. CASE orders'[o] = orders[o]
        BY <2>3, <4>1 DEF PricedInv
      <4>2. CASE o = r.order /\ orders'[o] = row
        <5>1. Priced(old)
          BY <2>3, <4>2 DEF PricedInv
        <5>2. Priced(row)
          BY <2>2, <5>1, PricedAlike
        <5> QED
          BY <4>2, <5>2
      <4> QED
        BY <2>3, <4>1, <4>2
    <3> QED
      BY <3>1
  <2>5. \A v \in Worker : worker'[v] \in Creating => worker'[v] = worker[v]
    BY <1>0, <1>1, <2>1 DEF Become, Shapes
  <2>6. \A v \in Worker : worker'[v] \in Creating => Priced(worker'[v])
    BY <2>5 DEF PricedInv
  <2> QED
    BY <2>4, <2>6 DEF PricedInv, Priced
<1>10. ASSUME NEW w \in Worker,
              \/ cancelOrder(w) \/ orderCommanderAdapter(w) \/ ConfirmOrder(w)
              \/ CheckCurrent(w) \/ AnnounceAgain(w) \/ Abort(w)
       PROVE  PricedInv'
  <2>1. UNCHANGED orders
    BY <1>10 DEF cancelOrder, CancelOrder, orderCommanderAdapter, AdapterRead, UpdateStatus,
                 ConfirmOrder, CheckCurrent, AnnounceAgain, Abort
  <2>2. \E x : Become(w, x) /\ x.pc \notin {"lock", "insert"}
    <3>0. \A l, op, o, from, to, ver : Writer(l, op, o, from, to, ver).pc = l
      BY DEF Writer
    <3>1. CASE cancelOrder(w)
      BY <3>0, <3>1 DEF cancelOrder, CancelOrder
    <3>2. CASE orderCommanderAdapter(w)
      BY <3>0, <3>2 DEF orderCommanderAdapter, AdapterRead, UpdateStatus, TransitionStatus
    <3>3. CASE ConfirmOrder(w)
      BY <1>6, <3>0, <3>3 DEF ConfirmOrder
    <3>4. CASE CheckCurrent(w)
      BY <1>6, <3>0, <3>4 DEF CheckCurrent
    <3>5. CASE AnnounceAgain(w)
      BY <1>6, <3>5 DEF AnnounceAgain
    <3>6. CASE Abort(w)
      BY <1>6, <3>6 DEF Abort, Rollback
    <3> QED
      BY <1>10, <3>1, <3>2, <3>3, <3>4, <3>5, <3>6
  <2> QED
    BY <1>5, <2>1, <2>2
<1> QED
  BY <1>2, <1>3, <1>4, <1>7, <1>8, <1>9, <1>10 DEF Next

\* Every order's total is an int64 and the exact sum of its items, for all bodies,
\* prices and interleavings: the guards of CalculateTotals let no wrapped total through.
THEOREM TotalExactHolds == Spec => []TotalExact
<1>1. Init => PricedInv
  <2>1. Idle \notin Creating
    BY DEF Idle, Creating
  <2> QED
    BY <2>1 DEF Init, PricedInv
<1>2. IInv /\ PricedInv => TotalExact
  <2> SUFFICES ASSUME IInv, PricedInv, NEW o \in Orders
               PROVE  /\ orders[o].total \in 0 .. MaxInt64
                      /\ orders[o].total = ExactTotal(orders[o].items)
    BY DEF TotalExact
  <2>1. orders[o] \in OrderRow
    BY RowsHaveType DEF IInv
  <2>2. orders[o].body \in Body /\ Priced(orders[o])
    BY <2>1 DEF OrderRow, PricedInv, Orders
  <2> QED
    BY <2>2, PricedExact
<1> QED
  BY <1>1, <1>2, Invariance, PricedStep, PTL DEF Spec
-----------------------------------------------------------------------------
(* Carts *)

CartItem == {NoItem} \cup [qty : 1 .. MaxInt32, price : Price]
CartRows == [Sku -> CartItem]

\* What a client was shown: a version there has been, the cart's items if it is
\* the current one (less those after the place where reading broke off), and the
\* total of the items shown.
Shown(v, ver, rows) ==
    \/ v = NoView
    \/ /\ v.ver \in 1 .. ver /\ v.items \in CartRows
       /\ v.ver = ver => Shows(v.items, v.short, rows)
       /\ CartTotal(Listed(v.items)).err = "NONE"
       /\ v.total = CartTotal(Listed(v.items)).total

\* A request that reads, and one whose transaction is still to come: it knows the
\* items of the version it expects.
Reading(r, ver) == r.pc = "items" /\ r.ver \in 1 .. ver
Changing(r, ver, rows) ==
    /\ r.pc = "tx" /\ r.ver \in 1 .. ver /\ r.ver < MaxCartVersion
    /\ r.ver = ver => Shows(r.seen, r.short, rows)
    /\ r.op \in {"add", "update", "remove", "clear"}
    /\ r.op # "clear" => r.sku \in Sku
    /\ r.op \in {"add", "update"} => r.qty \in Nat \ {0}
    /\ r.op = "add" => r.price \in Price
Requesting(r, ver, rows) == r.pc = "idle" \/ Reading(r, ver) \/ Changing(r, ver, rows)

\* The inductive invariant of a cart.
CartInv ==
    /\ version \in 0 .. MaxCartVersion /\ items \in CartRows
    /\ client = [c \in Client |-> client[c]] /\ view = [c \in Client |-> view[c]]
    /\ \A c \in Client : Requesting(client[c], version, items) /\ Shown(view[c], version, items)

\* A later version makes nobody's knowledge wrong: it is no longer the current one.
LEMMA LaterVersion ==
    ASSUME NEW ver \in Nat, NEW later \in Nat, ver < later, NEW rows, NEW laterRows
    PROVE  /\ \A v : Shown(v, ver, rows) => Shown(v, later, laterRows)
           /\ \A r : Requesting(r, ver, rows) => Requesting(r, later, laterRows)
<1>1. \A n \in 1 .. ver : n \in 1 .. later /\ n # later
  OBVIOUS
<1>2. ASSUME NEW v, Shown(v, ver, rows) PROVE Shown(v, later, laterRows)
  BY <1>1, <1>2 DEF Shown
<1>3. ASSUME NEW r, Requesting(r, ver, rows) PROVE Requesting(r, later, laterRows)
  BY <1>1, <1>3 DEF Requesting, Reading, Changing
<1> QED
  BY <1>2, <1>3

\* A step of c that leaves the cart alone.
LEMMA RequestMoves ==
    ASSUME CartInv, NEW c \in Client, NEW r, ClientBecomes(c, r), UNCHANGED <<version, items, view>>,
           Requesting(r, version, items)
    PROVE  CartInv'
<1>1. client' = [d \in Client |-> IF d = c THEN r ELSE client[d]]
  BY DEF CartInv, ClientBecomes
<1>2. \A d \in Client : client'[d] = r \/ client'[d] = client[d]
  BY <1>1
<1>3. \A d \in Client : Requesting(client'[d], version, items)
  BY <1>2 DEF CartInv
<1>4. client' = [d \in Client |-> client'[d]]
  BY <1>1
<1> QED
  BY <1>3, <1>4 DEF CartInv

\* A step of c to a later version.
LEMMA VersionMoves ==
    ASSUME CartInv, NEW c \in Client, NEW r, ClientBecomes(c, r), UNCHANGED view,
           version' \in 0 .. MaxCartVersion, version < version', items' \in CartRows,
           Requesting(r, version', items')
    PROVE  CartInv'
<1>0. version \in Nat /\ version' \in Nat
  BY DEF CartInv
<1>1. client' = [d \in Client |-> IF d = c THEN r ELSE client[d]]
  BY DEF CartInv, ClientBecomes
<1>2. \A d \in Client : client'[d] = r \/ client'[d] = client[d]
  BY <1>1
<1>3. \A d \in Client : Requesting(client'[d], version', items')
  BY <1>0, <1>2, LaterVersion DEF CartInv
<1>4. \A d \in Client : Shown(view[d], version', items')
  BY <1>0, LaterVersion DEF CartInv
<1>5. client' = [d \in Client |-> client'[d]]
  BY <1>1
<1> QED
  BY <1>3, <1>4, <1>5 DEF CartInv

\* An idle client's request.
LEMMA IdleRequests ==
    ASSUME NEW ver, NEW rows
    PROVE  Requesting(NoRequest, ver, rows)
  BY DEF Requesting, NoRequest

\* Reading a cart asks for its version first.
LEMMA OpenKeeps ==
    ASSUME CartInv, NEW c \in Client, CreateOrGetActiveCart(c) \/ GetCart(c)
    PROVE  CartInv'
<1> DEFINE r == [pc |-> "items", ver |-> version']
<1>0. version \in Nat /\ MaxCartVersion \in Nat \ {0} /\ version \in 0 .. MaxCartVersion
  BY CartAssumption DEF CartInv
<1>1. r.pc = "items" /\ r.ver = version'
  OBVIOUS
<1>2. ClientBecomes(c, r) /\ UNCHANGED <<items, view>>
  BY DEF CreateOrGetActiveCart, GetCart
<1>3. version' \in 1 .. MaxCartVersion /\ (version' = version \/ version < version')
  BY <1>0 DEF CreateOrGetActiveCart, GetCart
<1> HIDE DEF r
<1>4. Requesting(r, version', items')
  BY <1>0, <1>1, <1>3 DEF Requesting, Reading
<1>5. CASE version' = version
  BY <1>2, <1>4, <1>5, RequestMoves
<1>6. CASE version < version'
  <2>1. items' \in CartRows /\ version' \in 0 .. MaxCartVersion
    BY <1>0, <1>2, <1>3 DEF CartInv
  <2> QED
    BY <1>2, <1>4, <1>6, <2>1, VersionMoves
<1> QED
  BY <1>3, <1>5, <1>6

\* What arrives of a list are rows of the cart, and all of them unless it is short.
LEMMA ArrivedShows ==
    ASSUME items \in CartRows, NEW n
    PROVE  Arrived(n) \in CartRows /\ Shows(Arrived(n), Arrived(n) # items, items)
<1>1. Arrived(n) \in CartRows
  BY DEF Arrived, CartRows, CartItem
<1>2. \A k \in Sku : Arrived(n)[k] = items[k] \/ Arrived(n)[k] = NoItem
  BY DEF Arrived
<1>3. CASE Arrived(n) = items
  BY <1>1, <1>3 DEF Shows
<1>4. CASE Arrived(n) # items
  BY <1>1, <1>2, <1>4 DEF Shows
<1> QED
  BY <1>3, <1>4

\* The cart is shown with the version read before its items.
LEMMA GetCartItemsKeeps ==
    ASSUME CartInv, NEW c \in Client, NEW n, GetCartItems(c, n)
    PROVE  CartInv'
<1> DEFINE sum == CartTotal(Listed(Arrived(n)))
           new == [ver |-> client[c].ver, items |-> Arrived(n), short |-> Arrived(n) # items,
                   total |-> sum.total]
           v == IF sum.err # "NONE" THEN view[c] ELSE new
<1>1. client[c].ver \in 1 .. version
  BY DEF CartInv, GetCartItems, ClientAt, Requesting, Reading, Changing
<1>2. /\ new.ver = client[c].ver /\ new.items = Arrived(n) /\ new.total = sum.total
      /\ new.short = (Arrived(n) # items)
  OBVIOUS
<1>3. view' = [view EXCEPT ![c] = v]
  BY DEF GetCartItems
<1>4. ClientBecomes(c, NoRequest) /\ UNCHANGED <<version, items>>
  BY DEF GetCartItems
<1> HIDE DEF new
<1>5. sum.err = "NONE" => Shown(new, version, items)
  <2>1. Arrived(n) \in CartRows /\ Shows(new.items, new.short, items)
    BY <1>2, ArrivedShows DEF CartInv
  <2> QED
    BY <1>1, <1>2, <2>1 DEF Shown
<1>6. Shown(v, version, items)
  BY <1>5 DEF CartInv
<1> HIDE DEF v, sum
<1>7. view' = [d \in Client |-> IF d = c THEN v ELSE view[d]]
  BY <1>3 DEF CartInv
<1>8. \A d \in Client : Shown(view'[d], version, items)
  BY <1>6, <1>7 DEF CartInv
<1>9. view' = [d \in Client |-> view'[d]]
  BY <1>7
<1>10. client' = [d \in Client |-> IF d = c THEN NoRequest ELSE client[d]]
  BY <1>4 DEF CartInv, ClientBecomes
<1>11. client' = [d \in Client |-> client'[d]]
  BY <1>10
<1>12. \A d \in Client : Requesting(client'[d], version, items)
  BY <1>10, IdleRequests DEF CartInv
<1> QED
  BY <1>4, <1>8, <1>9, <1>11, <1>12 DEF CartInv

\* A write that begins has seen the items of the version it expects.
LEMMA BeginKeeps ==
    ASSUME CartInv, NEW c \in Client, NEW op \in {"add", "update", "remove", "clear"},
           NEW k, NEW q, NEW p, Begin(c, op, k, q, p),
           op # "clear" => k \in Sku, op \in {"add", "update"} => q \in Nat \ {0},
           op = "add" => p \in Price
    PROVE  CartInv'
<1> DEFINE r == [pc |-> "tx", op |-> op, sku |-> k, qty |-> q, price |-> p, ver |-> version,
                 seen |-> view[c].items, short |-> view[c].short]
<1>1. /\ r.pc = "tx" /\ r.op = op /\ r.sku = k /\ r.qty = q /\ r.price = p /\ r.ver = version
      /\ r.seen = view[c].items /\ r.short = view[c].short
  OBVIOUS
<1>2. /\ ClientBecomes(c, r) /\ UNCHANGED <<version, items, view>> /\ version < MaxCartVersion
      /\ view[c] # NoView /\ view[c].ver = version
  BY DEF Begin
<1>3. version \in 1 .. version /\ Shows(view[c].items, view[c].short, items)
  BY <1>2 DEF CartInv, Shown
<1> HIDE DEF r
<1>4. Changing(r, version, items)
  BY <1>1, <1>2, <1>3 DEF Changing
<1> QED
  BY <1>2, <1>4, RequestMoves DEF Requesting

\* The requests that write.
LEMMA WritersBegin ==
    ASSUME CartInv, NEW c \in Client,
           addItem(c) \/ updateItemQuantity(c) \/ removeItem(c) \/ clearCart(c)
    PROVE  CartInv'
<1>0. MaxInt64 \in Nat /\ Quantity \subseteq Int
  <2>1. MaxInt64 \in Nat
    BY PricingAssumption
  <2>2. -MaxInt64 .. MaxInt64 \subseteq Int
    BY <2>1
  <2> QED
    BY <2>1, <2>2, CartAssumption
<1>1. CASE addItem(c)
  <2>1. PICK k \in Sku, q \in Quantity, p \in Price : q > 0 /\ Begin(c, "add", k, q, p)
    BY <1>1 DEF addItem, AddItem
  <2>2. q \in Nat \ {0}
    BY <1>0, <2>1
  <2> QED
    BY <2>1, <2>2, BeginKeeps
<1>2. ASSUME NEW k \in Sku, RemoveItem(c, k) PROVE CartInv'
  <2>1. Begin(c, "remove", k, 0, 0)
    BY <1>2 DEF RemoveItem
  <2> QED
    BY <2>1, BeginKeeps
<1>3. CASE updateItemQuantity(c)
  <2>1. PICK k \in Sku, q \in Quantity : UpdateQuantity(c, k, q)
    BY <1>3 DEF updateItemQuantity
  <2>2. CASE q <= 0
    BY <1>2, <2>1, <2>2 DEF UpdateQuantity
  <2>3. CASE ~(q <= 0)
    <3>1. Begin(c, "update", k, q, 0) /\ q \in Nat \ {0}
      BY <1>0, <2>1, <2>3 DEF UpdateQuantity
    <3> QED
      BY <3>1, BeginKeeps
  <2> QED
    BY <2>2, <2>3
<1>4. CASE removeItem(c)
  BY <1>2, <1>4 DEF removeItem
<1>5. CASE clearCart(c)
  BY <1>5, BeginKeeps DEF clearCart, ClearCart
<1> QED
  BY <1>1, <1>3, <1>4, <1>5

\* What a write leaves in the table satisfies its constraints.
LEMMA ItemsAfterShape ==
    ASSUME items \in CartRows, NEW r, NEW ver, NEW rows, Changing(r, ver, rows), WriteOK(r)
    PROVE  ItemsAfter(r) \in CartRows
<1>0. MaxInt32 \in Nat /\ 1 <= MaxInt32 /\ \A p \in Price : p \in Nat
  <2>1. MaxInt64 \in Nat /\ MaxInt32 \in Nat /\ 1 <= MaxInt32
    BY PricingAssumption
  <2>2. 1 .. MaxInt64 \subseteq Nat
    BY <2>1
  <2> QED
    BY <2>1, <2>2, CartAssumption
<1>1. NoItem \in CartItem /\ NoItem.qty = 0
  BY DEF NoItem, CartItem
<1>2. \A k \in Sku : items[k] \in CartItem
  BY DEF CartRows
<1>3. CASE r.op = "clear"
  <2>1. ItemsAfter(r) = [k \in Sku |-> NoItem]
    BY <1>3 DEF ItemsAfter
  <2> QED
    BY <1>1, <2>1 DEF CartRows
<1>4. ASSUME NEW x, r.sku \in Sku, ItemsAfter(r) = [items EXCEPT ![r.sku] = x]
      PROVE  /\ x \in CartItem => ItemsAfter(r) \in CartRows
             /\ ItemsAfter(r)[r.sku] = x
  BY <1>4 DEF CartRows
<1>5. CASE r.op = "remove"
  <2>1. ItemsAfter(r) = [items EXCEPT ![r.sku] = NoItem]
    BY <1>5 DEF ItemsAfter
  <2> QED
    BY <1>1, <1>4, <1>5, <2>1 DEF Changing
<1>6. CASE r.op = "add"
  <2> DEFINE x == [qty |-> items[r.sku].qty + r.qty, price |-> r.price]
  <2>1. ItemsAfter(r) = [items EXCEPT ![r.sku] = x]
    BY <1>6 DEF ItemsAfter
  <2>2. r.sku \in Sku /\ r.qty \in Nat \ {0} /\ r.price \in Price
    BY <1>6 DEF Changing
  <2>3. items[r.sku].qty \in Nat
    BY <1>0, <1>1, <1>2, <2>2 DEF CartItem
  <2>4. x.qty \in 0 .. MaxInt32
    <3> HIDE DEF x
    <3>1. ItemsAfter(r)[r.sku] = x
      BY <1>4, <2>1, <2>2
    <3> QED
      BY <1>6, <3>1 DEF WriteOK
  <2>5. x.qty = items[r.sku].qty + r.qty
    OBVIOUS
  <2>6. items[r.sku].qty + r.qty \in 1 .. MaxInt32
    <3> HIDE DEF x
    <3> QED
      BY <1>0, <2>2, <2>3, <2>4, <2>5
  <2>7. x \in CartItem
    BY <2>2, <2>6 DEF CartItem
  <2> HIDE DEF x
  <2> QED
    BY <1>4, <2>1, <2>2, <2>7
<1>7. CASE r.op = "update"
  <2> DEFINE x == [qty |-> r.qty, price |-> items[r.sku].price]
  <2>1. ItemsAfter(r) = [items EXCEPT ![r.sku] = x]
    BY <1>7 DEF ItemsAfter
  <2>2. r.sku \in Sku /\ r.qty \in Nat \ {0} /\ items[r.sku].qty > 0
    BY <1>7 DEF Changing, WriteOK
  <2>3. items[r.sku].price \in Price
    <3>1. items[r.sku] # NoItem
      BY <1>1, <2>2
    <3>2. items[r.sku] \in [qty : 1 .. MaxInt32, price : Price]
      BY <1>2, <2>2, <3>1 DEF CartItem
    <3> QED
      BY <3>2
  <2>4. x.qty \in 0 .. MaxInt32 /\ x.qty = r.qty
    <3>1. x.qty = r.qty
      OBVIOUS
    <3> HIDE DEF x
    <3>2. ItemsAfter(r)[r.sku] = x
      BY <1>4, <2>1, <2>2
    <3> QED
      BY <1>7, <3>1, <3>2 DEF WriteOK
  <2>5. r.qty \in 1 .. MaxInt32
    BY <1>0, <2>2, <2>4
  <2>6. x \in CartItem
    BY <2>3, <2>5 DEF CartItem
  <2> HIDE DEF x
  <2> QED
    BY <1>4, <2>1, <2>2, <2>6
<1> QED
  BY <1>3, <1>5, <1>6, <1>7 DEF Changing

\* A write is applied to the version it expects and makes the next one.
LEMMA WriteTxKeeps ==
    ASSUME CartInv, NEW c \in Client, WriteTx(c)
    PROVE  CartInv'
<1> DEFINE r == client[c]
<1>1. Changing(r, version, items)
  BY DEF WriteTx, ClientAt, CartInv, Requesting, Reading
<1>2. CASE VersionMatches(c) /\ WriteOK(r)
  <2> DEFINE next == IF r.op = "clear" THEN NoRequest ELSE [pc |-> "items", ver |-> version']
  <2>1. /\ version' = version + 1 /\ items' = ItemsAfter(r) /\ ClientBecomes(c, next)
        /\ UNCHANGED view
    BY <1>2 DEF WriteTx, NewVersion
  <2>2. version \in Nat /\ version < MaxCartVersion /\ MaxCartVersion \in Nat
    BY <1>1, <1>2, CartAssumption DEF CartInv, VersionMatches, Changing
  <2>3. version' \in 1 .. version' /\ version' \in 0 .. MaxCartVersion /\ version < version'
    BY <2>1, <2>2
  <2>4. items' \in CartRows
    BY <1>1, <1>2, <2>1, ItemsAfterShape DEF CartInv
  <2>5. Requesting(next, version', items')
    <3>1. [pc |-> "items", ver |-> version'].pc = "items" /\ [pc |-> "items", ver |-> version'].ver = version'
      OBVIOUS
    <3> QED
      BY <2>3, <3>1, IdleRequests DEF Requesting, Reading
  <2> HIDE DEF next
  <2> QED
    BY <2>1, <2>3, <2>4, <2>5, VersionMoves
<1>3. CASE ~(VersionMatches(c) /\ WriteOK(r))
  BY <1>3, IdleRequests, RequestMoves DEF WriteTx
<1> QED
  BY <1>2, <1>3

\* Every step of a cart keeps the invariant.
LEMMA CartStep == CartInv /\ [CartNext]_cartVars => CartInv'
<1> SUFFICES ASSUME CartInv, [CartNext]_cartVars PROVE CartInv'
  OBVIOUS
<1>1. CASE UNCHANGED cartVars
  BY <1>1 DEF cartVars, CartInv
<1>2. CASE CartNext
  <2>1. PICK c \in Client :
            \/ createCart(c) \/ getCart(c)
            \/ addItem(c) \/ updateItemQuantity(c) \/ removeItem(c) \/ clearCart(c)
            \/ \E n \in Sku \cup {NoSku} : GetCartItems(c, n)
            \/ WriteTx(c) \/ CartAbort(c)
    BY <1>2 DEF CartNext
  <2>2. CASE createCart(c) \/ getCart(c)
    BY <2>2, OpenKeeps DEF createCart, getCart
  <2>3. CASE CartAbort(c)
    BY <2>3, IdleRequests, RequestMoves DEF CartAbort
  <2> QED
    BY <2>1, <2>2, <2>3, WritersBegin, GetCartItemsKeeps, WriteTxKeeps
<1> QED
  BY <1>1, <1>2

\* The invariant of a cart, for any number of clients, SKUs and versions.
THEOREM CartInvariance == CartSpec => []CartInv
<1>1. CartInit => CartInv
  <2> SUFFICES ASSUME CartInit PROVE CartInv
    OBVIOUS
  <2>1. items \in CartRows
    BY DEF CartInit, CartRows, CartItem
  <2>2. version \in 0 .. MaxCartVersion
    BY CartAssumption DEF CartInit
  <2>3. client = [c \in Client |-> client[c]] /\ view = [c \in Client |-> view[c]]
    BY DEF CartInit
  <2>4. \A c \in Client : client[c] = NoRequest /\ view[c] = NoView
    BY DEF CartInit
  <2> QED
    BY <2>1, <2>2, <2>3, <2>4, IdleRequests DEF CartInv, Shown
<1> QED
  BY <1>1, CartStep, PTL DEF CartSpec

\* Although version and items are read by two statements, a client whose If-Match
\* is current was shown the items of the cart, all of them unless the reading of
\* the list broke off.
THEOREM ViewsFreshHolds == CartSpec => []ViewsFresh
<1>1. CartInv => ViewsFresh
  <2> SUFFICES ASSUME CartInv PROVE ViewsFresh
    OBVIOUS
  <2>1. items \in [Sku -> {NoItem} \cup [qty : 1 .. MaxInt32, price : Price]]
    BY DEF CartInv, CartRows, CartItem
  <2>2. ASSUME NEW c \in Client PROVE ClientAt(c, "items") => client[c].ver \in 1 .. version
    BY DEF CartInv, Requesting, Reading, Changing, ClientAt
  <2>3. ASSUME NEW c \in Client, view[c] # NoView
        PROVE  view[c].ver \in 1 .. version /\ (view[c].ver = version => Shows(view[c].items, view[c].short, items))
    BY <2>3 DEF CartInv, Shown
  <2> QED
    BY <2>1, <2>2, <2>3 DEF CartInv, ViewsFresh, CartTypeOK
<1> QED
  BY <1>1, CartInvariance, PTL

\* The items of a cart as they are listed are priced in integers.
LEMMA ListedShape ==
    ASSUME NEW rows \in CartRows
    PROVE  /\ Len(Listed(rows)) \in Nat
           /\ \A i \in 1 .. Len(Listed(rows)) :
                 Listed(rows)[i].price \in Int /\ Listed(rows)[i].qty \in Int
<1> DEFINE S == {k \in Sku : rows[k].qty > 0}
           skus == Ascending(S)
           n == Cardinality(S)
<1>1. S \subseteq Sku /\ S \subseteq Nat /\ IsFiniteSet(S)
  BY PricingAssumption, FS_Subset
<1>2. skus \in [1 .. n -> S] /\ n \in Nat
  <2> HIDE DEF S
  <2> QED
    BY <1>1, AscendingIsSeq, FS_CardinalityType
<1>3. Listed(rows) = [i \in DOMAIN skus |-> rows[skus[i]]]
  BY DEF Listed
<1>4. \A k \in Sku : rows[k].price \in Int /\ rows[k].qty \in Int
  <2>1. \A x \in [qty : 1 .. MaxInt32, price : Price] : x.price \in Int /\ x.qty \in Int
    <3>1. MaxInt64 \in Nat /\ MaxInt32 \in Nat
      BY PricingAssumption
    <3>2. 1 .. MaxInt64 \subseteq Int /\ 1 .. MaxInt32 \subseteq Int
      BY <3>1
    <3> QED
      BY <3>2, CartAssumption
  <2>2. NoItem.price \in Int /\ NoItem.qty \in Int
    BY DEF NoItem
  <2>3. \A k \in Sku : rows[k] = NoItem \/ rows[k] \in [qty : 1 .. MaxInt32, price : Price]
    BY DEF CartRows, CartItem
  <2> QED
    BY <2>1, <2>2, <2>3
<1> HIDE DEF S, skus, n
<1>5. Listed(rows) = [i \in 1 .. n |-> rows[skus[i]]]
  BY <1>2, <1>3
<1>6. Len(Listed(rows)) = n
  BY <1>2, <1>5
<1>7. \A i \in 1 .. n : Listed(rows)[i] = rows[skus[i]] /\ skus[i] \in Sku
  BY <1>1, <1>2, <1>5
<1> QED
  BY <1>2, <1>4, <1>6, <1>7

\* Every total shown is the exact sum of the items shown with it, and the money
\* package computes with it exactly or refuses, for every width of the integers.
THEOREM MoneyExactHolds == CartSpec => []MoneyExact
<1>1. CartInv => MoneyExact
  <2> SUFFICES ASSUME CartInv, NEW c \in Client, NEW a \in 0 .. MaxInt64, view[c] # NoView
               PROVE  LET m == New(view[c].total, "USD")
                          IsExact(r, n) == IF n \in 0 .. MaxInt64
                                           THEN r.err = "NONE" /\ r.amount = n
                                           ELSE r.err # "NONE"
                      IN  /\ view[c].total = ExactTotal(Listed(view[c].items))
                          /\ IsExact(Add(m, New(a, "USD")), view[c].total + a)
                          /\ IsExact(Sub(m, New(a, "USD")), view[c].total - a)
                          /\ IsExact(Multiply(m, a), view[c].total * a)
                          /\ Add(m, New(a, "EUR")).err # "NONE" /\ Sub(m, New(a, "EUR")).err # "NONE"
    BY DEF MoneyExact
  <2> DEFINE list == Listed(view[c].items)
             t == view[c].total
  <2>1. view[c].items \in CartRows /\ CartTotal(list).err = "NONE" /\ t = CartTotal(list).total
    BY DEF CartInv, Shown
  <2>2. t = ExactTotal(list) /\ t \in 0 .. MaxInt64
    <3>1. Len(list) \in Nat /\ \A i \in 1 .. Len(list) : list[i].price \in Int /\ list[i].qty \in Int
      BY <2>1, ListedShape
    <3> HIDE DEF list
    <3> QED
      BY <2>1, <3>1, CartTotalExact
  <2>3. /\ IsExactResult(Add(New(t, "USD"), New(a, "USD")), t + a)
        /\ IsExactResult(Sub(New(t, "USD"), New(a, "USD")), t - a)
        /\ IsExactResult(Multiply(New(t, "USD"), a), t * a)
        /\ Add(New(t, "USD"), New(a, "EUR")).err # "NONE"
        /\ Sub(New(t, "USD"), New(a, "EUR")).err # "NONE"
    <3> HIDE DEF t
    <3> QED
      BY <2>2, MoneyOps
  <2> QED
    BY <2>2, <2>3 DEF IsExactResult
<1> QED
  BY <1>1, CartInvariance, PTL

\* A write takes effect only on the items its client had seen when it decided to
\* write, whatever other clients committed meanwhile; what it had not seen was missing
\* from a list whose reading broke off.
THEOREM NoLostUpdateHolds == CartSpec => NoLostUpdate
<1>1. ASSUME CartInv, CartNext, NEW c \in Client,
             ClientAt(c, "tx"), items' # items, client'[c] # client[c]
      PROVE  Shows(client[c].seen, client[c].short, items)
  <2>1. PICK d \in Client :
            \/ createCart(d) \/ getCart(d)
            \/ addItem(d) \/ updateItemQuantity(d) \/ removeItem(d) \/ clearCart(d)
            \/ \E n \in Sku \cup {NoSku} : GetCartItems(d, n)
            \/ WriteTx(d) \/ CartAbort(d)
    BY <1>1 DEF CartNext
  <2>2. WriteTx(d)
    BY <1>1, <2>1 DEF createCart, getCart, addItem, updateItemQuantity, removeItem, clearCart,
                      CreateOrGetActiveCart, GetCart, AddItem, UpdateQuantity, RemoveItem, ClearCart,
                      Begin, GetCartItems, CartAbort
  <2>3. VersionMatches(d) /\ \E x : client' = [client EXCEPT ![d] = x]
    BY <1>1, <2>2 DEF WriteTx, ClientBecomes
  <2>4. c = d
    BY <1>1, <2>3 DEF CartInv
  <2>5. Changing(client[c], version, items)
    BY <1>1 DEF ClientAt, CartInv, Requesting, Reading
  <2> QED
    BY <2>3, <2>4, <2>5 DEF Changing, VersionMatches
<1>2. CartInv /\ [CartNext]_cartVars =>
          [\A c \in Client : ClientAt(c, "tx") /\ items' # items /\ client'[c] # client[c]
              => Shows(client[c].seen, client[c].short, items)]_cartVars
  BY <1>1
<1> QED
  BY <1>2, CartInvariance, PTL DEF CartSpec, NoLostUpdate
=============================================================================
