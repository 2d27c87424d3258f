--------------------------------- MODULE Cart ---------------------------------
(***************************************************************************)
(* A customer's active cart: internal/domain/cart.  The customer uses it   *)
(* from several clients.  Each sends the version it last saw as If-Match;  *)
(* the service compares it with the row it reads, and the transaction      *)
(* compares it once more.  Answers are put together outside any            *)
(* transaction: first a version, then the items.                           *)
(*                                                                         *)
(* No code checks a cart out or abandons it: it stays ACTIVE.              *)
(***************************************************************************)
EXTENDS Pricing

CONSTANTS
    Client,
    Quantity,       \* quantities clients ask for; those below 1 remove the item
    Price,          \* prices the catalog may have when it is read
    MaxCartVersion  \* bound on the cart's version

ASSUME CartAssumption ==
    /\ Quantity \subseteq -MaxInt64 .. MaxInt64
    /\ Price \subseteq 1 .. MaxInt64
    /\ MaxCartVersion \in Nat \ {0}

VARIABLES
    version,    \* carts.version of the active cart, 0 before there is one
    items,      \* cart_items by SKU; quantity 0 when there is no row
    client,     \* where each client's request is
    view        \* the last cart each client was shown

cartVars == <<version, items, client, view>>

NoItem == [qty |-> 0, price |-> 0]
NoRequest == [pc |-> "idle"]
NoView == [ver |-> 0]
NoSku == -1

CartInit ==
    /\ version = 0
    /\ items = [k \in Sku |-> NoItem]
    /\ client = [c \in Client |-> NoRequest]
    /\ view = [c \in Client |-> NoView]

ClientAt(c, l) == client[c].pc = l
ClientBecomes(c, state) == client' = [client EXCEPT ![c] = state]

\* The items of a cart as GetCartItems returns them: ORDER BY sku.
Listed(its) ==
    LET skus == Ascending({k \in Sku : its[k].qty > 0})
    IN  [i \in DOMAIN skus |-> its[skus[i]]]

-----------------------------------------------------------------------------
\* INSERT ... ON CONFLICT: the customer's only active cart, new or not.
CreateOrGetActiveCart(c) ==
    /\ ClientAt(c, "idle")
    /\ version' = IF version = 0 THEN 1 ELSE version
    /\ ClientBecomes(c, [pc |-> "items", ver |-> version'])
    /\ UNCHANGED <<items, view>>

GetCart(c) ==
    /\ ClientAt(c, "idle") /\ version > 0
    /\ ClientBecomes(c, [pc |-> "items", ver |-> version])
    /\ UNCHANGED <<version, items, view>>

\* The rows up to SKU n.  The reading of a list that breaks off ends it as its last
\* row would: rows.Err is not asked.
Arrived(n) == [k \in Sku |-> IF k <= n THEN items[k] ELSE NoItem]

\* The end of a read, and of a write after its transaction: the items are
\* read and priced.  A total that does not fit is an error, although a write
\* has been committed by then.  short: the list broke off and lacks rows.
GetCartItems(c, n) ==
    /\ ClientAt(c, "items")
    /\ LET sum == CartTotal(Listed(Arrived(n)))
       IN  view' = [view EXCEPT ![c] = IF sum.err # "NONE" THEN @
                                       ELSE [ver |-> client[c].ver, items |-> Arrived(n),
                                             short |-> Arrived(n) # items,
                                             total |-> sum.total]]
    /\ ClientBecomes(c, NoRequest)
    /\ UNCHANGED <<version, items>>

\* The row is read, If-Match is compared with it.
Begin(c, op, k, q, p) ==
    /\ ClientAt(c, "idle") /\ version < MaxCartVersion
    /\ view[c] # NoView /\ view[c].ver = version
    /\ ClientBecomes(c, [pc |-> "tx", op |-> op, sku |-> k, qty |-> q, price |-> p, ver |-> version,
                  seen |-> view[c].items, short |-> view[c].short])
    /\ UNCHANGED <<version, items, view>>

\* The price is the catalog's, read before the transaction.
AddItem(c, k, q, p) == q > 0 /\ Begin(c, "add", k, q, p)

RemoveItem(c, k) == Begin(c, "remove", k, 0, 0)

UpdateQuantity(c, k, q) == IF q <= 0 THEN RemoveItem(c, k) ELSE Begin(c, "update", k, q, 0)

ClearCart(c) == Begin(c, "clear", NoSku, 0, 0)

\* UpsertCartItem adds to the quantity and takes the new price,
\* UpdateCartItemQuantity keeps the price.
ItemsAfter(r) ==
    CASE r.op = "add" -> [items EXCEPT ![r.sku] = [qty |-> @.qty + r.qty, price |-> r.price]]
      [] r.op = "update" -> [items EXCEPT ![r.sku] = [qty |-> r.qty, price |-> @.price]]
      [] r.op = "remove" -> [items EXCEPT ![r.sku] = NoItem]
      [] r.op = "clear" -> [k \in Sku |-> NoItem]

\* UPDATE and DELETE must find their row, and quantity is an INT column.
WriteOK(r) ==
    /\ r.op \in {"update", "remove"} => items[r.sku].qty > 0
    /\ r.op # "clear" => ItemsAfter(r)[r.sku].qty \in 0 .. MaxInt32

\* Mutant: WHERE id = $1.
VersionMatchesAny(c) == TRUE

\* IncrementCartVersion: WHERE id = $1 AND version = $2
VersionMatches(c) == version = client[c].ver

\* Mutant: clearing the cart is not counted as a change.
NewVersionUnlessCleared(r) == IF r.op = "clear" THEN version ELSE version + 1

NewVersion(r) == version + 1

\* The transaction of a write: version and items, or neither.  ClearCart's
\* handler answers 204 without a version.
WriteTx(c) ==
    LET r == client[c] IN
    /\ ClientAt(c, "tx")
    /\ IF VersionMatches(c) /\ WriteOK(r)
       THEN /\ version' = NewVersion(r)
            /\ items' = ItemsAfter(r)
            /\ ClientBecomes(c, IF r.op = "clear" THEN NoRequest ELSE [pc |-> "items", ver |-> version'])
       ELSE ClientBecomes(c, NoRequest) /\ UNCHANGED <<version, items>>
    /\ UNCHANGED view

\* An error, a lost connection or a crash: what is committed stays.
CartAbort(c) ==
    /\ ~ClientAt(c, "idle")
    /\ ClientBecomes(c, NoRequest)
    /\ UNCHANGED <<version, items, view>>

\* The endpoints of a cart.  Those that write take the version from If-Match and
\* answer 412 when it is not the cart's.
createCart(c) == CreateOrGetActiveCart(c)
getCart(c) == GetCart(c)
addItem(c) == \E k \in Sku, q \in Quantity, p \in Price : AddItem(c, k, q, p)
updateItemQuantity(c) == \E k \in Sku, q \in Quantity : UpdateQuantity(c, k, q)
removeItem(c) == \E k \in Sku : RemoveItem(c, k)
clearCart(c) == ClearCart(c)

CartNext ==
    \E c \in Client :
        \/ createCart(c) \/ getCart(c)
        \/ addItem(c) \/ updateItemQuantity(c) \/ removeItem(c) \/ clearCart(c)
        \/ \E n \in Sku \cup {NoSku} : GetCartItems(c, n)
        \/ WriteTx(c) \/ CartAbort(c)

CartSpec == CartInit /\ [][CartNext]_cartVars

-----------------------------------------------------------------------------
(* Properties *)

\* Item rows satisfy the table's constraints, and no one has seen a version
\* that is still to come.
CartTypeOK ==
    /\ version \in 0 .. MaxCartVersion
    /\ items \in [Sku -> {NoItem} \cup [qty : 1 .. MaxInt32, price : Price]]
    /\ \A c \in Client :
          /\ ClientAt(c, "items") => client[c].ver \in 1 .. version
          /\ view[c] # NoView => view[c].ver \in 1 .. version

\* A list shows a cart's items: row by row what they are, and all of them unless the
\* reading broke off.
Shows(list, short, its) ==
    \A k \in Sku : list[k] = its[k] \/ (short /\ list[k] = NoItem)

\* Item rows are well formed, and what a client was shown under the cart's
\* version is what is in the cart: although version and items are read by two
\* statements, a client that may still write (its If-Match is current) knows
\* what it writes to.  It may lack rows of a list whose reading broke off: the
\* failure that GetCartItems does not look for.
ViewsFresh ==
    /\ CartTypeOK
    /\ \A c \in Client :
          view[c] # NoView /\ view[c].ver = version =>
              Shows(view[c].items, view[c].short, items)

\* Money is exact or refused: every total shown is the exact sum of the items
\* shown with it, and New, Add, Sub and Multiply on any shown total
\* return the integer result, or an error exactly when that is negative or
\* exceeds an int64; amounts in two currencies are never added up.
MoneyExact ==
    \A c \in Client, a \in 0 .. MaxInt64 :
        view[c] # NoView =>
            LET m == New(view[c].total, "USD")
                IsExact(r, n) == IF n \in 0 .. MaxInt64
                                 THEN r.err = "NONE" /\ r.amount = n
                                 ELSE r.err # "NONE"
            IN  /\ view[c].total = ExactTotal(Listed(view[c].items))
                /\ IsExact(Add(m, New(a, "USD")), view[c].total + a)
                /\ IsExact(Sub(m, New(a, "USD")), view[c].total - a)
                /\ IsExact(Multiply(m, a), view[c].total * a)
                /\ Add(m, New(a, "EUR")).err # "NONE" /\ Sub(m, New(a, "EUR")).err # "NONE"

\* No update is lost: a write takes effect only on the very items its client
\* had seen when it decided to write, whatever others committed meanwhile; rows
\* it had not seen were missing from a list whose reading broke off.
NoLostUpdate ==
    [][\A c \in Client : ClientAt(c, "tx") /\ items' # items /\ client'[c] # client[c]
          => Shows(client[c].seen, client[c].short, items)]_cartVars
=============================================================================
