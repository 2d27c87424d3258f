------------------------------- MODULE Catalog -------------------------------
(***************************************************************************)
(* The catalog and its search index: internal/domain/catalog and           *)
(* internal/platform/search.  PostgreSQL has the products; every write of  *)
(* one is followed, after its commit and outside of any transaction, by an *)
(* unconditional write of its document to OpenSearch.  ReindexAll, run by  *)
(* each instance when it starts, pages through the products and writes     *)
(* their documents in bulk while other instances serve requests.           *)
(*                                                                         *)
(* What a product's columns hold is told apart by its version only.        *)
(***************************************************************************)
EXTENDS Naturals, FiniteSets

CONSTANTS
    Product,        \* product ids, ordered
    Time,           \* values of created_at
    Limit,          \* the page size of ReindexAll
    MaxVersion      \* bound on a product's version

ASSUME CatalogAssumption ==
    /\ Product \subseteq Nat \ {0} /\ IsFiniteSet(Product)
    /\ Time \subseteq Nat \ {0} /\ Time # {}
    /\ Limit \in Nat \ {0}
    /\ MaxVersion \in Nat \ {0}

VARIABLES
    version,    \* products.version, 0 for a product that does not exist
    created,    \* products.created_at
    index,      \* the version each product's document was built from, or 0
    pending,    \* documents on their way to the index
    excused,    \* products whose document was lost or overtaken since it was current
    scan        \* ReindexAll

vars == <<version, created, index, pending, excused, scan>>

Start == 0      \* the cursor of the first page

\* What ReindexAll keeps between its calls.  found: the version each product
\* had when it began (0: not there yet).  lost: products of its pages that the
\* index refused, or for which it had a newer document.  unread: products on no
\* page, because the reading of one broke off before them.
NoScan == [pc |-> "idle", cursor |-> Start, page |-> {}, more |-> FALSE,
           found |-> [p \in Product |-> 0], lost |-> {}, unread |-> {}]

Init ==
    /\ version = [p \in Product |-> 0]
    /\ created = [p \in Product |-> 0]
    /\ index = [p \in Product |-> 0]
    /\ pending = {} /\ excused = {}
    /\ scan = NoScan

Exists(p) == version[p] > 0

\* buildProductDocument, from the row that the statement returned.
Document(p, v) == [id |-> p, version |-> v]

-----------------------------------------------------------------------------
(* Writes of products *)

\* A second product with the SKU is refused.  created_at is the time at which the
\* statement began, so rows do not appear in its order.
CreateProduct(p, t) ==
    /\ ~Exists(p)
    /\ version' = [version EXCEPT ![p] = 1]
    /\ created' = [created EXCEPT ![p] = t]
    /\ pending' = pending \cup {Document(p, 1)}
    /\ UNCHANGED <<index, excused, scan>>

\* UPDATE ... WHERE version = $n; any other version is ErrOptimisticLockConflict.
UpdateRow(p, expected) ==
    /\ Exists(p) /\ version[p] < MaxVersion
    /\ version[p] = expected
    /\ version' = [version EXCEPT ![p] = expected + 1]
    /\ UNCHANGED <<created, index, excused, scan>>

UpdateProduct(p, expected) ==
    /\ UpdateRow(p, expected)
    /\ pending' = pending \cup {Document(p, expected + 1)}

\* Mutant: a new price is not sent to the index.
UpdatePriceUnindexed(p, expected) ==
    /\ UpdateRow(p, expected)
    /\ UNCHANGED pending

UpdateProductPrice(p, expected) ==
    /\ UpdateRow(p, expected)
    /\ pending' = pending \cup {Document(p, expected + 1)}

-----------------------------------------------------------------------------
(* Writes of documents *)

\* The documents in docs are written, whatever the index has: it keeps the last
\* one to arrive.
Write(docs) ==
    LET after(p) == IF \E d \in docs : d.id = p
                    THEN (CHOOSE d \in docs : d.id = p).version
                    ELSE index[p]
    IN  /\ index' = [p \in Product |-> after(p)]
        /\ excused' = {p \in Product :
                         /\ after(p) # version[p]
                         /\ p \in excused \/ after(p) < index[p]}

IndexProduct(d) ==
    /\ d \in pending
    /\ Write({d})
    /\ pending' = pending \ {d}
    /\ scan' = IF scan.pc # "idle" /\ index[d.id] > d.version
               THEN [scan EXCEPT !.lost = @ \cup {d.id}]
               ELSE scan
    /\ UNCHANGED <<version, created>>

\* OpenSearch fails, the request is cancelled or its process dies: a warning at
\* most, and nothing tries again.
IndexFails(d) ==
    /\ d \in pending
    /\ pending' = pending \ {d}
    /\ excused' = excused \cup {p \in {d.id} : index[p] # version[p]}
    /\ UNCHANGED <<version, created, index, scan>>

-----------------------------------------------------------------------------
(* ReindexAll *)

\* ORDER BY created_at DESC, id DESC
Before(p, q) ==
    created[p] > created[q] \/ (created[p] = created[q] /\ p > q)

\* Mutant: rows created at the cursor's time are skipped.
AfterTimeOnly(cursor, p) == cursor = Start \/ created[cursor] > created[p]

\* The cursor is (created_at, id) of the last row of the page before.
After(cursor, p) == cursor = Start \/ Before(cursor, p)

\* The first n rows: those with fewer than n rows before them.
FirstRows(rows, n) == {p \in rows : Cardinality({q \in rows : Before(q, p)}) < n}

\* The row that the next cursor is made of.
LastRow(rows) == CHOOSE p \in rows : \A q \in rows \ {p} : Before(q, p)

\* The query asks for fetchLimit rows, one more than a page holds.  When the
\* connection fails or the context ends while they arrive, rows.Next returns FALSE
\* as after the last row, and rows.Err is not asked: the rows that arrived are the
\* page, hasMore is FALSE unless all of fetchLimit did, and there is no error.
ListProducts(cursor, arrived) ==
    LET rows == {p \in Product : Exists(p) /\ After(cursor, p)}
        got  == FirstRows(rows, arrived)
        more == Cardinality(got) > Limit
    IN  [items |-> FirstRows(got, Limit), more |-> more,
         unread |-> IF more THEN {} ELSE rows \ got]

fetchLimit == Limit + 1

ReindexAll ==
    /\ scan.pc \in {"idle", "done"}
    /\ scan' = [NoScan EXCEPT !.pc = "list", !.found = version]
    /\ UNCHANGED <<version, created, index, pending, excused>>

\* ReindexAll returns.
Finished == [NoScan EXCEPT !.pc = "done", !.found = scan.found, !.lost = scan.lost,
                           !.unread = scan.unread]

\* One page is read and its documents are built.
ReadPage(arrived) ==
    /\ scan.pc = "list"
    /\ LET page == ListProducts(scan.cursor, arrived) IN
         scan' = IF page.items = {}
                 THEN [Finished EXCEPT !.unread = @ \cup page.unread]
                 ELSE [scan EXCEPT !.pc = "bulk", !.cursor = LastRow(page.items),
                          !.more = page.more, !.unread = @ \cup page.unread,
                          !.page = {Document(p, version[p]) : p \in page.items}]
    /\ UNCHANGED <<version, created, index, pending, excused>>

\* OpenSearch answers 200 also when it refused some documents of the request,
\* and BulkIndex looks at the status only.
BulkIndex(refused) ==
    /\ scan.pc = "bulk"
    /\ refused \subseteq scan.page
    /\ LET written == scan.page \ refused
           older   == {d \in written : d.version < index[d.id]}
       IN  /\ Write(written)
           /\ scan' = [(IF scan.more THEN [scan EXCEPT !.pc = "list", !.page = {}] ELSE Finished)
                         EXCEPT !.lost = @ \cup {d.id : d \in refused \cup older}]
    /\ UNCHANGED <<version, created, pending>>

\* Any other error or a crash ends ReindexAll; the instance starts all the same.
ReindexFails ==
    /\ scan.pc \in {"list", "bulk"}
    /\ scan' = NoScan
    /\ UNCHANGED <<version, created, index, pending, excused>>

\* The endpoints that write products; updates take the version from If-Match.
createProduct == \E p \in Product, t \in Time : CreateProduct(p, t)
updateProduct == \E p \in Product, v \in 1..MaxVersion : UpdateProduct(p, v)
updateProductPrice == \E p \in Product, v \in 1..MaxVersion : UpdateProductPrice(p, v)

Next ==
    \/ createProduct \/ updateProduct \/ updateProductPrice
    \/ \E d \in pending : IndexProduct(d) \/ IndexFails(d)
    \/ ReindexAll \/ ReindexFails
    \/ \E arrived \in 0..fetchLimit : ReadPage(arrived)
    \/ \E refused \in SUBSET scan.page : BulkIndex(refused)

Spec == Init /\ [][Next]_vars

-----------------------------------------------------------------------------
(* Properties *)

\* Versions stay within their bounds in both stores, and ReindexAll holds a page
\* only between its two calls.
TypeOK ==
    /\ version \in [Product -> 0..MaxVersion]
    /\ created \in [Product -> Time \cup {0}]
    /\ index \in [Product -> 0..MaxVersion]
    /\ pending \subseteq [id : Product, version : 1..MaxVersion]
    /\ excused \subseteq Product
    /\ scan.pc \in {"idle", "list", "bulk", "done"}
    /\ scan.page # {} <=> scan.pc = "bulk"
    /\ Cardinality(scan.page) <= Limit

\* The stores are well formed, the index is never ahead of the database, and it is
\* behind only for a reason: the document of a write is on its way, or the newest
\* one was lost or overtaken by an older one and none has been written since.
IndexExplained ==
    /\ TypeOK
    /\ \A p \in Product :
          \/ index[p] = version[p]
          \/ /\ index[p] < version[p]
             /\ \/ p \in excused
                \/ \E d \in pending : d.id = p

\* When ReindexAll has returned without an error, each product that existed when
\* it began is in the index with the version it had then or a later one, unless
\* OpenSearch refused its document, an older one overtook it, or the reading of
\* the last page broke off before it: the failure that ListProducts does not look
\* for.  The pages themselves skip none, also of products created in the same
\* microsecond or while it runs.
ReindexComplete ==
    scan.pc = "done" =>
        \A p \in Product :
            \/ index[p] >= scan.found[p]
            \/ p \in scan.lost
            \/ p \in scan.unread
=============================================================================
