---------------------------- MODULE CatalogProofs ----------------------------
(***************************************************************************)
(* Proofs about the catalog with its search index, for any finite set of   *)
(* products, any times of creation, page size and number of versions: the  *)
(* index is behind only for a known reason, and ReindexAll misses no       *)
(* product but those after a place where reading broke off.  The last part *)
(* is about the media handlers: the properties of product images, for any  *)
(* set of images and any number of faults.                                 *)
(***************************************************************************)
EXTENDS Catalog, Media, FiniteSetTheorems, TLAPS

-----------------------------------------------------------------------------
(* The inductive invariant *)

Docs == [id : Product, version : 1 .. MaxVersion]

ScanType == [pc : {"idle", "list", "bulk", "done"}, cursor : Product \cup {Start},
             page : SUBSET Docs, more : BOOLEAN,
             found : [Product -> 0 .. MaxVersion], lost : SUBSET Product,
             unread : SUBSET Product]

\* Types that the steps of ReindexAll rely on.
Shapes ==
    /\ version \in [Product -> 0 .. MaxVersion]
    /\ created \in [Product -> Time \cup {0}]
    /\ index \in [Product -> 0 .. MaxVersion]
    /\ pending \subseteq Docs
    /\ excused \subseteq Product
    /\ scan \in ScanType
    /\ scan.page # {} <=> scan.pc = "bulk"
    /\ Cardinality(scan.page) <= Limit

\* Nobody knows a version that is still to come: not the index, not a
\* document on its way, and ReindexAll found no newer one when it began.
NotAhead ==
    /\ \A p \in Product : index[p] <= version[p] /\ scan.found[p] <= version[p]
    /\ \A d \in pending \cup scan.page : d.version <= version[d.id]

\* A product whose document is old without an excuse has the newest one on its
\* way; any older one would not do.
NewestPending ==
    \A p \in Product :
        index[p] = version[p] \/ p \in excused \/ Document(p, version[p]) \in pending

\* ReindexAll has done its work for p, the index refused or lost it, or p comes
\* after the place where reading broke off.
Settled(p) == index[p] >= scan.found[p] \/ p \in scan.lost \/ p \in scan.unread

\* p is on the page that is about to be written.
OnPage(p) == \E d \in scan.page : d.id = p

\* No document of a page is older than the product was found.  Of the products
\* that ReindexAll found, those up to the cursor are settled or on the page;
\* after the last page that is all of them, unless it was cut short.
Scanned ==
    /\ \A d \in scan.page : scan.found[d.id] <= d.version
    /\ scan.cursor # Start => Exists(scan.cursor)
    /\ scan.pc \in {"list", "bulk"} =>
          \A p \in Product :
              scan.found[p] > 0 /\ ~After(scan.cursor, p) => Settled(p) \/ OnPage(p)
    /\ scan.pc = "bulk" /\ ~scan.more =>
          \A p \in Product :
              scan.found[p] > 0 => ~After(scan.cursor, p) \/ p \in scan.unread
    /\ scan.pc = "done" => \A p \in Product : Settled(p)

IInv == Shapes /\ NotAhead /\ NewestPending /\ Scanned

-----------------------------------------------------------------------------
(* Pages *)

\* Ids and times are numbers.
LEMMA TimesNatural ==
    ASSUME Shapes
    PROVE  \A p \in Product : p \in Nat /\ created[p] \in Nat
<1>1. created \in [Product -> Time \cup {0}]
  BY DEF Shapes
<1>2. Product \subseteq Nat /\ Time \cup {0} \subseteq Nat
  BY CatalogAssumption
<1> QED
  BY <1>1, <1>2

\* The order of ListProducts is total: products made at one time are told
\* apart by their ids.
LEMMA BeforeOrder ==
    ASSUME Shapes
    PROVE  \A p, q, r \in Product :
               /\ ~Before(p, p)
               /\ Before(p, q) /\ Before(q, r) => Before(p, r)
               /\ p # q => Before(p, q) \/ Before(q, p)
<1>1. ASSUME NEW p \in Product, NEW q \in Product, NEW r \in Product
      PROVE  /\ ~Before(p, p)
             /\ Before(p, q) /\ Before(q, r) => Before(p, r)
             /\ p # q => Before(p, q) \/ Before(q, p)
  <2>1. /\ p \in Nat /\ q \in Nat /\ r \in Nat
        /\ created[p] \in Nat /\ created[q] \in Nat /\ created[r] \in Nat
    BY TimesNatural
  <2> QED
    BY <2>1 DEF Before
<1> QED
  BY <1>1

\* A non-empty set of naturals has a least element.
LEMMA LeastExists ==
    ASSUME NEW S, S \subseteq Nat, S # {}
    PROVE  \E n \in S : \A m \in S : n <= m
<1> DEFINE below(n) == 0 .. (n - 1)
           T == {below(n) : n \in S}
<1>1. IsWellFoundedOn(StrictSubsetOrdering(Nat), FiniteSubsetsOf(Nat))
  BY FS_StrictSubsetOrderingWellFounded
<1>2. T \subseteq FiniteSubsetsOf(Nat) /\ T # {}
  <2>1. ASSUME NEW n \in S PROVE below(n) \subseteq Nat /\ IsFiniteSet(below(n))
    <3>1. 0 \in Int /\ n - 1 \in Int
      OBVIOUS
    <3> QED
      BY <3>1, FS_Interval
  <2> QED
    BY <2>1 DEF FiniteSubsetsOf
<1>3. \E m \in T : \A y \in T : ~ (<<y, m>> \in StrictSubsetOrdering(Nat))
  <2> HIDE DEF T
  <2> QED
    BY <1>1, <1>2, WFMin
<1>4. PICK n \in S : \A y \in T : ~ (<<y, below(n)>> \in StrictSubsetOrdering(Nat))
  BY <1>3
<1>5. ASSUME NEW m \in S, m < n PROVE FALSE
  <2>1. m \in Nat /\ n \in Nat
    OBVIOUS
  <2>2. below(m) \subseteq below(n) /\ m \in below(n) /\ m \notin below(m)
    BY <1>5, <2>1
  <2>3. below(m) \subseteq Nat /\ below(n) \subseteq Nat
    BY <2>1
  <2>4. <<below(m), below(n)>> \in StrictSubsetOrdering(Nat)
    BY <2>2, <2>3 DEF StrictSubsetOrdering
  <2> QED
    BY <1>4, <2>4
<1> QED
  BY <1>5

\* Any set of rows has a last one: among those of the least time, the one
\* with the least id.
LEMMA LastRowLast ==
    ASSUME Shapes, NEW rows \in SUBSET Product, rows # {}
    PROVE  /\ LastRow(rows) \in rows
           /\ \A q \in rows \ {LastRow(rows)} : Before(q, LastRow(rows))
<1> DEFINE times == {created[p] : p \in rows}
<1>1. \A p \in Product : p \in Nat /\ created[p] \in Nat
  BY TimesNatural
<1>2. times \subseteq Nat /\ times # {}
  BY <1>1
<1>3. PICK t \in times : \A u \in times : t <= u
  <2> HIDE DEF times
  <2> QED
    BY <1>2, LeastExists
<1> DEFINE oldest == {p \in rows : created[p] = t}
<1>4. oldest \subseteq Nat /\ oldest # {}
  BY <1>1
<1>5. PICK p \in oldest : \A q \in oldest : p <= q
  <2> HIDE DEF oldest
  <2> QED
    BY <1>4, LeastExists
<1>6. ASSUME NEW q \in rows \ {p} PROVE Before(q, p)
  <2>1. created[q] >= t /\ created[p] = t /\ (created[q] = t => q > p)
    BY <1>1, <1>2, <1>3, <1>5, <1>6
  <2> QED
    BY <1>1, <2>1 DEF Before
<1> QED
  BY <1>5, <1>6 DEF LastRow

\* The first rows come before all the others; there is at least one if there is any
\* row, and they are all of them if they fit.
LEMMA FirstRowsFirst ==
    ASSUME Shapes, NEW rows \in SUBSET Product, NEW size \in Nat
    PROVE  /\ FirstRows(rows, size) \subseteq rows
           /\ rows # {} /\ size > 0 => FirstRows(rows, size) # {}
           /\ Cardinality(rows) <= size => FirstRows(rows, size) = rows
           /\ \A p \in FirstRows(rows, size), q \in rows \ FirstRows(rows, size) : Before(p, q)
           /\ IsFiniteSet(FirstRows(rows, size)) /\ Cardinality(FirstRows(rows, size)) <= size
<1> DEFINE above(p) == {q \in rows : Before(q, p)}
           n(p) == Cardinality(above(p))
           first == FirstRows(rows, size)
<1>1. first = {p \in rows : n(p) < size}
  BY DEF FirstRows
<1>2. IsFiniteSet(rows) /\ size \in Nat /\ Cardinality(rows) \in Nat
  BY CatalogAssumption, FS_Subset, FS_CardinalityType
<1>3. \A p \in rows : IsFiniteSet(above(p)) /\ n(p) \in Nat
  <2>1. \A p \in rows : above(p) \in SUBSET rows
    OBVIOUS
  <2> QED
    BY <1>2, <2>1, FS_Subset, FS_CardinalityType
<1>4. ASSUME NEW p \in rows, NEW q \in rows, Before(q, p) PROVE n(q) < n(p)
  <2>1. above(q) \subseteq above(p) /\ q \in above(p) /\ q \notin above(q)
    BY <1>4, BeforeOrder
  <2>2. n(q) <= n(p) /\ n(p) # n(q)
    <3>1. above(q) \in SUBSET above(p) /\ above(p) # above(q)
      BY <2>1
    <3> HIDE DEF above
    <3> QED
      BY <1>3, <3>1, FS_Subset
  <2> QED
    BY <1>3, <2>2
<1>5. ASSUME NEW p \in rows PROVE n(p) < Cardinality(rows)
  <2>1. above(p) \in SUBSET rows /\ p \notin above(p)
    BY BeforeOrder
  <2>2. n(p) <= Cardinality(rows) /\ n(p) # Cardinality(rows)
    <3> HIDE DEF above
    <3> QED
      BY <1>2, <2>1, FS_Subset
  <2> QED
    BY <1>2, <1>3, <2>2
<1>a. \A p \in rows : n(p) \in Nat /\ n(p) < Cardinality(rows)
  BY <1>3, <1>5
<1>b. \A p, q \in rows : Before(q, p) => n(q) < n(p)
  BY <1>4
<1> HIDE DEF n, first
<1>6. first \subseteq rows
  BY <1>1
<1>7. ASSUME rows # {}, size > 0 PROVE first # {}
  <2>1. {n(p) : p \in rows} \subseteq Nat /\ {n(p) : p \in rows} # {}
    BY <1>3, <1>7
  <2>2. PICK m \in {n(p) : p \in rows} : \A k \in {n(p) : p \in rows} : m <= k
    BY <2>1, LeastExists
  <2>3. PICK p \in rows : m = n(p)
    BY <2>2
  <2>4. \A q \in rows : ~Before(q, p)
    BY <1>a, <1>b, <2>2, <2>3
  <2>5. above(p) = {}
    BY <2>4
  <2>6. n(p) = 0
    BY <2>5, FS_EmptySet DEF n
  <2> QED
    BY <1>1, <1>2, <1>7, <2>6
<1>8. Cardinality(rows) <= size => first = rows
  BY <1>1, <1>2, <1>a
<1>9. ASSUME NEW p \in first, NEW q \in rows \ first PROVE Before(p, q)
  <2>1. n(p) < size /\ ~(n(q) < size) /\ p \in rows /\ p # q
    BY <1>1
  <2>2. ~Before(q, p)
    BY <1>2, <1>a, <1>b, <2>1
  <2> QED
    BY <2>1, <2>2, BeforeOrder
<1>10. IsFiniteSet(first) /\ Cardinality(first) <= size
  <2>1. IsFiniteSet(first)
    BY <1>2, <1>6, FS_Subset
  <2>2. CASE first = {}
    BY <1>2, <2>1, <2>2, FS_EmptySet
  <2>3. CASE first # {}
    <3> DEFINE l == LastRow(first)
    <3>1. l \in first /\ \A q \in first \ {l} : Before(q, l)
      BY <1>6, <2>3, LastRowLast
    <3>2. first \ {l} \in SUBSET above(l)
      BY <1>6, <3>1
    <3>3. Cardinality(first \ {l}) <= n(l) /\ n(l) < size /\ n(l) \in Nat
      <4> HIDE DEF above, l
      <4> QED
        BY <1>1, <1>3, <3>1, <3>2, FS_Subset DEF n
    <3>4. Cardinality(first \ {l}) = Cardinality(first) - 1
      BY <2>1, <3>1, FS_RemoveElement
    <3>5. Cardinality(first) \in Nat
      BY <2>1, FS_CardinalityType
    <3> QED
      BY <1>2, <2>1, <3>3, <3>4, <3>5
  <2> QED
    BY <2>2, <2>3
<1> QED
  BY <1>6, <1>7, <1>8, <1>9, <1>10 DEF first

-----------------------------------------------------------------------------
(* Initial states and writes of products *)

\* The empty catalog, with an empty index.
LEMMA InitIInv == Init => IInv
<1> SUFFICES ASSUME Init PROVE IInv
  OBVIOUS
<1>0. MaxVersion \in Nat \ {0} /\ Limit \in Nat \ {0}
  BY CatalogAssumption
<1>1. scan = NoScan /\ NoScan.pc = "idle" /\ NoScan.page = {} /\ NoScan.cursor = Start
      /\ NoScan.found = [p \in Product |-> 0] /\ NoScan.lost = {} /\ NoScan.more = FALSE
      /\ NoScan.unread = {}
  BY DEF Init, NoScan
<1>2. Shapes
  <2>1. Cardinality({}) = 0
    BY FS_EmptySet
  <2>2. /\ version \in [Product -> 0 .. MaxVersion] /\ created \in [Product -> Time \cup {0}]
        /\ index \in [Product -> 0 .. MaxVersion] /\ pending = {} /\ excused = {}
    BY <1>0 DEF Init
  <2>3. scan \in ScanType
    BY <1>0, <1>1 DEF NoScan, ScanType
  <2> QED
    BY <1>0, <1>1, <2>1, <2>2, <2>3 DEF Shapes
<1>3. NotAhead /\ NewestPending
  BY <1>1 DEF Init, NotAhead, NewestPending
<1>4. Scanned
  BY <1>1 DEF Scanned
<1> QED
  BY <1>2, <1>3, <1>4 DEF IInv

\* A write of a row leaves its newest document on the way.  The rows that are
\* there keep their place in the order, so ReindexAll is where it was.
LEMMA RowStep ==
    ASSUME IInv, NEW p \in Product, NEW v \in 1 .. MaxVersion, version[p] < v,
           version' = [version EXCEPT ![p] = v],
           created' \in [Product -> Time \cup {0}],
           \A q \in Product : Exists(q) => created'[q] = created[q],
           pending' = pending \cup {Document(p, v)},
           UNCHANGED <<index, excused, scan>>
    PROVE  IInv'
<1>0. /\ MaxVersion \in Nat /\ version \in [Product -> 0 .. MaxVersion]
      /\ index \in [Product -> 0 .. MaxVersion] /\ pending \subseteq Docs
      /\ scan.page \subseteq Docs /\ scan.cursor \in Product \cup {Start}
      /\ scan.found \in [Product -> 0 .. MaxVersion]
  BY CatalogAssumption DEF IInv, Shapes, ScanType
<1>1. Document(p, v) \in Docs /\ Document(p, v).id = p /\ Document(p, v).version = v
  BY DEF Document, Docs
<1>2. \A q \in Product : version'[q] \in 0 .. MaxVersion /\ version[q] <= version'[q]
                         /\ (q # p => version'[q] = version[q]) /\ version'[p] = v
  BY <1>0
<1>3. Shapes'
  <2>1. version' \in [Product -> 0 .. MaxVersion] /\ pending' \subseteq Docs
    BY <1>0, <1>1
  <2> QED
    BY <2>1 DEF IInv, Shapes
<1>4. NotAhead'
  <2>1. \A q \in Product : index'[q] <= version'[q] /\ scan'.found[q] <= version'[q]
    BY <1>0, <1>2 DEF IInv, NotAhead
  <2>2. \A d \in pending' \cup scan'.page : d.version <= version'[d.id]
    <3> SUFFICES ASSUME NEW d \in pending \cup scan.page \cup {Document(p, v)}
                 PROVE  d.version <= version'[d.id]
      OBVIOUS
    <3>1. CASE d = Document(p, v)
      BY <1>1, <1>2, <3>1
    <3>2. CASE d \in pending \cup scan.page
      <4>1. d.id \in Product /\ d.version \in 1 .. MaxVersion
        BY <1>0, <3>2 DEF Docs
      <4>2. d.version <= version[d.id]
        BY <3>2 DEF IInv, NotAhead
      <4> QED
        BY <1>0, <1>2, <4>1, <4>2
    <3> QED
      BY <3>1, <3>2
  <2> QED
    BY <2>1, <2>2 DEF NotAhead
<1>5. NewestPending'
  <2>1. ASSUME NEW q \in Product
        PROVE  index'[q] = version'[q] \/ q \in excused' \/ Document(q, version'[q]) \in pending'
    BY <1>2 DEF IInv, NewestPending
  <2> QED
    BY <2>1 DEF NewestPending
<1>6. Scanned'
  <2>1. scan.cursor # Start => Exists(scan.cursor)
    BY DEF IInv, Scanned
  <2>2. (scan.cursor # Start => Exists(scan.cursor))'
    BY <1>0, <1>2, <2>1 DEF Exists
  <2>3. \A q \in Product : scan.found[q] > 0 => Exists(q)
    BY <1>0 DEF IInv, NotAhead, Exists
  <2>4. \A q \in Product : scan.found[q] > 0 =>
                              (After(scan.cursor, q)' <=> After(scan.cursor, q))
    BY <1>0, <2>1, <2>3 DEF After, Before
  <2>5. \A q \in Product : (Settled(q)' <=> Settled(q)) /\ (OnPage(q)' <=> OnPage(q))
    BY DEF Settled, OnPage
  <2> QED
    BY <2>2, <2>4, <2>5 DEF IInv, Scanned
<1> QED
  BY <1>3, <1>4, <1>5, <1>6 DEF IInv

\* A new product is at version 1; its time is given to no row that was there.
LEMMA CreateProductStep ==
    ASSUME IInv, NEW p \in Product, NEW t \in Time, CreateProduct(p, t)
    PROVE  IInv'
<1>1. MaxVersion \in Nat \ {0} /\ version[p] \in 0 .. MaxVersion
      /\ created \in [Product -> Time \cup {0}]
  BY CatalogAssumption DEF IInv, Shapes
<1>2. 1 \in 1 .. MaxVersion /\ version[p] < 1
  BY <1>1 DEF CreateProduct, Exists
<1>3. created' \in [Product -> Time \cup {0}]
      /\ \A q \in Product : Exists(q) => created'[q] = created[q]
  BY <1>1 DEF CreateProduct
<1> QED
  BY <1>2, <1>3, RowStep DEF CreateProduct

\* An update or a new price, at the version that If-Match named.
LEMMA UpdateStep ==
    ASSUME IInv, NEW p \in Product, NEW v \in 1 .. MaxVersion,
           UpdateProduct(p, v) \/ UpdateProductPrice(p, v)
    PROVE  IInv'
<1>1. UpdateRow(p, v) /\ pending' = pending \cup {Document(p, v + 1)}
  BY DEF UpdateProduct, UpdateProductPrice
<1>2. MaxVersion \in Nat /\ created \in [Product -> Time \cup {0}]
  BY CatalogAssumption DEF IInv, Shapes
<1>3. v + 1 \in 1 .. MaxVersion /\ version[p] < v + 1
  BY <1>1, <1>2 DEF UpdateRow
<1> QED
  BY <1>1, <1>2, <1>3, RowStep DEF UpdateRow

-----------------------------------------------------------------------------
(* Writes of documents *)

\* What a write of known documents makes of the index: the document of a
\* product that has one in docs, and an excuse where it went back.
LEMMA WriteEffect ==
    ASSUME IInv, NEW docs \in SUBSET Docs, Write(docs),
           \A d \in docs : d.version <= version[d.id]
    PROVE  /\ index' \in [Product -> 0 .. MaxVersion]
           /\ excused' \subseteq Product
           /\ \A p \in Product : index'[p] <= version[p]
           /\ \A p \in Product :
                 \/ index'[p] = index[p] /\ ~ \E d \in docs : d.id = p
                 \/ \E d \in docs : d.id = p /\ index'[p] = d.version
           /\ \A p \in Product :
                 \/ index'[p] = version[p]
                 \/ p \in excused'
                 \/ p \notin excused /\ index[p] <= index'[p]
<1> DEFINE after(p) == IF \E d \in docs : d.id = p
                       THEN (CHOOSE d \in docs : d.id = p).version
                       ELSE index[p]
<1>0. /\ MaxVersion \in Nat /\ version \in [Product -> 0 .. MaxVersion]
      /\ index \in [Product -> 0 .. MaxVersion]
      /\ \A p \in Product : index[p] <= version[p]
  BY CatalogAssumption DEF IInv, Shapes, NotAhead
<1>1. /\ index' = [p \in Product |-> after(p)]
      /\ excused' = {p \in Product : after(p) # version[p]
                                     /\ (p \in excused \/ after(p) < index[p])}
  BY DEF Write
<1>2. ASSUME NEW p \in Product
      PROVE  \/ after(p) = index[p] /\ ~ \E d \in docs : d.id = p
             \/ \E d \in docs : d.id = p /\ after(p) = d.version
  OBVIOUS
<1> HIDE DEF after
<1>3. \A d \in docs : d.id \in Product /\ d.version \in 1 .. MaxVersion
  BY DEF Docs
<1>4. \A p \in Product : after(p) \in 0 .. MaxVersion /\ after(p) <= version[p]
  BY <1>0, <1>2, <1>3
<1>5. index' \in [Product -> 0 .. MaxVersion] /\ \A p \in Product : index'[p] = after(p)
  BY <1>1, <1>4
<1>6. ASSUME NEW p \in Product
      PROVE  \/ index'[p] = version[p]
             \/ p \in excused'
             \/ p \notin excused /\ index[p] <= index'[p]
  <2>1. index[p] \in Nat /\ after(p) \in Nat
    BY <1>0, <1>4
  <2> QED
    BY <1>1, <1>5, <2>1
<1> QED
  BY <1>1, <1>2, <1>4, <1>5, <1>6

\* An index that ReindexAll has brought up to date is not put back unnoticed.
LEMMA SettledStays ==
    ASSUME IInv, index' \in [Product -> 0 .. MaxVersion],
           scan'.found = scan.found, scan.lost \subseteq scan'.lost,
           scan.unread \subseteq scan'.unread,
           NEW p \in Product, index[p] <= index'[p] \/ p \in scan'.lost, Settled(p)
    PROVE  Settled(p)'
<1>1. index[p] \in Nat /\ index'[p] \in Nat /\ scan.found[p] \in Nat
  BY CatalogAssumption DEF IInv, Shapes, ScanType
<1> QED
  BY <1>1 DEF Settled

\* A document of a product write arrives.
LEMMA IndexProductStep ==
    ASSUME IInv, NEW d \in pending, IndexProduct(d)
    PROVE  IInv'
<1>0. /\ MaxVersion \in Nat /\ version \in [Product -> 0 .. MaxVersion]
      /\ index \in [Product -> 0 .. MaxVersion] /\ pending \subseteq Docs
      /\ scan \in ScanType
  BY CatalogAssumption DEF IInv, Shapes
<1>1. d.id \in Product /\ d.version \in 1 .. MaxVersion /\ {d} \in SUBSET Docs
      /\ d = Document(d.id, d.version) /\ d.version <= version[d.id]
  BY <1>0 DEF Docs, Document, IInv, NotAhead
<1>2. /\ index' \in [Product -> 0 .. MaxVersion] /\ excused' \subseteq Product
      /\ \A p \in Product : index'[p] <= version[p]
      /\ \A p \in Product : index'[p] = IF p = d.id THEN d.version ELSE index[p]
      /\ \A p \in Product : \/ index'[p] = version[p]
                            \/ p \in excused'
                            \/ p \notin excused /\ index[p] <= index'[p]
  <2>1. Write({d}) /\ \A e \in {d} : e.version <= version[e.id]
    BY <1>1 DEF IndexProduct
  <2>2. /\ index' \in [Product -> 0 .. MaxVersion] /\ excused' \subseteq Product
        /\ \A p \in Product : index'[p] <= version[p]
        /\ \A p \in Product : \/ index'[p] = index[p] /\ ~ \E e \in {d} : e.id = p
                              \/ \E e \in {d} : e.id = p /\ index'[p] = e.version
        /\ \A p \in Product : \/ index'[p] = version[p]
                              \/ p \in excused'
                              \/ p \notin excused /\ index[p] <= index'[p]
    BY <1>1, <2>1, WriteEffect
  <2> QED
    BY <2>2
<1>3. /\ scan'.pc = scan.pc /\ scan'.cursor = scan.cursor /\ scan'.page = scan.page
      /\ scan'.more = scan.more /\ scan'.found = scan.found
      /\ scan.lost \subseteq scan'.lost /\ scan'.unread = scan.unread
      /\ scan.pc # "idle" /\ index[d.id] > d.version => d.id \in scan'.lost
      /\ scan' \in ScanType
  BY <1>0, <1>1 DEF IndexProduct, ScanType
<1>4. UNCHANGED <<version, created>> /\ pending' = pending \ {d}
  BY DEF IndexProduct
<1>5. Shapes'
  BY <1>0, <1>2, <1>3, <1>4 DEF IInv, Shapes
<1>6. NotAhead'
  BY <1>2, <1>3, <1>4 DEF IInv, NotAhead
<1>7. NewestPending'
  <2> SUFFICES ASSUME NEW p \in Product, index'[p] # version[p], p \notin excused'
               PROVE  Document(p, version[p]) \in pending'
    BY <1>4 DEF NewestPending
  <2>1. p \notin excused /\ index[p] <= index'[p] /\ index'[p] <= version[p]
    BY <1>2
  <2>2. index[p] # version[p]
    BY <1>0, <1>2, <2>1
  <2>3. Document(p, version[p]) \in pending
    BY <2>1, <2>2 DEF IInv, NewestPending
  <2>4. Document(p, version[p]) # d
    BY <1>2 DEF Document
  <2> QED
    BY <1>4, <2>3, <2>4
<1>8. Scanned'
  <2>1. ASSUME NEW p \in Product, scan.pc # "idle", Settled(p) PROVE Settled(p)'
    <3>1. index[p] <= index'[p] \/ p \in scan'.lost
      BY <1>0, <1>1, <1>2, <1>3, <2>1
    <3> QED
      BY <1>2, <1>3, <2>1, <3>1, SettledStays
  <2>2. \A p \in Product : OnPage(p)' <=> OnPage(p)
    BY <1>3 DEF OnPage
  <2>3. \A p \in Product : After(scan.cursor, p)' <=> After(scan.cursor, p)
    BY <1>3, <1>4 DEF After, Before
  <2>4. Exists(scan.cursor)' <=> Exists(scan.cursor)
    BY <1>3, <1>4 DEF Exists
  <2> QED
    BY <1>3, <2>1, <2>2, <2>3, <2>4 DEF IInv, Scanned
<1> QED
  BY <1>5, <1>6, <1>7, <1>8 DEF IInv

\* A document is lost on its way: from now on the product is excused.
LEMMA IndexFailsStep ==
    ASSUME IInv, NEW d \in pending, IndexFails(d)
    PROVE  IInv'
<1>1. /\ UNCHANGED <<version, created, index, scan>> /\ pending' = pending \ {d}
      /\ excused' = excused \cup {p \in {d.id} : index[p] # version[p]}
      /\ d.id \in Product
  BY DEF IndexFails, IInv, Shapes, Docs
<1>2. Shapes'
  BY <1>1 DEF IInv, Shapes
<1>3. NotAhead'
  BY <1>1 DEF IInv, NotAhead
<1>4. NewestPending'
  <2> SUFFICES ASSUME NEW p \in Product, index[p] # version[p], p \notin excused'
               PROVE  Document(p, version[p]) \in pending'
    BY <1>1 DEF NewestPending
  <2>1. p # d.id /\ Document(p, version[p]) \in pending
    BY <1>1 DEF IInv, NewestPending
  <2>2. Document(p, version[p]).id = p
    BY DEF Document
  <2> QED
    BY <1>1, <2>1, <2>2
<1>5. Scanned'
  BY <1>1 DEF IInv, Scanned, Exists, After, Before, Settled, OnPage
<1> QED
  BY <1>2, <1>3, <1>4, <1>5 DEF IInv

-----------------------------------------------------------------------------
(* ReindexAll *)

\* A step of ReindexAll between the database and its own variables.
LEMMA ScanStep ==
    ASSUME IInv, UNCHANGED <<version, created, index, pending, excused>>,
           scan' \in ScanType, scan'.page # {} <=> scan'.pc = "bulk",
           Cardinality(scan'.page) <= Limit,
           \A p \in Product : scan'.found[p] <= version[p],
           \A d \in scan'.page : d.version <= version[d.id],
           Scanned'
    PROVE  IInv'
<1>1. Shapes'
  BY DEF IInv, Shapes, ScanType
<1>2. NotAhead' /\ NewestPending'
  BY DEF IInv, NotAhead, NewestPending
<1> QED
  BY <1>1, <1>2 DEF IInv

\* The record that ReindexAll starts from and ends with.
LEMMA NoScanFields ==
    /\ NoScan \in ScanType
    /\ NoScan.pc = "idle" /\ NoScan.cursor = Start /\ NoScan.page = {}
    /\ NoScan.found = [p \in Product |-> 0] /\ NoScan.lost = {} /\ NoScan.unread = {}
    /\ Cardinality({}) = 0 /\ 0 <= Limit
<1>1. MaxVersion \in Nat /\ Limit \in Nat
  BY CatalogAssumption
<1>2. Cardinality({}) = 0
  BY FS_EmptySet
<1> QED
  BY <1>1, <1>2 DEF NoScan, ScanType

\* ReindexAll begins: nothing is scanned yet.
LEMMA ReindexAllStep ==
    ASSUME IInv, ReindexAll
    PROVE  IInv'
<1>0. MaxVersion \in Nat /\ version \in [Product -> 0 .. MaxVersion]
  BY CatalogAssumption DEF IInv, Shapes
<1>1. /\ UNCHANGED <<version, created, index, pending, excused>>
      /\ scan'.pc = "list" /\ scan'.cursor = Start /\ scan'.page = {}
      /\ scan'.found = version /\ scan' \in ScanType
  BY <1>0 DEF ReindexAll, NoScan, ScanType
<1>2. Scanned'
  BY <1>1 DEF Scanned, After
<1>3. \A p \in Product : scan'.found[p] <= version[p]
  BY <1>0, <1>1
<1> QED
  BY <1>1, <1>2, <1>3, ScanStep, NoScanFields

\* ReindexAll ends with an error and forgets what it knew.
LEMMA ReindexFailsStep ==
    ASSUME IInv, ReindexFails
    PROVE  IInv'
<1>0. MaxVersion \in Nat /\ version \in [Product -> 0 .. MaxVersion]
  BY CatalogAssumption DEF IInv, Shapes
<1>1. UNCHANGED <<version, created, index, pending, excused>> /\ scan' = NoScan
  BY DEF ReindexFails
<1>2. Scanned'
  BY <1>1, NoScanFields DEF Scanned
<1>3. \A p \in Product : scan'.found[p] <= version[p]
  BY <1>0, <1>1, NoScanFields
<1> QED
  BY <1>1, <1>2, <1>3, ScanStep, NoScanFields

\* The fields of ReindexAll's variables when it has returned.
LEMMA FinishedFields ==
    ASSUME IInv
    PROVE  /\ Finished \in ScanType
           /\ Finished.pc = "done" /\ Finished.cursor = Start /\ Finished.page = {}
           /\ Finished.found = scan.found /\ Finished.lost = scan.lost
           /\ Finished.unread = scan.unread
<1>1. /\ scan.found \in [Product -> 0 .. MaxVersion] /\ scan.lost \in SUBSET Product
      /\ scan.unread \in SUBSET Product
  BY DEF IInv, Shapes, ScanType
<1> QED
  BY <1>1 DEF Finished, NoScan, ScanType

\* A page skips nothing: what it does not hold comes after the new cursor or
\* was settled by earlier pages, and with the last page nothing comes after but
\* what did not arrive.
LEMMA ReadPageStep ==
    ASSUME IInv, NEW arrived \in Nat, ReadPage(arrived)
    PROVE  IInv'
<1> DEFINE rows == {p \in Product : Exists(p) /\ After(scan.cursor, p)}
           got == FirstRows(rows, arrived)
           items == FirstRows(got, Limit)
           more == Cardinality(got) > Limit
           unread == IF more THEN {} ELSE rows \ got
<1>0. /\ MaxVersion \in Nat /\ version \in [Product -> 0 .. MaxVersion]
      /\ scan \in ScanType /\ scan.pc = "list" /\ scan.page = {}
      /\ Limit \in Nat \ {0} /\ Start \notin Product
  BY CatalogAssumption DEF IInv, Shapes, ScanType, ReadPage, Start
<1>1. \A p \in Product : scan.found[p] \in Nat /\ scan.found[p] <= version[p]
  BY <1>0 DEF IInv, NotAhead, ScanType
<1>2. \A p \in Product : scan.found[p] > 0 => Exists(p)
  BY <1>0, <1>1 DEF Exists
<1>3. UNCHANGED <<version, created, index, pending, excused>>
  BY DEF ReadPage
<1>4. /\ ListProducts(scan.cursor, arrived).items = items
      /\ ListProducts(scan.cursor, arrived).more = more
      /\ ListProducts(scan.cursor, arrived).unread = unread
  BY DEF ListProducts
<1>5. rows \in SUBSET Product /\ Shapes
  BY DEF IInv
<1>g. /\ got \subseteq rows
      /\ \A p \in got, q \in rows \ got : Before(p, q)
      /\ IsFiniteSet(got)
  <2> HIDE DEF rows
  <2> QED
    BY <1>5, FirstRowsFirst
<1>i. /\ items \subseteq got
      /\ got # {} => items # {}
      /\ Cardinality(got) <= Limit => items = got
      /\ \A p \in items, q \in got \ items : Before(p, q)
      /\ IsFiniteSet(items) /\ Cardinality(items) <= Limit
  <2>1. got \in SUBSET Product /\ Limit \in Nat /\ Limit > 0
    BY <1>0, <1>5, <1>g
  <2> HIDE DEF got
  <2> QED
    BY <1>5, <2>1, FirstRowsFirst
<1>6. /\ items \subseteq rows
      /\ \A p \in items, q \in rows \ items : Before(p, q)
      /\ IsFiniteSet(items) /\ Cardinality(items) <= Limit
      /\ ~more => items = got
      /\ items = {} => ~more
  <2>1. Cardinality(got) \in Nat
    BY <1>g, FS_CardinalityType
  <2>2. ~more => items = got
    <3> HIDE DEF items, got
    <3> QED
      BY <1>0, <1>i, <2>1
  <2>3. items = {} => ~more
    <3>1. got = {} => Cardinality(got) = 0
      BY FS_EmptySet
    <3> HIDE DEF items, got
    <3> QED
      BY <1>0, <1>i, <3>1
  <2> HIDE DEF items, got, rows, more
  <2> QED
    BY <1>g, <1>i, <2>2, <2>3
<1>u. unread \subseteq Product /\ (~more => unread = rows \ items) /\ more \in BOOLEAN
  <2> HIDE DEF items, got
  <2> QED
    BY <1>6
<1> HIDE DEF got, more, unread
<1>7. \A p \in Product :
         scan.found[p] > 0 /\ p \notin rows => Settled(p)
  <2>1. \A p \in Product : ~OnPage(p)
    BY <1>0 DEF OnPage
  <2> QED
    BY <1>0, <1>2, <2>1 DEF IInv, Scanned
<1>8. CASE items = {}
  <2>0. scan' = [Finished EXCEPT !.unread = @ \cup unread]
    BY <1>4, <1>8 DEF ReadPage
  <2>1. /\ scan' \in ScanType /\ scan'.pc = "done" /\ scan'.cursor = Start
        /\ scan'.page = {} /\ scan'.found = scan.found /\ scan'.lost = scan.lost
        /\ scan'.unread = scan.unread \cup unread
    <3> HIDE DEF Finished
    <3> QED
      BY <1>u, <2>0, FinishedFields DEF ScanType
  <2>2. \A p \in Product : Settled(p)'
    <3> SUFFICES ASSUME NEW p \in Product PROVE Settled(p)'
      OBVIOUS
    <3>1. index[p] \in Nat
      BY <1>0 DEF IInv, Shapes
    <3>2. CASE p \in rows
      <4>1. p \in unread
        <5> HIDE DEF items, rows
        <5> QED
          BY <1>6, <1>8, <1>u, <3>2
      <4> QED
        BY <2>1, <4>1 DEF Settled
    <3>3. CASE p \notin rows
      <4>1. Settled(p)
        BY <1>1, <1>7, <3>1, <3>3 DEF Settled
      <4> QED
        BY <1>3, <2>1, <4>1 DEF Settled
    <3> QED
      BY <3>2, <3>3
  <2>3. Scanned'
    BY <2>1, <2>2 DEF Scanned
  <2> QED
    BY <1>1, <1>3, <2>1, <2>3, NoScanFields, ScanStep
<1>9. CASE items # {}
  <2> DEFINE last == LastRow(items)
             page == {Document(p, version[p]) : p \in items}
  <2>1. /\ scan' = [scan EXCEPT !.pc = "bulk", !.cursor = last,
                       !.more = more, !.unread = @ \cup unread, !.page = page]
    BY <1>4, <1>9 DEF ReadPage
  <2>2. last \in items /\ \A q \in items \ {last} : Before(q, last)
    <3> HIDE DEF items
    <3> QED
      BY <1>5, <1>6, <1>9, LastRowLast
  <2>3. last \in Product /\ Exists(last) /\ last # Start
    BY <1>0, <1>6, <2>2
  <2>4. \A p \in items : /\ p \in Product
                         /\ Document(p, version[p]) \in Docs
                         /\ Document(p, version[p]).id = p
                         /\ Document(p, version[p]).version = version[p]
    BY <1>0, <1>6 DEF Document, Docs, Exists
  <2>5. page \subseteq Docs /\ page # {}
    BY <1>9, <2>4
  <2>a. \A d \in page : d.id \in items /\ d = Document(d.id, version[d.id])
                        /\ d.version = version[d.id]
    <3> HIDE DEF items
    <3> QED
      BY <2>4
  <2>6. Cardinality(page) <= Limit
    <3> DEFINE f == [d \in page |-> d.id]
    <3>1. f \in Injection(page, items)
      <4> HIDE DEF page, items
      <4>1. f \in [page -> items]
        BY <2>a
      <4>2. \A d, e \in page : f[d] = f[e] => d = e
        BY <2>a
      <4> HIDE DEF f
      <4> QED
        BY <4>1, <4>2 DEF Injection, IsInjective
    <3>2. Cardinality(page) <= Cardinality(items)
      <4> HIDE DEF f, page, items
      <4> QED
        BY <1>6, <3>1, FS_Injection
    <3>3. IsFiniteSet(page)
      <4> HIDE DEF f, page, items
      <4> QED
        BY <1>6, <3>1, FS_Injection
    <3>4. Cardinality(page) \in Nat /\ Cardinality(items) \in Nat
      BY <1>6, <3>3, FS_CardinalityType
    <3> QED
      BY <1>0, <1>6, <3>2, <3>4
  <2>7. \A d \in page : d.version <= version[d.id]
    <3> HIDE DEF page
    <3> QED
      BY <1>0, <1>6, <2>4, <2>a
  <2> HIDE DEF page, last, items
  <2>8. /\ scan'.pc = "bulk" /\ scan'.cursor = last /\ scan'.page = page
        /\ scan'.more = more /\ scan'.unread = scan.unread \cup unread
        /\ scan'.found = scan.found /\ scan'.lost = scan.lost /\ scan' \in ScanType
    BY <1>0, <1>u, <2>1, <2>3, <2>5 DEF ScanType
  <2>9. ASSUME NEW p \in Product, p \in items PROVE OnPage(p)' /\ ~After(scan.cursor, p)'
    <3>1. Document(p, version[p]) \in scan'.page
      BY <2>8, <2>9 DEF page
    <3>2. OnPage(p)'
      BY <1>1, <2>4, <2>8, <2>9, <3>1 DEF OnPage
    <3>3. ~Before(last, p)
      BY <1>5, <2>2, <2>3, <2>9, BeforeOrder
    <3> QED
      BY <1>3, <2>3, <2>8, <3>2, <3>3 DEF After, Before
  <2>10. ASSUME NEW p \in Product, p \in rows \ items PROVE After(scan.cursor, p)'
    <3>1. Before(last, p)
      BY <1>6, <2>2, <2>10
    <3> QED
      BY <1>3, <2>8, <3>1 DEF After, Before
  <2>11. \A p \in Product : Settled(p) => Settled(p)'
    BY <1>3, <2>8 DEF Settled
  <2>12. Scanned'
    <3>1. (scan.cursor # Start => Exists(scan.cursor))'
      BY <1>3, <2>3, <2>8 DEF Exists
    <3>2. ASSUME NEW p \in Product, scan'.found[p] > 0, ~After(scan.cursor, p)'
          PROVE  Settled(p)' \/ OnPage(p)'
      BY <1>7, <2>8, <2>9, <2>10, <2>11, <3>2
    <3>3. ASSUME ~scan'.more, NEW p \in Product, scan'.found[p] > 0
          PROVE  ~After(scan.cursor, p)' \/ p \in scan'.unread
      <4>2. unread = rows \ items
        BY <1>u, <2>8, <3>3
      <4>3. CASE p \in rows
        BY <2>8, <2>9, <4>2, <4>3
      <4>4. CASE p \notin rows
        <5>1. scan.cursor # Start /\ scan.cursor \in Product /\ ~Before(scan.cursor, p)
          BY <1>0, <1>2, <2>8, <3>3, <4>4 DEF After, ScanType
        <5>2. Before(scan.cursor, last)
          BY <1>6, <2>2, <5>1 DEF After
        <5>3. ~Before(last, p)
          BY <1>5, <2>3, <5>1, <5>2, BeforeOrder
        <5> QED
          BY <1>3, <2>3, <2>8, <5>3 DEF After, Before
      <4> QED
        BY <4>3, <4>4
    <3>4. \A d \in scan'.page : scan'.found[d.id] <= d.version
      BY <1>1, <1>6, <2>4, <2>8, <2>a
    <3> QED
      BY <2>8, <3>1, <3>2, <3>3, <3>4 DEF Scanned
  <2> QED
    BY <1>1, <1>3, <2>5, <2>6, <2>7, <2>8, <2>12, ScanStep
<1> QED
  BY <1>8, <1>9

\* A bulk request settles its page: what it wrote is no older than what was
\* found, and what it refused or put back is noted as lost.
LEMMA BulkIndexStep ==
    ASSUME IInv, NEW refused \in SUBSET scan.page, BulkIndex(refused)
    PROVE  IInv'
<1> DEFINE written == scan.page \ refused
           older == {d \in written : d.version < index[d.id]}
           gone == {d.id : d \in refused \cup older}
<1>0. /\ MaxVersion \in Nat /\ version \in [Product -> 0 .. MaxVersion]
      /\ index \in [Product -> 0 .. MaxVersion]
      /\ scan \in ScanType /\ scan.page \subseteq Docs /\ scan.pc = "bulk"
  BY CatalogAssumption DEF IInv, Shapes, ScanType, BulkIndex
<1>1. /\ Write(written) /\ UNCHANGED <<version, created, pending>>
      /\ scan' = [(IF scan.more THEN [scan EXCEPT !.pc = "list", !.page = {}] ELSE Finished)
                    EXCEPT !.lost = @ \cup gone]
  BY DEF BulkIndex
<1>2. \A d \in scan.page : /\ d.id \in Product /\ d.version \in 1 .. MaxVersion
                           /\ d.version <= version[d.id]
  BY <1>0 DEF Docs, IInv, NotAhead
<1>3. /\ index' \in [Product -> 0 .. MaxVersion] /\ excused' \subseteq Product
      /\ \A p \in Product : index'[p] <= version[p]
      /\ \A p \in Product : \/ index'[p] = index[p] /\ ~ \E d \in written : d.id = p
                            \/ \E d \in written : d.id = p /\ index'[p] = d.version
      /\ \A p \in Product : \/ index'[p] = version[p]
                            \/ p \in excused'
                            \/ p \notin excused /\ index[p] <= index'[p]
  <2>1. written \in SUBSET Docs /\ \A d \in written : d.version <= version[d.id]
    BY <1>0, <1>2
  <2> HIDE DEF written
  <2> QED
    BY <1>1, <2>1, WriteEffect
<1>4. gone \subseteq Product
  BY <1>2
<1> HIDE DEF gone
<1>5. /\ scan' \in ScanType /\ scan'.page = {} /\ scan'.found = scan.found
      /\ scan'.lost = scan.lost \cup gone /\ scan'.unread = scan.unread
      /\ \/ scan.more /\ scan'.pc = "list" /\ scan'.cursor = scan.cursor
         \/ ~scan.more /\ scan'.pc = "done" /\ scan'.cursor = Start
  <2>1. CASE scan.more
    BY <1>0, <1>1, <1>4, <2>1 DEF ScanType
  <2>2. CASE ~scan.more
    <3>1. scan' = [Finished EXCEPT !.lost = @ \cup gone]
      BY <1>1, <2>2
    <3> HIDE DEF Finished
    <3> QED
      BY <1>4, <2>2, <3>1, FinishedFields DEF ScanType
  <2> QED
    BY <2>1, <2>2
<1>6. Shapes'
  BY <1>1, <1>3, <1>5, NoScanFields DEF IInv, Shapes, ScanType
<1>7. NotAhead'
  BY <1>1, <1>3, <1>5 DEF IInv, NotAhead
<1>8. NewestPending'
  <2> SUFFICES ASSUME NEW p \in Product, index'[p] # version[p], p \notin excused'
               PROVE  Document(p, version[p]) \in pending
    BY <1>1 DEF NewestPending
  <2>1. p \notin excused /\ index[p] <= index'[p] /\ index'[p] <= version[p]
    BY <1>3
  <2>2. index[p] # version[p]
    BY <1>0, <1>3, <2>1
  <2> QED
    BY <2>1, <2>2 DEF IInv, NewestPending
<1>9. Scanned'
  <2>1. ASSUME NEW p \in Product, Settled(p) PROVE Settled(p)'
    <3>1. index[p] <= index'[p] \/ p \in gone
      <4>1. CASE index'[p] = index[p]
        BY <1>0, <4>1
      <4>2. CASE \E d \in written : d.id = p /\ index'[p] = d.version
        <5>1. PICK d \in written : d.id = p /\ index'[p] = d.version
          BY <4>2
        <5>2. d.version < index[p] => d \in older
          BY <5>1
        <5>3. d \in older => p \in gone
          BY <5>1 DEF gone
        <5> QED
          BY <1>0, <1>3, <5>1, <5>2, <5>3
      <4> QED
        BY <1>3, <4>1, <4>2
    <3> QED
      BY <1>3, <1>5, <2>1, <3>1, SettledStays
  <2>2. ASSUME NEW p \in Product, OnPage(p) PROVE Settled(p)'
    <3>1. PICK d \in scan.page : d.id = p
      BY <2>2 DEF OnPage
    <3>2. CASE d \in refused
      BY <1>5, <3>1, <3>2 DEF Settled, gone
    <3>3. CASE d \notin refused
      <4>1. d \in written
        BY <3>3
      <4>2. PICK e \in written : e.id = p /\ index'[p] = e.version
        BY <1>3, <3>1, <4>1
      <4>3. scan.found[p] <= index'[p]
        BY <4>2 DEF IInv, Scanned
      <4>4. scan.found[p] \in Nat /\ index'[p] \in Nat
        BY <1>0, <1>3 DEF ScanType
      <4> QED
        BY <1>5, <4>3, <4>4 DEF Settled
    <3> QED
      BY <3>2, <3>3
  <2>3. \A p \in Product :
           scan.found[p] > 0 /\ ~After(scan.cursor, p) => Settled(p)'
    BY <1>0, <2>1, <2>2 DEF IInv, Scanned
  <2>4. CASE scan'.pc = "list"
    <3>1. scan'.cursor = scan.cursor
      BY <1>5, <2>4
    <3>2. \A p \in Product : After(scan.cursor, p)' <=> After(scan.cursor, p)
      BY <1>1, <3>1 DEF After, Before
    <3>3. Exists(scan.cursor)' <=> Exists(scan.cursor)
      BY <1>1, <3>1 DEF Exists
    <3> QED
      BY <1>5, <2>3, <2>4, <3>1, <3>2, <3>3 DEF IInv, Scanned
  <2>5. CASE scan'.pc = "done"
    <3>1. ~scan.more /\ scan'.cursor = Start
      BY <1>5, <2>5
    <3>2. \A p \in Product : scan.found[p] > 0 => Settled(p)'
      BY <1>0, <1>5, <2>3, <3>1 DEF IInv, Scanned, Settled
    <3>3. \A p \in Product : index'[p] \in Nat /\ scan.found[p] \in Nat
      BY <1>0, <1>3 DEF ScanType
    <3>4. \A p \in Product : Settled(p)'
      BY <1>5, <3>2, <3>3 DEF Settled
    <3> QED
      BY <1>5, <2>5, <3>1, <3>4 DEF Scanned
  <2> QED
    BY <1>5, <2>4, <2>5
<1> QED
  BY <1>6, <1>7, <1>8, <1>9 DEF IInv

-----------------------------------------------------------------------------
(* The theorems *)

\* Every step of the catalog, case by case.
LEMMA StepIInv == IInv /\ [Next]_vars => IInv'
<1> SUFFICES ASSUME IInv, [Next]_vars PROVE IInv'
  OBVIOUS
<1>1. CASE createProduct
  BY <1>1, CreateProductStep DEF createProduct
<1>2. CASE updateProduct \/ updateProductPrice
  BY <1>2, UpdateStep DEF updateProduct, updateProductPrice
<1>3. CASE \E d \in pending : IndexProduct(d) \/ IndexFails(d)
  BY <1>3, IndexProductStep, IndexFailsStep
<1>4. CASE ReindexAll \/ ReindexFails
  BY <1>4, ReindexAllStep, ReindexFailsStep
<1>5. CASE \E arrived \in 0..fetchLimit : ReadPage(arrived)
  BY <1>5, ReadPageStep
<1>6. CASE \E refused \in SUBSET scan.page : BulkIndex(refused)
  BY <1>6, BulkIndexStep
<1>7. CASE UNCHANGED vars
  BY <1>7 DEF IInv, Shapes, NotAhead, NewestPending, Scanned, Exists, After,
              Before, Settled, OnPage, vars
<1> QED
  BY <1>1, <1>2, <1>3, <1>4, <1>5, <1>6, <1>7 DEF Next

\* The inductive invariant holds in every behaviour of the catalog and its index.
THEOREM Invariance == Spec => []IInv
<1>1. Init => IInv
  BY InitIInv
<1>2. IInv /\ [Next]_vars => IInv'
  BY StepIInv
<1> QED
  BY <1>1, <1>2, PTL DEF Spec

\* The search index is never ahead of the database and behind only for a
\* reason, whatever the order in which documents arrive.
THEOREM IndexExplainedHolds == Spec => []IndexExplained
<1>1. IInv => IndexExplained
  <2>0. IInv => TypeOK
    BY DEF IInv, Shapes, TypeOK, Docs, ScanType
  <2> SUFFICES ASSUME IInv, NEW p \in Product, index[p] # version[p]
               PROVE  index[p] < version[p] /\ (p \in excused \/ \E d \in pending : d.id = p)
    BY <2>0 DEF IndexExplained
  <2>1. index[p] \in Nat /\ version[p] \in Nat /\ index[p] <= version[p]
    BY CatalogAssumption DEF IInv, Shapes, NotAhead
  <2>2. p \in excused \/ Document(p, version[p]) \in pending
    BY DEF IInv, NewestPending
  <2>3. Document(p, version[p]).id = p
    BY DEF Document
  <2> QED
    BY <2>1, <2>2, <2>3
<1> QED
  BY <1>1, Invariance, PTL

\* The pages of ReindexAll skip no product, for any page size, any times of creation
\* and any writes while it runs: those it misses come after the place where the
\* reading of a page broke off, or the index refused or lost their documents.
THEOREM ReindexCompleteHolds == Spec => []ReindexComplete
<1>1. IInv => ReindexComplete
  BY DEF IInv, Scanned, Settled, ReindexComplete
<1> QED
  BY <1>1, Invariance, PTL

-----------------------------------------------------------------------------
(* Product images: the inductive invariant of the media handlers *)

\* Until its row is inserted an upload's image is untouched by anyone else: the
\* blob is there, no row names it and nobody deletes it.
BeforeInsert ==
    \A i \in Image : upload[i].pc \in {"demote", "insert"} =>
        i \in blobs /\ row[i] = "none" /\ i \notin purging

\* A row belongs to an upload that got as far as its INSERT, and one that is about
\* to compensate has its row only because the INSERT's reply was lost.
RowOfUpload ==
    \A i \in Image : row[i] # "none" =>
        upload[i].pc \in {"undo", "end"} /\ (At(i, "undo") => i \in unacked)

\* An image is purged by the request that deleted its row, and has no other row.
PurgeHasNoRow ==
    \A i \in purging : row[i] = "none" /\ upload[i].pc \in {"undo", "end"}

ImageInv ==
    /\ RowHasBlob /\ OrphansExplained
    /\ BeforeInsert /\ RowOfUpload /\ PurgeHasNoRow

-----------------------------------------------------------------------------

\* At the start there is no image, row or request.
LEMMA ImageInit == MediaInit => ImageInv
BY MediaAssumption DEF MediaInit, ImageInv, RowHasBlob, MediaTypeOK, OrphansExplained, BeforeInsert, RowOfUpload,
       PurgeHasNoRow, At, State

\* Every step of a request keeps the invariant.
LEMMA ImageStep == ImageInv /\ [MediaNext]_imageVars => ImageInv'
<1> SUFFICES ASSUME ImageInv, [MediaNext]_imageVars PROVE ImageInv'
  OBVIOUS
<1> USE MediaAssumption DEF ImageInv, At, State, MediaTypeOK, RowHasBlob, OrphansExplained, BeforeInsert, RowOfUpload,
              PurgeHasNoRow
<1>1. CASE UNCHANGED imageVars
  BY <1>1 DEF imageVars
<1>2. ASSUME NEW i \in Image, uploadProductImage(i) \/ deleteProductImage(i)
      PROVE  ImageInv'
  <2>1. CASE \E primary \in BOOLEAN : Put(i, primary)
    BY <2>1 DEF Put
  <2>2. CASE PutFails(i)
    BY <2>2 DEF PutFails, Goto, Fault
  <2>3. CASE Demote(i)
    BY <2>3 DEF Demote, Goto
  <2>4. CASE DemoteFails(i)
    BY <2>4 DEF DemoteFails, Goto, Fault
  <2>5. CASE AddProductImage(i)
    BY <2>5 DEF AddProductImage, Goto, Inserted
  <2>6. CASE AddFails(i)
    BY <2>6 DEF AddFails, Goto, Fault, Inserted
  <2>7. CASE Undo(i)
    BY <2>7 DEF Undo, Goto
  <2>8. CASE UploadDies(i)
    BY <2>8 DEF UploadDies, Goto, Fault
  <2>9. CASE DeleteProductImage(i)
    BY <2>9 DEF DeleteProductImage
  <2>10. CASE Purge(i)
    BY <2>10 DEF Purge
  <2>11. CASE PurgeFails(i)
    BY <2>11 DEF PurgeFails, Fault
  <2> QED BY <1>2, <2>1, <2>2, <2>3, <2>4, <2>5, <2>6, <2>7, <2>8, <2>9, <2>10, <2>11
          DEF uploadProductImage, deleteProductImage
<1> QED BY <1>1, <1>2 DEF MediaNext

-----------------------------------------------------------------------------

\* The inductive invariant holds in every reachable state.
THEOREM ImageInvariance == MediaSpec => []ImageInv
BY ImageInit, ImageStep, PTL DEF MediaSpec

\* Whatever requests and faults interleave, a customer who is shown an image gets
\* it: a row has its blob, unless its upload compensated for an INSERT whose
\* commit it did not learn of.
THEOREM RowHasBlobHolds == MediaSpec => []RowHasBlob
<1>1. ImageInv => RowHasBlob
  BY DEF ImageInv
<1> QED BY <1>1, ImageInvariance, PTL

\* Storage does not fill up unnoticed: a blob without a row belongs to a request
\* under way, or a fault left it.
THEOREM OrphansExplainedHolds == MediaSpec => []OrphansExplained
<1>1. ImageInv => OrphansExplained
  BY DEF ImageInv
<1> QED BY <1>1, ImageInvariance, PTL
=============================================================================
