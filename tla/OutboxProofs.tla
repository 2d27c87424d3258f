----------------------------- MODULE OutboxProofs -----------------------------
(***************************************************************************)
(* No event is lost, retries are used up and not exceeded, and duplicates  *)
(* and overtaking have their reasons, for any number of messages and       *)
(* pollers, any batch size and any number of faults and overruns.          *)
(***************************************************************************)
EXTENDS Outbox, FiniteSetTheorems, TLAPS

(* The inductive invariant *)

RowType == [status : Waiting \cup {"NONE", "PUBLISHED", "DEAD_LETTER"}, retry : Nat,
            leased : BOOLEAN]
Entry == [id : Msg, retry : Nat]
Steps == {"idle", "publish", "markPublished", "markFailed", "saveDeadLetter", "emitDeadLetter"}
PollerType == [pc : Steps, batch : Seq(Entry)]

\* The messages and the copies of rows in a batch, which has none twice.
Holds(batch, m) == \E i \in DOMAIN batch : batch[i].id = m
Entries(batch) == {batch[i] : i \in DOMAIN batch}
Distinct(batch) == \A i, j \in DOMAIN batch : i < j => batch[i].id # batch[j].id

Shapes ==
    /\ row \in [Msg -> RowType] /\ topic \in [Msg -> 0 .. 2]
    /\ created \in [Msg -> Nat] /\ saved \in Seq(Msg)
    /\ dlq \subseteq Msg /\ dlqTopic \subseteq Msg
    /\ poller \in [Poller -> PollerType]
    /\ faults \in 0 .. MaxFaults /\ overruns \in 0 .. MaxOverruns

BatchOK(x) ==
    /\ x.pc = "idle" <=> x.batch = <<>>
    /\ Len(x.batch) <= BatchSize
    /\ Distinct(x.batch)
Batches == \A p \in Poller : BatchOK(poller[p])

\* A row's status is explained by its history.
Rows ==
    \A m \in Msg :
        /\ row[m].status = "NONE" => row[m].retry = 0 /\ ~row[m].leased
        /\ row[m].status = "PUBLISHED" => topic[m] > 0
        /\ row[m].status = "FAILED" => row[m].retry > 0
        /\ row[m].status = "DEAD_LETTER" =>
              /\ row[m].retry >= MaxRetries
              /\ \/ m \in dlq
                 \/ \E p \in Poller : At(p, "saveDeadLetter") /\ Current(p) = m
                 \/ faults > 0

\* What a poller copied with the lease is not newer than the row, and it marks as
\* published what is in the topic.
Copies ==
    \A p \in Poller :
        /\ \A e \in Entries(poller[p].batch) :
              row[e.id].status # "NONE" /\ e.retry <= row[e.id].retry
        /\ At(p, "markPublished") => topic[Current(p)] > 0

\* A poller that may still count a failed attempt of m, and all of them.
Owes(x, m) ==
    Holds(x.batch, m) /\ ~(x.pc \in {"saveDeadLetter", "emitDeadLetter"} /\ Head(x.batch).id = m)
Owing(pollers, m) == {p \in Poller : Owes(pollers[p], m)}

\* 1 for a row that another poller may lease on top of these.
Open(r) == IF r.status \in Waiting /\ ~r.leased THEN 1 ELSE 0

\* The attempts that may still come are paid for by MaxRetries and the overruns.
BudgetOf(m, r, pollers, ov) ==
    LET n == r.retry + Cardinality(Owing(pollers, m)) + Open(r) IN
    /\ r.retry <= MaxRetries + ov
    /\ r.status \in Waiting => r.retry + 1 <= MaxRetries + ov
    /\ \A p \in Owing(pollers, m) :
          /\ n <= MaxRetries + ov
          /\ \A e \in Entries(pollers[p].batch) : e.id = m => n <= e.retry + ov + 1
Budget == \A m \in Msg : BudgetOf(m, row[m], poller, overruns)

\* While there was no fault and no overrun, a message is in the hands of one poller at
\* most, under its lease, and is in the topic once at most.
Apart ==
    /\ \A p, q \in Poller, m \in Msg : InHand(p, m) /\ InHand(q, m) => p = q
    /\ \A p \in Poller, m \in Msg :
          /\ Owes(poller[p], m) => row[m].leased /\ row[m].status \in Waiting
          /\ InHand(p, m) /\ ~Owes(poller[p], m) => row[m].status = "DEAD_LETTER"
    /\ \A m \in Msg :
          /\ topic[m] <= 1
          /\ topic[m] > 0 => \/ row[m].status = "PUBLISHED"
                             \/ \E p \in Poller : At(p, "markPublished") /\ Current(p) = m
          /\ row[m].status = "PENDING" /\ row[m].leased => \E p \in Poller : InHand(p, m)

\* Each message is stored once; k before m, and earlier.
SavedOnce ==
    /\ \A i, j \in DOMAIN saved : saved[i] = saved[j] => i = j
    /\ \A m \in Msg : row[m].status # "NONE" <=> \E i \in DOMAIN saved : saved[i] = m
Before(k, m) ==
    /\ created[k] < created[m]
    /\ \E i, j \in DOMAIN saved : i < j /\ saved[i] = k /\ saved[j] = m

\* What is older than a message in someone's hands went before it, failed before, or is
\* in someone's hands too.
Ordered ==
    \A p \in Poller, m, k \in Msg :
        InHand(p, m) /\ Before(k, m) =>
            topic[k] > 0 \/ row[k].retry > 0 \/ \E q \in Poller : InHand(q, k)

Calm == faults = 0 /\ overruns = 0 => Apart /\ Ordered

IInv == Shapes /\ Batches /\ Rows /\ Copies /\ Budget /\ SavedOnce /\ Calm

-----------------------------------------------------------------------------
(* Batches *)

\* The first message of a batch.
LEMMA HeadFacts ==
    ASSUME NEW b \in Seq(Entry), b # <<>>
    PROVE  /\ Head(b) \in Entry /\ Head(b) \in Entries(b) /\ Head(b).id \in Msg
           /\ Holds(b, Head(b).id)
<1>1. 1 \in DOMAIN b /\ Head(b) = b[1] /\ b[1] \in Entry
  OBVIOUS
<1>2. b[1].id \in Msg
  BY <1>1 DEF Entry
<1> QED BY <1>1, <1>2 DEF Entries, Holds

\* The rest of a batch holds the same messages but for the first.
LEMMA TailFacts ==
    ASSUME NEW b \in Seq(Entry), b # <<>>, Distinct(b)
    PROVE  /\ Tail(b) \in Seq(Entry) /\ Len(Tail(b)) <= Len(b) /\ Distinct(Tail(b))
           /\ Entries(Tail(b)) \subseteq Entries(b)
           /\ \A m : Holds(Tail(b), m) <=> Holds(b, m) /\ m # Head(b).id
<1> DEFINE t == Tail(b)
<1>1. /\ t \in Seq(Entry) /\ Len(t) = Len(b) - 1 /\ Len(b) \in Nat \ {0}
      /\ DOMAIN b = 1 .. Len(b) /\ DOMAIN t = 1 .. Len(b) - 1
      /\ \A i \in DOMAIN t : t[i] = b[i + 1] /\ i + 1 \in DOMAIN b
      /\ Head(b) = b[1] /\ 1 \in DOMAIN b
  OBVIOUS
<1> HIDE DEF t
<1>2. Distinct(t)
  <2> SUFFICES ASSUME NEW i \in DOMAIN t, NEW j \in DOMAIN t, i < j PROVE t[i].id # t[j].id
    BY DEF Distinct
  <2>1. i + 1 < j + 1
    BY <1>1
  <2> QED BY <1>1, <2>1 DEF Distinct
<1>3. Entries(t) \subseteq Entries(b)
  BY <1>1 DEF Entries
<1>4. \A i \in DOMAIN b : i # 1 => i - 1 \in DOMAIN t /\ t[i - 1] = b[i]
  <2> SUFFICES ASSUME NEW i \in DOMAIN b, i # 1 PROVE i - 1 \in DOMAIN t /\ t[i - 1] = b[i]
    OBVIOUS
  <2>1. i - 1 \in DOMAIN t /\ (i - 1) + 1 = i
    BY <1>1
  <2> QED BY <1>1, <2>1
<1>5. \A i \in DOMAIN b : b[i].id = b[1].id => i = 1
  <2> SUFFICES ASSUME NEW i \in DOMAIN b, i # 1 PROVE b[i].id # b[1].id
    OBVIOUS
  <2>1. 1 < i
    BY <1>1
  <2> QED BY <1>1, <2>1 DEF Distinct
<1>6. ASSUME NEW m PROVE Holds(t, m) <=> Holds(b, m) /\ m # Head(b).id
  <2>1. ASSUME Holds(t, m) PROVE Holds(b, m) /\ m # Head(b).id
    <3> PICK i \in DOMAIN t : t[i].id = m
      BY <2>1 DEF Holds
    <3>1. i + 1 \in DOMAIN b /\ b[i + 1].id = m /\ i + 1 # 1
      BY <1>1
    <3> QED BY <1>1, <1>5, <3>1 DEF Holds
  <2>2. ASSUME Holds(b, m), m # Head(b).id PROVE Holds(t, m)
    <3> PICK i \in DOMAIN b : b[i].id = m
      BY <2>2 DEF Holds
    <3>1. i # 1
      BY <1>1, <2>2
    <3> QED BY <1>4, <3>1 DEF Holds
  <2> QED BY <2>1, <2>2
<1>7. Len(t) <= Len(b)
  BY <1>1
<1> QED BY <1>1, <1>2, <1>3, <1>6, <1>7 DEF t

\* Messages and copies go together.
LEMMA EntryFacts ==
    ASSUME NEW b \in Seq(Entry)
    PROVE  /\ \A e \in Entries(b) : e \in Entry /\ e.id \in Msg /\ e.retry \in Nat /\ Holds(b, e.id)
           /\ \A m : Holds(b, m) => m \in Msg /\ \E e \in Entries(b) : e.id = m
<1>1. \A i \in DOMAIN b : b[i] \in Entry
  OBVIOUS
<1>2. \A e \in Entry : e.id \in Msg /\ e.retry \in Nat
  BY DEF Entry
<1> QED BY <1>1, <1>2 DEF Entries, Holds

-----------------------------------------------------------------------------
(* The steps of a poller *)

\* Poller p becomes x, the others stay as they are.
Moved(p, x) ==
    /\ poller' \in [Poller -> PollerType]
    /\ poller'[p] = x
    /\ \A q \in Poller \ {p} : poller'[q] = poller[q]

\* Poller x has no more in its hands than poller y.
Fewer(x, y) ==
    /\ BatchOK(x)
    /\ Entries(x.batch) \subseteq Entries(y.batch)
    /\ \A m : Owes(x, m) => Owes(y, m)
    /\ \A m : Holds(x.batch, m) => Holds(y.batch, m)

\* The poller goes on with its batch.
LEMMA GotoMoves ==
    ASSUME Shapes, Batches, NEW p \in Poller, ~At(p, "idle"), NEW l \in Steps \ {"idle"}, Goto(p, l),
           At(p, "emitDeadLetter") => l = "emitDeadLetter",
           At(p, "saveDeadLetter") => l = "emitDeadLetter"
    PROVE  \E x : /\ Moved(p, x) /\ Fewer(x, poller[p]) /\ x.pc = l /\ x.batch = poller[p].batch
<1> DEFINE x == [pc |-> l, batch |-> poller[p].batch]
<1>1. poller[p] \in PollerType /\ BatchOK(poller[p])
  BY DEF Shapes, Batches
<1>2. x \in PollerType /\ x.pc = l /\ x.batch = poller[p].batch
  BY <1>1 DEF PollerType
<1>3. poller' = [poller EXCEPT ![p] = x]
  BY DEF Goto
<1> HIDE DEF x
<1>4. Moved(p, x)
  BY <1>2, <1>3 DEF Shapes, Moved
<1>5. BatchOK(x)
  BY <1>1, <1>2 DEF BatchOK, At
<1>6. \A m : Owes(x, m) => Owes(poller[p], m)
  BY <1>2 DEF Owes, At
<1> QED BY <1>2, <1>4, <1>5, <1>6 DEF Fewer

\* It drops the first message.
LEMMA AdvanceMoves ==
    ASSUME Shapes, Batches, NEW p \in Poller, ~At(p, "idle"), Advance(p)
    PROVE  \E x : /\ Moved(p, x) /\ Fewer(x, poller[p]) /\ x.pc \in {"idle", "publish"}
                  /\ \A m : Holds(x.batch, m) <=> Holds(poller[p].batch, m) /\ m # Current(p)
<1> DEFINE b == poller[p].batch
           x == [pc |-> IF Tail(b) = <<>> THEN "idle" ELSE "publish", batch |-> Tail(b)]
<1>1. poller[p] \in PollerType /\ BatchOK(poller[p])
  BY DEF Shapes, Batches
<1>2. b \in Seq(Entry) /\ b # <<>> /\ Distinct(b) /\ Len(b) <= BatchSize /\ Len(b) \in Nat
  BY <1>1 DEF PollerType, BatchOK, At
<1>3. /\ Tail(b) \in Seq(Entry) /\ Len(Tail(b)) <= Len(b) /\ Distinct(Tail(b))
      /\ Entries(Tail(b)) \subseteq Entries(b)
      /\ \A m : Holds(Tail(b), m) <=> Holds(b, m) /\ m # Head(b).id
  BY <1>2, TailFacts
<1>4. /\ x.batch = Tail(b) /\ x.pc \in {"idle", "publish"}
      /\ x.pc = "idle" <=> Tail(b) = <<>>
      /\ poller' = [poller EXCEPT ![p] = x]
  BY DEF Advance
<1>5. x \in PollerType
  BY <1>3 DEF PollerType, Steps
<1> HIDE DEF x, b
<1>6. Moved(p, x)
  BY <1>4, <1>5 DEF Shapes, Moved
<1>7. BatchOK(x)
  <2>0. Len(Tail(b)) \in Nat
    BY <1>3
  <2>1. Len(Tail(b)) <= BatchSize
    BY <1>2, <1>3, <2>0, OutboxAssumption
  <2> QED BY <1>3, <1>4, <2>1 DEF BatchOK
<1>8. \A m : Owes(x, m) => Owes(poller[p], m)
  BY <1>3, <1>4 DEF Owes, b
<1> QED BY <1>3, <1>4, <1>6, <1>7, <1>8 DEF Fewer, Current, b

-----------------------------------------------------------------------------
(* The budget of attempts *)

\* The pollers that owe an attempt are finitely many.
LEMMA OwingCount ==
    ASSUME NEW pollers, NEW m
    PROVE  /\ IsFiniteSet(Owing(pollers, m)) /\ Cardinality(Owing(pollers, m)) \in Nat
           /\ \A p \in Owing(pollers, m) : Cardinality(Owing(pollers, m)) >= 1
<1>1. Owing(pollers, m) \in SUBSET Poller /\ IsFiniteSet(Poller)
  BY OutboxAssumption DEF Owing
<1>2. IsFiniteSet(Owing(pollers, m))
  BY <1>1, FS_Subset
<1>3. Cardinality(Owing(pollers, m)) \in Nat
  BY <1>2, FS_CardinalityType
<1>4. Owing(pollers, m) # {} => Cardinality(Owing(pollers, m)) # 0
  BY <1>2, FS_EmptySet
<1> QED BY <1>2, <1>3, <1>4

\* When a poller drops something, no message is owed by more pollers, and what it
\* no longer owes is owed by one poller less.
LEMMA OwingShrinks ==
    ASSUME NEW p \in Poller, NEW x, Moved(p, x), Fewer(x, poller[p]), NEW m
    PROVE  /\ Owing(poller', m) \subseteq Owing(poller, m)
           /\ Cardinality(Owing(poller', m)) <= Cardinality(Owing(poller, m))
           /\ p \in Owing(poller, m) /\ ~Owes(x, m) =>
                 Cardinality(Owing(poller', m)) + 1 <= Cardinality(Owing(poller, m))
<1> DEFINE old == Owing(poller, m)
           new == Owing(poller', m)
<1>1. /\ new \subseteq old
      /\ ~Owes(x, m) => new \subseteq old \ {p}
  BY DEF Owing, Moved, Fewer
<1>2. IsFiniteSet(old) /\ Cardinality(old) \in Nat /\ Cardinality(new) \in Nat
  BY OwingCount
<1> HIDE DEF old, new
<1>3. Cardinality(new) <= Cardinality(old)
  BY <1>1, <1>2, FS_Subset
<1>4. ASSUME p \in old, ~Owes(x, m) PROVE Cardinality(new) + 1 <= Cardinality(old)
  <2>1. IsFiniteSet(old \ {p}) /\ Cardinality(old \ {p}) = Cardinality(old) - 1
    BY <1>2, <1>4, FS_RemoveElement
  <2>2. Cardinality(new) <= Cardinality(old \ {p})
    BY <1>1, <1>4, <2>1, FS_Subset
  <2> QED BY <1>2, <2>1, <2>2
<1> QED BY <1>1, <1>3, <1>4 DEF old, new

\* A poller that drops something leaves the budget of a row it does not write to, or
\* publishes, as it is.
LEMMA BudgetShrinks ==
    ASSUME Shapes, NEW p \in Poller, NEW x, Moved(p, x), Fewer(x, poller[p]), NEW m \in Msg,
           BudgetOf(m, row[m], poller, overruns), NEW r \in RowType,
           r.retry = row[m].retry, Open(r) <= Open(row[m]), r.status \in Waiting => r.status = row[m].status
    PROVE  BudgetOf(m, r, poller', overruns)
<1> DEFINE h == Cardinality(Owing(poller, m))
           k == Cardinality(Owing(poller', m))
           ov == overruns
           o == Open(row[m])
           u == Open(r)
<1>1. h \in Nat /\ k \in Nat /\ k <= h /\ Owing(poller', m) \subseteq Owing(poller, m)
  BY OwingCount, OwingShrinks
<1>2. /\ row[m] \in RowType /\ row[m].retry \in Nat /\ ov \in Nat /\ MaxRetries \in Nat
      /\ o \in Nat /\ u \in Nat /\ u <= o
  BY OutboxAssumption DEF Shapes, RowType, Open
<1> HIDE DEF h, k, ov, o, u
<1>3. /\ r.retry <= MaxRetries + ov
      /\ r.status \in Waiting => r.retry + 1 <= MaxRetries + ov
  BY DEF BudgetOf, ov
<1>4. ASSUME NEW q \in Owing(poller', m)
      PROVE  /\ r.retry + k + u <= MaxRetries + ov
             /\ \A e \in Entries(poller'[q].batch) : e.id = m => r.retry + k + u <= e.retry + ov + 1
  <2>1. q \in Owing(poller, m) /\ q \in Poller
    BY <1>1 DEF Owing
  <2>2. Entries(poller'[q].batch) \subseteq Entries(poller[q].batch)
    BY <2>1 DEF Moved, Fewer
  <2>3. /\ row[m].retry + h + o <= MaxRetries + ov
        /\ \A e \in Entries(poller[q].batch) : e.id = m => row[m].retry + h + o <= e.retry + ov + 1
    BY <2>1 DEF BudgetOf, h, o, ov
  <2>4. r.retry + k + u <= row[m].retry + h + o
    BY <1>1, <1>2
  <2>5. r.retry + k + u <= MaxRetries + ov
    BY <1>1, <1>2, <2>3, <2>4
  <2>6. ASSUME NEW e \in Entries(poller'[q].batch), e.id = m PROVE r.retry + k + u <= e.retry + ov + 1
    <3>1. row[m].retry + h + o <= e.retry + ov + 1
      BY <2>2, <2>3, <2>6
    <3>2. e.retry \in Nat
      <4>1. poller[q].batch \in Seq(Entry)
        BY <2>1 DEF Shapes, PollerType
      <4> QED BY <2>2, <4>1, EntryFacts
    <3> QED BY <1>1, <1>2, <2>4, <3>1, <3>2
  <2> QED BY <2>5, <2>6
<1> QED BY <1>3, <1>4 DEF BudgetOf, k, u, ov

\* A failed attempt uses up one unit of the budget.
LEMMA BudgetFails ==
    ASSUME Shapes, NEW p \in Poller, NEW x, Moved(p, x), Fewer(x, poller[p]), NEW m \in Msg,
           BudgetOf(m, row[m], poller, overruns), NEW r \in RowType,
           r.retry = row[m].retry + 1, Open(r) = 0,
           Owes(poller[p], m), ~Owes(x, m),
           NEW d \in Entries(poller[p].batch), d.id = m,
           r.status \in Waiting => d.retry + 1 < MaxRetries
    PROVE  BudgetOf(m, r, poller', overruns)
<1> DEFINE h == Cardinality(Owing(poller, m))
           k == Cardinality(Owing(poller', m))
           ov == overruns
           o == Open(row[m])
<1>0. p \in Owing(poller, m)
  BY DEF Owing
<1>1. /\ h \in Nat /\ k \in Nat /\ k + 1 <= h /\ h >= 1
      /\ Owing(poller', m) \subseteq Owing(poller, m)
  BY <1>0, OwingCount, OwingShrinks
<1>2. /\ row[m] \in RowType /\ row[m].retry \in Nat /\ ov \in Nat /\ MaxRetries \in Nat /\ o \in Nat
  BY OutboxAssumption DEF Shapes, RowType, Open
<1>3. d.retry \in Nat
  <2>1. poller[p].batch \in Seq(Entry)
    BY DEF Shapes, PollerType
  <2> QED BY <2>1, EntryFacts
<1> HIDE DEF h, k, ov, o
<1>4. /\ row[m].retry + h + o <= MaxRetries + ov
      /\ row[m].retry + h + o <= d.retry + ov + 1
  BY <1>0 DEF BudgetOf, h, o, ov
<1>5. r.retry <= MaxRetries + ov
  BY <1>1, <1>2, <1>4
<1>6. r.status \in Waiting => r.retry + 1 <= MaxRetries + ov
  BY <1>1, <1>2, <1>3, <1>4
<1>7. r.retry + k + Open(r) <= row[m].retry + h + o
  BY <1>1, <1>2
<1>8. ASSUME NEW q \in Owing(poller', m)
      PROVE  /\ r.retry + k + Open(r) <= MaxRetries + ov
             /\ \A e \in Entries(poller'[q].batch) :
                   e.id = m => r.retry + k + Open(r) <= e.retry + ov + 1
  <2>1. q \in Owing(poller, m) /\ q \in Poller
    BY <1>1 DEF Owing
  <2>2. Entries(poller'[q].batch) \subseteq Entries(poller[q].batch)
    BY <2>1 DEF Moved, Fewer
  <2>3. r.retry + k + Open(r) <= MaxRetries + ov
    BY <1>1, <1>2, <1>4, <1>7
  <2>4. ASSUME NEW e \in Entries(poller'[q].batch), e.id = m
        PROVE  r.retry + k + Open(r) <= e.retry + ov + 1
    <3>1. row[m].retry + h + o <= e.retry + ov + 1
      BY <2>1, <2>2, <2>4 DEF BudgetOf, h, o, ov
    <3>2. e.retry \in Nat
      <4>1. poller[q].batch \in Seq(Entry)
        BY <2>1 DEF Shapes, PollerType
      <4> QED BY <2>2, <4>1, EntryFacts
    <3> QED BY <1>1, <1>2, <1>7, <3>1, <3>2
  <2> QED BY <2>3, <2>4
<1> QED BY <1>5, <1>6, <1>8 DEF BudgetOf, k, ov

-----------------------------------------------------------------------------
(* A poller's step on the message it works on *)

\* The message a poller works on.
LEMMA CurrentFacts ==
    ASSUME Shapes, Batches, NEW p \in Poller, ~At(p, "idle")
    PROVE  /\ poller[p].batch \in Seq(Entry) /\ poller[p].batch # <<>>
           /\ Current(p) \in Msg /\ InHand(p, Current(p)) /\ Holds(poller[p].batch, Current(p))
           /\ Head(poller[p].batch) \in Entries(poller[p].batch)
<1>1. poller[p] \in PollerType /\ BatchOK(poller[p])
  BY DEF Shapes, Batches
<1>2. poller[p].batch \in Seq(Entry) /\ poller[p].batch # <<>> /\ Distinct(poller[p].batch)
  BY <1>1 DEF PollerType, BatchOK, At
<1> QED BY <1>2, HeadFacts DEF Current, InHand, Holds

\* The message is apart from the others, and so are they.
LEMMA CalmStep ==
    ASSUME Shapes, Apart, Ordered, NEW p \in Poller, NEW x, Moved(p, x), Fewer(x, poller[p]),
           NEW m \in Msg, InHand(p, m), Current(p) = m, UNCHANGED <<created, saved>>,
           \A n \in Msg \ {m} : row'[n] = row[n] /\ topic'[n] = topic[n],
           \A n \in Msg \ {m} : /\ Holds(poller[p].batch, n) => Holds(x.batch, n)
                                /\ Owes(poller[p], n) => Owes(x, n),
           topic[m] > 0 => topic'[m] > 0, row[m].retry > 0 => row'[m].retry > 0,
           Owes(x, m) => row'[m].leased /\ row'[m].status \in Waiting,
           Holds(x.batch, m) /\ ~Owes(x, m) => row'[m].status = "DEAD_LETTER",
           topic'[m] <= 1,
           topic'[m] > 0 => \/ row'[m].status = "PUBLISHED"
                            \/ x.pc = "markPublished" /\ Head(x.batch).id = m,
           row'[m].status = "PENDING" /\ row'[m].leased => Holds(x.batch, m),
           Holds(x.batch, m) \/ topic'[m] > 0 \/ row'[m].retry > 0
    PROVE  Apart' /\ Ordered'
<1>0. /\ poller'[p] = x /\ \A q \in Poller \ {p} : poller'[q] = poller[q]
      /\ \A n : Owes(x, n) => Owes(poller[p], n)
      /\ \A n : Holds(x.batch, n) => Holds(poller[p].batch, n)
  BY DEF Moved, Fewer
<1>1. \A q \in Poller : \A n : InHand(q, n) <=> Holds(poller[q].batch, n)
  BY DEF InHand, Holds
<1>2. \A q \in Poller : \A n : InHand(q, n)' <=> Holds(poller'[q].batch, n)
  BY DEF InHand, Holds
<1>3. \A q \in Poller \ {p} : ~Holds(poller[q].batch, m)
  BY <1>1 DEF Apart
<1>4. \A q, r \in Poller, n \in Msg : InHand(q, n)' /\ InHand(r, n)' => q = r
  BY <1>0, <1>1, <1>2 DEF Apart
<1>5. ASSUME NEW q \in Poller, NEW n \in Msg
      PROVE  /\ Owes(poller'[q], n) => row'[n].leased /\ row'[n].status \in Waiting
             /\ InHand(q, n)' /\ ~Owes(poller'[q], n) => row'[n].status = "DEAD_LETTER"
  <2>1. CASE q = p
    BY <1>0, <1>1, <1>2, <2>1 DEF Apart
  <2>2. CASE q # p
    BY <1>0, <1>1, <1>2, <1>3, <2>2 DEF Apart, Owes
  <2> QED BY <2>1, <2>2
<1>6. ASSUME NEW n \in Msg
      PROVE  /\ topic'[n] <= 1
             /\ topic'[n] > 0 =>
                   \/ row'[n].status = "PUBLISHED"
                   \/ \E q \in Poller : poller'[q].pc = "markPublished" /\ Head(poller'[q].batch).id = n
             /\ row'[n].status = "PENDING" /\ row'[n].leased => \E q \in Poller : InHand(q, n)'
  <2>1. CASE n = m
    BY <1>0, <1>2, <2>1
  <2>2. CASE n # m
    <3>1. /\ topic[n] <= 1
          /\ topic[n] > 0 =>
                \/ row[n].status = "PUBLISHED"
                \/ \E q \in Poller : poller[q].pc = "markPublished" /\ Head(poller[q].batch).id = n
          /\ row[n].status = "PENDING" /\ row[n].leased => \E q \in Poller : InHand(q, n)
      BY DEF Apart, At, Current
    <3>2. Head(poller[p].batch).id # n
      BY <2>2 DEF Current
    <3> QED BY <1>0, <1>1, <1>2, <2>2, <3>1, <3>2
  <2> QED BY <2>1, <2>2
<1>7. Apart'
  BY <1>4, <1>5, <1>6 DEF Apart, At, Current
<1>8. Ordered'
  <2> SUFFICES ASSUME NEW q \in Poller, NEW n \in Msg, NEW k \in Msg, InHand(q, n)', Before(k, n)'
               PROVE  topic'[k] > 0 \/ row'[k].retry > 0 \/ \E r \in Poller : InHand(r, k)'
    BY DEF Ordered
  <2>1. InHand(q, n) /\ Before(k, n)
    BY <1>0, <1>1, <1>2 DEF Before
  <2>2. topic[k] > 0 \/ row[k].retry > 0 \/ \E r \in Poller : InHand(r, k)
    BY <2>1 DEF Ordered
  <2>3. CASE k = m
    BY <1>0, <1>2, <2>3
  <2>4. CASE k # m
    BY <1>0, <1>1, <1>2, <2>2, <2>4
  <2> QED BY <2>3, <2>4
<1> QED BY <1>7, <1>8

\* A step of a poller keeps the invariant when it keeps its parts for the poller and
\* the message it works on.
LEMMA PollerStep ==
    ASSUME IInv, NEW p \in Poller, ~At(p, "idle"), NEW x, Moved(p, x), Fewer(x, poller[p]),
           NEW m \in Msg, Current(p) = m, UNCHANGED <<created, saved, overruns>>,
           row' \in [Msg -> RowType], topic' \in [Msg -> 0 .. 2],
           dlq' \subseteq Msg, dlq \subseteq dlq', dlqTopic' \subseteq Msg,
           faults' \in 0 .. MaxFaults, faults > 0 => faults' > 0, faults' = 0 => faults = 0,
           \A n \in Msg \ {m} : row'[n] = row[n] /\ topic'[n] = topic[n],
           topic[m] > 0 => topic'[m] > 0,
           row'[m].retry \in {row[m].retry, row[m].retry + 1}, row'[m].status # "NONE",
           row'[m].status = "PUBLISHED" => topic'[m] > 0,
           row'[m].status = "FAILED" => row'[m].retry > 0,
           row'[m].status = "DEAD_LETTER" =>
               /\ row'[m].retry >= MaxRetries
               /\ \/ m \in dlq' \/ faults' > 0
                  \/ \E q \in Poller : poller'[q].pc = "saveDeadLetter" /\ Head(poller'[q].batch).id = m,
           x.pc = "markPublished" => topic'[Head(x.batch).id] > 0,
           BudgetOf(m, row'[m], poller', overruns),
           faults' = 0 /\ overruns = 0 => Apart' /\ Ordered'
    PROVE  IInv'
<1>0. /\ poller'[p] = x /\ \A q \in Poller \ {p} : poller'[q] = poller[q]
      /\ poller' \in [Poller -> PollerType] /\ BatchOK(x)
      /\ Entries(x.batch) \subseteq Entries(poller[p].batch)
  BY DEF Moved, Fewer
<1>1. Shapes'
  BY <1>0 DEF IInv, Shapes
<1>2. Batches'
  BY <1>0 DEF IInv, Batches
<1>3. Rows'
  <2> SUFFICES ASSUME NEW n \in Msg
               PROVE  /\ row'[n].status = "NONE" => row'[n].retry = 0 /\ ~row'[n].leased
                      /\ row'[n].status = "PUBLISHED" => topic'[n] > 0
                      /\ row'[n].status = "FAILED" => row'[n].retry > 0
                      /\ row'[n].status = "DEAD_LETTER" =>
                            /\ row'[n].retry >= MaxRetries
                            /\ \/ n \in dlq'
                               \/ \E q \in Poller : poller'[q].pc = "saveDeadLetter"
                                                    /\ Head(poller'[q].batch).id = n
                               \/ faults' > 0
    BY DEF Rows, At, Current
  <2>1. CASE n = m
    BY <2>1
  <2>2. CASE n # m
    <3>1. Head(poller[p].batch).id # n
      BY <2>2 DEF Current
    <3> QED BY <1>0, <2>2, <3>1 DEF IInv, Rows, At, Current
  <2> QED BY <2>1, <2>2
<1>4. Copies'
  <2>1. ASSUME NEW q \in Poller, NEW e \in Entries(poller'[q].batch)
        PROVE  row'[e.id].status # "NONE" /\ e.retry <= row'[e.id].retry
    <3>1. e \in Entries(poller[q].batch) /\ poller[q].batch \in Seq(Entry)
      BY <1>0, <2>1 DEF IInv, Shapes, PollerType
    <3>2. e.id \in Msg /\ e.retry \in Nat
      BY <3>1, EntryFacts
    <3>3. row[e.id].status # "NONE" /\ e.retry <= row[e.id].retry /\ row[e.id].retry \in Nat
      BY <3>1, <3>2 DEF IInv, Copies, Shapes, RowType
    <3>4. CASE e.id # m
      BY <3>2, <3>3, <3>4
    <3>5. CASE e.id = m
      BY <3>2, <3>3, <3>5
    <3> QED BY <3>4, <3>5
  <2>2. ASSUME NEW q \in Poller, poller'[q].pc = "markPublished"
        PROVE  topic'[Head(poller'[q].batch).id] > 0
    <3>1. CASE q = p
      BY <1>0, <2>2, <3>1
    <3>2. CASE q # p
      <4>1. At(q, "markPublished") /\ ~At(q, "idle")
        BY <1>0, <2>2, <3>2 DEF At
      <4>2. Current(q) \in Msg /\ topic[Current(q)] > 0
        BY <4>1, CurrentFacts DEF IInv, Copies
      <4> QED BY <1>0, <3>2, <4>2 DEF Current
    <3> QED BY <3>1, <3>2
  <2> QED BY <2>1, <2>2 DEF Copies, At, Current
<1>5. Budget'
  <2> SUFFICES ASSUME NEW n \in Msg PROVE BudgetOf(n, row'[n], poller', overruns')
    BY DEF Budget
  <2>1. CASE n = m
    BY <2>1
  <2>2. CASE n # m
    <3>1. row'[n] = row[n] /\ row[n] \in RowType /\ Open(row[n]) <= Open(row[n])
      BY <2>2 DEF IInv, Shapes, Open
    <3>2. BudgetOf(n, row[n], poller, overruns)
      BY DEF IInv, Budget
    <3>3. BudgetOf(n, row[n], poller', overruns)
      BY <3>1, <3>2, BudgetShrinks DEF IInv
    <3> QED BY <3>1, <3>3
  <2> QED BY <2>1, <2>2
<1>6. SavedOnce'
  <2>1. row[m].status # "NONE"
    <3>1. Head(poller[p].batch) \in Entries(poller[p].batch)
      BY CurrentFacts DEF IInv
    <3> QED BY <3>1 DEF IInv, Copies, Current
  <2>2. \A n \in Msg : row'[n].status # "NONE" <=> row[n].status # "NONE"
    BY <2>1
  <2> QED BY <2>2 DEF IInv, SavedOnce
<1>7. Calm'
  BY DEF Calm
<1> QED BY <1>1, <1>2, <1>3, <1>4, <1>5, <1>6, <1>7 DEF IInv

\* A step that writes no row.
LEMMA QuietStep ==
    ASSUME IInv, NEW p \in Poller, ~At(p, "idle"), NEW x, Moved(p, x), Fewer(x, poller[p]),
           NEW m \in Msg, Current(p) = m, UNCHANGED <<row, created, saved, overruns>>,
           topic' \in [Msg -> 0 .. 2], \A n \in Msg \ {m} : topic'[n] = topic[n],
           topic[m] > 0 => topic'[m] > 0,
           dlq' \subseteq Msg, dlq \subseteq dlq', dlqTopic' \subseteq Msg,
           faults' = faults \/ faults' \in 1 .. MaxFaults,
           At(p, "saveDeadLetter") => m \in dlq' \/ faults' > 0,
           x.pc = "markPublished" => topic'[Head(x.batch).id] > 0,
           faults' = 0 /\ overruns = 0 => Apart' /\ Ordered'
    PROVE  IInv'
<1>1. /\ faults \in Nat /\ faults \in 0 .. MaxFaults
      /\ row \in [Msg -> RowType] /\ row[m] \in RowType /\ row[m].retry \in Nat
  BY DEF IInv, Shapes, RowType
<1>2. faults' \in 0 .. MaxFaults /\ (faults > 0 => faults' > 0) /\ (faults' = 0 => faults = 0)
  BY <1>1
<1>3. row[m].status # "NONE"
  <2>1. Head(poller[p].batch) \in Entries(poller[p].batch)
    BY CurrentFacts DEF IInv
  <2> QED BY <2>1 DEF IInv, Copies, Current
<1>4. BudgetOf(m, row[m], poller', overruns)
  <2>1. BudgetOf(m, row[m], poller, overruns) /\ Open(row[m]) <= Open(row[m])
    BY DEF IInv, Budget, Open
  <2> QED BY <1>1, <2>1, BudgetShrinks DEF IInv
<1>5. row[m].status = "DEAD_LETTER" =>
          /\ row[m].retry >= MaxRetries
          /\ \/ m \in dlq' \/ faults' > 0
             \/ \E q \in Poller : poller'[q].pc = "saveDeadLetter" /\ Head(poller'[q].batch).id = m
  <2> SUFFICES ASSUME row[m].status = "DEAD_LETTER", m \notin dlq', ~(faults' > 0)
               PROVE  \E q \in Poller : poller'[q].pc = "saveDeadLetter" /\ Head(poller'[q].batch).id = m
    BY DEF IInv, Rows
  <2>1. PICK q \in Poller : At(q, "saveDeadLetter") /\ Current(q) = m
    BY <1>2 DEF IInv, Rows
  <2>2. q # p
    BY <2>1
  <2> QED BY <2>1, <2>2 DEF Moved, At, Current
<1> QED BY <1>1, <1>2, <1>3, <1>4, <1>5, PollerStep DEF IInv, Rows

\* Without faults and overruns a poller at work on a message has it leased, and has
\* not published it before.
LEMMA CalmCurrent ==
    ASSUME IInv, faults = 0, overruns = 0, NEW p \in Poller,
           poller[p].pc \in {"publish", "markPublished", "markFailed"}
    PROVE  /\ Apart /\ Ordered /\ Owes(poller[p], Current(p)) /\ InHand(p, Current(p))
           /\ row[Current(p)].leased /\ row[Current(p)].status \in Waiting
           /\ topic[Current(p)] \in 0 .. 1
           /\ poller[p].pc # "markPublished" => topic[Current(p)] = 0
<1>1. Apart /\ Ordered /\ ~At(p, "idle")
  BY DEF IInv, Calm, At
<1>2. Current(p) \in Msg /\ InHand(p, Current(p)) /\ Holds(poller[p].batch, Current(p))
  BY <1>1, CurrentFacts DEF IInv
<1>3. Owes(poller[p], Current(p))
  BY <1>2 DEF Owes
<1>4. /\ row[Current(p)].leased /\ row[Current(p)].status \in Waiting
      /\ topic[Current(p)] <= 1
  BY <1>1, <1>2, <1>3 DEF Apart
<1>5. topic[Current(p)] \in 0 .. 2
  BY <1>2 DEF IInv, Shapes
<1>6. ASSUME topic[Current(p)] > 0 PROVE poller[p].pc = "markPublished"
  <2>1. row[Current(p)].status # "PUBLISHED"
    BY <1>4 DEF Waiting
  <2>2. PICK q \in Poller : At(q, "markPublished") /\ Current(q) = Current(p)
    BY <1>1, <1>2, <1>6, <2>1 DEF Apart
  <2>3. InHand(q, Current(p))
    BY <2>2, CurrentFacts DEF IInv, At
  <2> QED BY <1>1, <1>2, <2>2, <2>3 DEF Apart, At
<1> QED BY <1>1, <1>2, <1>3, <1>4, <1>5, <1>6

\* A record is written to the topic.
LEMMA DeliveredFacts ==
    ASSUME Shapes, NEW m \in Msg, Delivered(m)
    PROVE  /\ topic' \in [Msg -> 0 .. 2] /\ topic'[m] > 0
           /\ topic[m] = 0 => topic'[m] = 1
           /\ \A n \in Msg \ {m} : topic'[n] = topic[n]
BY DEF Shapes, Delivered

\* Publish: delivered and acknowledged, or refused.
LEMMA PublishKeeps ==
    ASSUME IInv, NEW p \in Poller, Publish(p) PROVE IInv'
<1> DEFINE m == Current(p)
<1>0. /\ Shapes /\ Batches /\ poller[p].pc = "publish" /\ ~At(p, "idle")
      /\ UNCHANGED <<row, dlq, dlqTopic, created, saved, faults, overruns>>
  BY DEF IInv, Publish, At
<1>1. m \in Msg /\ InHand(p, m) /\ Holds(poller[p].batch, m) /\ topic[m] \in Nat
      /\ dlq \subseteq Msg /\ dlqTopic \subseteq Msg /\ topic \in [Msg -> 0 .. 2]
  BY <1>0, CurrentFacts DEF Shapes
<1>2. ASSUME NEW l \in {"markPublished", "markFailed"}, Goto(p, l),
             \/ Delivered(m) /\ l = "markPublished"
             \/ UNCHANGED topic /\ l = "markFailed"
      PROVE  IInv'
  <2>1. PICK x : /\ Moved(p, x) /\ Fewer(x, poller[p]) /\ x.pc = l /\ x.batch = poller[p].batch
    BY <1>0, <1>2, GotoMoves DEF Steps, At
  <2>2. /\ topic' \in [Msg -> 0 .. 2] /\ \A n \in Msg \ {m} : topic'[n] = topic[n]
        /\ topic[m] > 0 => topic'[m] > 0
        /\ l = "markPublished" => topic'[m] > 0
        /\ topic[m] = 0 => topic'[m] = IF l = "markPublished" THEN 1 ELSE 0
    BY <1>0, <1>1, <1>2, DeliveredFacts
  <2>3. Head(x.batch).id = m
    BY <2>1 DEF Current
  <2>4. ASSUME faults' = 0, overruns = 0 PROVE Apart' /\ Ordered'
    <3>1. /\ Apart /\ Ordered /\ Owes(poller[p], m) /\ row[m].leased /\ row[m].status \in Waiting
          /\ topic[m] = 0
      BY <1>0, <2>4, CalmCurrent
    <3>2. topic'[m] <= 1 /\ (topic'[m] > 0 => l = "markPublished")
      BY <2>2, <3>1
    <3>3. \A n : Owes(x, n) <=> Holds(poller[p].batch, n)
      BY <1>2, <2>1 DEF Owes
    <3>4. \A n : Owes(poller[p], n) => Holds(poller[p].batch, n)
      BY DEF Owes
    <3> HIDE DEF m
    <3> QED BY <1>0, <1>1, <2>1, <2>2, <2>3, <3>1, <3>2, <3>3, <3>4, CalmStep DEF m
  <2> QED BY <1>0, <1>1, <2>1, <2>2, <2>3, <2>4, QuietStep DEF At
<1> QED BY <1>2 DEF Publish

\* A fault is counted, within its bound.
LEMMA FaultFacts ==
    ASSUME Shapes, Fault PROVE faults' \in 1 .. MaxFaults /\ faults' > 0 /\ faults' # 0
BY OutboxAssumption DEF Shapes, Fault

\* Delivered, but the acknowledgement is lost.
LEMMA PublishUnackedKeeps ==
    ASSUME IInv, NEW p \in Poller, PublishUnacked(p) PROVE IInv'
<1> DEFINE m == Current(p)
<1>0. /\ Shapes /\ Batches /\ poller[p].pc = "publish" /\ ~At(p, "idle") /\ Delivered(m)
      /\ UNCHANGED <<row, dlq, dlqTopic, created, saved, overruns>>
  BY DEF IInv, PublishUnacked, At
<1>1. m \in Msg /\ dlq \subseteq Msg /\ dlqTopic \subseteq Msg
  BY <1>0, CurrentFacts DEF Shapes
<1>2. faults' \in 1 .. MaxFaults /\ faults' > 0 /\ faults' # 0
  BY <1>0, FaultFacts DEF PublishUnacked
<1>3. PICK x : Moved(p, x) /\ Fewer(x, poller[p]) /\ x.pc = "markFailed"
  BY <1>0, GotoMoves DEF Steps, At, PublishUnacked
<1>4. topic' \in [Msg -> 0 .. 2] /\ topic'[m] > 0 /\ \A n \in Msg \ {m} : topic'[n] = topic[n]
  BY <1>0, <1>1, DeliveredFacts
<1> QED BY <1>0, <1>1, <1>2, <1>3, <1>4, QuietStep DEF At

\* Without faults and overruns a poller that writes a dead letter has the message for
\* itself.
LEMMA CalmDead ==
    ASSUME IInv, faults = 0, overruns = 0, NEW p \in Poller,
           poller[p].pc \in {"saveDeadLetter", "emitDeadLetter"}
    PROVE  /\ Apart /\ Ordered /\ InHand(p, Current(p))
           /\ row[Current(p)].status = "DEAD_LETTER" /\ row[Current(p)].retry > 0
           /\ topic[Current(p)] = 0
<1>1. Apart /\ Ordered /\ ~At(p, "idle")
  BY DEF IInv, Calm, At
<1>2. Current(p) \in Msg /\ InHand(p, Current(p))
  BY <1>1, CurrentFacts DEF IInv
<1>3. ~Owes(poller[p], Current(p))
  BY DEF Owes, Current
<1>4. row[Current(p)].status = "DEAD_LETTER"
  BY <1>1, <1>2, <1>3 DEF Apart
<1>5. row[Current(p)].retry >= MaxRetries /\ row[Current(p)].retry \in Nat
  BY <1>2, <1>4 DEF IInv, Rows, Shapes, RowType
<1>6. row[Current(p)].retry > 0
  BY <1>5, OutboxAssumption
<1>7. topic[Current(p)] \in 0 .. 2
  BY <1>2 DEF IInv, Shapes
<1>8. ASSUME topic[Current(p)] > 0 PROVE FALSE
  <2>1. PICK q \in Poller : At(q, "markPublished") /\ Current(q) = Current(p)
    BY <1>1, <1>2, <1>4, <1>8 DEF Apart
  <2>2. InHand(q, Current(p))
    BY <2>1, CurrentFacts DEF IInv, At
  <2> QED BY <1>1, <1>2, <2>1, <2>2 DEF Apart, At
<1> QED BY <1>1, <1>2, <1>4, <1>6, <1>7, <1>8

\* The row in dead_letter_messages is what the poller owed for giving up.
LEMMA SaveDeadLetterKeeps ==
    ASSUME IInv, NEW p \in Poller, SaveDeadLetter(p) PROVE IInv'
<1> DEFINE m == Current(p)
<1>0. /\ Shapes /\ Batches /\ poller[p].pc = "saveDeadLetter" /\ ~At(p, "idle")
      /\ dlq' = dlq \cup {m} /\ Goto(p, "emitDeadLetter")
      /\ UNCHANGED <<row, topic, dlqTopic, created, saved, faults, overruns>>
  BY DEF IInv, SaveDeadLetter, At
<1>1. /\ m \in Msg /\ InHand(p, m) /\ Holds(poller[p].batch, m) /\ topic \in [Msg -> 0 .. 2]
      /\ dlq' \subseteq Msg /\ dlqTopic \subseteq Msg
  BY <1>0, CurrentFacts DEF Shapes
<1>2. PICK x : /\ Moved(p, x) /\ Fewer(x, poller[p]) /\ x.pc = "emitDeadLetter"
               /\ x.batch = poller[p].batch
  BY <1>0, GotoMoves DEF Steps, At
<1>3. ASSUME faults' = 0, overruns = 0 PROVE Apart' /\ Ordered'
  <2>1. /\ Apart /\ Ordered /\ row[m].status = "DEAD_LETTER" /\ topic[m] = 0
    BY <1>0, <1>3, CalmDead
  <2>2. \A n : Owes(poller[p], n) <=> Owes(x, n)
    BY <1>0, <1>2 DEF Owes
  <2>3. ~Owes(x, m)
    BY <1>2 DEF Owes, Current
  <2>4. topic'[m] <= 1 /\ ~(topic'[m] > 0)
    BY <1>0, <2>1
  <2> HIDE DEF m
  <2> QED BY <1>0, <1>1, <1>2, <2>1, <2>2, <2>3, <2>4, CalmStep DEF m
<1> QED BY <1>0, <1>1, <1>2, <1>3, QuietStep DEF At

\* The copy for the dead letter topic, and on to the next message.
LEMMA EmitDeadLetterKeeps ==
    ASSUME IInv, NEW p \in Poller, EmitDeadLetter(p) PROVE IInv'
<1> DEFINE m == Current(p)
<1>0. /\ Shapes /\ Batches /\ poller[p].pc = "emitDeadLetter" /\ ~At(p, "idle") /\ Advance(p)
      /\ UNCHANGED <<row, topic, dlq, created, saved, faults, overruns>>
      /\ dlqTopic' \in {dlqTopic, dlqTopic \cup {m}}
  BY DEF IInv, EmitDeadLetter, At
<1>1. /\ m \in Msg /\ InHand(p, m) /\ topic \in [Msg -> 0 .. 2]
      /\ dlq \subseteq Msg /\ dlqTopic' \subseteq Msg
  BY <1>0, CurrentFacts DEF Shapes
<1>2. PICK x : /\ Moved(p, x) /\ Fewer(x, poller[p]) /\ x.pc \in {"idle", "publish"}
               /\ \A n : Holds(x.batch, n) <=> Holds(poller[p].batch, n) /\ n # m
  BY <1>0, AdvanceMoves
<1>3. ASSUME faults' = 0, overruns = 0 PROVE Apart' /\ Ordered'
  <2>1. /\ Apart /\ Ordered /\ row[m].status = "DEAD_LETTER" /\ topic[m] = 0 /\ row[m].retry > 0
    BY <1>0, <1>3, CalmDead
  <2>2. \A n : Owes(poller[p], n) /\ n # m => Owes(x, n)
    BY <1>2 DEF Owes
  <2>3. ~Owes(x, m) /\ ~Holds(x.batch, m)
    BY <1>2 DEF Owes
  <2>4. topic'[m] <= 1 /\ ~(topic'[m] > 0)
    BY <1>0, <2>1
  <2> HIDE DEF m
  <2> QED BY <1>0, <1>1, <1>2, <2>1, <2>2, <2>3, <2>4, CalmStep DEF m
<1> QED BY <1>0, <1>1, <1>2, <1>3, QuietStep DEF At

\* A failed statement and a crash are faults; the poller only drops what it had.
LEMMA FaultKeeps ==
    ASSUME IInv, NEW p \in Poller, StatementFails(p) \/ Crash(p) PROVE IInv'
<1>0. /\ Shapes /\ Batches /\ ~At(p, "idle") /\ Fault
      /\ UNCHANGED <<row, topic, dlq, dlqTopic, created, saved, overruns>>
  BY DEF IInv, StatementFails, Crash, At
<1>1. /\ Current(p) \in Msg /\ topic \in [Msg -> 0 .. 2] /\ dlq \subseteq Msg /\ dlqTopic \subseteq Msg
  BY <1>0, CurrentFacts DEF Shapes
<1>2. faults' \in 1 .. MaxFaults /\ faults' > 0 /\ faults' # 0
  BY <1>0, FaultFacts
<1>3. \E x : Moved(p, x) /\ Fewer(x, poller[p]) /\ x.pc # "markPublished"
  <2>1. CASE Advance(p)
    BY <1>0, <2>1, AdvanceMoves
  <2>2. ASSUME NEW l \in {"emitDeadLetter", "saveDeadLetter"}, Goto(p, l),
               poller[p].pc \in {"saveDeadLetter", "markFailed"},
               At(p, "saveDeadLetter") => l = "emitDeadLetter"
        PROVE  \E x : Moved(p, x) /\ Fewer(x, poller[p]) /\ x.pc # "markPublished"
    <3>1. l \in Steps \ {"idle"} /\ ~At(p, "emitDeadLetter")
      BY <2>2 DEF Steps, At
    <3> QED BY <1>0, <2>2, <3>1, GotoMoves
  <2>3. CASE poller' = [poller EXCEPT ![p] = Idle]
    <3>1. Idle \in PollerType /\ Idle.pc = "idle" /\ Idle.batch = <<>>
      BY DEF Idle, PollerType, Steps
    <3>2. Moved(p, Idle)
      BY <1>0, <2>3, <3>1 DEF Shapes, Moved
    <3>3. Fewer(Idle, poller[p])
      BY <3>1, OutboxAssumption DEF Fewer, BatchOK, Distinct, Entries, Holds, Owes
    <3> QED BY <3>1, <3>2, <3>3
  <2> QED BY <2>1, <2>2, <2>3 DEF StatementFails, Crash, At
<1> QED BY <1>0, <1>1, <1>2, <1>3, QuietStep

\* The row of the current message is written.
LEMMA WroteFacts ==
    ASSUME Shapes, NEW m \in Msg, NEW r \in RowType, row' = [row EXCEPT ![m] = r]
    PROVE  row' \in [Msg -> RowType] /\ row'[m] = r /\ \A n \in Msg \ {m} : row'[n] = row[n]
BY DEF Shapes

\* The outcome of a publish that was acknowledged.
LEMMA MarkPublishedKeeps ==
    ASSUME IInv, NEW p \in Poller, MarkPublished(p) PROVE IInv'
<1> DEFINE m == Current(p)
           r == [status |-> "PUBLISHED", retry |-> row[m].retry, leased |-> FALSE]
<1>0. /\ Shapes /\ Batches /\ poller[p].pc = "markPublished" /\ ~At(p, "idle") /\ Advance(p)
      /\ row' = [row EXCEPT ![m] = r]
      /\ UNCHANGED <<topic, dlq, dlqTopic, created, saved, faults, overruns>>
  BY DEF IInv, MarkPublished, At
<1>1. /\ m \in Msg /\ InHand(p, m) /\ topic \in [Msg -> 0 .. 2] /\ dlq \subseteq Msg
      /\ dlqTopic \subseteq Msg /\ faults \in 0 .. MaxFaults /\ row[m].retry \in Nat
      /\ row[m] \in RowType
  BY <1>0, CurrentFacts DEF Shapes, RowType
<1>2. r \in RowType /\ r.status = "PUBLISHED" /\ r.retry = row[m].retry /\ ~r.leased /\ Open(r) = 0
      /\ r.status \notin Waiting
  BY <1>1 DEF RowType, Open, Waiting
<1>3. row' \in [Msg -> RowType] /\ row'[m] = r /\ \A n \in Msg \ {m} : row'[n] = row[n]
  BY <1>0, <1>1, <1>2, WroteFacts
<1>4. PICK x : /\ Moved(p, x) /\ Fewer(x, poller[p]) /\ x.pc \in {"idle", "publish"}
               /\ \A n : Holds(x.batch, n) <=> Holds(poller[p].batch, n) /\ n # m
  BY <1>0, AdvanceMoves
<1>5. topic[m] > 0
  BY <1>0 DEF IInv, Copies, At
<1> HIDE DEF r
<1>6. BudgetOf(m, r, poller', overruns)
  <2>1. BudgetOf(m, row[m], poller, overruns) /\ Open(r) <= Open(row[m])
    BY <1>1, <1>2 DEF IInv, Budget, Open
  <2> QED BY <1>0, <1>1, <1>2, <1>4, <2>1, BudgetShrinks
<1>7. ASSUME faults' = 0, overruns = 0 PROVE Apart' /\ Ordered'
  <2>1. Apart /\ Ordered /\ topic[m] \in 0 .. 1
    BY <1>0, <1>7, CalmCurrent
  <2>2. \A n : Owes(poller[p], n) /\ n # m => Owes(x, n)
    BY <1>4 DEF Owes
  <2>3. ~Owes(x, m) /\ ~Holds(x.batch, m)
    BY <1>4 DEF Owes
  <2>4. topic'[m] <= 1 /\ topic'[m] > 0
    BY <1>0, <1>5, <2>1
  <2> HIDE DEF m
  <2> QED BY <1>0, <1>1, <1>2, <1>3, <1>4, <2>1, <2>2, <2>3, <2>4, CalmStep DEF m
<1> QED BY <1>0, <1>1, <1>2, <1>3, <1>4, <1>5, <1>6, <1>7, PollerStep

\* A failed attempt: the message waits for its backoff, or is given up.
LEMMA MarkFailedKeeps ==
    ASSUME IInv, NEW p \in Poller, MarkFailed(p) PROVE IInv'
<1> DEFINE m == Current(p)
           d == Head(poller[p].batch)
           dead == [status |-> "DEAD_LETTER", retry |-> row[m].retry + 1, leased |-> FALSE]
           failed == [status |-> "FAILED", retry |-> row[m].retry + 1, leased |-> TRUE]
<1>0. /\ Shapes /\ Batches /\ poller[p].pc = "markFailed" /\ ~At(p, "idle")
      /\ UNCHANGED <<topic, dlq, dlqTopic, created, saved, faults, overruns>>
  BY DEF IInv, MarkFailed, At
<1>1. /\ m \in Msg /\ InHand(p, m) /\ Holds(poller[p].batch, m) /\ topic \in [Msg -> 0 .. 2]
      /\ dlq \subseteq Msg /\ dlqTopic \subseteq Msg /\ faults \in 0 .. MaxFaults
      /\ row[m].retry \in Nat /\ d \in Entries(poller[p].batch) /\ d.id = m
      /\ poller[p].batch \in Seq(Entry)
  BY <1>0, CurrentFacts DEF Shapes, RowType, Current
<1>2. d.retry \in Nat /\ d.retry <= row[m].retry
  <2>1. d.retry \in Nat
    BY <1>1, EntryFacts
  <2> QED BY <1>1, <2>1 DEF IInv, Copies
<1>3. Owes(poller[p], m)
  BY <1>0, <1>1 DEF Owes
<1>4. /\ dead \in RowType /\ dead.status = "DEAD_LETTER" /\ dead.retry = row[m].retry + 1
      /\ dead.status \notin Waiting /\ Open(dead) = 0
      /\ failed \in RowType /\ failed.status = "FAILED" /\ failed.retry = row[m].retry + 1
      /\ failed.leased /\ failed.status \in Waiting /\ Open(failed) = 0
  BY <1>1 DEF RowType, Open, Waiting
<1>5. \/ d.retry + 1 >= MaxRetries /\ row' = [row EXCEPT ![m] = dead] /\ Goto(p, "saveDeadLetter")
      \/ ~(d.retry + 1 >= MaxRetries) /\ row' = [row EXCEPT ![m] = failed] /\ Advance(p)
  BY DEF MarkFailed, IsMaxRetriesExceeded, LeasedRetry
<1>6. BudgetOf(m, row[m], poller, overruns)
  BY <1>1 DEF IInv, Budget
<1>7. row[m].retry + 1 > 0
  BY <1>1
<1>8. faults = 0 /\ overruns = 0 => Apart /\ Ordered /\ topic[m] = 0
  BY <1>0, CalmCurrent
<1> HIDE DEF dead, failed, d
<1>9. CASE d.retry + 1 >= MaxRetries /\ row' = [row EXCEPT ![m] = dead] /\ Goto(p, "saveDeadLetter")
  <2>1. PICK x : /\ Moved(p, x) /\ Fewer(x, poller[p]) /\ x.pc = "saveDeadLetter"
                 /\ x.batch = poller[p].batch
    BY <1>0, <1>9, GotoMoves DEF Steps, At
  <2>2. row' \in [Msg -> RowType] /\ row'[m] = dead /\ \A n \in Msg \ {m} : row'[n] = row[n]
    BY <1>0, <1>1, <1>4, <1>9, WroteFacts
  <2>3. ~Owes(x, m) /\ Head(x.batch).id = m /\ Holds(x.batch, m)
    BY <1>1, <2>1 DEF Owes, Current
  <2>4. BudgetOf(m, dead, poller', overruns)
    BY <1>0, <1>1, <1>3, <1>4, <1>6, <2>1, <2>3, BudgetFails
  <2>5. dead.retry >= MaxRetries
    BY <1>1, <1>2, <1>4, <1>9, OutboxAssumption
  <2>6. \E q \in Poller : poller'[q].pc = "saveDeadLetter" /\ Head(poller'[q].batch).id = m
    BY <2>1, <2>3 DEF Moved
  <2>7. ASSUME faults' = 0, overruns = 0 PROVE Apart' /\ Ordered'
    <3>1. Apart /\ Ordered /\ topic'[m] <= 1 /\ ~(topic'[m] > 0)
      BY <1>0, <1>8, <2>7
    <3>2. \A n : Owes(poller[p], n) /\ n # m => Owes(x, n)
      BY <2>1 DEF Owes, Current
    <3> HIDE DEF m
    <3> QED BY <1>0, <1>1, <1>4, <1>7, <2>1, <2>2, <2>3, <3>1, <3>2, CalmStep DEF m
  <2> QED BY <1>0, <1>1, <1>4, <1>7, <2>1, <2>2, <2>4, <2>5, <2>6, <2>7, PollerStep
<1>10. CASE ~(d.retry + 1 >= MaxRetries) /\ row' = [row EXCEPT ![m] = failed] /\ Advance(p)
  <2>1. PICK x : /\ Moved(p, x) /\ Fewer(x, poller[p]) /\ x.pc \in {"idle", "publish"}
                 /\ \A n : Holds(x.batch, n) <=> Holds(poller[p].batch, n) /\ n # m
    BY <1>0, <1>10, AdvanceMoves
  <2>2. row' \in [Msg -> RowType] /\ row'[m] = failed /\ \A n \in Msg \ {m} : row'[n] = row[n]
    BY <1>0, <1>1, <1>4, <1>10, WroteFacts
  <2>3. ~Owes(x, m) /\ ~Holds(x.batch, m)
    BY <2>1 DEF Owes
  <2>4. d.retry + 1 < MaxRetries
    BY <1>2, <1>10, OutboxAssumption
  <2>5. BudgetOf(m, failed, poller', overruns)
    BY <1>0, <1>1, <1>3, <1>4, <1>6, <2>1, <2>3, <2>4, BudgetFails
  <2>6. ASSUME faults' = 0, overruns = 0 PROVE Apart' /\ Ordered'
    <3>1. Apart /\ Ordered /\ topic'[m] <= 1 /\ ~(topic'[m] > 0)
      BY <1>0, <1>8, <2>6
    <3>2. \A n : Owes(poller[p], n) /\ n # m => Owes(x, n)
      BY <2>1 DEF Owes
    <3> HIDE DEF m
    <3> QED BY <1>0, <1>1, <1>4, <1>7, <2>1, <2>2, <2>3, <3>1, <3>2, CalmStep DEF m
  <2> QED BY <1>0, <1>1, <1>4, <1>7, <2>1, <2>2, <2>5, <2>6, PollerStep
<1> QED BY <1>5, <1>9, <1>10

-----------------------------------------------------------------------------
(* The steps that no poller takes *)

\* What a poller holds is stored.
LEMMA HeldIsStored ==
    ASSUME Shapes, Copies, NEW q \in Poller, NEW n, Holds(poller[q].batch, n)
    PROVE  n \in Msg /\ row[n].status # "NONE"
<1>1. poller[q].batch \in Seq(Entry)
  BY DEF Shapes, PollerType
<1>2. PICK e \in Entries(poller[q].batch) : e.id = n /\ n \in Msg
  BY <1>1, EntryFacts
<1> QED BY <1>2 DEF Copies

\* One more overrun allows for one more attempt.
LEMMA BudgetGrows ==
    ASSUME Shapes, NEW m \in Msg, BudgetOf(m, row[m], poller, overruns),
           NEW ov \in Nat, overruns <= ov
    PROVE  BudgetOf(m, row[m], poller, ov)
<1> DEFINE h == Cardinality(Owing(poller, m))
           o == Open(row[m])
           t == row[m].retry
<1>1. h \in Nat /\ o \in Nat /\ t \in Nat /\ overruns \in Nat /\ MaxRetries \in Nat
  BY OwingCount, OutboxAssumption DEF Shapes, RowType, Open
<1>2. /\ t <= MaxRetries + overruns
      /\ row[m].status \in Waiting => t + 1 <= MaxRetries + overruns
      /\ \A p \in Owing(poller, m) :
            /\ t + h + o <= MaxRetries + overruns
            /\ \A e \in Entries(poller[p].batch) : e.id = m => t + h + o <= e.retry + overruns + 1
  BY DEF BudgetOf
<1> HIDE DEF h, o, t
<1>3. t <= MaxRetries + ov /\ (row[m].status \in Waiting => t + 1 <= MaxRetries + ov)
  BY <1>1, <1>2
<1>4. ASSUME NEW p \in Owing(poller, m)
      PROVE  /\ t + h + o <= MaxRetries + ov
             /\ \A e \in Entries(poller[p].batch) : e.id = m => t + h + o <= e.retry + ov + 1
  <2>1. t + h + o <= MaxRetries + ov
    BY <1>1, <1>2
  <2>2. ASSUME NEW e \in Entries(poller[p].batch), e.id = m PROVE t + h + o <= e.retry + ov + 1
    <3>1. poller[p].batch \in Seq(Entry)
      BY DEF Shapes, PollerType, Owing
    <3>2. e.retry \in Nat
      BY <3>1, EntryFacts
    <3>3. t + h + o <= e.retry + overruns + 1
      BY <1>2, <2>2
    <3> QED BY <1>1, <3>2, <3>3
  <2> QED BY <2>1, <2>2
<1> QED BY <1>3, <1>4 DEF BudgetOf, h, o, t

\* A row is stored or released, and no poller moves.
LEMMA RowStep ==
    ASSUME IInv, NEW m \in Msg, NEW r \in RowType, row' = [row EXCEPT ![m] = r],
           UNCHANGED <<topic, dlq, dlqTopic, poller, faults>>,
           created' \in [Msg -> Nat], saved' \in Seq(Msg), SavedOnce',
           overruns' \in 0 .. MaxOverruns, overruns <= overruns',
           r.retry = row[m].retry, r.leased => row[m].leased,
           r.status = row[m].status \/ r.status = "PENDING",
           BudgetOf(m, r, poller, overruns'),
           faults = 0 /\ overruns' = 0 => Apart' /\ Ordered'
    PROVE  IInv'
<1>1. row' \in [Msg -> RowType] /\ row'[m] = r /\ \A n \in Msg \ {m} : row'[n] = row[n]
  BY WroteFacts DEF IInv
<1>2. Shapes'
  BY <1>1 DEF IInv, Shapes
<1>3. Batches'
  BY DEF IInv, Batches
<1>4. Rows'
  <2> SUFFICES ASSUME NEW n \in Msg
               PROVE  /\ row'[n].status = "NONE" => row'[n].retry = 0 /\ ~row'[n].leased
                      /\ row'[n].status = "PUBLISHED" => topic[n] > 0
                      /\ row'[n].status = "FAILED" => row'[n].retry > 0
                      /\ row'[n].status = "DEAD_LETTER" =>
                            /\ row'[n].retry >= MaxRetries
                            /\ \/ n \in dlq
                               \/ \E q \in Poller : At(q, "saveDeadLetter") /\ Current(q) = n
                               \/ faults > 0
    BY DEF Rows, At, Current
  <2>1. CASE n = m
    BY <1>1, <2>1 DEF IInv, Rows
  <2>2. CASE n # m
    BY <1>1, <2>2 DEF IInv, Rows
  <2> QED BY <2>1, <2>2
<1>5. Copies'
  <2>1. ASSUME NEW q \in Poller, NEW e \in Entries(poller[q].batch)
        PROVE  row'[e.id].status # "NONE" /\ e.retry <= row'[e.id].retry
    <3>1. poller[q].batch \in Seq(Entry)
      BY DEF IInv, Shapes, PollerType
    <3>2. e.id \in Msg /\ row[e.id].status # "NONE" /\ e.retry <= row[e.id].retry
      BY <3>1, EntryFacts DEF IInv, Copies
    <3> QED BY <1>1, <3>2
  <2>2. \A q \in Poller : At(q, "markPublished") => topic[Current(q)] > 0
    BY DEF IInv, Copies
  <2> QED BY <2>1, <2>2 DEF Copies, At, Current
<1>6. Budget'
  <2> SUFFICES ASSUME NEW n \in Msg PROVE BudgetOf(n, row'[n], poller, overruns')
    BY DEF Budget
  <2>1. CASE n = m
    BY <1>1, <2>1
  <2>2. CASE n # m
    <3>1. overruns' \in Nat /\ BudgetOf(n, row[n], poller, overruns) /\ Shapes
      BY OutboxAssumption DEF IInv, Budget
    <3>2. BudgetOf(n, row[n], poller, overruns')
      BY <3>1, BudgetGrows
    <3> QED BY <1>1, <2>2, <3>2
  <2> QED BY <2>1, <2>2
<1>7. Calm'
  BY DEF Calm
<1> QED BY <1>2, <1>3, <1>4, <1>5, <1>6, <1>7 DEF IInv

\* A message is stored: nobody holds it yet, and it is the last one stored.
LEMMA SaveMessageKeeps ==
    ASSUME IInv, NEW m \in Msg, NEW t \in Time, SaveMessage(m, t) PROVE IInv'
<1> DEFINE r == [status |-> "PENDING", retry |-> row[m].retry, leased |-> row[m].leased]
<1>0. /\ Shapes /\ Copies /\ SavedOnce /\ row[m].status = "NONE" /\ row[m].retry = 0 /\ ~row[m].leased
      /\ row' = [row EXCEPT ![m] = r] /\ saved' = Append(saved, m)
      /\ created' = [created EXCEPT ![m] = t]
      /\ UNCHANGED <<topic, dlq, dlqTopic, poller, faults, overruns>>
  BY DEF IInv, Rows, SaveMessage
<1>1. r \in RowType /\ r.status = "PENDING" /\ r.retry = 0 /\ ~r.leased /\ Open(r) = 1
  BY <1>0 DEF RowType, Waiting, Open, Shapes
<1> HIDE DEF r
<1>2. row' \in [Msg -> RowType] /\ row'[m] = r /\ \A n \in Msg \ {m} : row'[n] = row[n]
  BY <1>0, <1>1, WroteFacts
<1>3. \A q \in Poller : \A n : Holds(poller[q].batch, n) => n \in Msg /\ n # m
  BY <1>0, HeldIsStored
<1>4. /\ saved \in Seq(Msg) /\ saved' \in Seq(Msg) /\ Len(saved) \in Nat
      /\ DOMAIN saved = 1 .. Len(saved) /\ DOMAIN saved' = 1 .. Len(saved) + 1
      /\ \A i \in DOMAIN saved : saved'[i] = saved[i]
      /\ saved'[Len(saved) + 1] = m
  BY <1>0 DEF Shapes
<1>11. created' \in [Msg -> Nat] /\ \A n \in Msg \ {m} : created'[n] = created[n]
  BY <1>0, OutboxAssumption DEF Shapes
<1>5. \A i \in DOMAIN saved' : i \in DOMAIN saved \/ i = Len(saved) + 1
  BY <1>4
<1>6. \A i \in DOMAIN saved : saved[i] # m /\ i \in DOMAIN saved'
  <2>1. \A i \in DOMAIN saved : saved[i] # m
    BY <1>0 DEF SavedOnce
  <2> QED BY <1>4, <2>1
<1>7. SavedOnce'
  <2>1. \A i, j \in DOMAIN saved' : saved'[i] = saved'[j] => i = j
    BY <1>0, <1>4, <1>5, <1>6 DEF SavedOnce
  <2>2. Len(saved) + 1 \in DOMAIN saved'
    BY <1>4
  <2>3. ASSUME NEW n \in Msg
        PROVE  row'[n].status # "NONE" <=> \E i \in DOMAIN saved' : saved'[i] = n
    <3>1. CASE n = m
      BY <1>1, <1>2, <1>4, <2>2, <3>1
    <3>2. CASE n # m
      <4>1. row[n].status # "NONE" <=> \E i \in DOMAIN saved : saved[i] = n
        BY <1>0 DEF SavedOnce
      <4>2. (\E i \in DOMAIN saved : saved[i] = n) <=> \E i \in DOMAIN saved' : saved'[i] = n
        BY <1>4, <1>5, <1>6, <3>2
      <4> QED BY <1>2, <3>2, <4>1, <4>2
    <3> QED BY <3>1, <3>2
  <2> QED BY <2>1, <2>3 DEF SavedOnce
<1>8. BudgetOf(m, r, poller, overruns)
  <2>1. Owing(poller, m) = {}
    BY <1>3 DEF Owing, Owes
  <2>2. 0 <= MaxRetries + overruns /\ 0 + 1 <= MaxRetries + overruns
    BY <1>0, OutboxAssumption DEF Shapes
  <2> QED BY <1>1, <2>1, <2>2 DEF BudgetOf
<1>9. ASSUME faults = 0, overruns = 0 PROVE Apart' /\ Ordered'
  <2>0. Apart /\ Ordered
    BY <1>9 DEF IInv, Calm
  <2>1. \A q \in Poller : \A n : /\ InHand(q, n)' <=> InHand(q, n)
                                 /\ InHand(q, n) <=> Holds(poller[q].batch, n)
    BY <1>0 DEF InHand, Holds
  <2>2. \A n \in Msg : row'[n].retry = row[n].retry
    BY <1>0, <1>1, <1>2
  <2>3. Apart'
    <3>1. \A p, q \in Poller, n \in Msg : InHand(p, n)' /\ InHand(q, n)' => p = q
      BY <2>0, <2>1 DEF Apart
    <3>2. ASSUME NEW p \in Poller, NEW n \in Msg
          PROVE  /\ Owes(poller[p], n) => row'[n].leased /\ row'[n].status \in Waiting
                 /\ InHand(p, n)' /\ ~Owes(poller[p], n) => row'[n].status = "DEAD_LETTER"
      <4>1. CASE n = m
        BY <1>3, <2>1, <4>1 DEF Owes
      <4>2. CASE n # m
        BY <1>2, <2>0, <2>1, <4>2 DEF Apart
      <4> QED BY <4>1, <4>2
    <3>3. ASSUME NEW n \in Msg
          PROVE  /\ topic[n] <= 1
                 /\ topic[n] > 0 => \/ row'[n].status = "PUBLISHED"
                                    \/ \E p \in Poller : At(p, "markPublished") /\ Current(p) = n
                 /\ row'[n].status = "PENDING" /\ row'[n].leased => \E p \in Poller : InHand(p, n)'
      <4>1. CASE n = m
        BY <1>0, <1>1, <1>2, <2>0, <4>1 DEF Apart
      <4>2. CASE n # m
        BY <1>2, <2>0, <2>1, <4>2 DEF Apart
      <4> QED BY <4>1, <4>2
    <3> QED BY <1>0, <3>1, <3>2, <3>3 DEF Apart, At, Current
  <2>4. Ordered'
    <3> SUFFICES ASSUME NEW q \in Poller, NEW n \in Msg, NEW k \in Msg, InHand(q, n)', Before(k, n)'
                 PROVE  topic[k] > 0 \/ row'[k].retry > 0 \/ \E p \in Poller : InHand(p, k)'
      BY <1>0 DEF Ordered
    <3>1. InHand(q, n) /\ n # m
      BY <1>3, <2>1
    <3>2. PICK i, j \in DOMAIN saved' :
            created'[k] < created'[n] /\ i < j /\ saved'[i] = k /\ saved'[j] = n
      BY DEF Before
    <3>3. j # Len(saved) + 1
      BY <1>4, <3>1, <3>2
    <3>4. i \in DOMAIN saved /\ j \in DOMAIN saved
      BY <1>4, <3>2, <3>3
    <3>5. Before(k, n)
      <4>1. saved[i] = k /\ saved[j] = n /\ k # m
        BY <1>4, <1>6, <3>2, <3>4
      <4>2. created'[k] = created[k] /\ created'[n] = created[n]
        BY <1>11, <3>1, <4>1
      <4> QED BY <3>2, <3>4, <4>1, <4>2 DEF Before
    <3> QED BY <2>0, <2>1, <2>2, <3>1, <3>5 DEF Ordered
  <2> QED BY <2>3, <2>4
<1>10. overruns' \in 0 .. MaxOverruns /\ overruns <= overruns'
  BY <1>0, OutboxAssumption DEF Shapes
<1> QED BY <1>0, <1>1, <1>4, <1>7, <1>8, <1>9, <1>10, <1>11, RowStep

\* A lease ends: the row may be leased once more, which an overrun pays for when a
\* poller still holds it.
LEMMA ReleaseKeeps ==
    ASSUME IInv, NEW m \in Msg, LeaseExpires(m) \/ LeaseOverrun(m) PROVE IInv'
<1> DEFINE r == [status |-> row[m].status, retry |-> row[m].retry, leased |-> FALSE]
<1>0. /\ Shapes /\ SavedOnce /\ row[m].leased
      /\ row' = [row EXCEPT ![m] = r]
      /\ UNCHANGED <<topic, dlq, dlqTopic, created, saved, poller, faults>>
  BY DEF IInv, LeaseExpires, LeaseOverrun, Release
<1>1. /\ r \in RowType /\ r.status = row[m].status /\ r.retry = row[m].retry /\ ~r.leased
      /\ row[m] \in RowType /\ row[m].retry \in Nat
      /\ created' \in [Msg -> Nat] /\ saved \in Seq(Msg)
      /\ overruns \in Nat /\ MaxRetries \in Nat
  BY <1>0, OutboxAssumption DEF RowType, Shapes
<1>2. Open(r) \in {0, 1} /\ Open(row[m]) = 0
  BY <1>0, <1>1 DEF Open
<1> HIDE DEF r
<1>3. row' \in [Msg -> RowType] /\ row'[m] = r /\ \A n \in Msg \ {m} : row'[n] = row[n]
  BY <1>0, <1>1, WroteFacts
<1>4. \A n \in Msg : row'[n].status = row[n].status /\ row'[n].retry = row[n].retry
  BY <1>1, <1>3
<1>5. SavedOnce'
  BY <1>0, <1>4 DEF SavedOnce
<1>6. BudgetOf(m, row[m], poller, overruns)
  BY DEF IInv, Budget
<1>7. CASE LeaseExpires(m)
  <2>1. UNCHANGED overruns /\ \A p \in Poller : ~InHand(p, m)
    BY <1>7 DEF LeaseExpires
  <2>2. \A p \in Poller : ~Owes(poller[p], m)
    BY <2>1 DEF Owes, InHand, Holds
  <2>3. BudgetOf(m, r, poller, overruns)
    BY <1>1, <1>6, <2>2 DEF BudgetOf, Owing
  <2>4. ASSUME faults = 0, overruns = 0 PROVE Apart' /\ Ordered'
    <3>0. Apart /\ Ordered
      BY <2>4 DEF IInv, Calm
    <3>1. \A q \in Poller : \A n : InHand(q, n)' <=> InHand(q, n)
      BY <1>0 DEF InHand
    <3>2. \A q \in Poller, n \in Msg :
             Owes(poller[q], n) => row'[n].leased /\ row'[n].status \in Waiting
      BY <1>3, <1>4, <2>2, <3>0 DEF Apart
    <3>3. \A q \in Poller, n \in Msg :
             InHand(q, n)' /\ ~Owes(poller[q], n) => row'[n].status = "DEAD_LETTER"
      BY <1>4, <3>0, <3>1 DEF Apart
    <3>4. \A n \in Msg :
             row'[n].status = "PENDING" /\ row'[n].leased => \E q \in Poller : InHand(q, n)'
      BY <1>1, <1>3, <3>0, <3>1 DEF Apart
    <3>5. Apart'
      BY <1>0, <1>4, <3>0, <3>1, <3>2, <3>3, <3>4 DEF Apart, At, Current
    <3>6. Ordered'
      BY <1>0, <1>4, <3>0, <3>1 DEF Ordered, Before
    <3> QED BY <3>5, <3>6
  <2>5. overruns' \in 0 .. MaxOverruns /\ overruns <= overruns'
    BY <1>0, <1>1, <2>1 DEF Shapes
  <2> QED BY <1>0, <1>1, <1>5, <2>1, <2>3, <2>4, <2>5, RowStep
<1>8. CASE LeaseOverrun(m)
  <2>1. overruns' = overruns + 1 /\ overruns < MaxOverruns
    BY <1>8 DEF LeaseOverrun
  <2>2. overruns' \in 0 .. MaxOverruns /\ overruns <= overruns' /\ overruns' # 0
    BY <1>1, <2>1, OutboxAssumption
  <2>3. BudgetOf(m, r, poller, overruns')
    <3> DEFINE h == Cardinality(Owing(poller, m))
               o == Open(row[m])
               u == Open(r)
               t == row[m].retry
    <3>1. h \in Nat
      BY OwingCount
    <3>2. /\ t <= MaxRetries + overruns
          /\ row[m].status \in Waiting => t + 1 <= MaxRetries + overruns
          /\ \A p \in Owing(poller, m) :
                /\ t + h + o <= MaxRetries + overruns
                /\ \A e \in Entries(poller[p].batch) : e.id = m => t + h + o <= e.retry + overruns + 1
      BY <1>6 DEF BudgetOf
    <3>3. t \in Nat /\ o = 0 /\ u \in {0, 1} /\ r.retry = t
      BY <1>1, <1>2
    <3> HIDE DEF h, o, u, t
    <3>4. t <= MaxRetries + overruns' /\ (r.status \in Waiting => t + 1 <= MaxRetries + overruns')
      BY <1>1, <2>1, <3>2, <3>3
    <3>5. ASSUME NEW p \in Owing(poller, m)
          PROVE  /\ t + h + u <= MaxRetries + overruns'
                 /\ \A e \in Entries(poller[p].batch) : e.id = m => t + h + u <= e.retry + overruns' + 1
      <4>1. t + h + u <= MaxRetries + overruns'
        BY <1>1, <2>1, <3>1, <3>2, <3>3
      <4>2. ASSUME NEW e \in Entries(poller[p].batch), e.id = m
            PROVE  t + h + u <= e.retry + overruns' + 1
        <5>1. poller[p].batch \in Seq(Entry)
          BY <1>0 DEF Shapes, PollerType, Owing
        <5>2. e.retry \in Nat
          BY <5>1, EntryFacts
        <5>3. t + h + o <= e.retry + overruns + 1
          BY <3>2, <4>2
        <5> QED BY <1>1, <2>1, <3>1, <3>3, <5>2, <5>3
      <4> QED BY <4>1, <4>2
    <3> QED BY <3>3, <3>4, <3>5 DEF BudgetOf, h, u
  <2> QED BY <1>0, <1>1, <1>5, <2>2, <2>3, RowStep
<1> QED BY <1>7, <1>8

-----------------------------------------------------------------------------
(* A batch is leased *)

\* The batch is in order, holds eligible messages only, and copies their rows.
LEMMA LeasedBatch ==
    ASSUME Shapes, Eligible # {}, NEW ids \in [1 .. Limit(Cardinality(Eligible)) -> Eligible],
           OldestFirst(ids, Eligible)
    PROVE  /\ Leased(ids) \in Seq(Entry) /\ Leased(ids) # <<>>
           /\ Len(Leased(ids)) <= BatchSize /\ Distinct(Leased(ids))
           /\ \A m : Holds(Leased(ids), m) <=> \E i \in DOMAIN ids : ids[i] = m
           /\ \A m : Holds(Leased(ids), m) => m \in Eligible
           /\ \A e \in Entries(Leased(ids)) : e.id \in Eligible /\ e.retry = row[e.id].retry
<1> DEFINE c == Cardinality(Eligible)
           n == Limit(c)
           b == Leased(ids)
<1>1. Eligible \in SUBSET Msg /\ IsFiniteSet(Msg)
  BY OutboxAssumption DEF Eligible
<1>2. IsFiniteSet(Eligible)
  BY <1>1, FS_Subset
<1>3. c \in Nat /\ c # 0
  BY <1>2, FS_CardinalityType, FS_EmptySet
<1> HIDE DEF c
<1>4. n \in Nat /\ n >= 1 /\ n <= BatchSize
  BY <1>3, OutboxAssumption DEF Limit
<1>5. ids \in [1 .. n -> Eligible] /\ DOMAIN ids = 1 .. n
  BY DEF c
<1> HIDE DEF n
<1>6. \A i \in 1 .. n : ids[i] \in Msg /\ ids[i] \in Eligible /\ row[ids[i]].retry \in Nat
  BY <1>1, <1>5 DEF Shapes, RowType
<1>7. \A i \in 1 .. n : [id |-> ids[i], retry |-> row[ids[i]].retry] \in Entry
  BY <1>6 DEF Entry
<1>8. b = [i \in 1 .. n |-> [id |-> ids[i], retry |-> row[ids[i]].retry]]
  BY <1>5 DEF Leased
<1>9. b \in [1 .. n -> Entry]
  BY <1>7, <1>8
<1>10. b \in Seq(Entry) /\ Len(b) = n /\ DOMAIN b = 1 .. n
  BY <1>4, <1>9
<1>11. \A i \in 1 .. n : b[i].id = ids[i] /\ b[i].retry = row[ids[i]].retry
  BY <1>8
<1> HIDE DEF b
<1>12. b # <<>>
  BY <1>4, <1>10
<1>13. Distinct(b)
  BY <1>5, <1>10, <1>11 DEF Distinct, OldestFirst
<1>14. \A m : Holds(b, m) <=> \E i \in DOMAIN ids : ids[i] = m
  BY <1>5, <1>10, <1>11 DEF Holds
<1>15. \A m : Holds(b, m) => m \in Eligible
  BY <1>5, <1>6, <1>14
<1>16. \A e \in Entries(b) : e.id \in Eligible /\ e.retry = row[e.id].retry
  BY <1>6, <1>10, <1>11 DEF Entries
<1> QED BY <1>4, <1>10, <1>12, <1>13, <1>14, <1>15, <1>16 DEF b

\* What the lease changes: p, idle before, has batch b, whose rows are leased.
Leases(p, x) ==
    /\ Moved(p, x) /\ BatchOK(x) /\ x.pc = "publish"
    /\ poller[p].batch = <<>> /\ poller[p].pc = "idle"
    /\ row' \in [Msg -> RowType]
    /\ \A m \in Msg :
          /\ row'[m].status = row[m].status /\ row'[m].retry = row[m].retry
          /\ row'[m].leased <=> (row[m].leased \/ Holds(x.batch, m))
    /\ \A m : Holds(x.batch, m) => m \in Eligible
    /\ \A e \in Entries(x.batch) : e.id \in Eligible /\ e.retry = row[e.id].retry
    /\ \A m, k \in Msg :
          Holds(x.batch, m) /\ k \in Eligible /\ created[k] < created[m] => Holds(x.batch, k)

\* LeaseMessages does that.
LEMMA LeaseMoves ==
    ASSUME Shapes, Batches, NEW p \in Poller, LeaseMessages(p)
    PROVE  \E x : Leases(p, x)
<1>0. Eligible # {} /\ At(p, "idle")
  BY DEF LeaseMessages
<1>1. PICK ids \in [1 .. Limit(Cardinality(Eligible)) -> Eligible] :
         /\ OldestFirst(ids, Eligible)
         /\ row' = [m \in Msg |->
                      [status |-> row[m].status, retry |-> row[m].retry,
                       leased |-> row[m].leased \/ \E i \in DOMAIN ids : ids[i] = m]]
         /\ poller' = [poller EXCEPT ![p] = [pc |-> "publish", batch |-> Leased(ids)]]
  BY DEF LeaseMessages
<1> DEFINE b == Leased(ids)
           x == [pc |-> "publish", batch |-> b]
           got(m) == row[m].leased \/ \E i \in DOMAIN ids : ids[i] = m
<1>2. /\ b \in Seq(Entry) /\ b # <<>> /\ Len(b) <= BatchSize /\ Distinct(b)
      /\ \A m : Holds(b, m) <=> \E i \in DOMAIN ids : ids[i] = m
      /\ \A m : Holds(b, m) => m \in Eligible
      /\ \A e \in Entries(b) : e.id \in Eligible /\ e.retry = row[e.id].retry
  BY <1>0, <1>1, LeasedBatch
<1> HIDE DEF b
<1>3. x.pc = "publish" /\ x.batch = b /\ poller' = [poller EXCEPT ![p] = x]
  BY <1>1 DEF b
<1>4. x \in PollerType
  BY <1>2 DEF PollerType, Steps
<1> HIDE DEF x
<1>5. Moved(p, x)
  BY <1>3, <1>4 DEF Shapes, Moved
<1>6. BatchOK(x)
  BY <1>2, <1>3 DEF BatchOK
<1>7. poller[p].batch = <<>> /\ poller[p].pc = "idle"
  BY <1>0 DEF Batches, BatchOK, At
<1>8. \A m \in Msg : got(m) \in BOOLEAN /\ (got(m) <=> (row[m].leased \/ Holds(b, m)))
  BY <1>2 DEF Shapes, RowType
<1>9. row' = [m \in Msg |-> [status |-> row[m].status, retry |-> row[m].retry, leased |-> got(m)]]
  BY <1>1
<1> HIDE DEF got
<1>10. \A m \in Msg : [status |-> row[m].status, retry |-> row[m].retry, leased |-> got(m)] \in RowType
  BY <1>8 DEF Shapes, RowType
<1>11. row' \in [Msg -> RowType]
  BY <1>9, <1>10
<1>12. \A m \in Msg : /\ row'[m].status = row[m].status /\ row'[m].retry = row[m].retry
                      /\ row'[m].leased = got(m)
  BY <1>9
<1>13. \A m, k \in Msg :
           Holds(b, m) /\ k \in Eligible /\ created[k] < created[m] => Holds(b, k)
  BY <1>1, <1>2 DEF OldestFirst
<1> QED BY <1>2, <1>3, <1>5, <1>6, <1>7, <1>8, <1>11, <1>12, <1>13 DEF Leases

\* The one attempt more that the lease brings was allowed for while the row was open.
LEMMA BudgetLeases ==
    ASSUME Shapes, Copies, NEW p \in Poller, NEW x, Leases(p, x), NEW m \in Msg,
           BudgetOf(m, row[m], poller, overruns)
    PROVE  BudgetOf(m, row'[m], poller', overruns)
<1> DEFINE h == Cardinality(Owing(poller, m))
           k == Cardinality(Owing(poller', m))
           o == Open(row[m])
           u == Open(row'[m])
           t == row[m].retry
           ov == overruns
<1>0. /\ poller'[p] = x /\ \A q \in Poller \ {p} : poller'[q] = poller[q]
      /\ row'[m].retry = t /\ row'[m].status = row[m].status
      /\ row'[m].leased <=> (row[m].leased \/ Holds(x.batch, m))
      /\ x.pc = "publish" /\ poller[p].batch = <<>>
  BY DEF Leases, Moved
<1>1. h \in Nat /\ k \in Nat /\ t \in Nat /\ ov \in Nat /\ MaxRetries \in Nat
  BY OwingCount, OutboxAssumption DEF Shapes, RowType
<1>2. /\ t <= MaxRetries + ov
      /\ row[m].status \in Waiting => t + 1 <= MaxRetries + ov
      /\ \A q \in Owing(poller, m) :
            /\ t + h + o <= MaxRetries + ov
            /\ \A e \in Entries(poller[q].batch) : e.id = m => t + h + o <= e.retry + ov + 1
  BY DEF BudgetOf
<1>3. p \notin Owing(poller, m)
  BY <1>0 DEF Owing, Owes, Holds
<1>4. ASSUME NEW q \in Owing(poller, m) PROVE h <= ov \/ o = 0
  <2>1. q \in Poller /\ poller[q].batch \in Seq(Entry) /\ Holds(poller[q].batch, m)
    BY DEF Owing, Owes, Shapes, PollerType
  <2>2. PICK e \in Entries(poller[q].batch) : e.id = m /\ e.retry \in Nat
    BY <2>1, EntryFacts
  <2>3. e.retry <= t
    BY <2>1, <2>2 DEF Copies
  <2>4. t + h + o <= e.retry + ov + 1
    BY <1>2, <2>2
  <2>5. o \in {0, 1}
    BY DEF Open
  <2> HIDE DEF t, h, o, ov
  <2> QED BY <1>1, <2>2, <2>3, <2>4, <2>5
<1>5. CASE Holds(x.batch, m)
  <2>1. o = 1 /\ u = 0 /\ row[m].status \in Waiting
    BY <1>0, <1>5 DEF Leases, Eligible, Open
  <2>2. Owing(poller', m) = Owing(poller, m) \cup {p}
    BY <1>0, <1>3, <1>5 DEF Owing, Owes
  <2>3. k = h + 1
    BY <1>3, <2>2, OwingCount, FS_AddElement
  <2>4. h <= ov
    <3>1. CASE Owing(poller, m) = {}
      <4>1. h = 0
        BY <3>1, FS_EmptySet
      <4> HIDE DEF h, ov
      <4> QED BY <1>1, <4>1
    <3>2. CASE Owing(poller, m) # {}
      BY <1>4, <2>1, <3>2
    <3> QED BY <3>1, <3>2
  <2>5. t + h + 1 <= MaxRetries + ov
    <3>1. CASE Owing(poller, m) = {}
      <4>1. h = 0
        BY <3>1, FS_EmptySet
      <4> HIDE DEF h, ov, t
      <4> QED BY <1>1, <1>2, <2>1, <4>1
    <3>2. CASE Owing(poller, m) # {}
      BY <1>2, <2>1, <3>2
    <3> QED BY <3>1, <3>2
  <2>6. ASSUME NEW q \in Owing(poller', m), NEW e \in Entries(poller'[q].batch), e.id = m
        PROVE  t + h + 1 <= e.retry + ov + 1
    <3>1. CASE q = p
      <4>1. e.retry = t
        BY <1>0, <2>6, <3>1 DEF Leases
      <4> HIDE DEF h, ov, t
      <4> QED BY <1>1, <2>4, <4>1
    <3>2. CASE q # p
      <4>1. q \in Owing(poller, m) /\ poller'[q] = poller[q]
        BY <1>0, <2>2, <3>2 DEF Owing
      <4> QED BY <1>2, <2>1, <2>6, <4>1
    <3> QED BY <3>1, <3>2
  <2> HIDE DEF h, k, t, u, o, ov
  <2>7. t + k + u = t + h + 1
    BY <1>1, <2>1, <2>3
  <2> QED BY <1>0, <1>2, <2>5, <2>6, <2>7 DEF BudgetOf, k, u, ov
<1>6. CASE ~Holds(x.batch, m)
  <2>1. Owing(poller', m) = Owing(poller, m) /\ k = h
    BY <1>0, <1>3, <1>6 DEF Owing, Owes
  <2>2. u = o
    BY <1>0, <1>6 DEF Open
  <2>3. \A q \in Owing(poller', m) : q \in Owing(poller, m) /\ poller'[q] = poller[q]
    BY <1>0, <1>3, <2>1 DEF Owing
  <2> HIDE DEF h, k, t, u, o, ov
  <2> QED BY <1>0, <1>2, <2>1, <2>2, <2>3 DEF BudgetOf, k, u, ov
<1> QED BY <1>5, <1>6

\* An eligible row is in nobody's hands, and what is older than it and not leased with
\* it went before it, failed before or is in someone's hands.
LEMMA CalmLeases ==
    ASSUME IInv, NEW p \in Poller, NEW x, Leases(p, x), UNCHANGED <<topic, created, saved>>, Apart, Ordered
    PROVE  Apart' /\ Ordered'
<1>0. /\ poller'[p] = x /\ \A q \in Poller \ {p} : poller'[q] = poller[q]
      /\ \A m \in Msg : /\ row'[m].retry = row[m].retry /\ row'[m].status = row[m].status
                        /\ row'[m].leased <=> (row[m].leased \/ Holds(x.batch, m))
      /\ x.pc = "publish" /\ poller[p].batch = <<>> /\ poller[p].pc = "idle"
      /\ \A m : Holds(x.batch, m) => m \in Eligible
      /\ \A m, k \in Msg :
            Holds(x.batch, m) /\ k \in Eligible /\ created[k] < created[m] => Holds(x.batch, k)
  BY DEF Leases, Moved
<1>1. \A q \in Poller : \A n : InHand(q, n) <=> Holds(poller[q].batch, n)
  BY DEF InHand, Holds
<1>2. \A q \in Poller : \A n : InHand(q, n)' <=> Holds(poller'[q].batch, n)
  BY DEF InHand, Holds
<1>3. \A n : ~InHand(p, n) /\ ~Owes(poller[p], n)
  BY <1>0 DEF InHand, Owes, Holds
<1>4. \A n : Owes(x, n) <=> Holds(x.batch, n)
  BY <1>0 DEF Owes
<1>5. \A n \in Eligible : /\ n \in Msg /\ row[n].status \in Waiting
                          /\ \A q \in Poller : ~InHand(q, n)
  BY DEF Apart, Eligible, Waiting
<1>6. \A q, r \in Poller, n \in Msg : InHand(q, n)' /\ InHand(r, n)' => q = r
  BY <1>0, <1>1, <1>2, <1>5 DEF Apart
<1>7. ASSUME NEW q \in Poller, NEW n \in Msg
      PROVE  /\ Owes(poller'[q], n) => row'[n].leased /\ row'[n].status \in Waiting
             /\ InHand(q, n)' /\ ~Owes(poller'[q], n) => row'[n].status = "DEAD_LETTER"
  <2>1. CASE q = p
    BY <1>0, <1>2, <1>4, <1>5, <2>1
  <2>2. CASE q # p
    BY <1>0, <1>1, <1>2, <2>2 DEF Apart
  <2> QED BY <2>1, <2>2
<1>8. ASSUME NEW n \in Msg, row'[n].status = "PENDING", row'[n].leased
      PROVE  \E q \in Poller : InHand(q, n)'
  <2>1. CASE Holds(x.batch, n)
    BY <1>0, <1>2, <2>1
  <2>2. CASE ~Holds(x.batch, n)
    <3>1. PICK q \in Poller : InHand(q, n)
      BY <1>0, <1>8, <2>2 DEF Apart
    <3> QED BY <1>0, <1>1, <1>2, <1>3, <3>1
  <2> QED BY <2>1, <2>2
<1>9. ASSUME NEW n \in Msg
      PROVE  /\ topic[n] <= 1
             /\ topic[n] > 0 =>
                   \/ row'[n].status = "PUBLISHED"
                   \/ \E q \in Poller : poller'[q].pc = "markPublished" /\ Head(poller'[q].batch).id = n
  <2>1. /\ topic[n] <= 1
        /\ topic[n] > 0 =>
              \/ row[n].status = "PUBLISHED"
              \/ \E q \in Poller : poller[q].pc = "markPublished" /\ Head(poller[q].batch).id = n
    BY DEF Apart, At, Current
  <2> QED BY <1>0, <2>1
<1>10. Apart'
  BY <1>6, <1>7, <1>8, <1>9 DEF Apart, At, Current
<1>11. \A n : (\E q \in Poller : InHand(q, n)) => \E q \in Poller : InHand(q, n)'
  BY <1>0, <1>1, <1>2, <1>3
<1>12. Ordered'
  <2> SUFFICES ASSUME NEW q \in Poller, NEW n \in Msg, NEW k \in Msg, InHand(q, n)', Before(k, n)'
               PROVE  topic[k] > 0 \/ row[k].retry > 0 \/ \E r \in Poller : InHand(r, k)'
    BY <1>0 DEF Ordered
  <2>1. Before(k, n) /\ created[k] < created[n] /\ \E i \in DOMAIN saved : saved[i] = k
    BY DEF Before
  <2>2. CASE q # p
    <3>1. InHand(q, n)
      BY <1>0, <1>1, <1>2, <2>2
    <3> QED BY <1>11, <2>1, <3>1 DEF Ordered
  <2>3. CASE q = p
    <3>1. Holds(x.batch, n)
      BY <1>0, <1>2, <2>3
    <3>2. CASE k \in Eligible
      <4>1. Holds(x.batch, k)
        BY <1>0, <2>1, <3>1, <3>2
      <4> QED BY <1>0, <1>2, <4>1
    <3>3. CASE k \notin Eligible
      <4>1. row[k].status # "NONE"
        BY <2>1 DEF IInv, SavedOnce
      <4>2. row[k].status \in Waiting => row[k].leased
        BY <3>3 DEF Eligible
      <4>3. row[k] \in RowType /\ row[k].status \in {"PENDING", "FAILED", "NONE", "PUBLISHED", "DEAD_LETTER"}
            /\ row[k].retry \in Nat
        BY DEF IInv, Shapes, RowType, Waiting
      <4>4. CASE row[k].status = "PENDING"
        <5>1. row[k].leased
          BY <4>2, <4>4 DEF Waiting
        <5> QED BY <1>11, <4>4, <5>1 DEF Apart
      <4>5. CASE row[k].status \in {"FAILED", "PUBLISHED"}
        BY <4>5 DEF IInv, Rows
      <4>6. CASE row[k].status = "DEAD_LETTER"
        <5>1. row[k].retry >= MaxRetries
          BY <4>6 DEF IInv, Rows
        <5> QED BY <4>3, <5>1, OutboxAssumption
      <4> QED BY <4>1, <4>3, <4>4, <4>5, <4>6
    <3> QED BY <3>2, <3>3
  <2> QED BY <2>2, <2>3
<1> QED BY <1>10, <1>12

\* LeaseMessages: each part of the invariant for the new batch.
LEMMA LeaseMessagesKeeps ==
    ASSUME IInv, NEW p \in Poller, LeaseMessages(p) PROVE IInv'
<1>0. /\ Shapes /\ Batches /\ Rows /\ Copies /\ Budget /\ SavedOnce
      /\ UNCHANGED <<topic, dlq, dlqTopic, created, saved, faults, overruns>>
  BY DEF IInv, LeaseMessages
<1>1. PICK x : Leases(p, x)
  BY <1>0, LeaseMoves
<1>2. /\ poller'[p] = x /\ \A q \in Poller \ {p} : poller'[q] = poller[q]
      /\ poller' \in [Poller -> PollerType] /\ BatchOK(x) /\ row' \in [Msg -> RowType]
      /\ \A m \in Msg : /\ row'[m].retry = row[m].retry /\ row'[m].status = row[m].status
                        /\ row'[m].leased <=> (row[m].leased \/ Holds(x.batch, m))
      /\ x.pc = "publish" /\ poller[p].batch = <<>> /\ poller[p].pc = "idle"
      /\ \A m : Holds(x.batch, m) => m \in Eligible
      /\ \A e \in Entries(x.batch) : e.id \in Eligible /\ e.retry = row[e.id].retry
  BY <1>1 DEF Leases, Moved
<1>3. Shapes'
  BY <1>0, <1>2 DEF Shapes
<1>4. Batches'
  BY <1>0, <1>2 DEF Batches
<1>5. Rows'
  <2> SUFFICES ASSUME NEW n \in Msg
               PROVE  /\ row'[n].status = "NONE" => row'[n].retry = 0 /\ ~row'[n].leased
                      /\ row'[n].status = "PUBLISHED" => topic[n] > 0
                      /\ row'[n].status = "FAILED" => row'[n].retry > 0
                      /\ row'[n].status = "DEAD_LETTER" =>
                            /\ row'[n].retry >= MaxRetries
                            /\ \/ n \in dlq
                               \/ \E q \in Poller : poller'[q].pc = "saveDeadLetter"
                                                    /\ Head(poller'[q].batch).id = n
                               \/ faults > 0
    BY <1>0 DEF Rows, At, Current
  <2>1. /\ row[n].status = "NONE" => row[n].retry = 0 /\ ~row[n].leased
        /\ row[n].status = "PUBLISHED" => topic[n] > 0
        /\ row[n].status = "FAILED" => row[n].retry > 0
        /\ row[n].status = "DEAD_LETTER" =>
              /\ row[n].retry >= MaxRetries
              /\ \/ n \in dlq
                 \/ \E q \in Poller : poller[q].pc = "saveDeadLetter" /\ Head(poller[q].batch).id = n
                 \/ faults > 0
    BY <1>0 DEF Rows, At, Current
  <2>2. row[n].status = "NONE" => ~Holds(x.batch, n)
    BY <1>2 DEF Eligible, Waiting
  <2> QED BY <1>2, <2>1, <2>2
<1>6. Copies'
  <2>1. ASSUME NEW q \in Poller, NEW e \in Entries(poller'[q].batch)
        PROVE  row'[e.id].status # "NONE" /\ e.retry <= row'[e.id].retry
    <3>1. CASE q = p
      <4>1. e.id \in Msg /\ row[e.id].status # "NONE" /\ e.retry = row[e.id].retry
        BY <1>2, <2>1, <3>1 DEF Eligible, Waiting
      <4>2. row[e.id].retry \in Nat
        BY <1>0, <4>1 DEF Shapes, RowType
      <4> QED BY <1>2, <4>1, <4>2
    <3>2. CASE q # p
      <4>1. e \in Entries(poller[q].batch) /\ poller[q].batch \in Seq(Entry)
        BY <1>0, <1>2, <2>1, <3>2 DEF Shapes, PollerType
      <4>2. e.id \in Msg
        BY <4>1, EntryFacts
      <4> QED BY <1>0, <1>2, <4>1, <4>2 DEF Copies
    <3> QED BY <3>1, <3>2
  <2>2. ASSUME NEW q \in Poller, poller'[q].pc = "markPublished"
        PROVE  topic[Head(poller'[q].batch).id] > 0
    <3>1. q # p /\ poller'[q] = poller[q]
      BY <1>2, <2>2
    <3> QED BY <1>0, <2>2, <3>1 DEF Copies, At, Current
  <2> QED BY <1>0, <2>1, <2>2 DEF Copies, At, Current
<1>7. Budget'
  <2> SUFFICES ASSUME NEW n \in Msg PROVE BudgetOf(n, row'[n], poller', overruns)
    BY <1>0 DEF Budget
  <2> QED BY <1>0, <1>1, BudgetLeases DEF Budget
<1>8. SavedOnce'
  BY <1>0, <1>2 DEF SavedOnce
<1>9. Calm'
  BY <1>0, <1>1, CalmLeases DEF IInv, Calm
<1> QED BY <1>3, <1>4, <1>5, <1>6, <1>7, <1>8, <1>9 DEF IInv

-----------------------------------------------------------------------------
(* Theorems *)

\* At the start nothing is stored and no poller works.
LEMMA InitIInv == Init => IInv
<1> SUFFICES ASSUME Init PROVE IInv
  OBVIOUS
<1>1. NoRow \in RowType /\ NoRow.status = "NONE" /\ NoRow.retry = 0 /\ ~NoRow.leased
  BY DEF NoRow, RowType
<1>2. Idle \in PollerType /\ Idle.pc = "idle" /\ Idle.batch = <<>>
  BY DEF Idle, PollerType, Steps
<1>3. /\ \A m \in Msg : row[m] = NoRow /\ topic[m] = 0
      /\ \A p \in Poller : poller[p] = Idle
      /\ saved = <<>> /\ faults = 0 /\ overruns = 0
  BY DEF Init
<1>4. Shapes
  <2>1. row \in [Msg -> RowType] /\ poller \in [Poller -> PollerType] /\ topic \in [Msg -> 0 .. 2]
    BY <1>1, <1>2 DEF Init
  <2>2. created \in [Msg -> Nat] /\ saved \in Seq(Msg) /\ dlq \subseteq Msg /\ dlqTopic \subseteq Msg
    BY DEF Init
  <2> QED BY <1>3, <2>1, <2>2, OutboxAssumption DEF Shapes
<1>5. \A m : \A p \in Poller : ~Holds(poller[p].batch, m) /\ ~Owes(poller[p], m)
  BY <1>2, <1>3 DEF Holds, Owes
<1>6. Batches
  BY <1>2, <1>3, OutboxAssumption DEF Batches, BatchOK, Distinct
<1>7. Rows
  BY <1>1, <1>3 DEF Rows
<1>8. Copies
  BY <1>2, <1>3 DEF Copies, Entries, At
<1>9. Budget
  <2>1. NoRow.retry <= MaxRetries + overruns /\ NoRow.status \notin Waiting
    BY <1>1, <1>3, OutboxAssumption DEF Waiting
  <2> QED BY <1>3, <1>5, <2>1 DEF Budget, BudgetOf, Owing
<1>10. SavedOnce
  BY <1>1, <1>3 DEF SavedOnce
<1>11. \A m : \A p \in Poller : ~InHand(p, m)
  BY <1>5 DEF InHand, Holds
<1>12. Apart /\ Ordered
  BY <1>1, <1>3, <1>5, <1>11 DEF Apart, Ordered
<1> QED BY <1>4, <1>6, <1>7, <1>8, <1>9, <1>10, <1>12 DEF IInv, Calm

\* Every step keeps the inductive invariant.
LEMMA NextIInv == IInv /\ [Next]_vars => IInv'
<1> SUFFICES ASSUME IInv, [Next]_vars PROVE IInv'
  OBVIOUS
<1>0. ASSUME NEW m \in Msg, NEW t \in Time, SaveMessage(m, t) PROVE IInv'
  BY <1>0, SaveMessageKeeps
<1>1. ASSUME NEW m \in Msg, LeaseExpires(m) \/ LeaseOverrun(m) PROVE IInv'
  BY <1>1, ReleaseKeeps
<1>2. ASSUME NEW p \in Poller, LeaseMessages(p) PROVE IInv'
  BY <1>2, LeaseMessagesKeeps
<1>3. ASSUME NEW p \in Poller, Work(p) PROVE IInv'
  BY <1>3, PublishKeeps, MarkPublishedKeeps, MarkFailedKeeps, SaveDeadLetterKeeps, EmitDeadLetterKeeps
     DEF Work
<1>4. ASSUME NEW p \in Poller, PublishUnacked(p) \/ StatementFails(p) \/ Crash(p) PROVE IInv'
  BY <1>4, PublishUnackedKeeps, FaultKeeps
<1>5. CASE UNCHANGED vars
  BY <1>5 DEF vars, IInv, Shapes, Batches, Rows, Copies, Budget, SavedOnce, Calm, Apart, Ordered,
     Before, At, Current, InHand
<1> QED BY <1>0, <1>1, <1>2, <1>3, <1>4, <1>5 DEF Next

\* The parts of the invariant hold in every reachable state.
THEOREM Invariance == Spec => []IInv
<1>1. Init => IInv
  BY InitIInv
<1>2. IInv /\ [Next]_vars => IInv'
  BY NextIInv
<1> QED BY <1>1, <1>2, PTL DEF Spec

\* NothingLost for any number of messages, pollers and faults: rows, batches and
\* counters have their types, what is marked PUBLISHED is in its topic, and what is
\* given up is in dead_letter_messages, about to be written there, or hit by a fault.
THEOREM NothingLostHolds == Spec => []NothingLost
<1>1. IInv => NothingLost
  <2> SUFFICES ASSUME IInv PROVE NothingLost
    OBVIOUS
  <2>1. ASSUME NEW p \in Poller
        PROVE  /\ poller[p].pc \in {"idle", "publish", "markPublished", "markFailed",
                                    "saveDeadLetter", "emitDeadLetter"}
               /\ poller[p].pc = "idle" <=> poller[p].batch = <<>>
               /\ Len(poller[p].batch) <= BatchSize
               /\ \A i \in DOMAIN poller[p].batch : row[poller[p].batch[i].id].status # "NONE"
    <3>1. poller[p] \in PollerType /\ BatchOK(poller[p])
      BY DEF IInv, Shapes, Batches
    <3>2. poller[p].pc \in Steps
      BY <3>1 DEF PollerType
    <3>3. \A i \in DOMAIN poller[p].batch : row[poller[p].batch[i].id].status # "NONE"
      BY DEF IInv, Copies, Entries
    <3> QED BY <3>1, <3>2, <3>3 DEF BatchOK, Steps
  <2>2. TypeOK
    BY <2>1 DEF TypeOK, IInv, Shapes, RowType
  <2> QED BY <2>2 DEF NothingLost, IInv, Rows
<1> QED BY <1>1, Invariance, PTL

\* RetriesUsedUp for any MaxRetries: no message is given up early on a stale retry
\* count, and only overruns let attempts exceed MaxRetries, one each.
THEOREM RetriesUsedUpHolds == Spec => []RetriesUsedUp
<1>1. IInv => RetriesUsedUp
  BY DEF IInv, Rows, Budget, BudgetOf, RetriesUsedUp
<1> QED BY <1>1, Invariance, PTL

\* DuplicatesExplained for any number of pollers: without a fault or an overrun a
\* message is published once at most and is with one poller at most.
THEOREM DuplicatesExplainedHolds == Spec => []DuplicatesExplained
<1>1. IInv => DuplicatesExplained
  <2> SUFFICES ASSUME IInv, NEW m \in Msg, ~(faults + overruns > 0)
               PROVE  topic[m] <= 1 /\ Cardinality({p \in Poller : InHand(p, m)}) <= 1
    BY DEF DuplicatesExplained
  <2>1. faults \in Nat /\ overruns \in Nat
    BY OutboxAssumption DEF IInv, Shapes
  <2>2. faults = 0 /\ overruns = 0
    BY <2>1
  <2>3. Apart
    BY <2>2 DEF IInv, Calm
  <2>4. topic[m] <= 1
    BY <2>3 DEF Apart
  <2> DEFINE held == {p \in Poller : InHand(p, m)}
  <2>5. CASE held = {}
    <3>1. Cardinality({}) = 0
      BY FS_EmptySet
    <3>2. Cardinality(held) <= 1
      BY <2>5, <3>1
    <3> QED BY <2>4, <3>2
  <2>6. ASSUME NEW p \in held PROVE Cardinality(held) <= 1
    <3>1. held = {p}
      BY <2>3 DEF Apart
    <3>2. Cardinality({p}) = 1
      BY FS_Singleton
    <3> HIDE DEF held
    <3> QED BY <3>1, <3>2
  <2> QED BY <2>4, <2>5, <2>6
<1> QED BY <1>1, Invariance, PTL

\* Only the poller at work on a message puts it into its topic.
LEMMA TopicGrows ==
    ASSUME IInv, [Next]_vars, NEW m \in Msg, topic[m] = 0, topic'[m] > 0
    PROVE  \E p \in Poller : At(p, "publish") /\ Current(p) = m
<1>1. ASSUME NEW p \in Poller, At(p, "publish"), Delivered(Current(p)) PROVE Current(p) = m
  <2>1. Current(p) \in Msg
    BY <1>1, CurrentFacts DEF IInv, At
  <2> QED BY <1>1, <2>1, DeliveredFacts DEF IInv
<1>2. CASE UNCHANGED topic
  BY <1>2
<1>3. ASSUME NEW p \in Poller, Publish(p) \/ PublishUnacked(p)
      PROVE  \E q \in Poller : At(q, "publish") /\ Current(q) = m
  BY <1>1, <1>2, <1>3 DEF Publish, PublishUnacked
<1>4. CASE UNCHANGED vars
  BY <1>2, <1>4 DEF vars
<1>5. ASSUME NEW n \in Msg, (\E t \in Time : SaveMessage(n, t)) \/ LeaseExpires(n) \/ LeaseOverrun(n)
      PROVE  UNCHANGED topic
  BY <1>5 DEF SaveMessage, LeaseExpires, LeaseOverrun
<1>6. ASSUME NEW p \in Poller, \/ LeaseMessages(p) \/ MarkPublished(p) \/ MarkFailed(p)
                               \/ SaveDeadLetter(p) \/ EmitDeadLetter(p)
                               \/ StatementFails(p) \/ Crash(p)
      PROVE  UNCHANGED topic
  BY <1>6 DEF LeaseMessages, MarkPublished, MarkFailed, SaveDeadLetter, EmitDeadLetter,
     StatementFails, Crash
<1> QED BY <1>2, <1>3, <1>4, <1>5, <1>6 DEF Next, Work

\* A batch is worked through from its oldest message on.
InOrder(c, batch) == \A i, j \in DOMAIN batch : i < j => c[batch[i].id] <= c[batch[j].id]
OldestNext == \A p \in Poller : InOrder(created, poller[p].batch)

\* Dropping the first message leaves a batch in order.
LEMMA TailInOrder ==
    ASSUME NEW c, NEW b \in Seq(Entry), b # <<>>, InOrder(c, b)
    PROVE  InOrder(c, Tail(b))
<1>1. /\ \A i \in DOMAIN Tail(b) : Tail(b)[i] = b[i + 1] /\ i + 1 \in DOMAIN b /\ i \in Nat
  OBVIOUS
<1>2. \A i, j \in DOMAIN Tail(b) : i < j => i + 1 < j + 1
  BY <1>1
<1> QED BY <1>1, <1>2 DEF InOrder

\* Every step leaves the batches in order: a lease takes its rows in the order of
\* created_at, and a message that is stored is in no batch.
LEMMA NextOldest == IInv /\ OldestNext /\ [Next]_vars => OldestNext'
<1> SUFFICES ASSUME IInv, OldestNext, [Next]_vars PROVE OldestNext'
  OBVIOUS
<1>0. Shapes /\ Batches
  BY DEF IInv
<1>1. ASSUME UNCHANGED created, NEW p \in Poller, NEW x, poller' = [poller EXCEPT ![p] = x],
             InOrder(created, x.batch)
      PROVE  OldestNext'
  BY <1>0, <1>1 DEF OldestNext, Shapes
<1>2. ASSUME UNCHANGED created, NEW p \in Poller, NEW l, Goto(p, l) PROVE OldestNext'
  BY <1>1, <1>2 DEF Goto, OldestNext
<1>3. ASSUME UNCHANGED created, NEW p \in Poller, ~At(p, "idle"), Advance(p) PROVE OldestNext'
  <2>1. poller[p].batch \in Seq(Entry) /\ poller[p].batch # <<>>
    BY <1>0, <1>3, CurrentFacts
  <2>2. InOrder(created, Tail(poller[p].batch))
    BY <2>1, TailInOrder DEF OldestNext
  <2> DEFINE x == [pc |-> IF Tail(poller[p].batch) = <<>> THEN "idle" ELSE "publish",
                   batch |-> Tail(poller[p].batch)]
  <2>3. InOrder(created, x.batch) /\ poller' = [poller EXCEPT ![p] = x]
    BY <1>3, <2>2 DEF Advance
  <2> HIDE DEF x
  <2> QED BY <1>1, <1>3, <2>3
<1>4. ASSUME NEW p \in Poller, LeaseMessages(p) PROVE OldestNext'
  <2>1. PICK ids \in [1 .. Limit(Cardinality(Eligible)) -> Eligible] :
           /\ OldestFirst(ids, Eligible)
           /\ poller' = [poller EXCEPT ![p] = [pc |-> "publish", batch |-> Leased(ids)]]
    BY <1>4 DEF LeaseMessages
  <2>2. DOMAIN Leased(ids) = DOMAIN ids /\ \A i \in DOMAIN ids : Leased(ids)[i].id = ids[i]
    BY DEF Leased
  <2>3. InOrder(created, Leased(ids))
    BY <2>1, <2>2 DEF InOrder, OldestFirst
  <2>4. UNCHANGED created
    BY <1>4 DEF LeaseMessages
  <2> DEFINE x == [pc |-> "publish", batch |-> Leased(ids)]
  <2>5. InOrder(created, x.batch) /\ poller' = [poller EXCEPT ![p] = x]
    BY <2>1, <2>3
  <2> HIDE DEF x
  <2> QED BY <1>1, <2>4, <2>5
<1>5. ASSUME NEW m \in Msg, NEW t \in Time, SaveMessage(m, t) PROVE OldestNext'
  <2>1. /\ created' = [created EXCEPT ![m] = t] /\ UNCHANGED poller
        /\ Shapes /\ Copies /\ row[m].status = "NONE"
    BY <1>5 DEF SaveMessage, IInv
  <2>2. \A q \in Poller : \A n : Holds(poller[q].batch, n) => n \in Msg /\ n # m
    BY <2>1, HeldIsStored
  <2>3. \A q \in Poller : \A i \in DOMAIN poller[q].batch :
           created'[poller[q].batch[i].id] = created[poller[q].batch[i].id]
    BY <2>1, <2>2 DEF Holds, Shapes
  <2> QED BY <2>1, <2>3 DEF OldestNext, InOrder
<1>6. ASSUME NEW m \in Msg, LeaseExpires(m) \/ LeaseOverrun(m) PROVE OldestNext'
  BY <1>6 DEF LeaseExpires, LeaseOverrun, OldestNext
<1>7. ASSUME NEW p \in Poller, Publish(p) \/ PublishUnacked(p) \/ SaveDeadLetter(p)
      PROVE  OldestNext'
  BY <1>2, <1>7 DEF Publish, PublishUnacked, SaveDeadLetter
<1>8. ASSUME NEW p \in Poller, MarkPublished(p) \/ MarkFailed(p) \/ EmitDeadLetter(p)
                               \/ StatementFails(p)
      PROVE  OldestNext'
  BY <1>2, <1>3, <1>8 DEF MarkPublished, MarkFailed, EmitDeadLetter, StatementFails, At
<1>9. ASSUME NEW p \in Poller, Crash(p) PROVE OldestNext'
  <2>1. InOrder(created, Idle.batch)
    BY DEF InOrder, Idle
  <2> QED BY <1>1, <1>9, <2>1 DEF Crash
<1>10. CASE UNCHANGED vars
  BY <1>10 DEF vars, OldestNext
<1> QED BY <1>4, <1>5, <1>6, <1>7, <1>8, <1>9, <1>10 DEF Next, Work

\* The batches are in order in every reachable state.
LEMMA OldestAlways == Spec => []OldestNext
<1>1. Init => OldestNext
  BY DEF Init, OldestNext, InOrder, Idle
<1> QED BY <1>1, NextOldest, Invariance, PTL DEF Spec

\* OvertakesExplained for any number of messages, pollers and rows in a batch: an event
\* overtakes an older one only when that one failed before, is with another poller, or
\* there was a fault or an overrun.
THEOREM OvertakesExplainedHolds == Spec => OvertakesExplained
<1> DEFINE Step == \A m, k \in Msg :
                       Overtakes(m, k) =>
                           \/ row[k].retry > 0
                           \/ \E p \in Poller : InHand(p, k) /\ ~InHand(p, m)
                           \/ faults + overruns > 0
<1>1. IInv /\ OldestNext /\ [Next]_vars => [Step]_vars
  <2> SUFFICES ASSUME IInv, OldestNext, [Next]_vars, NEW m \in Msg, NEW k \in Msg, Overtakes(m, k),
                      ~(row[k].retry > 0), ~(faults + overruns > 0)
               PROVE  \E p \in Poller : InHand(p, k) /\ ~InHand(p, m)
    OBVIOUS
  <2>1. faults \in Nat /\ overruns \in Nat
    BY OutboxAssumption DEF IInv, Shapes
  <2>2. faults = 0 /\ overruns = 0
    BY <2>1
  <2>3. Apart /\ Ordered
    BY <2>2 DEF IInv, Calm
  <2>4. PICK p \in Poller : At(p, "publish") /\ Current(p) = m
    BY TopicGrows DEF Overtakes
  <2>5. InHand(p, m) /\ \A n : Holds(poller[p].batch, n) => n = m \/ created[m] <= created[n]
    <3>1. /\ InHand(p, m) /\ poller[p].batch \in Seq(Entry) /\ poller[p].batch # <<>>
      BY <2>4, CurrentFacts DEF IInv, At
    <3>2. /\ 1 \in DOMAIN poller[p].batch /\ poller[p].batch[1].id = m
          /\ \A i \in DOMAIN poller[p].batch : i = 1 \/ 1 < i
      BY <2>4, <3>1 DEF Current
    <3>3. \A i \in DOMAIN poller[p].batch :
              i = 1 \/ created[m] <= created[poller[p].batch[i].id]
      BY <3>2 DEF OldestNext, InOrder
    <3> QED BY <3>1, <3>2, <3>3 DEF Holds
  <2>6. Before(k, m) /\ ~(topic[k] > 0) /\ created[k] < created[m]
    BY DEF Overtakes, Before
  <2>7. PICK q \in Poller : InHand(q, k)
    BY <2>3, <2>5, <2>6 DEF Ordered
  <2>8. q # p
    <3>1. created[k] \in Nat /\ created[m] \in Nat
      BY DEF IInv, Shapes
    <3>2. k # m /\ ~(created[m] <= created[k])
      BY <2>6, <3>1
    <3>3. ~Holds(poller[p].batch, k)
      BY <2>5, <3>2
    <3> QED BY <2>7, <3>3 DEF InHand, Holds
  <2>9. ~InHand(q, m)
    BY <2>3, <2>5, <2>8 DEF Apart
  <2> QED BY <2>7, <2>9
<1> QED BY <1>1, Invariance, OldestAlways, PTL DEF Spec, OvertakesExplained
=============================================================================
