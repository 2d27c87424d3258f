-------------------------------- MODULE Outbox --------------------------------
(***************************************************************************)
(* The transactional outbox: internal/domain/outbox.  Pollers lease rows   *)
(* in one short transaction, publish them to Kafka with no transaction     *)
(* open, and record the outcome in later statements, so a crash or another *)
(* poller can come between any two of these steps.                         *)
(*                                                                         *)
(* Time is abstract: leased_until is in the future (leased) or not, for a  *)
(* poller's lease and for a retry's backoff alike.  A lease normally       *)
(* outlives the poller's work on the row; one that does not is an overrun  *)
(* (a batch of synchronous publishes that takes longer than the lease; the *)
(* poller never calls ExtendLease).                                        *)
(***************************************************************************)
EXTENDS Naturals, Sequences, FiniteSets

CONSTANTS
    Msg,            \* messages
    Time,           \* values of created_at
    Poller,         \* pollers, one per running instance
    BatchSize,      \* rows leased at a time
    MaxRetries,     \* BackoffPolicy.MaxRetries
    MaxFaults,      \* bound on crashes, lost acknowledgements, database errors
    MaxOverruns     \* bound on leases that end while their poller works

ASSUME OutboxAssumption ==
    /\ IsFiniteSet(Msg) /\ IsFiniteSet(Poller)
    /\ Time \subseteq Nat
    /\ BatchSize \in Nat \ {0}
    /\ MaxRetries \in Nat \ {0}
    /\ MaxFaults \in Nat /\ MaxOverruns \in Nat

VARIABLES
    row,        \* outbox_messages: status, retry_count, lease
    topic,      \* how often each message is in its Kafka topic (0, 1, many)
    dlq,        \* messages with a dead_letter_messages row
    dlqTopic,   \* messages sent to the dead letter topic
    created,    \* created_at of each message
    saved,      \* the messages in the order in which they were committed
    poller,     \* where each poller is, and the rows it read when leasing
    faults, overruns

vars == <<row, topic, dlq, dlqTopic, created, saved, poller, faults, overruns>>

Waiting == {"PENDING", "FAILED"}

NoRow == [status |-> "NONE", retry |-> 0, leased |-> FALSE]
Idle == [pc |-> "idle", batch |-> <<>>]

Init ==
    /\ row = [m \in Msg |-> NoRow]
    /\ topic = [m \in Msg |-> 0]
    /\ dlq = {} /\ dlqTopic = {}
    /\ created = [m \in Msg |-> 0] /\ saved = <<>>
    /\ poller = [p \in Poller |-> Idle]
    /\ faults = 0 /\ overruns = 0

\* The message a poller works on, and its retry_count when it was leased.
Current(p) == Head(poller[p].batch).id
LeasedRetry(p) == Head(poller[p].batch).retry

At(p, l) == poller[p].pc = l
Goto(p, l) == poller' = [poller EXCEPT ![p] = [pc |-> l, batch |-> @.batch]]

\* On to the next message of the batch.
Advance(p) ==
    LET rest == Tail(poller[p].batch)
    IN  poller' = [poller EXCEPT ![p] =
                     [pc |-> IF rest = <<>> THEN "idle" ELSE "publish", batch |-> rest]]

Fault == faults < MaxFaults /\ faults' = faults + 1

-----------------------------------------------------------------------------
\* InsertOutboxMessage or SaveMessage, in the business transaction: created_at is
\* NOW(), the time t at which that began, whenever it commits.  What one transaction
\* stores has one created_at; it comes in one by one here, which adds behaviours.
SaveMessage(m, t) ==
    /\ row[m].status = "NONE"
    /\ row' = [row EXCEPT ![m] = [status |-> "PENDING", retry |-> @.retry, leased |-> @.leased]]
    /\ created' = [created EXCEPT ![m] = t]
    /\ saved' = Append(saved, m)
    /\ UNCHANGED <<topic, dlq, dlqTopic, poller, faults, overruns>>

\* Mutant: rows that failed once are not leased again.
EligiblePending == {m \in Msg : row[m].status = "PENDING" /\ ~row[m].leased}

Eligible == {m \in Msg : row[m].status \in Waiting /\ ~row[m].leased}

\* Mutant: the newest rows first.
NewestFirst(ids, from) ==
    /\ \A i, j \in DOMAIN ids :
          i < j => ids[i] # ids[j] /\ created[ids[i]] >= created[ids[j]]
    /\ \A m \in from, i \in DOMAIN ids :
          created[m] > created[ids[i]] => \E j \in DOMAIN ids : ids[j] = m

\* ORDER BY created_at ASC LIMIT: ids are the first of the rows selected.
\* Nothing decides between rows of equal created_at.
OldestFirst(ids, from) ==
    /\ \A i, j \in DOMAIN ids :
          i < j => ids[i] # ids[j] /\ created[ids[i]] <= created[ids[j]]
    /\ \A m \in from, i \in DOMAIN ids :
          created[m] < created[ids[i]] => \E j \in DOMAIN ids : ids[j] = m

Limit(n) == IF n < BatchSize THEN n ELSE BatchSize

\* The poller's copy of the rows it leased.
Leased(ids) == [i \in DOMAIN ids |-> [id |-> ids[i], retry |-> row[ids[i]].retry]]

\* Mutant: the lease is not written.
LeaseUnmarked(p) ==
    /\ At(p, "idle")
    /\ Eligible # {}
    /\ \E ids \in [1 .. Limit(Cardinality(Eligible)) -> Eligible] :
          /\ OldestFirst(ids, Eligible)
          /\ poller' = [poller EXCEPT ![p] = [pc |-> "publish", batch |-> Leased(ids)]]
    /\ UNCHANGED <<row, topic, dlq, dlqTopic, created, saved, faults, overruns>>

\* The oldest eligible rows, at most BatchSize, are leased to p.
LeaseMessages(p) ==
    /\ At(p, "idle")
    /\ Eligible # {}
    /\ \E ids \in [1 .. Limit(Cardinality(Eligible)) -> Eligible] :
          /\ OldestFirst(ids, Eligible)
          /\ row' = [m \in Msg |->
                       [status |-> row[m].status, retry |-> row[m].retry,
                        leased |-> row[m].leased \/ \E i \in DOMAIN ids : ids[i] = m]]
          /\ poller' = [poller EXCEPT ![p] = [pc |-> "publish", batch |-> Leased(ids)]]
    /\ UNCHANGED <<topic, dlq, dlqTopic, created, saved, faults, overruns>>

Delivered(m) == topic' = [topic EXCEPT ![m] = IF @ = 0 THEN 1 ELSE 2]

\* Mutant: the outcome of Publish is ignored.
PublishUnchecked(p) ==
    /\ At(p, "publish")
    /\ Delivered(Current(p)) \/ UNCHANGED topic
    /\ Goto(p, "markPublished")
    /\ UNCHANGED <<row, dlq, dlqTopic, created, saved, faults, overruns>>

\* ProduceSync: acknowledged, or refused while Kafka is down.
Publish(p) ==
    /\ At(p, "publish")
    /\ \/ Delivered(Current(p)) /\ Goto(p, "markPublished")
       \/ UNCHANGED topic /\ Goto(p, "markFailed")
    /\ UNCHANGED <<row, dlq, dlqTopic, created, saved, faults, overruns>>

\* The record is written but its acknowledgement is lost.
PublishUnacked(p) ==
    /\ At(p, "publish")
    /\ Fault
    /\ Delivered(Current(p))
    /\ Goto(p, "markFailed")
    /\ UNCHANGED <<row, dlq, dlqTopic, created, saved, overruns>>

\* WHERE id = $1: whatever the row says by now.
MarkPublished(p) ==
    /\ At(p, "markPublished")
    /\ row' = [row EXCEPT ![Current(p)] = [status |-> "PUBLISHED", retry |-> @.retry,
                                           leased |-> FALSE]]
    /\ Advance(p)
    /\ UNCHANGED <<topic, dlq, dlqTopic, created, saved, faults, overruns>>

\* Mutant: one attempt too few.
ExceededEarly(retry) == retry >= MaxRetries - 1

IsMaxRetriesExceeded(retry) == retry >= MaxRetries

\* handlePublishFailure: the number of retries is the one read with the
\* lease, retry_count is incremented in the row.
MarkFailed(p) ==
    /\ At(p, "markFailed")
    /\ LET m == Current(p) IN
          IF IsMaxRetriesExceeded(LeasedRetry(p) + 1)
          THEN /\ row' = [row EXCEPT ![m] = [status |-> "DEAD_LETTER", retry |-> @.retry + 1,
                                            leased |-> FALSE]]
               /\ Goto(p, "saveDeadLetter")
          ELSE /\ row' = [row EXCEPT ![m] = [status |-> "FAILED", retry |-> @.retry + 1,
                                            leased |-> TRUE]]
               /\ Advance(p)
    /\ UNCHANGED <<topic, dlq, dlqTopic, created, saved, faults, overruns>>

SaveDeadLetter(p) ==
    /\ At(p, "saveDeadLetter")
    /\ dlq' = dlq \cup {Current(p)}
    /\ Goto(p, "emitDeadLetter")
    /\ UNCHANGED <<row, topic, dlqTopic, created, saved, faults, overruns>>

\* The copy for the dead letter topic; its outcome is ignored.
EmitDeadLetter(p) ==
    /\ At(p, "emitDeadLetter")
    /\ dlqTopic' \in {dlqTopic, dlqTopic \cup {Current(p)}}
    /\ Advance(p)
    /\ UNCHANGED <<row, topic, dlq, created, saved, faults, overruns>>

\* A failed UPDATE or INSERT is logged and the poller goes on.
StatementFails(p) ==
    /\ Fault
    /\ \/ At(p, "markPublished") /\ Advance(p)
       \/ At(p, "saveDeadLetter") /\ Goto(p, "emitDeadLetter")
       \/ /\ At(p, "markFailed")
          /\ IF IsMaxRetriesExceeded(LeasedRetry(p) + 1)
             THEN Goto(p, "saveDeadLetter")
             ELSE Advance(p)
    /\ UNCHANGED <<row, topic, dlq, dlqTopic, created, saved, overruns>>

\* The process dies, or Stop cancels the poll: the rest of the batch is
\* dropped and its leases run out.
Crash(p) ==
    /\ ~At(p, "idle")
    /\ Fault
    /\ poller' = [poller EXCEPT ![p] = Idle]
    /\ UNCHANGED <<row, topic, dlq, dlqTopic, created, saved, overruns>>

InHand(p, m) == \E i \in DOMAIN poller[p].batch : poller[p].batch[i].id = m

Release(m) ==
    row' = [row EXCEPT ![m] = [status |-> @.status, retry |-> @.retry, leased |-> FALSE]]

\* leased_until passes: after a backoff or for a row whose poller is gone...
LeaseExpires(m) ==
    /\ row[m].leased
    /\ \A p \in Poller : ~InHand(p, m)
    /\ Release(m)
    /\ UNCHANGED <<topic, dlq, dlqTopic, created, saved, poller, faults, overruns>>

\* ... or before its poller is done.
LeaseOverrun(m) ==
    /\ row[m].leased
    /\ \E p \in Poller : InHand(p, m)
    /\ overruns < MaxOverruns
    /\ overruns' = overruns + 1
    /\ Release(m)
    /\ UNCHANGED <<topic, dlq, dlqTopic, created, saved, poller, faults>>

\* One step of PollAndPublish after the lease.
Work(p) ==
    \/ Publish(p) \/ MarkPublished(p) \/ MarkFailed(p)
    \/ SaveDeadLetter(p) \/ EmitDeadLetter(p)

Next ==
    \/ \E m \in Msg, t \in Time : SaveMessage(m, t)
    \/ \E m \in Msg : LeaseExpires(m) \/ LeaseOverrun(m)
    \/ \E p \in Poller : LeaseMessages(p) \/ Work(p)
    \/ \E p \in Poller : PublishUnacked(p) \/ StatementFails(p) \/ Crash(p)

Spec == Init /\ [][Next]_vars

\* Pollers tick and finish what they began, and time passes.
Fairness ==
    /\ \A p \in Poller : WF_vars(LeaseMessages(p)) /\ WF_vars(Work(p))
    /\ \A m \in Msg : WF_vars(LeaseExpires(m))

FairSpec == Spec /\ Fairness

-----------------------------------------------------------------------------
(* Properties *)

\* Statuses are those of the table's CHECK, batches hold stored messages.
TypeOK ==
    /\ row \in [Msg -> [status : Waiting \cup {"NONE", "PUBLISHED", "DEAD_LETTER"},
                        retry : Nat, leased : BOOLEAN]]
    /\ topic \in [Msg -> 0 .. 2] /\ created \in [Msg -> Nat] /\ saved \in Seq(Msg)
    /\ dlq \subseteq Msg /\ dlqTopic \subseteq Msg
    /\ \A p \in Poller :
          /\ poller[p].pc \in {"idle", "publish", "markPublished", "markFailed",
                               "saveDeadLetter", "emitDeadLetter"}
          /\ poller[p].pc = "idle" <=> poller[p].batch = <<>>
          /\ Len(poller[p].batch) <= BatchSize
          /\ \A i \in DOMAIN poller[p].batch : row[poller[p].batch[i].id].status # "NONE"
    /\ faults \in 0 .. MaxFaults /\ overruns \in 0 .. MaxOverruns

\* The rows have their types and no event is lost: a row that no poller will
\* look at again is in Kafka or, without a crash or database error, in
\* dead_letter_messages or about to be written there by the poller that gave
\* it up.
NothingLost ==
    /\ TypeOK
    /\ \A m \in Msg :
          /\ row[m].status = "PUBLISHED" => topic[m] > 0
          /\ row[m].status = "DEAD_LETTER" =>
                \/ m \in dlq
                \/ \E p \in Poller : At(p, "saveDeadLetter") /\ Current(p) = m
                \/ faults > 0

\* Messages are given up only after MaxRetries failed attempts, although
\* pollers decide on a retry count they read long before; and each lease that
\* was overrun accounts for at most one attempt more than MaxRetries.
RetriesUsedUp ==
    \A m \in Msg :
        /\ row[m].status = "DEAD_LETTER" => row[m].retry >= MaxRetries
        /\ row[m].retry <= MaxRetries + overruns

\* SKIP LOCKED and the lease keep pollers apart: a message is published twice,
\* or is in the hands of two pollers, only after a fault or an overrun.
DuplicatesExplained ==
    \A m \in Msg :
        \/ faults + overruns > 0
        \/ /\ topic[m] <= 1
           /\ Cardinality({p \in Poller : InHand(p, m)}) <= 1

\* m is published before k, although k is older and was there first.
Overtakes(m, k) ==
    /\ topic[m] = 0 /\ topic'[m] > 0 /\ topic[k] = 0
    /\ created[k] < created[m]
    /\ \E i, j \in DOMAIN saved : i < j /\ saved[i] = k /\ saved[j] = m

\* Consumers see events in the order of created_at, except where the poller
\* gives that order up: a message overtakes an older one only when the older one
\* failed before and waits for its backoff (or was given up), is leased by
\* another poller, or a fault or an overrun happened.  The events of one business
\* transaction have the same created_at, and nothing is promised about their order.
OvertakesExplained ==
    [][\A m, k \in Msg :
          Overtakes(m, k) =>
              \/ row[k].retry > 0
              \/ \E p \in Poller : InHand(p, k) /\ ~InHand(p, m)
              \/ faults + overruns > 0]_vars

\* Every stored event is eventually published or given up for good.
Dispatched ==
    \A m \in Msg :
        row[m].status = "PENDING" ~> row[m].status \in {"PUBLISHED", "DEAD_LETTER"}
=============================================================================
