-------------------------------- MODULE Inbox --------------------------------
(***************************************************************************)
(* The idempotent inbox: internal/domain/inbox behind the Kafka consumer   *)
(* of internal/platform/kafka, with the notification service as handler.   *)
(* One partition of one consumer group; its records may repeat a message   *)
(* (the outbox publishes at least once).  A consumer works through the     *)
(* batch it fetched even when the partition has moved to another consumer, *)
(* which starts at the committed offset.                                   *)
(***************************************************************************)
EXTENDS Naturals, Sequences

CONSTANTS
    Consumer,       \* consumers of the group, one per running instance
    Msg,            \* message ids
    Kind,           \* Kind[m]: "mail" (an e-mail is due), "other" (no e-mail),
                    \* "poison" (rejected by the handler), "malformed" (not
                    \* JSON), "anonymous" (neither message id nor key)
    Records,        \* the partition: a sequence of message ids
    MaxFetch,       \* bound on the records of one fetch
    MaxFaults,      \* bound on crashes, database errors, lost SMTP replies
    MaxRebalances,  \* bound on reassignments of the partition
    MaxErrors       \* bound on transient errors of the handler

ASSUME InboxAssumption ==
    /\ Kind \in [Msg -> {"mail", "other", "poison", "malformed", "anonymous"}]
    /\ Records \in Seq(Msg)
    /\ MaxFetch \in Nat \ {0}
    /\ MaxFaults \in Nat /\ MaxRebalances \in Nat /\ MaxErrors \in Nat

VARIABLES
    inbox,      \* inbox_messages: status per message id
    mails,      \* e-mails sent per message (0, 1, many)
    dlq,        \* messages with a dead_letter_messages row
    committed,  \* committed offset: records below it are done for the group
    owner,      \* the consumer the partition is assigned to
    cons,       \* per consumer: what it does, the record it is at, the end of
                \* its batch, and where it fetches next
    faults, rebalances, errors

vars == <<inbox, mails, dlq, committed, owner, cons, faults, rebalances, errors>>
bounds == <<faults, rebalances, errors>>

\* A consumer about to fetch from the offset.
Fetcher(offset) == [pc |-> "poll", at |-> 1, end |-> 0, next |-> offset]

Init ==
    /\ inbox = [m \in Msg |-> "NONE"]
    /\ mails = [m \in Msg |-> 0]
    /\ dlq = {}
    /\ committed = 1
    /\ owner \in Consumer
    /\ cons = [c \in Consumer |-> Fetcher(1)]
    /\ faults = 0 /\ rebalances = 0 /\ errors = 0

At(c, l) == cons[c].pc = l
Goto(c, l) == cons' = [cons EXCEPT ![c] = [pc |-> l, at |-> @.at, end |-> @.end, next |-> @.next]]
Current(c) == Records[cons[c].at]
SetStatus(c, st) == inbox' = [inbox EXCEPT ![Current(c)] = st]
Fault == faults < MaxFaults /\ faults' = faults + 1

-----------------------------------------------------------------------------
(* The consume loop *)

\* The first step for a record: ProcessMessage looks at its id and payload.
Enter(i) == IF Kind[Records[i]] \in {"malformed", "anonymous"} THEN "reject" ELSE "insert"

\* The last record of a fetch: PollFetches returns some of the records from
\* the fetch position on.
Lasts(c) == (cons[c].next .. Len(Records)) \cap (cons[c].next .. cons[c].next + MaxFetch - 1)

\* Mutant: the whole batch is committed when it is fetched.
PollCommits(c) ==
    /\ At(c, "poll")
    /\ owner = c
    /\ \E last \in Lasts(c) :
          /\ cons' = [cons EXCEPT ![c] = [pc |-> Enter(@.next), at |-> @.next, end |-> last,
                                        next |-> last + 1]]
          /\ committed' = last + 1
    /\ UNCHANGED <<inbox, mails, dlq, owner, bounds>>

Poll(c) ==
    /\ At(c, "poll")
    /\ owner = c
    /\ \E last \in Lasts(c) :
          cons' = [cons EXCEPT ![c] = [pc |-> Enter(@.next), at |-> @.next, end |-> last,
                                       next |-> last + 1]]
    /\ UNCHANGED <<inbox, mails, dlq, committed, owner, bounds>>

\* On to the next record of the batch, or back to PollFetches.
NextRecord(c) ==
    cons' = [cons EXCEPT ![c] =
               IF @.at < @.end THEN [pc |-> Enter(@.at + 1), at |-> @.at + 1, end |-> @.end,
                                     next |-> @.next]
                               ELSE Fetcher(@.next)]

\* The handler's result is only logged: CommitRecords follows in any case.
\* The broker may refuse the commit of a consumer that lost the partition, or
\* take it, even when that moves the offset back.
CommitRecords(c) ==
    /\ At(c, "commit")
    /\ \/ committed' = cons[c].at + 1
       \/ owner # c /\ UNCHANGED committed
    /\ NextRecord(c)
    /\ UNCHANGED <<inbox, mails, dlq, owner, bounds>>

\* The client's periodic commit of what was polled before the current poll,
\* which makes up for a CommitRecords that failed.
AutoCommit(c) ==
    /\ At(c, "poll")
    /\ owner = c
    /\ committed < cons[c].next
    /\ committed' = cons[c].next
    /\ UNCHANGED <<inbox, mails, dlq, owner, cons, bounds>>

\* The partition moves to c, which fetches from the committed offset when it
\* polls next.
Rebalance(c) ==
    /\ owner # c
    /\ rebalances < MaxRebalances
    /\ rebalances' = rebalances + 1
    /\ owner' = c
    /\ cons' = [cons EXCEPT ![c] = [pc |-> @.pc, at |-> @.at, end |-> @.end, next |-> committed]]
    /\ UNCHANGED <<inbox, mails, dlq, committed, faults, errors>>

\* The process dies and comes back at the committed offset.
Crash(c) ==
    /\ ~At(c, "poll")
    /\ Fault
    /\ cons' = [cons EXCEPT ![c] = Fetcher(committed)]
    /\ UNCHANGED <<inbox, mails, dlq, committed, owner, rebalances, errors>>

-----------------------------------------------------------------------------
(* ProcessMessage *)

\* routeToDLQ of a message without an id, or of a payload that is not JSON:
\* dead_letter_messages.payload is JSONB, so the second INSERT fails, and the
\* error is dropped.
Reject(c) ==
    /\ At(c, "reject")
    /\ dlq' = IF Kind[Current(c)] = "anonymous" THEN dlq \cup {Current(c)} ELSE dlq
    /\ Goto(c, "commit")
    /\ UNCHANGED <<inbox, mails, committed, owner, bounds>>

\* Mutant: the deduplication INSERT overwrites on conflict.
InsertAlways(c) ==
    /\ At(c, "insert")
    /\ SetStatus(c, "PROCESSING")
    /\ Goto(c, "handle")
    /\ UNCHANGED <<mails, dlq, committed, owner, bounds>>

\* TryStartProcessing: INSERT ... ON CONFLICT DO NOTHING ...
TryStartProcessing(c) ==
    /\ At(c, "insert")
    /\ \/ inbox[Current(c)] = "NONE" /\ SetStatus(c, "PROCESSING") /\ Goto(c, "handle")
       \/ inbox[Current(c)] # "NONE" /\ UNCHANGED inbox /\ Goto(c, "check")
    /\ UNCHANGED <<mails, dlq, committed, owner, bounds>>

\* ... then a SELECT of the status: skip what is completed or in flight ...
CheckStatus(c) ==
    /\ At(c, "check")
    /\ Goto(c, IF inbox[Current(c)] = "FAILED" THEN "reset" ELSE "commit")
    /\ UNCHANGED <<inbox, mails, dlq, committed, owner, bounds>>

\* ... and an UPDATE that takes a failed message, whatever it is by then.
ResetFailed(c) ==
    /\ At(c, "reset")
    /\ SetStatus(c, "PROCESSING")
    /\ Goto(c, "handle")
    /\ UNCHANGED <<mails, dlq, committed, owner, bounds>>

Sent(m) == mails' = [mails EXCEPT ![m] = IF @ = 0 THEN 1 ELSE 2]

\* HandleMessage: send the e-mail, ignore the event (ErrTerminalStateIgnored
\* completes it as well), or reject it.
HandleMessage(c) ==
    /\ At(c, "handle")
    /\ \/ Kind[Current(c)] = "mail" /\ Sent(Current(c)) /\ Goto(c, "complete")
       \/ Kind[Current(c)] = "other" /\ UNCHANGED mails /\ Goto(c, "complete")
       \/ Kind[Current(c)] = "poison" /\ UNCHANGED mails /\ Goto(c, "route")
    /\ UNCHANGED <<inbox, dlq, committed, owner, bounds>>

\* The template or the SMTP server fails and nothing is sent.
HandlerFails(c) ==
    /\ At(c, "handle")
    /\ Kind[Current(c)] = "mail"
    /\ errors < MaxErrors
    /\ errors' = errors + 1
    /\ Goto(c, "fail")
    /\ UNCHANGED <<inbox, mails, dlq, committed, owner, faults, rebalances>>

\* The SMTP server accepts the e-mail but its reply is lost.
SendUnacked(c) ==
    /\ At(c, "handle")
    /\ Kind[Current(c)] = "mail"
    /\ Fault
    /\ Sent(Current(c))
    /\ Goto(c, "fail")
    /\ UNCHANGED <<inbox, dlq, committed, owner, rebalances, errors>>

\* Mutant: a poison pill is handed to the handler again.
RouteAndRetry(c) ==
    /\ At(c, "route")
    /\ dlq' = dlq \cup {Current(c)}
    /\ Goto(c, "handle")
    /\ UNCHANGED <<inbox, mails, committed, owner, bounds>>

RouteToDLQ(c) ==
    /\ At(c, "route")
    /\ dlq' = dlq \cup {Current(c)}
    /\ Goto(c, "complete")
    /\ UNCHANGED <<inbox, mails, committed, owner, bounds>>

MarkCompleted(c) ==
    /\ At(c, "complete")
    /\ SetStatus(c, "COMPLETED")
    /\ Goto(c, "commit")
    /\ UNCHANGED <<mails, dlq, committed, owner, bounds>>

\* Mutant: a failed message counts as done.
MarkFailedCompleted(c) ==
    /\ At(c, "fail")
    /\ SetStatus(c, "COMPLETED")
    /\ Goto(c, "commit")
    /\ UNCHANGED <<mails, dlq, committed, owner, bounds>>

MarkFailed(c) ==
    /\ At(c, "fail")
    /\ SetStatus(c, "FAILED")
    /\ Goto(c, "commit")
    /\ UNCHANGED <<mails, dlq, committed, owner, bounds>>

\* A database error in any of these statements is logged; the record is
\* committed (after a failed dead letter the message is still completed).  A
\* failed commit is logged too.
StatementFails(c) ==
    /\ Fault
    /\ \/ \E l \in {"reject", "insert", "check", "reset", "complete",
                        "fail"} :
             At(c, l) /\ Goto(c, "commit")
       \/ At(c, "route") /\ Goto(c, "complete")
       \/ At(c, "commit") /\ NextRecord(c)
    /\ UNCHANGED <<inbox, mails, dlq, committed, owner, rebalances, errors>>

-----------------------------------------------------------------------------
Work(c) ==
    \/ Poll(c) \/ CommitRecords(c) \/ AutoCommit(c) \/ Reject(c)
    \/ TryStartProcessing(c) \/ CheckStatus(c) \/ ResetFailed(c)
    \/ HandleMessage(c) \/ RouteToDLQ(c) \/ MarkCompleted(c) \/ MarkFailed(c)

Next ==
    \E c \in Consumer :
        \/ Work(c)
        \/ Rebalance(c) \/ Crash(c)
        \/ HandlerFails(c) \/ SendUnacked(c) \/ StatementFails(c)

Spec == Init /\ [][Next]_vars

\* The consume loop runs on; errors, crashes and rebalances need not happen.
FairSpec == Spec /\ \A c \in Consumer : WF_vars(Work(c))

-----------------------------------------------------------------------------
(* Properties *)

Steps == {"poll", "commit", "reject", "insert", "check", "reset", "handle",
          "route", "complete", "fail"}

\* Statuses are those of the table's CHECK, offsets stay in the partition.
TypeOK ==
    /\ inbox \in [Msg -> {"NONE", "PROCESSING", "COMPLETED", "FAILED"}]
    /\ mails \in [Msg -> 0 .. 2]
    /\ dlq \subseteq Msg
    /\ committed \in 1 .. Len(Records) + 1
    /\ owner \in Consumer
    /\ cons \in [Consumer -> [pc : Steps, at : 1 .. Len(Records) + 1, end : 0 .. Len(Records),
                              next : 1 .. Len(Records) + 1]]
    /\ \A c \in Consumer : ~At(c, "poll") => cons[c].at <= cons[c].end
    /\ faults \in 0 .. MaxFaults
    /\ rebalances \in 0 .. MaxRebalances
    /\ errors \in 0 .. MaxErrors

Handling(c, m) ==
    /\ cons[c].pc \in {"handle", "route", "complete", "fail"}
    /\ Current(c) = m

\* The rows have their types and COMPLETED is the truth: the e-mail went out,
\* or the poison pill is in the dead letters (unless writing it there failed).
CompletedIsDone ==
    /\ TypeOK
    /\ \A m \in Msg :
          inbox[m] = "COMPLETED" =>
              /\ Kind[m] = "mail" => mails[m] > 0
              /\ Kind[m] = "poison" => m \in dlq \/ faults > 0
              /\ Kind[m] \notin {"malformed", "anonymous"}

\* What a commit stands for.  Without crashes and database errors, a record below
\* the committed offset was handled to the end, or is in the hands of a consumer,
\* also of one that lost the partition, or (only once a handler failed) is FAILED,
\* from where nothing but a duplicate takes it up again; one without an id is in
\* the dead letters.  Malformed records are left out: MalformedInDLQ is about them.
CommittedHandled ==
    faults = 0 =>
        \A i \in 1 .. committed - 1 :
            LET m == Records[i] IN
            /\ Kind[m] \in {"mail", "other", "poison"} =>
                  \/ inbox[m] = "COMPLETED"
                  \/ inbox[m] = "PROCESSING" /\ \E c \in Consumer : Handling(c, m)
                  \/ inbox[m] = "FAILED" /\ errors > 0
            /\ Kind[m] = "anonymous" => m \in dlq

\* What the tests of the inbox and PROJECT.md say: a malformed record is routed to
\* the dead letters before its offset is committed.
MalformedInDLQ ==
    \A i \in 1 .. committed - 1 : Kind[Records[i]] = "malformed" => Records[i] \in dlq

\* Duplicate records and rebalances alone never send an e-mail twice: that
\* takes a failed attempt, an SMTP reply lost, or a database error.
OneMail ==
    \A m \in Msg : faults + errors = 0 => mails[m] <= 1

\* The partition is consumed to its end.
Consumed == <>(committed = Len(Records) + 1)

=============================================================================
