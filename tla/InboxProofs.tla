----------------------------- MODULE InboxProofs -----------------------------
(***************************************************************************)
(* COMPLETED is the truth, a committed record was handled and no e-mail is *)
(* sent twice without a reason, for any number of consumers, any records   *)
(* and any bounds on faults, rebalances and errors.                        *)
(***************************************************************************)
EXTENDS Inbox, TLAPS

(* The inductive invariant *)

Statuses == {"NONE", "PROCESSING", "COMPLETED", "FAILED"}
ConsRow == [pc : Steps, at : 1 .. Len(Records) + 1, end : 0 .. Len(Records),
            next : 1 .. Len(Records) + 1]
Invalid == {"malformed", "anonymous"}

\* What a consumer at work on a record knows of it, given the tables.
Works(x, box, sent, dead, flt) ==
    LET m == Records[x.at] IN
    /\ x.pc \notin {"poll", "reject", "commit"} => Kind[m] \notin Invalid
    /\ x.pc = "reject" => Kind[m] \in Invalid
    /\ x.pc = "route" => Kind[m] = "poison"
    /\ x.pc = "complete" => /\ Kind[m] = "mail" => sent[m] > 0
                            /\ Kind[m] = "poison" => m \in dead \/ flt > 0
    /\ x.pc \in {"check", "reset", "handle", "route", "complete", "fail"} => box[m] # "NONE"
AllWork == \A c \in Consumer : cons[c].pc # "poll" => Works(cons[c], inbox, mails, dlq, faults)

\* A status of a message is the truth.
BoxTrue ==
    \A m \in Msg :
        /\ inbox[m] # "NONE" => Kind[m] \notin Invalid
        /\ inbox[m] = "COMPLETED" => /\ Kind[m] = "mail" => mails[m] > 0
                                     /\ Kind[m] = "poison" => m \in dlq \/ faults > 0

\* A record that needs no more attention.
Done(i, box, dead) ==
    \/ box[Records[i]] # "NONE"
    \/ Kind[Records[i]] = "malformed"
    \/ Kind[Records[i]] = "anonymous" /\ Records[i] \in dead

\* Everything before the record a consumer works on is done, and everything before its
\* fetch position is done or still to come in its batch.
Behind(x, box, dead) ==
    /\ x.pc # "poll" => \A i \in 1 .. x.at - 1 : Done(i, box, dead)
    /\ x.pc = "commit" => Done(x.at, box, dead)
    /\ \A i \in 1 .. x.next - 1 : Done(i, box, dead) \/ (x.pc # "poll" /\ i \in x.at .. x.end)

\* A consumer in state x is handling message m.
Handles(x, m) == x.pc \in {"handle", "route", "complete", "fail"} /\ Records[x.at] = m

InFlightHeld(box, rows) ==
    \A m \in Msg : box[m] = "PROCESSING" => \E c \in Consumer : Handles(rows[c], m)

Skipped ==
    faults = 0 =>
        /\ \A c \in Consumer : Behind(cons[c], inbox, dlq)
        /\ \A i \in 1 .. committed - 1 : Done(i, inbox, dlq)
        /\ InFlightHeld(inbox, cons)

\* While nothing has failed, a message is handled once, by one consumer.
HandledOnce(box, sent, rows) ==
    /\ \A m \in Msg : /\ box[m] # "FAILED" /\ sent[m] <= 1
                      /\ box[m] = "NONE" => sent[m] = 0
    /\ \A c \in Consumer : /\ rows[c].pc \notin {"reset", "fail"}
                           /\ rows[c].pc = "handle" => sent[Records[rows[c].at]] = 0
    /\ \A c \in Consumer, m \in Msg : Handles(rows[c], m) => box[m] = "PROCESSING"
    /\ \A c, d \in Consumer, m \in Msg : Handles(rows[c], m) /\ Handles(rows[d], m) => c = d
Once == faults = 0 /\ errors = 0 => HandledOnce(inbox, mails, cons)

IInv == TypeOK /\ AllWork /\ BoxTrue /\ Skipped /\ Once

-----------------------------------------------------------------------------
(* The steps of a consumer *)

\* The record a consumer works on is one of the partition's.
LEMMA CurrentIsMsg ==
    ASSUME TypeOK, NEW c \in Consumer, cons[c].pc # "poll"
    PROVE  /\ cons[c].at \in 1 .. cons[c].end /\ cons[c].end \in 1 .. Len(Records)
           /\ cons[c].at \in DOMAIN Records /\ Records[cons[c].at] \in Msg
<1>1. cons[c] \in ConsRow
  BY DEF TypeOK, ConsRow
<1>2. cons[c].at <= cons[c].end
  BY DEF TypeOK, At
<1>3. Records \in Seq(Msg)
  BY InboxAssumption
<1> QED BY <1>1, <1>2, <1>3 DEF ConsRow

\* Consumer c becomes x, the others stay as they are.
Moved(c, x) ==
    /\ cons' \in [Consumer -> ConsRow]
    /\ cons'[c] = x
    /\ \A d \in Consumer \ {c} : cons'[d] = cons[d]

\* Consumer c on its record, at step l.
To(c, l) == [pc |-> l, at |-> cons[c].at, end |-> cons[c].end, next |-> cons[c].next]

\* The consumer goes to another step with the same record.
LEMMA GotoMoves ==
    ASSUME TypeOK, NEW c \in Consumer, NEW l \in Steps, Goto(c, l)
    PROVE  Moved(c, To(c, l))
<1>1. cons \in [Consumer -> ConsRow]
  BY DEF TypeOK, ConsRow
<1>2. To(c, l) \in ConsRow
  BY <1>1 DEF To, ConsRow
<1>3. cons' = [cons EXCEPT ![c] = To(c, l)]
  BY DEF Goto, To
<1> QED BY <1>1, <1>2, <1>3 DEF Moved

\* Only its step differs.
LEMMA ToFields ==
    ASSUME NEW c, NEW l
    PROVE  /\ To(c, l).pc = l /\ To(c, l).at = cons[c].at /\ To(c, l).end = cons[c].end
           /\ To(c, l).next = cons[c].next
BY DEF To

\* What a step never takes back.
Grow ==
    /\ \A m \in Msg : inbox[m] # "NONE" => inbox'[m] # "NONE"
    /\ \A m \in Msg : mails[m] > 0 => mails'[m] > 0
    /\ dlq \subseteq dlq'
    /\ faults > 0 => faults' > 0
    /\ faults' = 0 => faults = 0

\* What a consumer knows stays true.
LEMMA GrowWorks ==
    ASSUME Grow, NEW x, Records[x.at] \in Msg, Works(x, inbox, mails, dlq, faults)
    PROVE  Works(x, inbox', mails', dlq', faults')
BY DEF Grow, Works

\* A record that is done stays done.
LEMMA GrowDone ==
    ASSUME Grow, NEW i \in DOMAIN Records, Done(i, inbox, dlq)
    PROVE  Done(i, inbox', dlq')
<1>1. Records[i] \in Msg
  BY InboxAssumption
<1> QED BY <1>1 DEF Grow, Done

\* What lies behind a consumer stays done.
LEMMA GrowBehind ==
    ASSUME Grow, TypeOK, NEW c \in Consumer, Behind(cons[c], inbox, dlq)
    PROVE  Behind(cons[c], inbox', dlq')
<1>1. cons[c] \in ConsRow /\ Len(Records) \in Nat /\ DOMAIN Records = 1 .. Len(Records)
  BY InboxAssumption DEF TypeOK, ConsRow
<1>2. \A i \in 1 .. cons[c].next - 1 : i \in DOMAIN Records
  BY <1>1 DEF ConsRow
<1>3. cons[c].pc # "poll" => \A i \in 1 .. cons[c].at - 1 : i \in DOMAIN Records
  BY <1>1, CurrentIsMsg DEF ConsRow
<1>4. cons[c].pc = "commit" => cons[c].at \in DOMAIN Records
  BY CurrentIsMsg
<1> QED BY <1>2, <1>3, <1>4, GrowDone DEF Behind

\* A step of consumer c keeps the invariant when it keeps its parts for c and for
\* the tables: the other consumers are not concerned.
LEMMA StepKeeps ==
    ASSUME IInv, TypeOK', Grow, BoxTrue', Once',
           NEW c \in Consumer, NEW x, Moved(c, x),
           x.pc # "poll" => Works(x, inbox', mails', dlq', faults'),
           faults' = 0 => Behind(x, inbox', dlq'),
           faults' = 0 => \A i \in 1 .. committed' - 1 : Done(i, inbox', dlq'),
           faults' = 0 => InFlightHeld(inbox', cons')
    PROVE  IInv'
<1>1. AllWork'
  <2> SUFFICES ASSUME NEW d \in Consumer, cons'[d].pc # "poll"
               PROVE  Works(cons'[d], inbox', mails', dlq', faults')
    BY DEF AllWork
  <2>1. CASE d = c
    BY <2>1 DEF Moved
  <2>2. CASE d # c
    <3>1. cons'[d] = cons[d]
      BY <2>2 DEF Moved
    <3>2. Works(cons[d], inbox, mails, dlq, faults) /\ Records[cons[d].at] \in Msg
      BY <3>1, CurrentIsMsg DEF IInv, AllWork
    <3> QED BY <3>1, <3>2, GrowWorks
  <2> QED BY <2>1, <2>2
<1>2. Skipped'
  <2> SUFFICES ASSUME faults' = 0 PROVE \A d \in Consumer : Behind(cons'[d], inbox', dlq')
    BY DEF Skipped
  <2>1. faults = 0
    BY DEF Grow
  <2>2. \A d \in Consumer : Behind(cons[d], inbox, dlq)
    BY <2>1 DEF IInv, Skipped
  <2>3. ASSUME NEW d \in Consumer, d # c PROVE Behind(cons'[d], inbox', dlq')
    BY <2>2, <2>3, GrowBehind DEF Moved, IInv
  <2> QED BY <2>3 DEF Moved
<1> QED BY <1>1, <1>2 DEF IInv

-----------------------------------------------------------------------------
(* The steps on a record *)

Hands == {"handle", "route", "complete", "fail"}

\* Only the message of the record changes, and it is in flight only in the hands of a
\* consumer.
LEMMA FlightKeeps ==
    ASSUME InFlightHeld(inbox, cons), NEW c \in Consumer, NEW l, Moved(c, To(c, l)),
           NEW m \in Msg, m = Records[cons[c].at],
           \A n \in Msg \ {m} : inbox'[n] = inbox[n],
           inbox'[m] = "PROCESSING" =>
               l \in Hands \/ (inbox[m] = "PROCESSING" /\ cons[c].pc \notin Hands)
    PROVE  InFlightHeld(inbox', cons')
<1> SUFFICES ASSUME NEW n \in Msg, inbox'[n] = "PROCESSING"
             PROVE  \E d \in Consumer : Handles(cons'[d], n)
  BY DEF InFlightHeld
<1>1. CASE n = m /\ l \in Hands
  BY <1>1, ToFields DEF Moved, Handles, Hands
<1>2. CASE ~(n = m /\ l \in Hands)
  <2>1. inbox[n] = "PROCESSING" /\ (n = m => cons[c].pc \notin Hands)
    BY <1>2
  <2>2. PICK d \in Consumer : Handles(cons[d], n)
    BY <2>1 DEF InFlightHeld
  <2>3. d # c
    BY <2>1, <2>2 DEF Handles, Hands
  <2> QED BY <2>2, <2>3 DEF Moved
<1> QED BY <1>1, <1>2

\* A consumer that does not handle a message, or stops to, disturbs no other.
LEMMA OnceLeaves ==
    ASSUME HandledOnce(inbox, mails, cons), NEW c \in Consumer, NEW x, Moved(c, x),
           x.pc \notin Hands \cup {"reset"}, UNCHANGED <<inbox, mails>>
    PROVE  HandledOnce(inbox', mails', cons')
BY DEF HandledOnce, Moved, Handles, Hands

\* The steps that handle message m while nothing has failed: its first INSERT, the
\* handler, the dead letter, and its completion.
LEMMA OnceHandles ==
    ASSUME TypeOK, HandledOnce(inbox, mails, cons), NEW c \in Consumer, NEW l, Moved(c, To(c, l)),
           NEW m \in Msg, m = Records[cons[c].at],
           \A n \in Msg \ {m} : inbox'[n] = inbox[n] /\ mails'[n] = mails[n],
           \/ /\ inbox[m] = "NONE" /\ inbox'[m] = "PROCESSING" /\ l = "handle"
              /\ mails'[m] = mails[m]
           \/ /\ cons[c].pc = "handle" /\ l \in {"route", "complete"}
              /\ inbox'[m] = inbox[m] /\ mails'[m] <= 1
           \/ /\ cons[c].pc = "route" /\ l = "complete"
              /\ inbox'[m] = inbox[m] /\ mails'[m] = mails[m]
           \/ /\ cons[c].pc = "complete" /\ l = "commit"
              /\ inbox'[m] = "COMPLETED" /\ mails'[m] = mails[m]
    PROVE  HandledOnce(inbox', mails', cons')
<1>1. /\ cons'[c].pc = l /\ Records[cons'[c].at] = m
      /\ \A d \in Consumer \ {c} : cons'[d] = cons[d]
  BY ToFields DEF Moved
<1>2. \A d \in Consumer \ {c} : ~Handles(cons[d], m)
  BY DEF HandledOnce, Handles
<1>3. \A n \in Msg : /\ inbox'[n] # "FAILED" /\ mails'[n] <= 1
                     /\ inbox'[n] = "NONE" => mails'[n] = 0
  <2> SUFFICES ASSUME NEW n \in Msg
               PROVE  /\ inbox'[n] # "FAILED" /\ mails'[n] <= 1
                      /\ inbox'[n] = "NONE" => mails'[n] = 0
    OBVIOUS
  <2>1. CASE n # m
    BY <2>1 DEF HandledOnce
  <2>2. CASE n = m
    <3>1. Handles(cons[c], m) => inbox[m] = "PROCESSING"
      BY DEF HandledOnce
    <3> QED BY <2>2, <3>1 DEF HandledOnce, Handles
  <2> QED BY <2>1, <2>2
<1>4. ASSUME NEW d \in Consumer
      PROVE  /\ cons'[d].pc \notin {"reset", "fail"}
             /\ cons'[d].pc = "handle" => mails'[Records[cons'[d].at]] = 0
  <2>1. CASE d = c
    BY <1>1, <2>1 DEF HandledOnce
  <2>2. CASE d # c
    <3>1. cons'[d] = cons[d] /\ ~Handles(cons[d], m)
      BY <1>1, <1>2, <2>2
    <3>2. cons[d].pc = "handle" => Records[cons[d].at] \in Msg \ {m}
      BY <3>1, CurrentIsMsg DEF Handles
    <3> QED BY <3>1, <3>2 DEF HandledOnce
  <2> QED BY <2>1, <2>2
<1>5. ASSUME NEW d \in Consumer, NEW n \in Msg, Handles(cons'[d], n)
      PROVE  inbox'[n] = "PROCESSING"
  <2>1. CASE d = c
    <3>1. n = m /\ l \in Hands
      BY <1>1, <1>5, <2>1 DEF Handles, Hands
    <3>2. Handles(cons[c], m) => inbox[m] = "PROCESSING"
      BY DEF HandledOnce
    <3> QED BY <3>1, <3>2 DEF Handles, Hands
  <2>2. CASE d # c
    BY <1>1, <1>2, <1>5, <2>2 DEF HandledOnce
  <2> QED BY <2>1, <2>2
<1>6. ASSUME NEW d \in Consumer, NEW e \in Consumer, NEW n \in Msg,
             Handles(cons'[d], n), Handles(cons'[e], n)
      PROVE  d = e
  <2>1. Handles(cons'[c], n) => n = m
    BY <1>1 DEF Handles
  <2>2. d # c => Handles(cons[d], n)
    BY <1>1, <1>6
  <2>3. e # c => Handles(cons[e], n)
    BY <1>1, <1>6
  <2> QED BY <1>2, <1>6, <2>1, <2>2, <2>3 DEF HandledOnce
<1> QED BY <1>3, <1>4, <1>5, <1>6 DEF HandledOnce

\* A step of a consumer on its record.
LEMMA RecordStep ==
    ASSUME IInv, NEW c \in Consumer, cons[c].pc # "poll", NEW l \in Steps \ {"poll"}, Goto(c, l),
           UNCHANGED <<committed, owner, rebalances>>,
           inbox' \in [Msg -> Statuses], mails' \in [Msg -> 0 .. 2], dlq' \subseteq Msg,
           faults' \in 0 .. MaxFaults, errors' \in 0 .. MaxErrors,
           Grow, BoxTrue', Once', Works(To(c, l), inbox', mails', dlq', faults'),
           faults' = 0 /\ l = "commit" => Done(cons[c].at, inbox', dlq'),
           faults' = 0 => InFlightHeld(inbox', cons')
    PROVE  IInv'
<1>0. Moved(c, To(c, l))
  BY GotoMoves DEF IInv
<1>1. TypeOK'
  <2>1. cons' \in [Consumer -> ConsRow] /\ committed' \in 1 .. Len(Records) + 1 /\ owner' \in Consumer
        /\ rebalances' \in 0 .. MaxRebalances
    BY <1>0 DEF Moved, IInv, TypeOK
  <2>2. \A d \in Consumer : cons'[d].pc # "poll" => cons'[d].at <= cons'[d].end
    <3>1. \A d \in Consumer : cons[d].pc # "poll" => cons[d].at <= cons[d].end
      BY DEF IInv, TypeOK, At
    <3>2. cons'[c].at = cons[c].at /\ cons'[c].end = cons[c].end
      BY <1>0, ToFields DEF Moved
    <3>3. \A d \in Consumer \ {c} : cons'[d] = cons[d]
      BY <1>0 DEF Moved
    <3> QED BY <3>1, <3>2, <3>3
  <2> QED BY <2>1, <2>2 DEF TypeOK, ConsRow, Statuses, At
<1>2. faults' = 0 => /\ Behind(cons[c], inbox', dlq')
                     /\ \A i \in 1 .. committed' - 1 : Done(i, inbox', dlq')
  <2> SUFFICES ASSUME faults' = 0
               PROVE  /\ Behind(cons[c], inbox', dlq')
                      /\ \A i \in 1 .. committed' - 1 : Done(i, inbox', dlq')
    OBVIOUS
  <2>1. Skipped /\ faults = 0
    BY DEF IInv, Grow
  <2>2. \A i \in 1 .. committed - 1 : i \in DOMAIN Records
    BY InboxAssumption DEF IInv, TypeOK
  <2>3. \A i \in 1 .. committed - 1 : Done(i, inbox', dlq')
    BY <2>1, <2>2, GrowDone DEF Skipped
  <2> QED BY <2>1, <2>3, GrowBehind DEF IInv, Skipped
<1>3. faults' = 0 => Behind(To(c, l), inbox', dlq')
  BY <1>2, ToFields DEF Behind
<1> QED BY <1>0, <1>1, <1>2, <1>3, StepKeeps

\* A step of a consumer on its record that changes no table: what it then knows
\* it knew before, or read from the tables.
LEMMA QuietStep ==
    ASSUME IInv, NEW c \in Consumer, cons[c].pc # "poll", NEW l \in Steps \ {"poll"}, Goto(c, l),
           UNCHANGED <<inbox, mails, dlq, committed, owner, rebalances, errors>>,
           \/ faults' = faults
           \/ faults' \in 1 .. MaxFaults,
           Works(To(c, l), inbox, mails, dlq, faults'),
           cons[c].pc \in Hands => l \in Hands \/ faults' > 0,
           faults' = 0 /\ l = "commit" => Done(cons[c].at, inbox, dlq),
           faults' = 0 => (HandledOnce(inbox, mails, cons) => HandledOnce(inbox, mails, cons'))
    PROVE  IInv'
<1>1. /\ inbox' \in [Msg -> Statuses] /\ mails' \in [Msg -> 0 .. 2] /\ dlq' \subseteq Msg
      /\ faults' \in 0 .. MaxFaults /\ errors' \in 0 .. MaxErrors
  BY DEF IInv, TypeOK, Statuses
<1>2. Grow
  BY <1>1 DEF IInv, TypeOK, Grow
<1>3. BoxTrue'
  BY <1>1, <1>2 DEF IInv, BoxTrue, Grow
<1>4. Once'
  BY <1>2 DEF IInv, Once, Grow
<1>5. faults' = 0 => InFlightHeld(inbox', cons')
  <2>1. Records[cons[c].at] \in Msg /\ Moved(c, To(c, l))
    BY CurrentIsMsg, GotoMoves DEF IInv
  <2>2. faults' = 0 => InFlightHeld(inbox, cons) /\ ~(faults' > 0)
    BY <1>2 DEF IInv, Skipped, Grow
  <2> QED BY <2>1, <2>2, FlightKeeps
<1> QED BY <1>1, <1>2, <1>3, <1>4, <1>5, RecordStep

-----------------------------------------------------------------------------
(* ProcessMessage *)

\* What every step may rely on.
LEMMA Facts ==
    ASSUME IInv, NEW c \in Consumer, cons[c].pc # "poll"
    PROVE  /\ TypeOK /\ Works(cons[c], inbox, mails, dlq, faults)
           /\ Current(c) = Records[cons[c].at] /\ Current(c) \in Msg
           /\ inbox \in [Msg -> Statuses] /\ mails \in [Msg -> 0 .. 2] /\ dlq \subseteq Msg
           /\ faults \in 0 .. MaxFaults /\ errors \in 0 .. MaxErrors
           /\ faults = 0 => Skipped /\ InFlightHeld(inbox, cons)
           /\ faults = 0 /\ errors = 0 => HandledOnce(inbox, mails, cons)
BY CurrentIsMsg DEF IInv, AllWork, Current, TypeOK, Statuses, Skipped, Once

\* A message without an id goes to the dead letters, one that is not JSON nowhere.
LEMMA RejectKeeps ==
    ASSUME IInv, NEW c \in Consumer, Reject(c) PROVE IInv'
<1> DEFINE m == Current(c)
<1>1. /\ cons[c].pc = "reject" /\ Goto(c, "commit")
      /\ dlq' = IF Kind[m] = "anonymous" THEN dlq \cup {m} ELSE dlq
      /\ UNCHANGED <<inbox, mails, committed, owner, faults, rebalances, errors>>
  BY DEF Reject, At, bounds
<1>2. /\ TypeOK /\ Works(cons[c], inbox, mails, dlq, faults)
      /\ m = Records[cons[c].at] /\ m \in Msg
  BY <1>1, Facts
<1>3. /\ inbox' \in [Msg -> Statuses] /\ mails' \in [Msg -> 0 .. 2] /\ dlq' \subseteq Msg
      /\ faults' \in 0 .. MaxFaults /\ errors' \in 0 .. MaxErrors
  BY <1>1, <1>2, Facts
<1>4. Grow
  BY <1>1 DEF Grow
<1>5. BoxTrue'
  BY <1>1 DEF IInv, BoxTrue
<1>6. Moved(c, To(c, "commit")) /\ To(c, "commit").pc = "commit" /\ "commit" \in Steps \ {"poll"}
  BY <1>1, <1>2, GotoMoves, ToFields DEF Steps
<1>7. Once'
  BY <1>1, <1>6, OnceLeaves DEF IInv, Once, Hands
<1>8. Works(To(c, "commit"), inbox', mails', dlq', faults')
  BY <1>6 DEF Works
<1>9. Done(cons[c].at, inbox', dlq')
  BY <1>1, <1>2 DEF Done, Works, Invalid
<1>10. faults' = 0 => InFlightHeld(inbox', cons')
  BY <1>1, <1>2, <1>6, Facts, FlightKeeps DEF Hands
<1> QED BY <1>1, <1>3, <1>4, <1>5, <1>6, <1>7, <1>8, <1>9, <1>10, RecordStep

\* The row of the record's message is written, and the consumer goes on.
LEMMA StatusStep ==
    ASSUME IInv, NEW c \in Consumer, cons[c].pc # "poll", NEW l \in Steps \ {"poll"}, Goto(c, l),
           NEW st \in Statuses \ {"NONE"}, SetStatus(c, st),
           UNCHANGED <<mails, dlq, committed, owner, faults, rebalances, errors>>,
           Kind[Current(c)] \notin Invalid,
           st = "PROCESSING" => l \in Hands,
           st = "COMPLETED" => cons[c].pc = "complete",
           l \in {"handle", "commit"},
           faults = 0 /\ errors = 0 => \/ inbox[Current(c)] = "NONE" /\ st = "PROCESSING" /\ l = "handle"
                                       \/ cons[c].pc = "complete" /\ st = "COMPLETED" /\ l = "commit"
    PROVE  IInv'
<1> DEFINE m == Current(c)
<1>1. /\ TypeOK /\ Works(cons[c], inbox, mails, dlq, faults)
      /\ m = Records[cons[c].at] /\ m \in Msg
  BY Facts
<1>2. /\ inbox' \in [Msg -> Statuses] /\ inbox'[m] = st
      /\ \A n \in Msg \ {m} : inbox'[n] = inbox[n]
  BY <1>1, Facts DEF SetStatus
<1>3. /\ mails' \in [Msg -> 0 .. 2] /\ dlq' \subseteq Msg
      /\ faults' \in 0 .. MaxFaults /\ errors' \in 0 .. MaxErrors
  BY Facts
<1>4. Grow
  BY <1>2 DEF Grow
<1>5. BoxTrue'
  BY <1>1, <1>2 DEF IInv, BoxTrue, Works, Statuses
<1>6. Moved(c, To(c, l)) /\ To(c, l).pc = l /\ To(c, l).at = cons[c].at
  BY <1>1, GotoMoves, ToFields
<1>7. Once'
  BY <1>1, <1>2, <1>6, OnceHandles DEF IInv, Once
<1>8. Works(To(c, l), inbox', mails', dlq', faults')
  BY <1>1, <1>2, <1>6 DEF Works
<1>9. Done(cons[c].at, inbox', dlq')
  BY <1>1, <1>2 DEF Done
<1>10. faults' = 0 => InFlightHeld(inbox', cons')
  BY <1>1, <1>2, <1>6, Facts, FlightKeeps
<1> QED BY <1>2, <1>3, <1>4, <1>5, <1>6, <1>7, <1>8, <1>9, <1>10, RecordStep

\* The INSERT takes a message that is new; one that is not is looked up.
LEMMA TryStartProcessingKeeps ==
    ASSUME IInv, NEW c \in Consumer, TryStartProcessing(c) PROVE IInv'
<1> DEFINE m == Current(c)
<1>1. /\ cons[c].pc = "insert"
      /\ UNCHANGED <<mails, dlq, committed, owner, faults, rebalances, errors>>
  BY DEF TryStartProcessing, At, bounds
<1>2. TypeOK /\ Kind[m] \notin Invalid /\ m = Records[cons[c].at]
  BY <1>1, Facts DEF Works
<1>3. "handle" \in Steps \ {"poll"} /\ "check" \in Steps \ {"poll"} /\ "handle" \in Hands
      /\ "PROCESSING" \in Statuses \ {"NONE"}
  BY DEF Steps, Hands, Statuses
<1>4. CASE inbox[m] = "NONE" /\ SetStatus(c, "PROCESSING") /\ Goto(c, "handle")
  BY <1>1, <1>2, <1>3, <1>4, StatusStep
<1>5. CASE inbox[m] # "NONE" /\ UNCHANGED inbox /\ Goto(c, "check")
  <2>1. Works(To(c, "check"), inbox, mails, dlq, faults')
    BY <1>2, <1>5, ToFields DEF Works
  <2>2. HandledOnce(inbox, mails, cons) => HandledOnce(inbox, mails, cons')
    BY <1>1, <1>2, <1>3, <1>5, GotoMoves, ToFields, OnceLeaves DEF Hands
  <2> QED BY <1>1, <1>3, <1>5, <2>1, <2>2, QuietStep DEF Hands
<1> QED BY <1>4, <1>5 DEF TryStartProcessing

\* A message that failed is taken again, any other is left to whoever has it.
LEMMA CheckStatusKeeps ==
    ASSUME IInv, NEW c \in Consumer, CheckStatus(c) PROVE IInv'
<1> DEFINE m == Current(c)
           l == IF inbox[m] = "FAILED" THEN "reset" ELSE "commit"
<1>1. /\ cons[c].pc = "check" /\ Goto(c, l)
      /\ UNCHANGED <<inbox, mails, dlq, committed, owner, faults, rebalances, errors>>
  BY DEF CheckStatus, At, bounds
<1>2. /\ TypeOK /\ Works(cons[c], inbox, mails, dlq, faults)
      /\ m = Records[cons[c].at] /\ m \in Msg
  BY <1>1, Facts
<1>3. l \in Steps \ {"poll"} /\ l \in {"reset", "commit"}
  BY DEF Steps
<1>4. inbox[m] # "NONE" /\ Kind[m] \notin Invalid
  BY <1>1, <1>2, SMTT(60) DEF Works
<1>5. Works(To(c, l), inbox, mails, dlq, faults') /\ Done(cons[c].at, inbox, dlq)
  BY <1>2, <1>3, <1>4, ToFields DEF Works, Done
<1>6. HandledOnce(inbox, mails, cons) => HandledOnce(inbox, mails, cons')
  <2> SUFFICES ASSUME HandledOnce(inbox, mails, cons) PROVE HandledOnce(inbox, mails, cons')
    OBVIOUS
  <2>1. l = "commit"
    BY <1>2 DEF HandledOnce
  <2>2. Moved(c, To(c, l)) /\ To(c, l).pc \notin Hands \cup {"reset"}
    BY <1>1, <1>2, <1>3, <2>1, GotoMoves, ToFields DEF Hands
  <2> HIDE DEF l
  <2> QED BY <1>1, <2>2, OnceLeaves
<1> HIDE DEF l
<1> QED BY <1>1, <1>3, <1>5, <1>6, QuietStep DEF Hands

\* A FAILED inbox row is set back to PROCESSING before the handler runs again.
LEMMA ResetFailedKeeps ==
    ASSUME IInv, NEW c \in Consumer, ResetFailed(c) PROVE IInv'
<1>1. /\ cons[c].pc = "reset" /\ SetStatus(c, "PROCESSING") /\ Goto(c, "handle")
      /\ UNCHANGED <<mails, dlq, committed, owner, faults, rebalances, errors>>
  BY DEF ResetFailed, At, bounds
<1>2. Kind[Current(c)] \notin Invalid
  BY <1>1, Facts DEF Works
<1>3. ~(faults = 0 /\ errors = 0)
  BY <1>1 DEF IInv, Once, HandledOnce
<1>4. "handle" \in Steps \ {"poll"} /\ "handle" \in Hands /\ "PROCESSING" \in Statuses \ {"NONE"}
  BY DEF Steps, Hands, Statuses
<1> QED BY <1>1, <1>2, <1>3, <1>4, StatusStep

\* The inbox row is COMPLETED after the handler did its work.
LEMMA MarkCompletedKeeps ==
    ASSUME IInv, NEW c \in Consumer, MarkCompleted(c) PROVE IInv'
<1>1. /\ cons[c].pc = "complete" /\ SetStatus(c, "COMPLETED") /\ Goto(c, "commit")
      /\ UNCHANGED <<mails, dlq, committed, owner, faults, rebalances, errors>>
  BY DEF MarkCompleted, At, bounds
<1>2. Kind[Current(c)] \notin Invalid
  BY <1>1, Facts DEF Works
<1>3. "commit" \in Steps \ {"poll"} /\ "COMPLETED" \in Statuses \ {"NONE"}
  BY DEF Steps, Statuses
<1> QED BY <1>1, <1>2, <1>3, StatusStep

\* The inbox row is FAILED after the handler gave up.
LEMMA MarkFailedKeeps ==
    ASSUME IInv, NEW c \in Consumer, MarkFailed(c) PROVE IInv'
<1>1. /\ cons[c].pc = "fail" /\ SetStatus(c, "FAILED") /\ Goto(c, "commit")
      /\ UNCHANGED <<mails, dlq, committed, owner, faults, rebalances, errors>>
  BY DEF MarkFailed, At, bounds
<1>2. Kind[Current(c)] \notin Invalid
  BY <1>1, Facts DEF Works
<1>3. ~(faults = 0 /\ errors = 0)
  BY <1>1 DEF IInv, Once, HandledOnce
<1>4. "commit" \in Steps \ {"poll"} /\ "FAILED" \in Statuses \ {"NONE"}
  BY DEF Steps, Statuses
<1> QED BY <1>1, <1>2, <1>3, <1>4, StatusStep

\* An e-mail for the record's message goes out.
LEMMA SendStep ==
    ASSUME IInv, NEW c \in Consumer, cons[c].pc = "handle", Sent(Current(c)),
           NEW l \in {"complete", "fail"}, Goto(c, l), Kind[Current(c)] = "mail",
           UNCHANGED <<inbox, dlq, committed, owner, rebalances, errors>>,
           \/ faults' = faults /\ l = "complete"
           \/ faults' \in 1 .. MaxFaults
    PROVE  IInv'
<1> DEFINE m == Current(c)
<1>1. /\ TypeOK /\ Works(cons[c], inbox, mails, dlq, faults)
      /\ m = Records[cons[c].at] /\ m \in Msg /\ mails \in [Msg -> 0 .. 2]
      /\ faults \in 0 .. MaxFaults
  BY Facts
<1>2. /\ mails' \in [Msg -> 0 .. 2] /\ mails'[m] > 0
      /\ mails[m] = 0 => mails'[m] = 1
      /\ \A n \in Msg \ {m} : mails'[n] = mails[n]
  BY <1>1 DEF Sent
<1>3. /\ inbox' \in [Msg -> Statuses] /\ dlq' \subseteq Msg
      /\ faults' \in 0 .. MaxFaults /\ errors' \in 0 .. MaxErrors
  BY Facts
<1>4. Grow
  BY <1>1, <1>2, <1>3 DEF Grow
<1>5. BoxTrue'
  <2>1. faults > 0 => faults' > 0
    BY <1>4 DEF Grow
  <2> QED BY <1>2, <2>1 DEF IInv, BoxTrue
<1>6. Moved(c, To(c, l)) /\ l \in Steps \ {"poll"} /\ l \in Hands
  BY <1>1, GotoMoves DEF Steps, Hands
<1>7. Once'
  <2> SUFFICES ASSUME faults' = 0, errors' = 0 PROVE HandledOnce(inbox', mails', cons')
    BY DEF Once
  <2>1. HandledOnce(inbox, mails, cons) /\ l = "complete"
    BY <1>4 DEF IInv, Once, Grow
  <2>2. mails'[m] <= 1
    BY <1>1, <1>2, <2>1 DEF HandledOnce
  <2> QED BY <1>1, <1>2, <1>6, <2>1, <2>2, OnceHandles
<1>8. Works(To(c, l), inbox', mails', dlq', faults')
  BY <1>1, <1>2, <1>6, ToFields DEF Works, Invalid
<1>9. faults' = 0 => InFlightHeld(inbox', cons')
  <2>1. faults' = 0 => InFlightHeld(inbox, cons)
    BY <1>4, Facts DEF Grow
  <2> QED BY <1>1, <1>6, <2>1, FlightKeeps
<1> QED BY <1>2, <1>3, <1>4, <1>5, <1>6, <1>7, <1>8, <1>9, RecordStep

\* The handler sends, ignores or rejects.
LEMMA HandleMessageKeeps ==
    ASSUME IInv, NEW c \in Consumer, HandleMessage(c) PROVE IInv'
<1> DEFINE m == Current(c)
<1>1. /\ cons[c].pc = "handle"
      /\ UNCHANGED <<inbox, dlq, committed, owner, faults, rebalances, errors>>
  BY DEF HandleMessage, At, bounds
<1>2. /\ TypeOK /\ Works(cons[c], inbox, mails, dlq, faults)
      /\ m = Records[cons[c].at] /\ m \in Msg
  BY <1>1, Facts
<1>3. CASE Kind[m] = "mail" /\ Sent(m) /\ Goto(c, "complete")
  BY <1>1, <1>3, SendStep
<1>4. ASSUME NEW l \in {"complete", "route"}, Goto(c, l), UNCHANGED mails,
             \/ Kind[m] = "other" /\ l = "complete"
             \/ Kind[m] = "poison" /\ l = "route"
      PROVE  IInv'
  <2>1. l \in Steps \ {"poll"} /\ l \in Hands
    BY DEF Steps, Hands
  <2>2. Works(To(c, l), inbox, mails, dlq, faults')
    BY <1>1, <1>2, <1>4, ToFields DEF Works
  <2>3. HandledOnce(inbox, mails, cons) => HandledOnce(inbox, mails, cons')
    <3> SUFFICES ASSUME HandledOnce(inbox, mails, cons) PROVE HandledOnce(inbox, mails, cons')
      OBVIOUS
    <3>1. Moved(c, To(c, l)) /\ mails'[m] <= 1
      BY <1>2, <1>4, <2>1, GotoMoves DEF HandledOnce
    <3> QED BY <1>1, <1>2, <1>4, <3>1, OnceHandles
  <2> QED BY <1>1, <1>4, <2>1, <2>2, <2>3, QuietStep
<1> QED BY <1>3, <1>4 DEF HandleMessage

\* The mail went out and the SMTP answer was lost: a fault.
LEMMA SendUnackedKeeps ==
    ASSUME IInv, NEW c \in Consumer, SendUnacked(c) PROVE IInv'
<1>1. cons[c].pc = "handle"
  BY DEF SendUnacked, At
<1>2. faults' \in 1 .. MaxFaults
  BY <1>1, Facts, InboxAssumption DEF SendUnacked, Fault
<1> QED BY <1>1, <1>2, SendStep DEF SendUnacked

\* The handler fails before anything is sent.
LEMMA HandlerFailsKeeps ==
    ASSUME IInv, NEW c \in Consumer, HandlerFails(c) PROVE IInv'
<1>1. /\ cons[c].pc = "handle" /\ Goto(c, "fail") /\ errors < MaxErrors /\ errors' = errors + 1
      /\ UNCHANGED <<inbox, mails, dlq, committed, owner, faults, rebalances>>
  BY DEF HandlerFails, At
<1>2. /\ TypeOK /\ Works(cons[c], inbox, mails, dlq, faults)
      /\ Current(c) = Records[cons[c].at] /\ Current(c) \in Msg
  BY <1>1, Facts
<1>3. /\ inbox' \in [Msg -> Statuses] /\ mails' \in [Msg -> 0 .. 2] /\ dlq' \subseteq Msg
      /\ faults' \in 0 .. MaxFaults /\ errors' \in 0 .. MaxErrors /\ errors' # 0
  BY <1>1, Facts, InboxAssumption
<1>4. Grow /\ BoxTrue' /\ Once'
  BY <1>1, <1>3 DEF IInv, Grow, BoxTrue, Once
<1>5. Moved(c, To(c, "fail")) /\ "fail" \in Steps \ {"poll"} /\ "fail" \in Hands
  BY <1>1, <1>2, GotoMoves DEF Steps, Hands
<1>6. Works(To(c, "fail"), inbox', mails', dlq', faults')
  BY <1>1, <1>2, ToFields DEF Works
<1>7. faults' = 0 => InFlightHeld(inbox', cons')
  BY <1>1, <1>2, <1>5, Facts, FlightKeeps
<1> QED BY <1>1, <1>3, <1>4, <1>5, <1>6, <1>7, RecordStep

\* A poison pill goes to the dead letters and is then completed.
LEMMA RouteToDLQKeeps ==
    ASSUME IInv, NEW c \in Consumer, RouteToDLQ(c) PROVE IInv'
<1> DEFINE m == Current(c)
<1>1. /\ cons[c].pc = "route" /\ Goto(c, "complete") /\ dlq' = dlq \cup {m}
      /\ UNCHANGED <<inbox, mails, committed, owner, faults, rebalances, errors>>
  BY DEF RouteToDLQ, At, bounds
<1>2. /\ TypeOK /\ Works(cons[c], inbox, mails, dlq, faults)
      /\ m = Records[cons[c].at] /\ m \in Msg
  BY <1>1, Facts
<1>3. /\ inbox' \in [Msg -> Statuses] /\ mails' \in [Msg -> 0 .. 2] /\ dlq' \subseteq Msg
      /\ faults' \in 0 .. MaxFaults /\ errors' \in 0 .. MaxErrors
  BY <1>1, <1>2, Facts
<1>4. Grow /\ BoxTrue'
  BY <1>1 DEF IInv, Grow, BoxTrue
<1>5. Moved(c, To(c, "complete")) /\ "complete" \in Steps \ {"poll"} /\ "complete" \in Hands
  BY <1>1, <1>2, GotoMoves DEF Steps, Hands
<1>6. Once'
  BY <1>1, <1>2, <1>5, OnceHandles DEF IInv, Once
<1>7. Works(To(c, "complete"), inbox', mails', dlq', faults')
  BY <1>1, <1>2, ToFields DEF Works
<1>8. faults' = 0 => InFlightHeld(inbox', cons')
  BY <1>1, <1>2, <1>5, Facts, FlightKeeps
<1> QED BY <1>1, <1>3, <1>4, <1>5, <1>6, <1>7, <1>8, RecordStep

-----------------------------------------------------------------------------
(* The consume loop *)

\* A record's first step fits its kind.
LEMMA EnterWorks ==
    ASSUME NEW x, x.pc = Enter(x.at), NEW box, NEW sent, NEW dead, NEW flt
    PROVE  /\ Works(x, box, sent, dead, flt)
           /\ x.pc \in {"reject", "insert"} /\ x.pc \in Steps \ {"poll", "commit", "reset"}
           /\ x.pc \notin Hands
BY DEF Enter, Works, Invalid, Steps, Hands

\* A consumer between two messages: it changes its record or the committed offset and
\* no table.
LEMMA LoopStep ==
    ASSUME IInv, NEW c \in Consumer, cons[c].pc \notin Hands \/ faults' > 0,
           NEW x \in ConsRow, cons' = [cons EXCEPT ![c] = x],
           x.pc # "poll" => x.at <= x.end /\ Works(x, inbox, mails, dlq, faults'),
           x.pc \notin Hands \cup {"reset"} \/ faults' > 0,
           UNCHANGED <<inbox, mails, dlq, errors>>,
           committed' \in 1 .. Len(Records) + 1, owner' \in Consumer,
           rebalances' \in 0 .. MaxRebalances,
           faults' = faults \/ faults' \in 1 .. MaxFaults,
           faults' = 0 => Behind(x, inbox, dlq),
           faults' = 0 => \A i \in 1 .. committed' - 1 : Done(i, inbox, dlq)
    PROVE  IInv'
<1>0. /\ cons \in [Consumer -> ConsRow] /\ faults \in 0 .. MaxFaults /\ faults' \in 0 .. MaxFaults
      /\ \A d \in Consumer : cons[d].pc # "poll" => cons[d].at <= cons[d].end
  <2>1. TypeOK /\ cons \in [Consumer -> ConsRow]
    BY DEF IInv, TypeOK, ConsRow
  <2>2. \A d \in Consumer : cons[d].pc # "poll" => cons[d].at <= cons[d].end
    BY <2>1 DEF TypeOK, At
  <2>3. faults \in 0 .. MaxFaults
    BY <2>1 DEF TypeOK
  <2>4. faults' \in 0 .. MaxFaults
    BY <2>3
  <2> QED BY <2>1, <2>2, <2>3, <2>4
<1>1. Moved(c, x)
  BY <1>0 DEF Moved
<1>2. TypeOK'
  <2>1. \A d \in Consumer : cons'[d].pc # "poll" => cons'[d].at <= cons'[d].end
    BY <1>0, <1>1 DEF Moved
  <2>2. cons' \in [Consumer -> ConsRow]
    BY <1>1 DEF Moved
  <2> QED BY <1>0, <2>1, <2>2 DEF IInv, TypeOK, ConsRow, At
<1>3. Grow
  BY <1>0 DEF Grow
<1>4. BoxTrue'
  BY <1>0, <1>3 DEF IInv, BoxTrue, Grow
<1>5. faults' = 0 => faults = 0 /\ ~(faults' > 0)
  BY <1>0
<1>6. Once'
  <2> SUFFICES ASSUME faults' = 0, errors' = 0 PROVE HandledOnce(inbox', mails', cons')
    BY DEF Once
  <2> QED BY <1>1, <1>5, OnceLeaves DEF IInv, Once
<1>7. faults' = 0 => InFlightHeld(inbox', cons')
  <2> SUFFICES ASSUME faults' = 0, NEW m \in Msg, inbox[m] = "PROCESSING"
               PROVE  \E d \in Consumer : Handles(cons'[d], m)
    BY DEF InFlightHeld
  <2>1. PICK d \in Consumer : Handles(cons[d], m)
    BY <1>5 DEF IInv, Skipped, InFlightHeld
  <2>2. d # c
    BY <1>5, <2>1 DEF Handles, Hands
  <2> QED BY <1>1, <2>1, <2>2 DEF Moved
<1> QED BY <1>1, <1>2, <1>3, <1>4, <1>6, <1>7, StepKeeps

\* A fetch: everything before it is done.
LEMMA PollKeeps ==
    ASSUME IInv, NEW c \in Consumer, Poll(c) PROVE IInv'
<1> PICK last \in Lasts(c) :
        cons' = [cons EXCEPT ![c] = [pc |-> Enter(@.next), at |-> @.next, end |-> last,
                                     next |-> last + 1]]
  BY DEF Poll
<1> DEFINE x == [pc |-> Enter(cons[c].next), at |-> cons[c].next, end |-> last, next |-> last + 1]
<1>1. /\ cons[c].pc = "poll"
      /\ UNCHANGED <<inbox, mails, dlq, committed, owner, faults, rebalances, errors>>
  BY DEF Poll, At, bounds
<1>2. /\ cons[c].next \in 1 .. Len(Records) + 1 /\ last \in cons[c].next .. Len(Records)
      /\ Len(Records) \in Nat
  BY InboxAssumption DEF IInv, TypeOK, Lasts
<1>3. x.pc = Enter(x.at) /\ x.at = cons[c].next /\ x.end = last /\ x.next = last + 1
      /\ cons' = [cons EXCEPT ![c] = x]
  OBVIOUS
<1>4. Enter(cons[c].next) \in Steps
  BY DEF Enter, Steps
<1>5. x \in ConsRow
  BY <1>2, <1>4 DEF ConsRow
<1> HIDE DEF x
<1>6. /\ x.pc # "poll" => x.at <= x.end /\ Works(x, inbox, mails, dlq, faults')
      /\ x.pc \notin Hands \cup {"reset"} /\ x.pc # "poll" /\ x.pc # "commit"
  BY <1>2, <1>3, EnterWorks
<1>7. faults' = 0 => Behind(x, inbox, dlq) /\ \A i \in 1 .. committed' - 1 : Done(i, inbox, dlq)
  <2> SUFFICES ASSUME faults = 0
               PROVE  Behind(x, inbox, dlq) /\ \A i \in 1 .. committed - 1 : Done(i, inbox, dlq)
    BY <1>1
  <2>1. /\ \A i \in 1 .. cons[c].next - 1 : Done(i, inbox, dlq)
        /\ \A i \in 1 .. committed - 1 : Done(i, inbox, dlq)
    BY <1>1 DEF IInv, Skipped, Behind
  <2>2. \A i \in 1 .. x.next - 1 : i \in 1 .. cons[c].next - 1 \/ i \in x.at .. x.end
    BY <1>2, <1>3
  <2> QED BY <1>3, <1>6, <2>1, <2>2 DEF Behind
<1>8. committed' \in 1 .. Len(Records) + 1 /\ owner' \in Consumer /\ rebalances' \in 0 .. MaxRebalances
  BY <1>1 DEF IInv, TypeOK
<1> QED BY <1>1, <1>3, <1>5, <1>6, <1>7, <1>8, LoopStep DEF Hands

\* After a record that is done, the next one or the next fetch.
LEMMA NextRecordKeeps ==
    ASSUME IInv, NEW c \in Consumer, cons[c].pc = "commit", NextRecord(c),
           UNCHANGED <<inbox, mails, dlq, owner, rebalances, errors>>,
           committed' \in {committed, cons[c].at + 1},
           faults' = faults \/ faults' \in 1 .. MaxFaults
    PROVE  IInv'
<1> DEFINE at == cons[c].at
           end == cons[c].end
           more == [pc |-> Enter(at + 1), at |-> at + 1, end |-> end, next |-> cons[c].next]
           x == IF at < end THEN more ELSE Fetcher(cons[c].next)
<1>1. /\ at \in 1 .. end /\ end \in 1 .. Len(Records) /\ Len(Records) \in Nat
      /\ cons[c].next \in 1 .. Len(Records) + 1
      /\ committed \in 1 .. Len(Records) + 1 /\ faults \in 0 .. MaxFaults
  BY CurrentIsMsg, InboxAssumption DEF IInv, TypeOK
<1>2. cons' = [cons EXCEPT ![c] = x]
  BY DEF NextRecord
<1>3. committed' \in 1 .. Len(Records) + 1 /\ owner' \in Consumer /\ rebalances' \in 0 .. MaxRebalances
  BY <1>1 DEF IInv, TypeOK
<1>4. faults' = 0 =>
        /\ \A i \in 1 .. at : Done(i, inbox, dlq)
        /\ \A i \in 1 .. committed' - 1 : Done(i, inbox, dlq)
        /\ \A i \in 1 .. cons[c].next - 1 : Done(i, inbox, dlq) \/ i \in at .. end
  <2> SUFFICES ASSUME faults' = 0
               PROVE  /\ \A i \in 1 .. at : Done(i, inbox, dlq)
                      /\ \A i \in 1 .. committed' - 1 : Done(i, inbox, dlq)
                      /\ \A i \in 1 .. cons[c].next - 1 : Done(i, inbox, dlq) \/ i \in at .. end
    OBVIOUS
  <2>0. faults = 0
    BY <1>1
  <2>1. Behind(cons[c], inbox, dlq) /\ \A i \in 1 .. committed - 1 : Done(i, inbox, dlq)
    BY <2>0 DEF IInv, Skipped
  <2>2. \A i \in 1 .. at - 1 : Done(i, inbox, dlq)
    BY <2>1 DEF Behind
  <2>3. Done(at, inbox, dlq)
    BY <2>1 DEF Behind
  <2>4. \A i \in 1 .. at : i = at \/ i \in 1 .. at - 1
    BY <1>1
  <2>5. \A i \in 1 .. at : Done(i, inbox, dlq)
    BY <2>2, <2>3, <2>4
  <2>6. \A i \in 1 .. committed' - 1 : Done(i, inbox, dlq)
    <3>1. CASE committed' = committed
      BY <2>1, <3>1
    <3>2. CASE committed' = at + 1
      <4>1. committed' - 1 = at
        BY <1>1, <3>2
      <4> QED BY <2>5, <4>1
    <3> QED BY <3>1, <3>2
  <2> QED BY <2>1, <2>5, <2>6 DEF Behind
<1>5. CASE at < end
  <2>1. /\ more.pc = Enter(more.at) /\ more.at = at + 1 /\ more.end = end
        /\ more.next = cons[c].next /\ cons' = [cons EXCEPT ![c] = more]
    BY <1>2, <1>5
  <2>2. Enter(at + 1) \in Steps
    BY DEF Enter, Steps
  <2>3. more \in ConsRow
    BY <1>1, <1>5, <2>2 DEF ConsRow
  <2> HIDE DEF more
  <2>4. /\ more.pc # "poll" => more.at <= more.end /\ Works(more, inbox, mails, dlq, faults')
        /\ more.pc \notin Hands \cup {"reset"} /\ more.pc # "poll" /\ more.pc # "commit"
    BY <1>1, <1>5, <2>1, EnterWorks, SMTT(60)
  <2>5. faults' = 0 => Behind(more, inbox, dlq)
    <3>1. \A i \in at .. end : i \in 1 .. at \/ i \in more.at .. more.end
      BY <1>1, <2>1
    <3>2. more.at - 1 = at
      BY <1>1, <2>1
    <3> QED BY <1>4, <2>1, <2>4, <3>1, <3>2 DEF Behind
  <2> QED BY <1>3, <1>4, <2>1, <2>3, <2>4, <2>5, LoopStep DEF Hands
<1>6. CASE ~(at < end)
  <2> DEFINE f == Fetcher(cons[c].next)
  <2>1. /\ f \in ConsRow /\ f.pc = "poll" /\ f.next = cons[c].next
        /\ cons' = [cons EXCEPT ![c] = f]
    BY <1>1, <1>2, <1>6 DEF Fetcher, ConsRow, Steps
  <2> HIDE DEF f
  <2>2. faults' = 0 => Behind(f, inbox, dlq)
    <3>1. \A i \in at .. end : i \in 1 .. at
      BY <1>1, <1>6
    <3> QED BY <1>4, <2>1, <3>1 DEF Behind
  <2> QED BY <1>3, <1>4, <2>1, <2>2, LoopStep DEF Hands
<1> QED BY <1>5, <1>6

\* The record behind the consumer is committed and the next one is taken.
LEMMA CommitRecordsKeeps ==
    ASSUME IInv, NEW c \in Consumer, CommitRecords(c) PROVE IInv'
BY NextRecordKeeps DEF CommitRecords, At, bounds

\* Everything fetched before a poll is done.
LEMMA AutoCommitKeeps ==
    ASSUME IInv, NEW c \in Consumer, AutoCommit(c) PROVE IInv'
<1>1. /\ cons[c].pc = "poll" /\ committed' = cons[c].next
      /\ UNCHANGED <<inbox, mails, dlq, owner, cons, faults, rebalances, errors>>
  BY DEF AutoCommit, At, bounds
<1>2. cons[c] \in ConsRow /\ cons' = [cons EXCEPT ![c] = cons[c]]
  BY <1>1 DEF IInv, TypeOK, ConsRow
<1>3. committed' \in 1 .. Len(Records) + 1 /\ owner' \in Consumer /\ rebalances' \in 0 .. MaxRebalances
  <2>1. cons[c].next \in 1 .. Len(Records) + 1
    BY <1>2 DEF ConsRow
  <2> QED BY <1>1, <2>1 DEF IInv, TypeOK
<1>4. faults = 0 => Behind(cons[c], inbox, dlq)
  BY DEF IInv, Skipped
<1>5. faults' = 0 => \A i \in 1 .. committed' - 1 : Done(i, inbox, dlq)
  BY <1>1, <1>4 DEF Behind
<1> QED BY <1>1, <1>2, <1>3, <1>4, <1>5, LoopStep DEF Hands

\* The new owner fetches next from the committed offset, before which all is done; a
\* batch it still has goes on.
LEMMA RebalanceKeeps ==
    ASSUME IInv, NEW c \in Consumer, Rebalance(c) PROVE IInv'
<1> DEFINE x == [pc |-> cons[c].pc, at |-> cons[c].at, end |-> cons[c].end, next |-> committed]
<1>1. /\ cons' = [cons EXCEPT ![c] = x] /\ owner' = c
      /\ rebalances < MaxRebalances /\ rebalances' = rebalances + 1
      /\ UNCHANGED <<inbox, mails, dlq, committed, faults, errors>>
  BY DEF Rebalance
<1>2. /\ TypeOK /\ cons \in [Consumer -> ConsRow] /\ committed \in 1 .. Len(Records) + 1
      /\ rebalances \in 0 .. MaxRebalances
  BY DEF IInv, TypeOK, ConsRow
<1>3. x \in ConsRow
  BY <1>2 DEF ConsRow
<1>4. x.pc = cons[c].pc /\ x.at = cons[c].at /\ x.end = cons[c].end /\ x.next = committed
  OBVIOUS
<1> HIDE DEF x
<1>5. Moved(c, x)
  BY <1>1, <1>2, <1>3 DEF Moved
<1>6. TypeOK'
  <2>1. \A d \in Consumer : cons[d].pc # "poll" => cons[d].at <= cons[d].end
    BY <1>2 DEF TypeOK, At
  <2>2. \A d \in Consumer : cons'[d].pc # "poll" => cons'[d].at <= cons'[d].end
    BY <1>4, <1>5, <2>1 DEF Moved
  <2>3. rebalances' \in 0 .. MaxRebalances
    BY <1>1, <1>2, InboxAssumption
  <2>4. cons' \in [Consumer -> ConsRow]
    BY <1>5 DEF Moved
  <2> QED BY <1>1, <1>2, <2>2, <2>3, <2>4 DEF TypeOK, ConsRow, At
<1>7. Grow /\ BoxTrue'
  BY <1>1 DEF IInv, Grow, BoxTrue
<1>8. \A d \in Consumer : cons'[d].pc = cons[d].pc /\ cons'[d].at = cons[d].at
  BY <1>4, <1>5 DEF Moved
<1>9. \A d \in Consumer : \A m : Handles(cons'[d], m) <=> Handles(cons[d], m)
  BY <1>8 DEF Handles
<1>10. Once'
  BY <1>1, <1>8, <1>9 DEF IInv, Once, HandledOnce
<1>11. x.pc # "poll" => Works(x, inbox', mails', dlq', faults')
  BY <1>1, <1>4 DEF IInv, AllWork, Works
<1>12. faults' = 0 => /\ Behind(x, inbox', dlq')
                      /\ \A i \in 1 .. committed' - 1 : Done(i, inbox', dlq')
                      /\ InFlightHeld(inbox', cons')
  BY <1>1, <1>4, <1>9 DEF IInv, Skipped, Behind, InFlightHeld
<1> QED BY <1>5, <1>6, <1>7, <1>10, <1>11, <1>12, StepKeeps

\* A crash is a fault.
LEMMA CrashKeeps ==
    ASSUME IInv, NEW c \in Consumer, Crash(c) PROVE IInv'
<1> DEFINE f == Fetcher(committed)
<1>1. /\ cons' = [cons EXCEPT ![c] = f]
      /\ UNCHANGED <<inbox, mails, dlq, committed, owner, rebalances, errors>>
  BY DEF Crash
<1>2. faults' \in 1 .. MaxFaults /\ committed \in 1 .. Len(Records) + 1
      /\ owner \in Consumer /\ rebalances \in 0 .. MaxRebalances
  BY InboxAssumption DEF Crash, Fault, IInv, TypeOK
<1>3. f \in ConsRow /\ f.pc = "poll"
  BY <1>2, InboxAssumption DEF Fetcher, ConsRow, Steps
<1>4. faults' > 0 /\ faults' # 0
  BY <1>2
<1> HIDE DEF f
<1> QED BY <1>1, <1>2, <1>3, <1>4, LoopStep

\* So is a database error: what a consumer then takes for granted is excused.
LEMMA StatementFailsKeeps ==
    ASSUME IInv, NEW c \in Consumer, StatementFails(c) PROVE IInv'
<1>1. UNCHANGED <<inbox, mails, dlq, committed, owner, rebalances, errors>>
  BY DEF StatementFails
<1>2. faults' \in 1 .. MaxFaults
  BY InboxAssumption DEF StatementFails, Fault, IInv, TypeOK
<1>3. faults' > 0 /\ faults' # 0
  BY <1>2
<1>4. ASSUME cons[c].pc # "poll", NEW l \in {"commit", "complete"}, Goto(c, l),
             l = "complete" => cons[c].pc = "route"
      PROVE  IInv'
  <2>1. l \in Steps \ {"poll"}
    BY DEF Steps
  <2>2. Works(cons[c], inbox, mails, dlq, faults)
    BY <1>4, Facts
  <2>3. Works(To(c, l), inbox, mails, dlq, faults')
    BY <1>3, <1>4, <2>2, ToFields DEF Works
  <2> QED BY <1>1, <1>2, <1>3, <1>4, <2>1, <2>3, QuietStep
<1>5. CASE At(c, "commit") /\ NextRecord(c)
  BY <1>1, <1>2, <1>5, NextRecordKeeps DEF At
<1> QED BY <1>4, <1>5 DEF StatementFails, At

-----------------------------------------------------------------------------
(* The theorems *)

\* At the start nothing was fetched, sent or committed.
LEMMA InitIInv == Init => IInv
<1> SUFFICES ASSUME Init PROVE IInv
  OBVIOUS
<1>1. Len(Records) \in Nat
  BY InboxAssumption
<1>2. \A c \in Consumer : /\ cons[c] = Fetcher(1) /\ cons[c].pc = "poll" /\ cons[c].next = 1
  BY DEF Init, Fetcher
<1>3. Fetcher(1) \in ConsRow
  BY <1>1 DEF Fetcher, ConsRow, Steps
<1>4. TypeOK
  BY <1>1, <1>2, <1>3, InboxAssumption DEF Init, TypeOK, ConsRow, At
<1>5. AllWork /\ BoxTrue
  BY <1>2 DEF Init, AllWork, BoxTrue
<1>6. Skipped
  BY <1>2 DEF Init, Skipped, Behind, InFlightHeld
<1>7. Once
  BY <1>2 DEF Init, Once, HandledOnce, Handles
<1> QED BY <1>4, <1>5, <1>6, <1>7 DEF IInv

\* Every step keeps the invariant.
LEMMA NextIInv == IInv /\ [Next]_vars => IInv'
<1> SUFFICES ASSUME IInv, [Next]_vars PROVE IInv'
  OBVIOUS
<1>1. CASE UNCHANGED vars
  BY <1>1 DEF vars, IInv, TypeOK, AllWork, BoxTrue, Skipped, Once, InFlightHeld, HandledOnce, At
<1>2. CASE Next
  BY <1>2, PollKeeps, CommitRecordsKeeps, AutoCommitKeeps, RejectKeeps, TryStartProcessingKeeps,
     CheckStatusKeeps, ResetFailedKeeps, HandleMessageKeeps, RouteToDLQKeeps, MarkCompletedKeeps,
     MarkFailedKeeps, RebalanceKeeps, CrashKeeps, HandlerFailsKeeps, SendUnackedKeeps,
     StatementFailsKeeps DEF Next, Work
<1> QED BY <1>1, <1>2

\* The inductive invariant holds in every reachable state.
THEOREM Invariance == Spec => []IInv
BY InitIInv, NextIInv, PTL DEF Spec

\* A message that is COMPLETED had its e-mail sent, or is a poison pill in the dead
\* letters unless writing it there failed.
THEOREM CompletedIsDoneHolds == Spec => []CompletedIsDone
<1>1. IInv => CompletedIsDone
  BY DEF IInv, BoxTrue, CompletedIsDone, Invalid
<1> QED BY <1>1, Invariance, PTL

\* Without faults a committed record that is JSON was handled, is in the hands of a
\* consumer, or is FAILED after an error of the handler; one without an id is in the
\* dead letters.  This holds whatever rebalances did.
THEOREM CommittedHandledHolds == Spec => []CommittedHandled
<1>1. IInv => CommittedHandled
  <2> SUFFICES ASSUME IInv, faults = 0, NEW i \in 1 .. committed - 1
               PROVE  /\ Kind[Records[i]] \in {"mail", "other", "poison"} =>
                            \/ inbox[Records[i]] = "COMPLETED"
                            \/ /\ inbox[Records[i]] = "PROCESSING"
                               /\ \E c \in Consumer : Handling(c, Records[i])
                            \/ inbox[Records[i]] = "FAILED" /\ errors > 0
                      /\ Kind[Records[i]] = "anonymous" => Records[i] \in dlq
    BY DEF CommittedHandled
  <2>1. i \in DOMAIN Records /\ committed \in Nat
    BY InboxAssumption DEF IInv, TypeOK
  <2>2. Records[i] \in Msg
    BY <2>1, InboxAssumption
  <2>3. Done(i, inbox, dlq) /\ InFlightHeld(inbox, cons)
    BY DEF IInv, Skipped
  <2>4. inbox[Records[i]] \in {"NONE", "PROCESSING", "COMPLETED", "FAILED"} /\ errors \in Nat
    BY <2>2, InboxAssumption DEF IInv, TypeOK
  <2>5. errors = 0 => inbox[Records[i]] # "FAILED"
    BY <2>2 DEF IInv, Once, HandledOnce
  <2>6. inbox[Records[i]] = "PROCESSING" => \E c \in Consumer : Handling(c, Records[i])
    BY <2>2, <2>3 DEF InFlightHeld, Handles, Handling, Current
  <2>7. Kind[Records[i]] = "anonymous" => inbox[Records[i]] = "NONE"
    BY <2>2 DEF IInv, BoxTrue, Invalid
  <2> QED BY <2>3, <2>4, <2>5, <2>6, <2>7 DEF Done
<1> QED BY <1>1, Invariance, PTL

\* Duplicate records and rebalances alone never send an e-mail twice.
THEOREM OneMailHolds == Spec => []OneMail
<1>1. IInv => OneMail
  <2> SUFFICES ASSUME IInv, NEW m \in Msg, faults + errors = 0 PROVE mails[m] <= 1
    BY DEF OneMail
  <2>1. faults \in Nat /\ errors \in Nat
    BY InboxAssumption DEF IInv, TypeOK
  <2>2. faults = 0 /\ errors = 0
    BY <2>1
  <2> QED BY <2>2 DEF IInv, Once, HandledOnce
<1> QED BY <1>1, Invariance, PTL
=============================================================================
