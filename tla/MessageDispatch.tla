--------------------------- MODULE MessageDispatch ---------------------------
(***************************************************************************)
(* Organization messages: drafts, immediate and scheduled sends, the cron  *)
(* run that promotes what is due and the per-recipient dispatch            *)
(* (api/org_messages.py, services/message_service.py,                      *)
(* services/scheduled_message_worker.py, services/message_send_worker.py). *)
(*                                                                         *)
(* A web request reads the message in its transaction and commits at its   *)
(* end; the deliveries it created are then dispatched one after the other  *)
(* by the same process (BackgroundTasks), as they are after a cron run.    *)
(* Each dispatch is a transaction of its own that reads the delivery, then *)
(* the message, sends, and writes the columns it assigned.                 *)
(*                                                                         *)
(* The purge of a trial (auth/purge_service.py) deletes players, and the   *)
(* database the deliveries to them (ON DELETE CASCADE).                    *)
(***************************************************************************)
EXTENDS Integers, FiniteSets, Sequences

CONSTANTS
  Message,        \* ids of messages; the order of ids is that of scheduled_at
  Text,           \* contents of a message, its recipient filter included
  Unresolvable,   \* those whose filter resolve_recipients cannot evaluate
  Web,            \* web requests that may be in flight
  Cron,           \* cron runs that may overlap
  MaxPerRun,      \* MAX_PER_RUN (200)
  MaxRecipients,  \* bound: recipients a filter resolves to
  MaxFault,       \* bound: requests and processes that die
  MaxPurge        \* bound: deliveries deleted with their player

ASSUME MessageAssumption ==
  /\ Message \subseteq Nat
  /\ Web \cap Cron = {}
  /\ Unresolvable \subseteq Text
  /\ {MaxPerRun, MaxRecipients, MaxFault, MaxPurge} \subseteq Nat

VARIABLES
  msg,       \* the messages table
  row,       \* message_deliveries: the delivery_status of each row, by message,
             \* the last one if it is purged
  purged,    \* the deliveries that are no longer in the table
  due,       \* scheduled messages whose scheduled_at has come
  seats,     \* active memberships of each message's sender in its organization
  run,       \* what each web request or cron run is doing
  faults,    \* how many of them died
  releases,  \* history: how often a message was promoted, emptied or cancelled
  sends      \* history: how often each delivery was handed to a provider

vars == <<msg, row, purged, due, seats, run, faults, releases, sends>>

Runner == Web \cup Cron

MessageStatus == {"DRAFT", "SCHEDULED", "SENDING", "SENT", "CANCELLED"}

\* A message before its creation, and one that was deleted.
None == [status |-> "NONE"]
Gone == [status |-> "GONE"]

MessageRow == [status: MessageStatus, text: Text, total: Nat, delivered: Nat, failed: Nat]

Exists(m) == msg[m].status \in MessageStatus

Idle == [op |-> "idle"]

Init ==
  /\ msg = [m \in Message |-> None]
  /\ row = [m \in Message |-> <<>>]
  /\ purged = {}
  /\ due = {}
  /\ seats \in [Message -> 0..2]
  /\ run = [r \in Runner |-> Idle]
  /\ faults = 0
  /\ releases = [m \in Message |-> 0]
  /\ sends = [m \in Message |-> <<>>]

NewMessage(status, text) ==
  [status |-> status, text |-> text, total |-> 0, delivered |-> 0, failed |-> 0]

\* n new deliveries of a message, and the ids of those that are to be sent.
NewRows(n) == [i \in 1..n |-> "PENDING"]
Unsent(n) == [i \in 1..n |-> 0]
PendingIn(m, rows) ==
  {<<m, i>> : i \in {j \in DOMAIN rows : rows[j] = "PENDING"}} \ purged

\* The queue a runner works off, one delivery at a time; it ends with the last.
Queue(todo) == IF todo = {} THEN Idle ELSE [op |-> "queue", todo |-> todo]

-----------------------------------------------------------------------------
(* POST /org/api/messages *)

CreateDraft(m, text) ==
  /\ msg[m] = None
  /\ msg' = [msg EXCEPT ![m] = NewMessage("DRAFT", text)]
  /\ UNCHANGED <<row, purged, due, seats, run, faults, releases, sends>>

Schedule(m, text) ==
  /\ msg[m] = None
  /\ msg' = [msg EXCEPT ![m] = NewMessage("SCHEDULED", text)]
  /\ UNCHANGED <<row, purged, due, seats, run, faults, releases, sends>>

\* Created and promoted in one transaction, which a filter that cannot be
\* evaluated rolls back; the process then dispatches.
CreateAndSend(r, m, text, n) ==
  /\ run[r] = Idle
  /\ msg[m] = None
  /\ text \notin Unresolvable
  /\ msg' = [msg EXCEPT ![m] = [NewMessage("SENDING", text) EXCEPT !.total = n]]
  /\ row' = [row EXCEPT ![m] = NewRows(n)]
  /\ sends' = [sends EXCEPT ![m] = Unsent(n)]
  /\ releases' = [releases EXCEPT ![m] = @ + 1]
  /\ run' = [run EXCEPT ![r] = Queue(PendingIn(m, NewRows(n)))]
  /\ UNCHANGED <<purged, due, seats, faults>>

-----------------------------------------------------------------------------
(* POST /{id}/send, PATCH /{id}, DELETE /{id} *)

\* Fault: any message that exists may be sent.
IsDraft_Any(m) == Exists(m)

IsDraft(m) == msg[m].status = "DRAFT"

\* The three handlers read the message and refuse what is not a draft.
DraftRead(r, m, op) ==
  /\ run[r] = Idle
  /\ IsDraft(m)
  /\ run' = [run EXCEPT ![r] = [op |-> op, message |-> m, text |-> msg[m].text]]
  /\ UNCHANGED <<msg, row, purged, due, seats, faults, releases, sends>>

Promoted(x, n) == [x EXCEPT !.status = "SENDING", !.total = n]

\* The recipients are resolved anew, at least one; the update of a row that
\* was deleted meanwhile fails and rolls back, here as in PatchCommit.
SendCommit(r, n) ==
  /\ run[r].op = "send"
  /\ run[r].text \notin Unresolvable
  /\ LET m == run[r].message
         rows == row[m] \o NewRows(n)
     IN /\ Exists(m)
        /\ msg' = [msg EXCEPT ![m] = Promoted(@, n)]
        /\ row' = [row EXCEPT ![m] = rows]
        /\ sends' = [sends EXCEPT ![m] = @ \o Unsent(n)]
        /\ releases' = [releases EXCEPT ![m] = @ + 1]
        /\ run' = [run EXCEPT ![r] =
             Queue(PendingIn(m, rows) \ PendingIn(m, row[m]))]
  /\ UNCHANGED <<purged, due, seats, faults>>

\* No recipients, or a filter that cannot be evaluated.
SendRefused(r) ==
  /\ run[r].op = "send"
  /\ run' = [run EXCEPT ![r] = Idle]
  /\ UNCHANGED <<msg, row, purged, due, seats, faults, releases, sends>>

\* Only what differs from what was read is written.
PatchCommit(r, text) ==
  /\ run[r].op = "patch"
  /\ Exists(run[r].message)
  /\ msg' = [msg EXCEPT ![run[r].message].text = IF text = run[r].text THEN @ ELSE text]
  /\ run' = [run EXCEPT ![r] = Idle]
  /\ UNCHANGED <<row, purged, due, seats, faults, releases, sends>>

\* The deliveries go with their message (ON DELETE CASCADE).
DeleteCommit(r) ==
  /\ run[r].op = "delete"
  /\ LET m == run[r].message
     IN /\ Exists(m)
        /\ msg' = [msg EXCEPT ![m] = Gone]
        /\ row' = [row EXCEPT ![m] = <<>>]
        /\ sends' = [sends EXCEPT ![m] = <<>>]
  /\ run' = [run EXCEPT ![r] = Idle]
  /\ UNCHANGED <<purged, due, seats, faults, releases>>

-----------------------------------------------------------------------------
(* The cron: find_due_messages and run_scheduled *)

TimeComes(m) ==
  /\ msg[m].status = "SCHEDULED"
  /\ m \notin due
  /\ due' = due \cup {m}
  /\ UNCHANGED <<msg, row, purged, seats, run, faults, releases, sends>>

\* Fault: what lost its sender is not due.
IsDue_Seated(m) == m \in due /\ msg[m].status = "SCHEDULED" /\ seats[m] > 0

IsDue(m) == m \in due /\ msg[m].status = "SCHEDULED"

\* At most MaxPerRun messages, the ones scheduled first.
FirstDue ==
  {m \in Message : IsDue(m) /\ Cardinality({k \in Message : IsDue(k) /\ k < m}) < MaxPerRun}

CronRead(r) ==
  /\ run[r] = Idle
  /\ FirstDue # {}
  /\ run' = [run EXCEPT ![r] = [op |-> "cron", batch |-> FirstDue]]
  /\ UNCHANGED <<msg, row, purged, due, seats, faults, releases, sends>>

\* _promote_message: cancelled without a membership, sent at once without
\* recipients (total_recipients is 0 as it was read, and not written).
CronReleased(m, x, n) ==
  CASE seats[m] = 0 -> [x EXCEPT !.status = "CANCELLED"]
    [] seats[m] # 0 /\ n = 0 -> [x EXCEPT !.status = "SENT"]
    [] seats[m] # 0 /\ n # 0 -> Promoted(x, n)

\* _materialize_actor expects one membership at most, and resolve_recipients a
\* filter of which POST has checked no more than the type.
Poison(m) == seats[m] > 1 \/ (seats[m] = 1 /\ msg[m].text \in Unresolvable)

\* One commit for the whole batch; the queue takes every pending delivery of
\* the messages promoted, those of an overlapping run included.
CronCommit(r, found) ==
  /\ run[r].op = "cron"
  /\ LET batch == run[r].batch
         count(m) == IF seats[m] = 0 THEN 0 ELSE found[m]
         rows(m) == row[m] \o NewRows(count(m))
     IN /\ \A m \in batch : ~Poison(m)
        /\ msg' = [m \in Message |->
             IF m \in batch THEN CronReleased(m, msg[m], found[m]) ELSE msg[m]]
        /\ row' = [m \in Message |-> IF m \in batch THEN rows(m) ELSE row[m]]
        /\ sends' = [m \in Message |->
             IF m \in batch THEN sends[m] \o Unsent(count(m)) ELSE sends[m]]
        /\ releases' = [m \in Message |->
             IF m \in batch THEN releases[m] + 1 ELSE releases[m]]
        /\ run' = [run EXCEPT ![r] =
             Queue(UNION {PendingIn(m, rows(m)) : m \in {k \in batch : count(k) > 0}})]
  /\ UNCHANGED <<purged, due, seats, faults>>

\* The exception of one message rolls the whole run back.
CronFail(r) ==
  /\ run[r].op = "cron"
  /\ \E m \in run[r].batch : Poison(m)
  /\ run' = [run EXCEPT ![r] = Idle]
  /\ UNCHANGED <<msg, row, purged, due, seats, faults, releases, sends>>

-----------------------------------------------------------------------------
(* dispatch_message_delivery *)

\* The delivery is read; one that is gone or no longer pending is skipped.
DispatchRead(r) ==
  /\ run[r].op = "queue"
  /\ \E d \in run[r].todo :
       LET rest == run[r].todo \ {d}
           pending == d \in PendingIn(d[1], row[d[1]])
       IN run' = [run EXCEPT ![r] =
            IF pending THEN [op |-> "dispatch", delivery |-> d, todo |-> rest]
                       ELSE Queue(rest)]
  /\ UNCHANGED <<msg, row, purged, due, seats, faults, releases, sends>>

\* The message and the player are read and the channels tried; one works, or
\* none.
DispatchSend(r, ok) ==
  /\ run[r].op = "dispatch"
  /\ LET m == run[r].delivery[1]
         i == run[r].delivery[2]
     IN /\ Exists(m) /\ <<m, i>> \notin purged
        /\ sends' = [sends EXCEPT ![m][i] = IF ok THEN @ + 1 ELSE @]
        /\ run' = [run EXCEPT ![r] =
             [op |-> "sent", delivery |-> run[r].delivery, todo |-> run[r].todo,
              ok |-> ok, read |-> msg[m]]]
  /\ UNCHANGED <<msg, row, purged, due, seats, faults, releases>>

Delivered(q) == IF q.ok THEN q.read.delivered + 1 ELSE q.read.delivered

\* Fault: a delivery no channel takes is not counted.
Failed_NotCounted(q) == q.read.failed

\* Fault: the counter is taken for what is left.
Failed_Down(q) == q.read.failed - 1

Failed(q) == IF q.ok THEN q.read.failed ELSE q.read.failed + 1

\* Fault: one delivery too early.
Accounted_Early(q) == q.read.total - Delivered(q) - Failed(q) <= 1

\* Every delivery is accounted for, by the counters as this dispatch read them.
Accounted(q) == q.read.total - Delivered(q) - Failed(q) <= 0

\* The columns assigned: one counter, and the status if all is accounted for.
Counted(x, q) ==
  [x EXCEPT !.delivered = IF q.ok THEN Delivered(q) ELSE @,
            !.failed = IF q.ok THEN @ ELSE Failed(q),
            !.status = IF q.read.status = "SENDING" /\ Accounted(q) THEN "SENT" ELSE @]

DispatchCommit(r) ==
  /\ run[r].op = "sent"
  /\ LET q == run[r]
         m == q.delivery[1]
     IN /\ Exists(m) /\ q.delivery \notin purged
        /\ row' = [row EXCEPT ![m][q.delivery[2]] = IF q.ok THEN "SENT" ELSE "FAILED"]
        /\ msg' = [msg EXCEPT ![m] = Counted(@, q)]
        /\ run' = [run EXCEPT ![r] = Queue(q.todo)]
  /\ UNCHANGED <<purged, due, seats, faults, releases, sends>>

\* The message or the player is not found, or no longer there at the commit:
\* the delivery went with it, so the FAILED or SENT it is given finds no row and
\* the transaction is rolled back with what it counted.  The exception ends the
\* tasks of a request; a cron run goes on with the next.
DispatchLost(r) ==
  /\ run[r].op \in {"dispatch", "sent"}
  /\ ~Exists(run[r].delivery[1]) \/ run[r].delivery \in purged
  /\ run' = [run EXCEPT ![r] = IF r \in Cron THEN Queue(run[r].todo) ELSE Idle]
  /\ UNCHANGED <<msg, row, purged, due, seats, faults, releases, sends>>

\* The draft was deleted under the request: nothing is written.
LostDraft(r) ==
  /\ run[r].op \in {"send", "patch", "delete"}
  /\ ~Exists(run[r].message)
  /\ run' = [run EXCEPT ![r] = Idle]
  /\ UNCHANGED <<msg, row, purged, due, seats, faults, releases, sends>>

\* purge_user_data deletes the player of a delivery.
PlayerPurged(m, i) ==
  /\ i \in DOMAIN row[m]
  /\ <<m, i>> \notin purged
  /\ Cardinality(purged) < MaxPurge
  /\ purged' = purged \cup {<<m, i>>}
  /\ UNCHANGED <<msg, row, due, seats, run, faults, releases, sends>>

-----------------------------------------------------------------------------

\* A request fails or its process dies: an open transaction is rolled back and
\* what was queued in memory is lost.
Crash(r) ==
  /\ run[r] # Idle
  /\ faults < MaxFault
  /\ faults' = faults + 1
  /\ run' = [run EXCEPT ![r] = Idle]
  /\ UNCHANGED <<msg, row, purged, due, seats, releases, sends>>

\* What a request or a cron run does once it has begun.
Proceed(r) ==
  \/ \E n \in 1..MaxRecipients : SendCommit(r, n)
  \/ SendRefused(r)
  \/ \E text \in Text : PatchCommit(r, text)
  \/ DeleteCommit(r)
  \/ \E found \in [Message -> 0..MaxRecipients] : CronCommit(r, found)
  \/ CronFail(r)
  \/ DispatchRead(r)
  \/ \E ok \in BOOLEAN : DispatchSend(r, ok)
  \/ DispatchCommit(r)
  \/ DispatchLost(r)
  \/ LostDraft(r)

Begin(m) ==
  \/ \E text \in Text : CreateDraft(m, text) \/ Schedule(m, text)
  \/ \E r \in Web, text \in Text, n \in 1..MaxRecipients : CreateAndSend(r, m, text, n)
  \/ \E r \in Web, op \in {"send", "patch", "delete"} : DraftRead(r, m, op)
  \/ TimeComes(m)

Next ==
  \/ \E m \in Message : Begin(m) \/ \E i \in DOMAIN row[m] : PlayerPurged(m, i)
  \/ \E r \in Cron : CronRead(r)
  \/ \E r \in Runner : Proceed(r) \/ Crash(r)

\* A process that has begun goes on; the external scheduler keeps calling.
Fairness ==
  /\ \A r \in Runner : WF_vars(Proceed(r))
  /\ \A r \in Cron : WF_vars(CronRead(r))

Spec == Init /\ [][Next]_vars /\ Fairness

-----------------------------------------------------------------------------
(* Properties *)

Request ==
  {Idle}
  \cup [op: {"send", "patch", "delete"}, message: Message, text: Text]
  \cup [op: {"cron"}, batch: SUBSET Message]
  \cup [op: {"queue"}, todo: SUBSET (Message \X Nat)]
  \cup [op: {"dispatch"}, delivery: Message \X Nat, todo: SUBSET (Message \X Nat)]
  \cup [op: {"sent"}, delivery: Message \X Nat, todo: SUBSET (Message \X Nat),
        ok: BOOLEAN, read: MessageRow]

TypeOK ==
  /\ msg \in [Message -> {None, Gone} \cup MessageRow]
  /\ row \in [Message -> Seq({"PENDING", "SENT", "FAILED"})]
  /\ sends \in [Message -> Seq(Nat)]
  /\ \A m \in Message : DOMAIN sends[m] = DOMAIN row[m]
  /\ purged \subseteq Message \X Nat
  /\ due \subseteq Message
  /\ seats \in [Message -> 0..2]
  /\ run \in [Runner -> Request]
  /\ faults \in 0..MaxFault
  /\ releases \in [Message -> Nat]

Rows(m, status) == {i \in DOMAIN row[m] : row[m][i] = status}

\* The counters of a message that went out once tell what became of its
\* deliveries, purged ones included, although each dispatch writes a value it
\* computed from an older read.
CountersMatchRows ==
  \A m \in Message : (Exists(m) /\ releases[m] <= 1) =>
    /\ msg[m].total = Len(row[m])
    /\ msg[m].delivered = Cardinality(Rows(m, "SENT"))
    /\ msg[m].failed = Cardinality(Rows(m, "FAILED"))

\* SENT is reported only when every delivery is accounted for
\* (message_send_worker.py:140); one purged while it was pending never is.
SentMeansDone ==
  \A m \in Message :
    (msg[m].status = "SENT" /\ releases[m] <= 1) => Rows(m, "PENDING") = {}

\* A scheduled message is neither sent nor edited nor deleted before its time,
\* whatever the draft endpoints are asked to do.
ScheduledUntouched ==
  [][\A m \in Message :
       (msg[m].status = "SCHEDULED" /\ msg'[m] # msg[m]) => m \in due]_vars

Unpurged(m) == \A d \in purged : d[1] # m

\* As long as no process dies and none of its players is purged, a message that
\* is being sent gets sent, even if overlapping runs promoted it twice and their
\* counters overwrite each other.
SendingFinishes ==
  \A m \in Message :
    [](faults = 0 /\ Unpurged(m)) =>
      (msg[m].status = "SENDING" ~> msg[m].status # "SENDING")

DueScheduled(m) == m \in due /\ msg[m].status = "SCHEDULED"

\* A message that is due is released, however many wait before it, if no message
\* is due whose promotion raises.
DueReleased ==
  [](\A m \in Message : DueScheduled(m) => ~Poison(m)) =>
    \A m \in Message : DueScheduled(m) ~> ~DueScheduled(m)

\* A message that is due is released, if its own sender has one membership and
\* its own filter can be evaluated (scheduled_message_worker.py:3-5).
OwnDueReleased ==
  \A m \in Message :
    (DueScheduled(m) /\ ~Poison(m)) ~> ~DueScheduled(m)
=============================================================================
