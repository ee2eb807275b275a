------------------------ MODULE MessageDispatchProofs ------------------------
(***************************************************************************)
(* What the messages table keeps for any number of messages, web requests, *)
(* cron runs, recipients and processes that die.                           *)
(***************************************************************************)
EXTENDS MessageDispatch, FiniteSetTheorems, SequenceTheorems, TLAPS

-----------------------------------------------------------------------------
(* The inductive invariant.  The counters of a message that was released     *)
(* once agree with its rows because one runner alone has its deliveries and  *)
(* works them off one by one: what that runner read is what is there.        *)

\* The runner r has deliveries of m to work off, or one in its hands.
Handles(r, m) == run[r].op \in {"dispatch", "sent"} /\ run[r].delivery[1] = m
Holds(r, m) ==
  \/ Handles(r, m)
  \/ run[r].op \in {"queue", "dispatch", "sent"} /\ \E d \in run[r].todo : d[1] = m

\* A message whose time has come was scheduled, never a draft, and is not
\* deleted; a cron run only has such messages in its batch.
DueWereScheduled ==
  /\ \A m \in due : msg[m].status \in {"SCHEDULED", "SENDING", "SENT", "CANCELLED"}
  /\ \A r \in Runner : run[r].op = "cron" => run[r].batch \subseteq due

\* What the draft endpoints have read was a draft, and never becomes a
\* scheduled message.
DraftsStayDrafts ==
  \A r \in Runner : run[r].op \in {"send", "patch", "delete"} =>
    /\ run[r].message \notin due
    /\ msg[run[r].message].status \notin {"NONE", "SCHEDULED"}

\* A message that was never released has no row and no runner; one that waits
\* to be released never was.
UnreleasedUntouched ==
  \A m \in Message :
    /\ msg[m].status \in {"NONE", "DRAFT", "SCHEDULED"} => releases[m] = 0
    /\ msg[m].status \in {"SENDING", "SENT", "CANCELLED"} => releases[m] > 0
    /\ releases[m] = 0 => row[m] = <<>> /\ \A r \in Runner : ~Holds(r, m)

OneHolder ==
  \A m \in Message : releases[m] <= 1 =>
    \A r, s \in Runner : Holds(r, m) /\ Holds(s, m) => r = s

\* The delivery a runner has in its hands is pending, and the counters it read
\* are those of the message.
InHandsAt(r, m) ==
  /\ run[r].delivery[2] \in Rows(m, "PENDING")
  /\ run[r].op = "sent" =>
       /\ run[r].read.total = msg[m].total
       /\ run[r].read.delivered = msg[m].delivered
       /\ run[r].read.failed = msg[m].failed

InHands ==
  \A r \in Runner, m \in Message :
    (Handles(r, m) /\ Exists(m) /\ releases[m] <= 1) => InHandsAt(r, m)

MessageInv ==
  /\ TypeOK
  /\ DueWereScheduled
  /\ DraftsStayDrafts
  /\ UnreleasedUntouched
  /\ OneHolder
  /\ InHands
  /\ CountersMatchRows
  /\ SentMeansDone

-----------------------------------------------------------------------------
(* What the operators return *)

RowStatus == {"PENDING", "SENT", "FAILED"}
Deliveries == Message \X Nat
DraftOps == {"send", "patch", "delete"}

\* A request is known by its op.
LEMMA RequestShape ==
  ASSUME NEW q \in Request
  PROVE  /\ q.op \in DraftOps => q.message \in Message /\ q.text \in Text
         /\ q.op = "cron" => q.batch \subseteq Message
         /\ q.op \in {"queue", "dispatch", "sent"} => q.todo \subseteq Deliveries
         /\ q.op \in {"dispatch", "sent"} => q.delivery \in Deliveries
         /\ q.op = "sent" => q.ok \in BOOLEAN /\ q.read \in MessageRow
<1>1. CASE q = Idle
  BY <1>1 DEF Idle, DraftOps
<1>2. CASE q \in [op: DraftOps, message: Message, text: Text]
  BY <1>2 DEF DraftOps
<1>3. CASE q \in [op: {"cron"}, batch: SUBSET Message]
  BY <1>3 DEF DraftOps
<1>4. CASE q \in [op: {"queue"}, todo: SUBSET Deliveries]
  BY <1>4 DEF DraftOps
<1>5. CASE q \in [op: {"dispatch"}, delivery: Deliveries, todo: SUBSET Deliveries]
  BY <1>5 DEF DraftOps
<1>6. CASE q \in [op: {"sent"}, delivery: Deliveries, todo: SUBSET Deliveries,
                  ok: BOOLEAN, read: MessageRow]
  BY <1>6 DEF DraftOps
<1> QED
  BY <1>1, <1>2, <1>3, <1>4, <1>5, <1>6 DEF Request, DraftOps, Deliveries

\* A queue holds what is to be done, or is no queue.
LEMMA QueueShape ==
  ASSUME NEW todo \in SUBSET Deliveries
  PROVE  /\ Queue(todo) \in Request
         /\ Queue(todo).op \in {"idle", "queue"}
         /\ Queue(todo).op = "queue" => Queue(todo).todo = todo
<1>1. CASE todo = {}
  BY <1>1 DEF Queue, Request, Idle
<1>2. CASE todo # {}
  <2>1. Queue(todo) = [op |-> "queue", todo |-> todo]
    BY <1>2 DEF Queue
  <2>2. Queue(todo) \in [op: {"queue"}, todo: SUBSET Deliveries]
    BY <2>1
  <2> QED
    BY <2>1, <2>2 DEF Request, Deliveries
<1> QED
  BY <1>1, <1>2

\* The message of a row that exists has all of its columns.
LEMMA ExistingRow ==
  ASSUME TypeOK, NEW m \in Message, Exists(m)
  PROVE  msg[m] \in MessageRow
<1>1. msg[m] \in {None, Gone} \cup MessageRow
  BY DEF TypeOK
<1>2. msg[m] # None /\ msg[m] # Gone
  BY DEF Exists, None, Gone, MessageStatus
<1> QED
  BY <1>1, <1>2

\* A sequence of which one place, if it has it, is changed.
LEMMA ChangedSeq ==
  ASSUME NEW S, NEW seq \in Seq(S), NEW i, NEW e, i \in DOMAIN seq => e \in S
  PROVE  /\ [seq EXCEPT ![i] = e] \in Seq(S)
         /\ DOMAIN [seq EXCEPT ![i] = e] = DOMAIN seq
<1>1. DOMAIN seq = 1..Len(seq)
  BY LenProperties
<1>2. CASE i \in DOMAIN seq
  <2>1. [seq EXCEPT ![i] = e] \in Seq(S)
    BY <1>1, <1>2, ExceptSeq
  <2> QED
    BY <2>1
<1>3. CASE i \notin DOMAIN seq
  <2>1. seq \in [1..Len(seq) -> S]
    BY LenProperties
  <2>2. [seq EXCEPT ![i] = e] = seq
    BY <1>1, <1>3, <2>1
  <2> QED
    BY <2>2
<1> QED
  BY <1>2, <1>3

\* A dispatch counts its send, or not.
LEMMA CountedSend ==
  ASSUME NEW sent \in Seq(Nat), NEW i, NEW ok \in BOOLEAN
  PROVE  /\ [sent EXCEPT ![i] = IF ok THEN @ + 1 ELSE @] \in Seq(Nat)
         /\ DOMAIN [sent EXCEPT ![i] = IF ok THEN @ + 1 ELSE @] = DOMAIN sent
<1> DEFINE one == IF ok THEN sent[i] + 1 ELSE sent[i]
<1>1. i \in DOMAIN sent => sent[i] \in Nat
  BY LenProperties
<1>2. i \in DOMAIN sent => one \in Nat
  BY <1>1
<1>3. [sent EXCEPT ![i] = one] = [sent EXCEPT ![i] = IF ok THEN @ + 1 ELSE @]
  OBVIOUS
<1> HIDE DEF one
<1>4. [sent EXCEPT ![i] = one] \in Seq(Nat) /\ DOMAIN [sent EXCEPT ![i] = one] = DOMAIN sent
  BY <1>2, ChangedSeq
<1> QED
  BY <1>3, <1>4

\* What a commit adds to the rows of a message: n of them, all pending.
LEMMA AddedRows ==
  ASSUME NEW rows \in Seq(RowStatus), NEW counts \in Seq(Nat), Len(counts) = Len(rows),
         NEW n \in Nat
  PROVE  /\ rows \o NewRows(n) \in Seq(RowStatus)
         /\ counts \o Unsent(n) \in Seq(Nat)
         /\ DOMAIN (rows \o NewRows(n)) = 1..(Len(rows) + n)
         /\ DOMAIN (counts \o Unsent(n)) = 1..(Len(rows) + n)
         /\ Len(rows \o NewRows(n)) = Len(rows) + n
         /\ rows = <<>> => \A i \in 1..n : (rows \o NewRows(n))[i] = "PENDING"
<1>1. /\ NewRows(n) \in Seq(RowStatus) /\ Len(NewRows(n)) = n
      /\ Unsent(n) \in Seq(Nat) /\ Len(Unsent(n)) = n
      /\ \A i \in 1..n : NewRows(n)[i] = "PENDING"
  BY DEF NewRows, Unsent, RowStatus
<1>2. /\ rows \o NewRows(n) \in Seq(RowStatus)
      /\ counts \o Unsent(n) \in Seq(Nat)
      /\ Len(rows \o NewRows(n)) = Len(rows) + n
      /\ Len(counts \o Unsent(n)) = Len(rows) + n
  <2> HIDE DEF NewRows, Unsent, RowStatus
  <2>1. /\ rows \o NewRows(n) \in Seq(RowStatus)
        /\ Len(rows \o NewRows(n)) = Len(rows) + Len(NewRows(n))
    BY <1>1, ConcatProperties
  <2>2. /\ counts \o Unsent(n) \in Seq(Nat)
        /\ Len(counts \o Unsent(n)) = Len(counts) + Len(Unsent(n))
    BY <1>1, ConcatProperties
  <2> QED
    BY <1>1, <2>1, <2>2
<1>3. /\ DOMAIN (rows \o NewRows(n)) = 1..(Len(rows) + n)
      /\ DOMAIN (counts \o Unsent(n)) = 1..(Len(rows) + n)
  BY <1>2, LenProperties
<1>4. ASSUME rows = <<>> PROVE rows \o NewRows(n) = NewRows(n)
  BY <1>1, <1>4, ConcatEmptySeq
<1> QED
  BY <1>1, <1>2, <1>3, <1>4

\* New rows of a message are queued by their numbers.
LEMMA PendingShape ==
  ASSUME NEW m \in Message, NEW rows \in Seq(RowStatus)
  PROVE  /\ PendingIn(m, rows) \in SUBSET Deliveries
         /\ \A d \in PendingIn(m, rows) : d[1] = m
         /\ \A d : d \in PendingIn(m, rows) =>
              d = <<m, d[2]>> /\ d[2] \in DOMAIN rows /\ rows[d[2]] = "PENDING"
BY DEF PendingIn, Deliveries

-----------------------------------------------------------------------------
(* One lemma per kind of step *)

LEMMA MessageInitInv == Init => MessageInv
<1> SUFFICES ASSUME Init PROVE MessageInv
  OBVIOUS
<1>1. TypeOK
  BY MessageAssumption DEF Init, TypeOK, Request
<1>2. /\ \A m \in Message : msg[m].status = "NONE" /\ row[m] = <<>> /\ releases[m] = 0
      /\ due = {}
      /\ \A r \in Runner : run[r].op = "idle"
  BY DEF Init, None, Idle
<1>3. DueWereScheduled /\ DraftsStayDrafts /\ UnreleasedUntouched /\ OneHolder /\ InHands
  BY <1>2 DEF DueWereScheduled, DraftsStayDrafts, UnreleasedUntouched, OneHolder, InHands,
     Holds, Handles
<1>4. CountersMatchRows /\ SentMeansDone
  BY <1>2 DEF CountersMatchRows, SentMeansDone, Exists, MessageStatus
<1> QED
  BY <1>1, <1>3, <1>4 DEF MessageInv

\* The history counts the sends of each delivery there is.
SendsTyped ==
  /\ sends \in [Message -> Seq(Nat)]
  /\ \A m \in Message : DOMAIN sends[m] = DOMAIN row[m]

LEMMA SendsStayTyped ==
  ASSUME MessageInv, UNCHANGED <<row, sends>>
  PROVE  SendsTyped'
BY DEF MessageInv, TypeOK, SendsTyped

\* A step that only moves one runner on, to something that holds no more than
\* it held, keeps the tables and what they have to do with the runners.
LEMMA RunnerMovesInv ==
  ASSUME MessageInv, NEW r \in Runner, NEW q \in Request,
         run' = [run EXCEPT ![r] = q],
         UNCHANGED <<msg, row, purged, due, seats, releases>>, SendsTyped',
         faults' \in 0..MaxFault,
         q.op = "cron" => q.batch \subseteq due,
         q.op \in DraftOps =>
           q.message \notin due /\ msg[q.message].status \notin {"NONE", "SCHEDULED"},
         \A m \in Message : Holds(r, m)' => Holds(r, m),
         \A m \in Message :
           (Handles(r, m)' /\ Exists(m) /\ releases[m] <= 1) => InHandsAt(r, m)'
  PROVE  MessageInv'
<1>1. TypeOK'
  BY DEF MessageInv, TypeOK, SendsTyped
<1>2. /\ run'[r] = q
      /\ \A s \in Runner \ {r} : run'[s] = run[s]
  BY DEF MessageInv, TypeOK
<1>3. \A s \in Runner, m \in Message : Holds(s, m)' => Holds(s, m)
  BY <1>2 DEF Holds, Handles
<1>4. DueWereScheduled' /\ DraftsStayDrafts'
  BY <1>2 DEF MessageInv, DueWereScheduled, DraftsStayDrafts, DraftOps
<1>5. UnreleasedUntouched' /\ OneHolder'
  BY <1>3 DEF MessageInv, UnreleasedUntouched, OneHolder
<1>6. InHands'
  <2>1. \A m \in Message : Exists(m)' <=> Exists(m)
    BY DEF Exists
  <2>2. ASSUME NEW s \in Runner, NEW m \in Message, s # r, Handles(s, m)',
               Exists(m), releases[m] <= 1
        PROVE  InHandsAt(s, m)'
    <3>1. Handles(s, m) /\ run'[s] = run[s]
      BY <1>2, <2>2 DEF Handles
    <3>2. InHandsAt(s, m)
      BY <2>2, <3>1 DEF MessageInv, InHands
    <3> QED
      BY <3>1, <3>2 DEF InHandsAt, Rows
  <2> QED
    BY <2>1, <2>2 DEF InHands
<1>7. CountersMatchRows' /\ SentMeansDone'
  BY DEF MessageInv, CountersMatchRows, SentMeansDone, Exists, Rows
<1> QED
  BY <1>1, <1>4, <1>5, <1>6, <1>7 DEF MessageInv

\* What can become idle can always do so.
LEMMA RunnerStopsInv ==
  ASSUME MessageInv, NEW r \in Runner, run' = [run EXCEPT ![r] = Idle],
         UNCHANGED <<msg, row, purged, due, seats, releases, sends>>, faults' \in 0..MaxFault
  PROVE  MessageInv'
<1>1. run'[r] = Idle /\ Idle \in Request /\ Idle.op = "idle"
  BY DEF MessageInv, TypeOK, Idle, Request
<1>2. \A m \in Message : ~Holds(r, m)' /\ ~Handles(r, m)'
  BY <1>1 DEF Holds, Handles
<1> QED
  BY <1>1, <1>2, SendsStayTyped, RunnerMovesInv DEF DraftOps

\* A request reads a draft, or a cron run the messages that are due.
LEMMA BeginReadInv ==
  ASSUME MessageInv, NEW r \in Runner,
         \/ \E m \in Message, op \in {"send", "patch", "delete"} : DraftRead(r, m, op)
         \/ CronRead(r)
  PROVE  MessageInv'
<1>1. faults' \in 0..MaxFault
  BY DEF DraftRead, CronRead, MessageInv, TypeOK
<1>2. ASSUME NEW m \in Message, NEW op \in {"send", "patch", "delete"}, DraftRead(r, m, op)
      PROVE  MessageInv'
  <2> DEFINE q == [op |-> op, message |-> m, text |-> msg[m].text]
  <2>1. q \in Request /\ run' = [run EXCEPT ![r] = q]
    <3>1. msg[m] \in MessageRow
      BY <1>2, ExistingRow DEF DraftRead, IsDraft, Exists, MessageStatus, MessageInv
    <3>2. msg[m].text \in Text
      BY <3>1 DEF MessageRow
    <3>3. q \in [op: {"send", "patch", "delete"}, message: Message, text: Text]
      BY <3>2
    <3> QED
      BY <1>2, <3>3 DEF DraftRead, Request
  <2>2. m \notin due /\ msg[m].status = "DRAFT"
    BY <1>2 DEF DraftRead, IsDraft, MessageInv, DueWereScheduled
  <2>3. \A k \in Message : ~Holds(r, k)' /\ ~Handles(r, k)'
    BY <2>1 DEF Holds, Handles, MessageInv, TypeOK
  <2> QED
    BY <1>1, <1>2, <2>1, <2>2, <2>3, SendsStayTyped, RunnerMovesInv DEF DraftRead
<1>3. CASE CronRead(r)
  <2> DEFINE q == [op |-> "cron", batch |-> FirstDue]
  <2>1. FirstDue \subseteq Message /\ FirstDue \subseteq due
    BY DEF FirstDue, IsDue
  <2>2. q \in Request /\ run' = [run EXCEPT ![r] = q]
    <3>1. q \in [op: {"cron"}, batch: SUBSET Message]
      BY <2>1
    <3> QED
      BY <1>3, <3>1 DEF CronRead, Request
  <2>3. \A k \in Message : ~Holds(r, k)' /\ ~Handles(r, k)'
    BY <2>2 DEF Holds, Handles, MessageInv, TypeOK
  <2> QED
    BY <1>1, <1>3, <2>1, <2>2, <2>3, SendsStayTyped, RunnerMovesInv DEF CronRead, DraftOps
<1> QED
  BY <1>2, <1>3

\* A cron run that cannot promote one of its messages, and any process that
\* dies, leaves the tables as they were.
LEMMA FailureInv ==
  ASSUME MessageInv, NEW r \in Runner, CronFail(r) \/ Crash(r)
  PROVE  MessageInv'
<1>1. faults' \in 0..MaxFault
  BY MessageAssumption DEF CronFail, Crash, MessageInv, TypeOK
<1> QED
  BY <1>1, RunnerStopsInv DEF CronFail, Crash

\* The next delivery of the queue is taken in hand if it is pending.
LEMMA DispatchReadInv ==
  ASSUME MessageInv, NEW r \in Runner, DispatchRead(r)
  PROVE  MessageInv'
<1>1. run[r] \in Request /\ run[r].op = "queue" /\ run[r].todo \subseteq Deliveries
  BY RequestShape DEF DispatchRead, MessageInv, TypeOK
<1>2. faults' \in 0..MaxFault /\ DOMAIN run = Runner
  BY DEF DispatchRead, MessageInv, TypeOK
<1>3. PICK d \in run[r].todo :
        run' = [run EXCEPT ![r] =
          IF d \in PendingIn(d[1], row[d[1]])
          THEN [op |-> "dispatch", delivery |-> d, todo |-> run[r].todo \ {d}]
          ELSE Queue(run[r].todo \ {d})]
  BY DEF DispatchRead
<1> DEFINE rest == run[r].todo \ {d}
<1>4. d \in Deliveries /\ d[1] \in Message /\ rest \in SUBSET Deliveries
  BY <1>1, <1>3 DEF Deliveries
<1>5. CASE d \in PendingIn(d[1], row[d[1]])
  <2> DEFINE q == [op |-> "dispatch", delivery |-> d, todo |-> rest]
  <2>1. q \in Request
    <3>1. q \in [op: {"dispatch"}, delivery: Deliveries, todo: SUBSET Deliveries]
      BY <1>4
    <3> QED
      BY <3>1 DEF Request, Deliveries
  <2>2. run' = [run EXCEPT ![r] = q] /\ run'[r] = q
    BY <1>2, <1>3, <1>5
  <2>3. d[2] \in Rows(d[1], "PENDING")
    <3>1. row[d[1]] \in Seq(RowStatus)
      BY <1>4 DEF MessageInv, TypeOK, RowStatus
    <3> QED
      BY <1>4, <1>5, <3>1, PendingShape DEF Rows
  <2>4. ASSUME NEW m \in Message, Holds(r, m)' PROVE Holds(r, m)
    <3>1. d[1] = m \/ \E e \in rest : e[1] = m
      BY <2>2, <2>4 DEF Holds, Handles
    <3>2. \E e \in run[r].todo : e[1] = m
      BY <1>3, <3>1
    <3> QED
      BY <1>1, <3>2 DEF Holds
  <2>5. \A m \in Message : Handles(r, m)' => InHandsAt(r, m)'
    BY <2>2, <2>3 DEF Handles, InHandsAt, Rows, DispatchRead
  <2> QED
    BY <1>2, <2>1, <2>2, <2>4, <2>5, SendsStayTyped, RunnerMovesInv DEF DispatchRead, DraftOps
<1>6. CASE d \notin PendingIn(d[1], row[d[1]])
  <2> DEFINE q == Queue(rest)
  <2>1. q \in Request /\ q.op \in {"idle", "queue"} /\ (q.op = "queue" => q.todo = rest)
    BY <1>4, QueueShape
  <2> HIDE DEF q
  <2>2. run' = [run EXCEPT ![r] = q] /\ run'[r] = q
    BY <1>2, <1>3, <1>6 DEF q
  <2>3. \A m \in Message : (Holds(r, m)' => Holds(r, m)) /\ ~Handles(r, m)'
    BY <1>1, <2>1, <2>2 DEF Holds, Handles
  <2> QED
    BY <1>2, <2>1, <2>2, <2>3, SendsStayTyped, RunnerMovesInv DEF DispatchRead, DraftOps
<1> QED
  BY <1>5, <1>6

\* A message or a row that is gone takes no other with it, whether the runner
\* goes on or stops.
LEMMA DispatchLostInv ==
  ASSUME MessageInv, NEW r \in Runner, DispatchLost(r)
  PROVE  MessageInv'
<1>1. faults' \in 0..MaxFault /\ DOMAIN run = Runner /\ run[r] \in Request
  BY DEF DispatchLost, MessageInv, TypeOK
<1>2. CASE r \in Cron
  <2> DEFINE q == Queue(run[r].todo)
  <2>0. run[r].op \in {"dispatch", "sent"}
    BY DEF DispatchLost
  <2>1. q \in Request /\ q.op \in {"idle", "queue"} /\ (q.op = "queue" => q.todo = run[r].todo)
    BY <1>1, <2>0, RequestShape, QueueShape
  <2> HIDE DEF q
  <2>2. run' = [run EXCEPT ![r] = q] /\ run'[r] = q
    BY <1>1, <1>2 DEF DispatchLost, q
  <2>3. \A m \in Message : (Holds(r, m)' => Holds(r, m)) /\ ~Handles(r, m)'
    BY <2>0, <2>1, <2>2 DEF Holds, Handles
  <2> QED
    BY <1>1, <2>1, <2>2, <2>3, SendsStayTyped, RunnerMovesInv DEF DispatchLost, DraftOps
<1>3. CASE r \notin Cron
  BY <1>1, <1>3, RunnerStopsInv DEF DispatchLost
<1> QED
  BY <1>2, <1>3

\* A draft whose recipients cannot be had, or that is gone, stays as it is.
LEMMA DraftKeptInv ==
  ASSUME MessageInv, NEW r \in Runner, SendRefused(r) \/ LostDraft(r)
  PROVE  MessageInv'
<1>1. faults' \in 0..MaxFault
  BY DEF SendRefused, LostDraft, MessageInv, TypeOK
<1> QED
  BY <1>1, RunnerStopsInv DEF SendRefused, LostDraft

\* What is purged keeps its place among the rows.
LEMMA PlayerPurgedInv ==
  ASSUME MessageInv, NEW m \in Message, NEW i \in DOMAIN row[m], PlayerPurged(m, i)
  PROVE  MessageInv'
<1>1. UNCHANGED <<msg, row, due, seats, run, faults, releases, sends>>
      /\ purged' = purged \cup {<<m, i>>}
  BY DEF PlayerPurged
<1>2. i \in Nat
  <2>1. DOMAIN row[m] = 1..Len(row[m]) /\ Len(row[m]) \in Nat
    BY LenProperties DEF MessageInv, TypeOK
  <2> QED
    BY <2>1
<1>3. TypeOK'
  BY <1>1, <1>2 DEF MessageInv, TypeOK
<1>4. DueWereScheduled' /\ DraftsStayDrafts' /\ UnreleasedUntouched' /\ OneHolder'
  BY <1>1 DEF MessageInv, DueWereScheduled, DraftsStayDrafts, UnreleasedUntouched,
     OneHolder, Holds, Handles
<1>5. InHands' /\ CountersMatchRows' /\ SentMeansDone'
  <2>1. UNCHANGED <<msg, row, run, releases>>
    BY <1>1
  <2>2. InHands'
    BY <2>1 DEF MessageInv, InHands, InHandsAt, Handles, Exists, Rows
  <2>3. CountersMatchRows' /\ SentMeansDone'
    BY ZenonT(60), <2>1 DEF MessageInv, CountersMatchRows, SentMeansDone, Exists, Rows
  <2> QED
    BY <2>2, <2>3
<1> QED
  BY <1>3, <1>4, <1>5 DEF MessageInv

\* The message is read when the channels are tried; nobody else writes its
\* counters while this runner has its deliveries.
LEMMA DispatchSendInv ==
  ASSUME MessageInv, NEW r \in Runner, NEW ok \in BOOLEAN, DispatchSend(r, ok)
  PROVE  MessageInv'
<1> DEFINE m == run[r].delivery[1]
           i == run[r].delivery[2]
           q == [op |-> "sent", delivery |-> run[r].delivery, todo |-> run[r].todo,
                 ok |-> ok, read |-> msg[m]]
<1>1. /\ faults' \in 0..MaxFault /\ DOMAIN run = Runner /\ run[r] \in Request
      /\ run[r].op = "dispatch" /\ Exists(m)
      /\ run' = [run EXCEPT ![r] = q]
      /\ sends' = [sends EXCEPT ![m][i] = IF ok THEN @ + 1 ELSE @]
      /\ sends \in [Message -> Seq(Nat)]
      /\ \A k \in Message : DOMAIN sends[k] = DOMAIN row[k]
  BY DEF DispatchSend, MessageInv, TypeOK
<1>2. run[r].delivery \in Deliveries /\ run[r].todo \in SUBSET Deliveries /\ m \in Message
  BY <1>1, RequestShape DEF Deliveries
<1>3. msg[m] \in MessageRow
  BY <1>1, <1>2, ExistingRow DEF MessageInv
<1>4. q \in Request
  <2>1. q \in [op: {"sent"}, delivery: Deliveries, todo: SUBSET Deliveries,
               ok: BOOLEAN, read: MessageRow]
    BY SMTT(30), <1>2, <1>3
  <2> QED
    BY <2>1 DEF Request, Deliveries
<1>5. SendsTyped'
  <2>1. ASSUME NEW k \in Message
        PROVE  sends'[k] \in Seq(Nat) /\ DOMAIN sends'[k] = DOMAIN sends[k]
    <3>1. CASE k # m
      BY <1>1, <1>2, <3>1
    <3>2. CASE k = m
      <4>1. sends'[m] = [sends[m] EXCEPT ![i] = IF ok THEN @ + 1 ELSE @]
        BY <1>1, <1>2
      <4>2. sends[m] \in Seq(Nat)
        BY SMTT(30), <1>1, <1>2
      <4> HIDE DEF m, i
      <4> QED
        BY SMTT(30), <3>2, <4>1, <4>2, CountedSend
    <3> QED
      BY <3>1, <3>2
  <2>2. sends' \in [Message -> Seq(Nat)] /\ row' = row
    BY <1>1, <2>1 DEF DispatchSend
  <2> QED
    BY <1>1, <2>1, <2>2 DEF SendsTyped
<1>6. run'[r] = q
  BY <1>1
<1>7. \A k \in Message : Holds(r, k)' => Holds(r, k)
  BY <1>1, <1>6 DEF Holds, Handles
<1>8. ASSUME NEW k \in Message, Handles(r, k)', Exists(k), releases[k] <= 1
      PROVE  InHandsAt(r, k)'
  <2>1. k = m /\ Handles(r, k)
    BY <1>1, <1>6, <1>8 DEF Handles
  <2>2. run[r].delivery[2] \in Rows(k, "PENDING")
    BY <1>8, <2>1 DEF MessageInv, InHands, InHandsAt
  <2>3. UNCHANGED <<msg, row>>
    BY DEF DispatchSend
  <2> QED
    BY <1>6, <2>1, <2>2, <2>3 DEF InHandsAt, Rows
<1>9. UNCHANGED <<msg, row, purged, due, seats, releases>>
  BY DEF DispatchSend
<1>10. q.op = "sent"
  OBVIOUS
<1> HIDE DEF q
<1> QED
  BY <1>1, <1>4, <1>5, <1>7, <1>8, <1>9, <1>10, RunnerMovesInv DEF DraftOps

-----------------------------------------------------------------------------
(* The steps that write the messages *)

\* A new message has no row, no runner and is not due.
LEMMA CreateInv ==
  ASSUME MessageInv, NEW m \in Message, NEW text \in Text,
         CreateDraft(m, text) \/ Schedule(m, text)
  PROVE  MessageInv'
<1>1. /\ msg[m].status = "NONE" /\ m \notin due
      /\ releases[m] = 0 /\ row[m] = <<>>
      /\ \A r \in Runner : ~Holds(r, m) /\ (run[r].op \in DraftOps => run[r].message # m)
  BY DEF CreateDraft, Schedule, None, MessageInv, DueWereScheduled, DraftsStayDrafts,
     UnreleasedUntouched, DraftOps
<1>2. PICK status \in {"DRAFT", "SCHEDULED"} : msg' = [msg EXCEPT ![m] = NewMessage(status, text)]
  BY DEF CreateDraft, Schedule
<1>3. UNCHANGED <<row, purged, due, seats, run, faults, releases, sends>>
  BY DEF CreateDraft, Schedule
<1>4. NewMessage(status, text) \in MessageRow
  BY DEF NewMessage, MessageRow, MessageStatus
<1>5. /\ msg'[m] = NewMessage(status, text)
      /\ \A k \in Message \ {m} : msg'[k] = msg[k]
      /\ msg' \in [Message -> {None, Gone} \cup MessageRow]
  BY <1>2, <1>4 DEF MessageInv, TypeOK
<1>6. TypeOK'
  BY <1>3, <1>5 DEF MessageInv, TypeOK
<1>7. DueWereScheduled' /\ DraftsStayDrafts'
  <2>1. DueWereScheduled'
    BY <1>1, <1>3, <1>5 DEF MessageInv, DueWereScheduled, TypeOK
  <2>2. \A r \in Runner : run[r].op \in DraftOps => run[r].message \in Message \ {m}
    BY <1>1, RequestShape DEF MessageInv, TypeOK
  <2>3. DraftsStayDrafts'
    BY <1>3, <1>5, <2>2 DEF MessageInv, DraftsStayDrafts, DraftOps
  <2> QED
    BY <2>1, <2>3
<1>8. \A r \in Runner, k \in Message : /\ Holds(r, k)' <=> Holds(r, k)
                                       /\ Handles(r, k)' <=> Handles(r, k)
  BY <1>3 DEF Holds, Handles
<1>9. UnreleasedUntouched' /\ OneHolder'
  BY <1>1, <1>3, <1>5, <1>8 DEF MessageInv, UnreleasedUntouched, OneHolder, NewMessage
<1>10. InHands'
  <2> SUFFICES ASSUME NEW r \in Runner, NEW k \in Message, Handles(r, k)', Exists(k)',
                      releases[k] <= 1
               PROVE  InHandsAt(r, k)'
    BY <1>3 DEF InHands
  <2>1. k # m
    BY <1>1, <1>8 DEF Holds
  <2>2. InHandsAt(r, k)
    BY <1>5, <1>8, <2>1 DEF MessageInv, InHands, Exists
  <2> QED
    BY <1>3, <1>5, <2>1, <2>2 DEF InHandsAt, Rows
<1>11. CountersMatchRows' /\ SentMeansDone'
  <2>1. ASSUME NEW k \in Message, k # m
        PROVE  /\ Exists(k)' <=> Exists(k)
               /\ \A st : Rows(k, st)' = Rows(k, st)
    BY <1>3, <1>5, <2>1 DEF Exists, Rows
  <2>2. /\ msg'[m].total = 0 /\ msg'[m].delivered = 0 /\ msg'[m].failed = 0
        /\ msg'[m].status # "SENT"
    BY <1>5 DEF NewMessage
  <2>3. \A st : Rows(m, st)' = {}
    BY <1>1, <1>3 DEF Rows
  <2>4. Len(row'[m]) = 0 /\ Cardinality({}) = 0
    BY <1>1, <1>3, FS_EmptySet
  <2> QED
    BY <1>3, <1>5, <2>1, <2>2, <2>3, <2>4 DEF MessageInv, CountersMatchRows, SentMeansDone
<1> QED
  BY <1>6, <1>7, <1>9, <1>10, <1>11 DEF MessageInv

\* What becomes due waits to be sent.
LEMMA TimeComesInv ==
  ASSUME MessageInv, NEW m \in Message, TimeComes(m)
  PROVE  MessageInv'
<1>1. msg[m].status = "SCHEDULED" /\ due' = due \cup {m}
  BY DEF TimeComes
<1>2. UNCHANGED <<msg, row, purged, seats, run, faults, releases, sends>>
  BY DEF TimeComes
<1>3. TypeOK'
  BY <1>1, <1>2 DEF MessageInv, TypeOK
<1>4. DueWereScheduled' /\ DraftsStayDrafts'
  BY <1>1, <1>2 DEF MessageInv, DueWereScheduled, DraftsStayDrafts
<1>5. UnreleasedUntouched' /\ OneHolder' /\ InHands'
  BY <1>2 DEF MessageInv, UnreleasedUntouched, OneHolder, InHands, InHandsAt, Holds,
     Handles, Exists, Rows
<1>6. CountersMatchRows' /\ SentMeansDone'
  BY ZenonT(60), <1>2 DEF MessageInv, CountersMatchRows, SentMeansDone, Exists, Rows
<1> QED
  BY <1>3, <1>4, <1>5, <1>6 DEF MessageInv

\* A draft is edited: its row is another, its status and its numbers are not.
LEMMA PatchCommitInv ==
  ASSUME MessageInv, NEW r \in Runner, NEW text \in Text, PatchCommit(r, text)
  PROVE  MessageInv'
<1>1. /\ run[r] \in Request /\ run[r].op = "patch" /\ run[r].message \in Message
      /\ Exists(run[r].message) /\ faults' \in 0..MaxFault
  BY RequestShape DEF PatchCommit, MessageInv, TypeOK, DraftOps
<1> PICK m \in Message : m = run[r].message
  BY <1>1
<1>2. msg[m] \in MessageRow
  BY <1>1, ExistingRow DEF MessageInv
<1> PICK new \in Text : new = IF text = run[r].text THEN msg[m].text ELSE text
  BY <1>2 DEF MessageRow
<1>3. msg' = [msg EXCEPT ![m].text = new] /\ run' = [run EXCEPT ![r] = Idle]
  BY DEF PatchCommit
<1>4. UNCHANGED <<row, purged, due, seats, faults, releases, sends>>
  BY DEF PatchCommit
<1>5. /\ msg'[m] = [msg[m] EXCEPT !.text = new] /\ msg'[m] \in MessageRow
      /\ \A k \in Message \ {m} : msg'[k] = msg[k]
      /\ msg' \in [Message -> {None, Gone} \cup MessageRow]
  BY <1>1, <1>2, <1>3 DEF MessageInv, TypeOK, MessageRow
<1>6. \A k \in Message : /\ msg'[k].status = msg[k].status
                         /\ Exists(k) => /\ msg'[k].total = msg[k].total
                                         /\ msg'[k].delivered = msg[k].delivered
                                         /\ msg'[k].failed = msg[k].failed
  BY <1>2, <1>5 DEF MessageRow
<1>7. \A s \in Runner : run'[s].op # "idle" => s # r /\ run'[s] = run[s]
  BY <1>3 DEF MessageInv, TypeOK, Idle
<1>8. \A s \in Runner, k \in Message : /\ Holds(s, k)' => Holds(s, k)
                                       /\ Handles(s, k)' => s # r /\ Handles(s, k)
  BY <1>7 DEF Holds, Handles, Idle
<1>9. TypeOK'
  <2>1. run' \in [Runner -> Request]
    BY <1>3 DEF MessageInv, TypeOK, Request
  <2> QED
    BY <1>4, <1>5, <2>1 DEF MessageInv, TypeOK
<1>10. DueWereScheduled' /\ DraftsStayDrafts'
  <2>1. DueWereScheduled'
    BY <1>4, <1>6, <1>7 DEF MessageInv, DueWereScheduled, TypeOK, Idle
  <2>2. \A s \in Runner : run[s].op \in DraftOps => run[s].message \in Message
    BY RequestShape DEF MessageInv, TypeOK
  <2>3. DraftsStayDrafts'
    BY <1>4, <1>6, <1>7, <2>2 DEF MessageInv, DraftsStayDrafts, DraftOps, Idle
  <2> QED
    BY <2>1, <2>3
<1>11. UnreleasedUntouched' /\ OneHolder'
  BY <1>4, <1>6, <1>8 DEF MessageInv, UnreleasedUntouched, OneHolder
<1>12. InHands'
  <2> SUFFICES ASSUME NEW s \in Runner, NEW k \in Message, Handles(s, k)', Exists(k)',
                      releases[k] <= 1
               PROVE  InHandsAt(s, k)'
    BY <1>4 DEF InHands
  <2>1. Exists(k) /\ InHandsAt(s, k) /\ run'[s] = run[s]
    BY <1>6, <1>7, <1>8 DEF MessageInv, Handles, InHands, Exists
  <2> QED
    BY <1>4, <1>6, <2>1 DEF InHandsAt, Rows
<1>13. CountersMatchRows' /\ SentMeansDone'
  <2>1. \A k \in Message, st \in RowStatus : Rows(k, st)' = Rows(k, st)
    BY <1>4 DEF Rows
  <2>2. \A k \in Message : Exists(k)' <=> Exists(k)
    BY <1>6 DEF Exists
  <2> QED
    BY <1>4, <1>6, <2>1, <2>2 DEF MessageInv, CountersMatchRows, SentMeansDone, RowStatus
<1> QED
  BY <1>9, <1>10, <1>11, <1>12, <1>13 DEF MessageInv

\* A draft goes with its rows; it was not due, and nothing more is due of it.
LEMMA DeleteCommitInv ==
  ASSUME MessageInv, NEW r \in Runner, DeleteCommit(r)
  PROVE  MessageInv'
<1>1. /\ run[r] \in Request /\ run[r].op = "delete" /\ run[r].message \in Message
      /\ run[r].message \notin due /\ faults' \in 0..MaxFault
  BY RequestShape DEF DeleteCommit, MessageInv, TypeOK, DraftOps, DraftsStayDrafts
<1> PICK m \in Message : m = run[r].message
  BY <1>1
<1>2. /\ msg' = [msg EXCEPT ![m] = Gone] /\ row' = [row EXCEPT ![m] = <<>>]
      /\ sends' = [sends EXCEPT ![m] = <<>>] /\ run' = [run EXCEPT ![r] = Idle]
  BY DEF DeleteCommit
<1>3. UNCHANGED <<purged, due, seats, faults, releases>>
  BY DEF DeleteCommit
<1>4. /\ msg'[m] = Gone /\ row'[m] = <<>> /\ sends'[m] = <<>>
      /\ \A k \in Message \ {m} : /\ msg'[k] = msg[k] /\ row'[k] = row[k]
                                  /\ sends'[k] = sends[k]
      /\ \A s \in Runner : run'[s].op # "idle" => s # r /\ run'[s] = run[s]
  BY <1>1, <1>2 DEF MessageInv, TypeOK, Idle
<1>5. ~Exists(m)' /\ msg'[m].status = "GONE"
  BY <1>4 DEF Exists, Gone, MessageStatus
<1>6. \A s \in Runner, k \in Message : /\ Holds(s, k)' => Holds(s, k)
                                       /\ Handles(s, k)' => s # r /\ Handles(s, k)
  BY <1>4 DEF Holds, Handles, Idle
<1>7. TypeOK'
  <2>1. run' \in [Runner -> Request]
    BY <1>2 DEF MessageInv, TypeOK, Request
  <2>2. /\ msg' \in [Message -> {None, Gone} \cup MessageRow]
        /\ row' \in [Message -> Seq({"PENDING", "SENT", "FAILED"})]
        /\ sends' \in [Message -> Seq(Nat)]
    BY <1>2 DEF MessageInv, TypeOK
  <2>3. \A k \in Message : DOMAIN sends'[k] = DOMAIN row'[k]
    BY <1>4 DEF MessageInv, TypeOK
  <2> QED
    BY <1>3, <2>1, <2>2, <2>3 DEF MessageInv, TypeOK
<1>8. DueWereScheduled' /\ DraftsStayDrafts'
  <2>1. DueWereScheduled'
    BY <1>1, <1>3, <1>4 DEF MessageInv, DueWereScheduled, TypeOK, Idle
  <2>2. \A s \in Runner : run[s].op \in DraftOps => run[s].message \in Message
    BY RequestShape DEF MessageInv, TypeOK
  <2>3. DraftsStayDrafts'
    BY <1>3, <1>4, <1>5, <2>2 DEF MessageInv, DraftsStayDrafts, DraftOps, Idle
  <2> QED
    BY <2>1, <2>3
<1>9. UnreleasedUntouched' /\ OneHolder'
  BY <1>3, <1>4, <1>5, <1>6 DEF MessageInv, UnreleasedUntouched, OneHolder
<1>10. InHands'
  <2> SUFFICES ASSUME NEW s \in Runner, NEW k \in Message, Handles(s, k)', Exists(k)',
                      releases[k] <= 1
               PROVE  InHandsAt(s, k)'
    BY <1>3 DEF InHands
  <2>1. k # m
    BY <1>5
  <2>2. Exists(k) /\ InHandsAt(s, k) /\ run'[s] = run[s]
    BY <1>4, <1>6, <2>1 DEF MessageInv, Handles, InHands, Exists
  <2> QED
    BY <1>4, <2>1, <2>2 DEF InHandsAt, Rows
<1>11. CountersMatchRows' /\ SentMeansDone'
  <2>1. ASSUME NEW k \in Message, k # m
        PROVE  /\ Exists(k)' <=> Exists(k)
               /\ \A st \in RowStatus : Rows(k, st)' = Rows(k, st)
    BY <1>4, <2>1 DEF Exists, Rows
  <2> QED
    BY <1>3, <1>4, <1>5, <2>1 DEF MessageInv, CountersMatchRows, SentMeansDone, RowStatus
<1> QED
  BY <1>7, <1>8, <1>9, <1>10, <1>11 DEF MessageInv

-----------------------------------------------------------------------------
(* Releases *)

\* Two sets that share nothing are counted apart.
LEMMA CountedApart ==
  ASSUME NEW S, NEW T, IsFiniteSet(S), IsFiniteSet(T), S \cap T = {}
  PROVE  /\ IsFiniteSet(S \cup T)
         /\ Cardinality(S \cup T) = Cardinality(S) + Cardinality(T)
<1>1. /\ IsFiniteSet(S \cup T)
      /\ Cardinality(S \cup T) = Cardinality(S) + Cardinality(T) - Cardinality({})
  BY FS_Union
<1>2. Cardinality(S) \in Nat /\ Cardinality(T) \in Nat /\ Cardinality({}) = 0
  BY FS_CardinalityType, FS_EmptySet
<1> QED
  BY <1>1, <1>2

\* Every row has one of three statuses.
StatusAt(rows, st) == {i \in DOMAIN rows : rows[i] = st}

LEMMA RowsAreCounted ==
  ASSUME NEW rows \in Seq(RowStatus)
  PROVE  /\ \A st : IsFiniteSet(StatusAt(rows, st)) /\ Cardinality(StatusAt(rows, st)) \in Nat
         /\ Cardinality(StatusAt(rows, "PENDING")) + Cardinality(StatusAt(rows, "SENT"))
              + Cardinality(StatusAt(rows, "FAILED")) = Len(rows)
<1>1. Len(rows) \in Nat /\ DOMAIN rows = 1..Len(rows)
      /\ \A i \in DOMAIN rows : rows[i] \in RowStatus
  BY LenProperties
<1>2. IsFiniteSet(DOMAIN rows) /\ Cardinality(DOMAIN rows) = Len(rows)
  BY SMTT(30), <1>1, FS_Interval
<1>3. \A st : IsFiniteSet(StatusAt(rows, st)) /\ Cardinality(StatusAt(rows, st)) \in Nat
  BY <1>2, FS_Subset, FS_CardinalityType DEF StatusAt
<1> DEFINE open == StatusAt(rows, "PENDING")
           sent == StatusAt(rows, "SENT")
           failed == StatusAt(rows, "FAILED")
<1>4. /\ open \cap sent = {} /\ (open \cup sent) \cap failed = {}
      /\ DOMAIN rows = (open \cup sent) \cup failed
  BY <1>1 DEF StatusAt, RowStatus
<1>5. IsFiniteSet(open) /\ IsFiniteSet(sent) /\ IsFiniteSet(failed)
  BY <1>3
<1> HIDE DEF open, sent, failed
<1>6. /\ IsFiniteSet(open \cup sent)
      /\ Cardinality(open \cup sent) = Cardinality(open) + Cardinality(sent)
  BY <1>4, <1>5, CountedApart
<1>7. Cardinality(DOMAIN rows) = Cardinality(open \cup sent) + Cardinality(failed)
  BY <1>4, <1>5, <1>6, CountedApart
<1> QED
  BY <1>2, <1>3, <1>6, <1>7 DEF open, sent, failed

\* What the three commits that release messages have in common: each message
\* of a set B gets n more rows, and the runner works off rows of these alone.
Releases(r, B, n, todo) ==
  /\ \A m \in Message \ B : /\ msg'[m] = msg[m] /\ row'[m] = row[m]
                            /\ sends'[m] = sends[m] /\ releases'[m] = releases[m]
  /\ \A m \in B :
       /\ msg'[m] \in MessageRow
       /\ msg'[m].status \in {"SENDING", "SENT", "CANCELLED"}
       /\ row'[m] = row[m] \o NewRows(n[m])
       /\ sends'[m] = sends[m] \o Unsent(n[m])
       /\ releases'[m] = releases[m] + 1
       /\ releases[m] = 0 =>
            /\ msg'[m].total = n[m] /\ msg'[m].delivered = 0 /\ msg'[m].failed = 0
            /\ msg'[m].status # "SENDING" => n[m] = 0
  /\ \A d \in todo : d[1] \in B
  /\ run' = [run EXCEPT ![r] = Queue(todo)]
  /\ DOMAIN msg' = Message /\ DOMAIN row' = Message
  /\ DOMAIN sends' = Message /\ DOMAIN releases' = Message
  /\ msg' = [m \in Message |-> msg'[m]] /\ row' = [m \in Message |-> row'[m]]
  /\ sends' = [m \in Message |-> sends'[m]] /\ releases' = [m \in Message |-> releases'[m]]
  /\ UNCHANGED <<purged, due, seats, faults>>

LEMMA ReleasesInv ==
  ASSUME MessageInv, NEW r \in Runner, NEW B \in SUBSET Message, NEW n \in [B -> Nat],
         NEW todo \in SUBSET Deliveries, Releases(r, B, n, todo)
  PROVE  MessageInv'
<1> DEFINE q == Queue(todo)
<1>1. q \in Request /\ q.op \in {"idle", "queue"} /\ (q.op = "queue" => q.todo = todo)
  BY QueueShape
<1> HIDE DEF q
<1>2. run' = [run EXCEPT ![r] = q] /\ UNCHANGED <<purged, due, seats, faults>>
  BY DEF Releases, q
<1>3. run' \in [Runner -> Request] /\ run'[r] = q /\ \A s \in Runner \ {r} : run'[s] = run[s]
  BY <1>1, <1>2 DEF MessageInv, TypeOK
<1>4. ASSUME NEW m \in Message, m \notin B
      PROVE  /\ msg'[m] = msg[m] /\ row'[m] = row[m]
             /\ sends'[m] = sends[m] /\ releases'[m] = releases[m]
  BY <1>4 DEF Releases
<1>5. ASSUME NEW m \in B
      PROVE  /\ m \in Message /\ n[m] \in Nat
             /\ row'[m] \in Seq(RowStatus) /\ sends'[m] \in Seq(Nat)
             /\ DOMAIN sends'[m] = DOMAIN row'[m]
             /\ releases[m] \in Nat /\ releases'[m] = releases[m] + 1
             /\ releases[m] = 0 => /\ Len(row'[m]) = n[m] /\ DOMAIN row'[m] = 1..n[m]
                                   /\ \A i \in 1..n[m] : row'[m][i] = "PENDING"
  <2>1. /\ m \in Message /\ n[m] \in Nat /\ releases[m] \in Nat
        /\ row[m] \in Seq(RowStatus) /\ sends[m] \in Seq(Nat) /\ DOMAIN sends[m] = DOMAIN row[m]
    BY DEF MessageInv, TypeOK, RowStatus
  <2>2. /\ row'[m] = row[m] \o NewRows(n[m]) /\ sends'[m] = sends[m] \o Unsent(n[m])
        /\ releases'[m] = releases[m] + 1
    BY DEF Releases
  <2>3. Len(sends[m]) = Len(row[m])
    <3>1. Len(sends[m]) \in Nat /\ Len(row[m]) \in Nat /\ 1..Len(sends[m]) = 1..Len(row[m])
      BY <2>1, LenProperties
    <3> QED
      BY <3>1
  <2>4. /\ row'[m] \in Seq(RowStatus) /\ sends'[m] \in Seq(Nat)
        /\ DOMAIN row'[m] = 1..(Len(row[m]) + n[m])
        /\ DOMAIN sends'[m] = 1..(Len(row[m]) + n[m])
        /\ Len(row'[m]) = Len(row[m]) + n[m]
        /\ row[m] = <<>> => \A i \in 1..n[m] : row'[m][i] = "PENDING"
    <3> PICK rows \in Seq(RowStatus), counts \in Seq(Nat), more \in Nat :
          rows = row[m] /\ counts = sends[m] /\ more = n[m]
      BY <2>1
    <3>0. Len(counts) = Len(rows)
      BY <2>3
    <3>1. /\ rows \o NewRows(more) \in Seq(RowStatus)
          /\ counts \o Unsent(more) \in Seq(Nat)
          /\ DOMAIN (rows \o NewRows(more)) = 1..(Len(rows) + more)
          /\ DOMAIN (counts \o Unsent(more)) = 1..(Len(rows) + more)
          /\ Len(rows \o NewRows(more)) = Len(rows) + more
          /\ rows = <<>> => \A i \in 1..more : (rows \o NewRows(more))[i] = "PENDING"
      BY ONLY <3>0, rows \in Seq(RowStatus), counts \in Seq(Nat), more \in Nat, AddedRows, Zenon
    <3> QED
      BY <2>2, <3>1
  <2>5. releases[m] = 0 => row[m] = <<>> /\ Len(row[m]) = 0
    BY <2>1 DEF MessageInv, UnreleasedUntouched
  <2> QED
    BY <2>1, <2>2, <2>4, <2>5
<1>6. ASSUME NEW m \in B
      PROVE  /\ msg'[m] \in MessageRow
             /\ msg'[m].status \in {"SENDING", "SENT", "CANCELLED"}
             /\ releases[m] = 0 =>
                  /\ msg'[m].total = n[m] /\ msg'[m].delivered = 0 /\ msg'[m].failed = 0
                  /\ msg'[m].status # "SENDING" => n[m] = 0
  BY DEF Releases
<1>7. TypeOK'
  <2>1. /\ msg' = [m \in Message |-> msg'[m]] /\ row' = [m \in Message |-> row'[m]]
        /\ sends' = [m \in Message |-> sends'[m]] /\ releases' = [m \in Message |-> releases'[m]]
    BY DEF Releases
  <2>2. \A m \in Message : /\ msg'[m] \in {None, Gone} \cup MessageRow
                           /\ row'[m] \in Seq(RowStatus)
                           /\ sends'[m] \in Seq(Nat)
                           /\ DOMAIN sends'[m] = DOMAIN row'[m]
                           /\ releases'[m] \in Nat
    BY <1>4, <1>5, <1>6 DEF MessageInv, TypeOK, RowStatus
  <2>3. /\ msg' \in [Message -> {None, Gone} \cup MessageRow]
        /\ row' \in [Message -> Seq(RowStatus)]
        /\ sends' \in [Message -> Seq(Nat)] /\ releases' \in [Message -> Nat]
    BY <2>1, <2>2
  <2> QED
    BY <1>2, <1>3, <2>2, <2>3 DEF MessageInv, TypeOK, RowStatus
<1>8. DueWereScheduled' /\ DraftsStayDrafts'
  <2>1. \A m \in Message : \/ msg'[m] = msg[m]
                           \/ msg'[m].status \in {"SENDING", "SENT", "CANCELLED"}
    BY <1>4, <1>6
  <2>2. DueWereScheduled'
    BY <1>1, <1>2, <1>3, <2>1 DEF MessageInv, TypeOK, DueWereScheduled
  <2>3. \A s \in Runner : run[s].op \in DraftOps => run[s].message \in Message
    BY RequestShape DEF MessageInv, TypeOK
  <2>4. DraftsStayDrafts'
    BY <1>1, <1>2, <1>3, <2>1, <2>3 DEF MessageInv, DraftsStayDrafts, DraftOps
  <2> QED
    BY <2>2, <2>4
<1>9. ASSUME NEW s \in Runner, NEW m \in Message, Holds(s, m)'
      PROVE  (s = r /\ m \in B) \/ (s # r /\ Holds(s, m))
  <2>1. CASE s = r
    <3>1. ~Handles(r, m)'
      BY <1>1, <1>3 DEF Handles
    <3>2. run'[r].op = "queue" /\ \E d \in run'[r].todo : d[1] = m
      BY <1>1, <1>3, <1>9, <2>1, <3>1 DEF Holds
    <3>3. \E d \in todo : d[1] = m
      BY <1>1, <1>3, <3>2
    <3> QED
      BY <2>1, <3>3 DEF Releases
  <2>2. CASE s # r
    BY <1>3, <1>9, <2>2 DEF Holds, Handles
  <2> QED
    BY <2>1, <2>2
<1>10. \A m \in B : releases'[m] > 0 /\ (releases'[m] <= 1 => releases[m] = 0)
  BY <1>5
<1>11. UnreleasedUntouched' /\ OneHolder'
  <2>1. ASSUME NEW m \in Message
        PROVE  /\ msg'[m].status \in {"NONE", "DRAFT", "SCHEDULED"} => releases'[m] = 0
               /\ msg'[m].status \in {"SENDING", "SENT", "CANCELLED"} => releases'[m] > 0
               /\ releases'[m] = 0 => row'[m] = <<>> /\ \A s \in Runner : ~Holds(s, m)'
    <3>1. CASE m \in B
      BY <1>6, <1>10, <3>1
    <3>2. CASE m \notin B
      BY <1>4, <1>9, <3>2 DEF MessageInv, UnreleasedUntouched
    <3> QED
      BY <3>1, <3>2
  <2>2. ASSUME NEW m \in Message, releases'[m] <= 1, NEW s \in Runner, NEW t \in Runner,
               Holds(s, m)', Holds(t, m)'
        PROVE  s = t
    <3>1. CASE m \in B
      <4>1. \A x \in Runner : ~Holds(x, m)
        BY <1>10, <2>2, <3>1 DEF MessageInv, UnreleasedUntouched
      <4> QED
        BY <1>9, <2>2, <4>1
    <3>2. CASE m \notin B
      BY <1>4, <1>9, <2>2, <3>2 DEF MessageInv, OneHolder
    <3> QED
      BY <3>1, <3>2
  <2> QED
    BY <2>1, <2>2 DEF UnreleasedUntouched, OneHolder
<1>12. InHands'
  <2> SUFFICES ASSUME NEW s \in Runner, NEW m \in Message, Handles(s, m)', Exists(m)',
                      releases'[m] <= 1
               PROVE  InHandsAt(s, m)'
    BY DEF InHands
  <2>1. s # r
    BY <1>1, <1>3 DEF Handles
  <2>2. Handles(s, m) /\ Holds(s, m) /\ run'[s] = run[s]
    BY <1>3, <2>1 DEF Handles, Holds
  <2>3. m \notin B
    BY <1>10, <2>2 DEF MessageInv, UnreleasedUntouched
  <2>4. InHandsAt(s, m)
    BY <1>4, <2>2, <2>3 DEF MessageInv, InHands, Exists
  <2> QED
    BY <1>4, <2>2, <2>3, <2>4 DEF InHandsAt, Rows
<1>13. CountersMatchRows' /\ SentMeansDone'
  <2>1. ASSUME NEW m \in Message, m \notin B
        PROVE  /\ Exists(m)' <=> Exists(m)
               /\ \A st \in RowStatus : Rows(m, st)' = Rows(m, st)
    BY <1>4, <2>1 DEF Exists, Rows
  <2>2. ASSUME NEW m \in B, releases'[m] <= 1
        PROVE  /\ msg'[m].total = Len(row'[m])
               /\ msg'[m].delivered = Cardinality(Rows(m, "SENT"))'
               /\ msg'[m].failed = Cardinality(Rows(m, "FAILED"))'
               /\ msg'[m].status = "SENT" => Rows(m, "PENDING")' = {}
    <3>1. releases[m] = 0
      BY <1>10, <2>2
    <3>2. Len(row'[m]) = n[m] /\ DOMAIN row'[m] = 1..n[m] /\ n[m] \in Nat
          /\ \A i \in 1..n[m] : row'[m][i] = "PENDING"
      BY <1>5, <3>1
    <3>3. Rows(m, "SENT")' = {} /\ Rows(m, "FAILED")' = {}
      BY <3>2 DEF Rows
    <3>4. n[m] = 0 => Rows(m, "PENDING")' = {}
      BY <3>2 DEF Rows
    <3> QED
      BY <1>6, <3>1, <3>2, <3>3, <3>4, FS_EmptySet
  <2> QED
    BY <1>4, <2>1, <2>2 DEF MessageInv, CountersMatchRows, SentMeansDone, RowStatus
<1> QED
  BY <1>7, <1>8, <1>11, <1>12, <1>13 DEF MessageInv

\* A new message is released to the request that made it.
LEMMA CreateAndSendInv ==
  ASSUME MessageInv, NEW r \in Runner, NEW m \in Message, NEW text \in Text,
         NEW k \in 1..MaxRecipients, CreateAndSend(r, m, text, k)
  PROVE  MessageInv'
<1>1. msg[m].status = "NONE" /\ releases[m] = 0 /\ row[m] = <<>> /\ sends[m] = <<>> /\ k \in Nat
  <2>1. msg[m].status = "NONE" /\ releases[m] = 0 /\ row[m] = <<>> /\ k \in Nat
    BY MessageAssumption DEF CreateAndSend, None, MessageInv, UnreleasedUntouched
  <2>2. sends[m] \in Seq(Nat) /\ DOMAIN sends[m] = DOMAIN row[m]
    BY DEF MessageInv, TypeOK
  <2>3. Len(sends[m]) \in Nat /\ DOMAIN sends[m] = 1..Len(sends[m])
    BY <2>2, LenProperties
  <2>4. DOMAIN <<>> = {}
    OBVIOUS
  <2>5. Len(sends[m]) = 0
    <3>1. DOMAIN sends[m] = {}
      BY <2>1, <2>2, <2>4, Zenon
    <3>2. \A len \in Nat : 1..len = {} => len = 0
      OBVIOUS
    <3> QED
      BY <2>3, <3>1, <3>2, Zenon
  <2>6. sends[m] = <<>>
    BY <2>2, <2>5, EmptySeq
  <2> QED
    BY <2>1, <2>6
<1> DEFINE made == [NewMessage("SENDING", text) EXCEPT !.total = k]
<1>2. /\ made \in MessageRow /\ made.status = "SENDING" /\ made.total = k
      /\ made.delivered = 0 /\ made.failed = 0
  BY <1>1 DEF NewMessage, MessageRow, MessageStatus
<1> HIDE DEF made
<1>3. /\ msg' = [msg EXCEPT ![m] = made] /\ row' = [row EXCEPT ![m] = NewRows(k)]
      /\ sends' = [sends EXCEPT ![m] = Unsent(k)] /\ releases' = [releases EXCEPT ![m] = @ + 1]
      /\ run' = [run EXCEPT ![r] = Queue(PendingIn(m, NewRows(k)))]
      /\ UNCHANGED <<purged, due, seats, faults>>
  BY DEF CreateAndSend, made
<1>4. /\ NewRows(k) \in Seq(RowStatus) /\ Unsent(k) \in Seq(Nat)
  BY <1>1 DEF NewRows, Unsent, RowStatus
<1>5. <<>> \o NewRows(k) = NewRows(k) /\ <<>> \o Unsent(k) = Unsent(k)
  BY <1>4, ConcatEmptySeq
<1>6. PICK todo \in SUBSET Deliveries :
        /\ run' = [run EXCEPT ![r] = Queue(todo)]
        /\ \A d \in todo : d[1] = m
  BY <1>3, <1>4, PendingShape
<1>7. PICK n \in [{m} -> Nat] : n[m] = k
  <2>1. [x \in {m} |-> k] \in [{m} -> Nat] /\ [x \in {m} |-> k][m] = k
    BY <1>1
  <2> QED
    BY <2>1
<1>8. /\ msg \in [Message -> {None, Gone} \cup MessageRow]
      /\ row \in [Message -> Seq({"PENDING", "SENT", "FAILED"})]
      /\ sends \in [Message -> Seq(Nat)] /\ releases \in [Message -> Nat]
  BY DEF MessageInv, TypeOK
<1>9. /\ \A j \in Message \ {m} : /\ msg'[j] = msg[j] /\ row'[j] = row[j]
                                  /\ sends'[j] = sends[j] /\ releases'[j] = releases[j]
      /\ msg'[m] = made /\ row'[m] = row[m] \o NewRows(k)
      /\ sends'[m] = sends[m] \o Unsent(k) /\ releases'[m] = releases[m] + 1
  BY <1>1, <1>3, <1>5, <1>8
<1>10. /\ DOMAIN msg' = Message /\ DOMAIN row' = Message
       /\ DOMAIN sends' = Message /\ DOMAIN releases' = Message
       /\ msg' = [j \in Message |-> msg'[j]] /\ row' = [j \in Message |-> row'[j]]
       /\ sends' = [j \in Message |-> sends'[j]] /\ releases' = [j \in Message |-> releases'[j]]
  BY <1>3, <1>8
<1>11. /\ msg'[m] \in MessageRow /\ msg'[m].status \in {"SENDING", "SENT", "CANCELLED"}
       /\ row'[m] = row[m] \o NewRows(n[m]) /\ sends'[m] = sends[m] \o Unsent(n[m])
       /\ msg'[m].total = n[m] /\ msg'[m].delivered = 0 /\ msg'[m].failed = 0
       /\ msg'[m].status = "SENDING"
  BY <1>2, <1>7, <1>9
<1>12. Releases(r, {m}, n, todo)
  BY <1>3, <1>6, <1>9, <1>10, <1>11 DEF Releases
<1> QED
  BY <1>12, ReleasesInv

\* A draft that was read is released to the request that read it; a message
\* that was released meanwhile is released again.
LEMMA SendCommitInv ==
  ASSUME MessageInv, NEW r \in Runner, NEW k \in 1..MaxRecipients, SendCommit(r, k)
  PROVE  MessageInv'
<1>1. /\ run[r] \in Request /\ run[r].op = "send" /\ run[r].message \in Message
      /\ Exists(run[r].message) /\ k \in Nat
      /\ msg[run[r].message].status \notin {"NONE", "SCHEDULED"}
  BY RequestShape, MessageAssumption
  DEF SendCommit, MessageInv, TypeOK, DraftOps, DraftsStayDrafts
<1>2. PICK m \in Message : m = run[r].message
  BY <1>1
<1>3. Exists(m) /\ msg[m] \in MessageRow
  BY <1>1, <1>2, ExistingRow DEF MessageInv, Exists
<1>4. /\ msg' = [msg EXCEPT ![m] = Promoted(@, k)]
      /\ row' = [row EXCEPT ![m] = row[m] \o NewRows(k)]
      /\ sends' = [sends EXCEPT ![m] = @ \o Unsent(k)]
      /\ releases' = [releases EXCEPT ![m] = @ + 1]
      /\ run' = [run EXCEPT ![r] =
           Queue(PendingIn(m, row[m] \o NewRows(k)) \ PendingIn(m, row[m]))]
      /\ UNCHANGED <<purged, due, seats, faults>>
  BY <1>2 DEF SendCommit
<1>5. /\ msg \in [Message -> {None, Gone} \cup MessageRow]
      /\ row \in [Message -> Seq(RowStatus)]
      /\ sends \in [Message -> Seq(Nat)] /\ releases \in [Message -> Nat]
  BY DEF MessageInv, TypeOK, RowStatus
<1>6. row[m] \o NewRows(k) \in Seq(RowStatus)
  <2>1. NewRows(k) \in Seq(RowStatus)
    BY <1>1 DEF NewRows, RowStatus
  <2>2. row[m] \in Seq(RowStatus)
    BY <1>5
  <2> QED
    BY <2>1, <2>2, ConcatProperties
<1>7. PICK todo \in SUBSET Deliveries :
        /\ run' = [run EXCEPT ![r] = Queue(todo)]
        /\ \A d \in todo : d[1] = m
  <2>1. PICK more \in Seq(RowStatus) : more = row[m] \o NewRows(k)
    BY <1>6
  <2>2. /\ PendingIn(m, more) \in SUBSET Deliveries
        /\ \A d \in PendingIn(m, more) : d[1] = m
    BY PendingShape
  <2>3. /\ PendingIn(m, more) \ PendingIn(m, row[m]) \in SUBSET Deliveries
        /\ \A d \in PendingIn(m, more) \ PendingIn(m, row[m]) : d[1] = m
    BY <2>2
  <2>4. run' = [run EXCEPT ![r] = Queue(PendingIn(m, more) \ PendingIn(m, row[m]))]
    BY <1>4, <2>1
  <2> QED
    BY <2>3, <2>4
<1>8. PICK n \in [{m} -> Nat] : n[m] = k
  <2>1. [x \in {m} |-> k] \in [{m} -> Nat] /\ [x \in {m} |-> k][m] = k
    BY <1>1
  <2> QED
    BY <2>1
<1>9. /\ \A j \in Message \ {m} : /\ msg'[j] = msg[j] /\ row'[j] = row[j]
                                  /\ sends'[j] = sends[j] /\ releases'[j] = releases[j]
      /\ msg'[m] = Promoted(msg[m], k) /\ row'[m] = row[m] \o NewRows(k)
      /\ sends'[m] = sends[m] \o Unsent(k) /\ releases'[m] = releases[m] + 1
  BY <1>4, <1>5
<1>10. /\ msg'[m] \in MessageRow /\ msg'[m].status = "SENDING" /\ msg'[m].total = k
       /\ msg'[m].delivered = msg[m].delivered /\ msg'[m].failed = msg[m].failed
  BY <1>1, <1>3, <1>9 DEF Promoted, MessageRow, MessageStatus
<1>11. releases[m] = 0 => msg[m].delivered = 0 /\ msg[m].failed = 0
  <2> SUFFICES ASSUME releases[m] = 0 PROVE msg[m].delivered = 0 /\ msg[m].failed = 0
    OBVIOUS
  <2>1. row[m] = <<>>
    BY DEF MessageInv, UnreleasedUntouched
  <2>2. Rows(m, "SENT") = {} /\ Rows(m, "FAILED") = {}
    BY <2>1 DEF Rows
  <2>3. /\ msg[m].delivered = Cardinality(Rows(m, "SENT"))
        /\ msg[m].failed = Cardinality(Rows(m, "FAILED"))
    BY <1>3 DEF MessageInv, CountersMatchRows
  <2>4. Cardinality({}) = 0
    BY FS_EmptySet
  <2> QED
    BY <2>2, <2>3, <2>4
<1>12. /\ DOMAIN msg' = Message /\ DOMAIN row' = Message
       /\ DOMAIN sends' = Message /\ DOMAIN releases' = Message
       /\ msg' = [j \in Message |-> msg'[j]] /\ row' = [j \in Message |-> row'[j]]
       /\ sends' = [j \in Message |-> sends'[j]] /\ releases' = [j \in Message |-> releases'[j]]
  BY <1>4, <1>5
<1>13. Releases(r, {m}, n, todo)
  BY <1>4, <1>7, <1>8, <1>9, <1>10, <1>11, <1>12 DEF Releases
<1> QED
  BY <1>13, ReleasesInv

\* The numbers of a message that was never released are all zero.
LEMMA NeverReleased ==
  ASSUME MessageInv, NEW m \in Message, Exists(m), releases[m] = 0
  PROVE  msg[m].total = 0 /\ msg[m].delivered = 0 /\ msg[m].failed = 0
<1>1. row[m] = <<>>
  BY DEF MessageInv, UnreleasedUntouched
<1>2. Rows(m, "SENT") = {} /\ Rows(m, "FAILED") = {} /\ Len(row[m]) = 0
  BY <1>1 DEF Rows
<1>3. /\ msg[m].total = Len(row[m])
      /\ msg[m].delivered = Cardinality(Rows(m, "SENT"))
      /\ msg[m].failed = Cardinality(Rows(m, "FAILED"))
  BY DEF MessageInv, CountersMatchRows
<1>4. Cardinality({}) = 0
  BY FS_EmptySet
<1> QED
  BY <1>2, <1>3, <1>4

\* The messages of a batch were due: they are released to the cron run, or
\* end without a row.
LEMMA CronCommitInv ==
  ASSUME MessageInv, NEW r \in Runner, NEW found \in [Message -> 0..MaxRecipients],
         CronCommit(r, found)
  PROVE  MessageInv'
<1>1. /\ run[r] \in Request /\ run[r].op = "cron" /\ run[r].batch \subseteq due
      /\ due \subseteq Message
  BY DEF CronCommit, MessageInv, TypeOK, DueWereScheduled
<1>2. PICK B \in SUBSET Message : B = run[r].batch
  BY <1>1
<1> DEFINE Count(m) == IF seats[m] = 0 THEN 0 ELSE found[m]
           More(m) == row[m] \o NewRows(Count(m))
<1> HIDE DEF Count, More
<1>3. /\ msg' = [m \in Message |->
           IF m \in B THEN CronReleased(m, msg[m], found[m]) ELSE msg[m]]
      /\ row' = [m \in Message |-> IF m \in B THEN More(m) ELSE row[m]]
      /\ sends' = [m \in Message |->
           IF m \in B THEN sends[m] \o Unsent(Count(m)) ELSE sends[m]]
      /\ releases' = [m \in Message |-> IF m \in B THEN releases[m] + 1 ELSE releases[m]]
      /\ run' = [run EXCEPT ![r] =
           Queue(UNION {PendingIn(m, More(m)) : m \in {k \in B : Count(k) > 0}})]
      /\ UNCHANGED <<purged, due, seats, faults>>
  <2>1. /\ msg' = [m \in Message |->
             IF m \in run[r].batch THEN CronReleased(m, msg[m], found[m]) ELSE msg[m]]
        /\ row' = [m \in Message |-> IF m \in run[r].batch THEN More(m) ELSE row[m]]
        /\ sends' = [m \in Message |->
             IF m \in run[r].batch THEN sends[m] \o Unsent(Count(m)) ELSE sends[m]]
    BY DEF CronCommit, Count, More
  <2>2. /\ releases' =
             [m \in Message |-> IF m \in run[r].batch THEN releases[m] + 1 ELSE releases[m]]
        /\ UNCHANGED <<purged, due, seats, faults>>
    BY DEF CronCommit
  <2>3. run' = [run EXCEPT ![r] =
          Queue(UNION {PendingIn(m, More(m)) : m \in {k \in run[r].batch : Count(k) > 0}})]
    BY DEF CronCommit, Count, More
  <2> QED
    BY <1>2, <2>1, <2>2, <2>3
<1>4. \A m \in Message : Count(m) \in Nat /\ seats[m] \in 0..2 /\ found[m] \in Nat
  <2>1. \A m \in Message : seats[m] \in 0..2 /\ found[m] \in Nat
    BY MessageAssumption DEF MessageInv, TypeOK
  <2> QED
    BY <2>1 DEF Count
<1>5. \A m \in Message : More(m) \in Seq(RowStatus)
  <2> SUFFICES ASSUME NEW m \in Message PROVE More(m) \in Seq(RowStatus)
    OBVIOUS
  <2>1. row[m] \in Seq(RowStatus)
    BY DEF MessageInv, TypeOK, RowStatus
  <2>2. \A k \in Nat : NewRows(k) \in Seq(RowStatus)
    BY DEF NewRows, RowStatus
  <2>3. NewRows(Count(m)) \in Seq(RowStatus)
    BY <1>4, <2>2
  <2>4. row[m] \o NewRows(Count(m)) \in Seq(RowStatus)
    BY <2>1, <2>3, ConcatProperties
  <2> QED
    BY <2>4 DEF More
<1>6. PICK todo \in SUBSET Deliveries :
        /\ run' = [run EXCEPT ![r] = Queue(todo)]
        /\ \A d \in todo : d[1] \in B
  <2> DEFINE all == UNION {PendingIn(m, More(m)) : m \in {k \in B : Count(k) > 0}}
  <2>1. \A m \in B : /\ PendingIn(m, More(m)) \in SUBSET Deliveries
                     /\ \A d \in PendingIn(m, More(m)) : d[1] = m
    BY <1>5, PendingShape
  <2>2. all \in SUBSET Deliveries /\ \A d \in all : d[1] \in B
    BY <2>1
  <2> QED
    BY <1>3, <2>2
<1>7. PICK n \in [B -> Nat] : \A m \in B : n[m] = Count(m)
  <2>1. [m \in B |-> Count(m)] \in [B -> Nat]
    BY <1>4
  <2> QED
    BY <2>1
<1>8. ASSUME NEW m \in B
      PROVE  /\ msg'[m] \in MessageRow
             /\ msg'[m].status \in {"SENDING", "SENT", "CANCELLED"}
             /\ releases[m] = 0 =>
                  /\ msg'[m].total = n[m] /\ msg'[m].delivered = 0 /\ msg'[m].failed = 0
                  /\ msg'[m].status # "SENDING" => n[m] = 0
  <2>1. m \in Message /\ Exists(m)
    BY <1>1, <1>2 DEF MessageInv, DueWereScheduled, Exists, MessageStatus
  <2>2. msg[m] \in MessageRow
    BY <2>1, ExistingRow DEF MessageInv
  <2>3. msg'[m] = CronReleased(m, msg[m], found[m])
    BY <1>3, <2>1
  <2>4. releases[m] = 0 => msg[m].total = 0 /\ msg[m].delivered = 0 /\ msg[m].failed = 0
    BY <2>1, NeverReleased
  <2>5. CASE seats[m] = 0
    <3>1. msg'[m] = [msg[m] EXCEPT !.status = "CANCELLED"]
      BY <2>3, <2>5 DEF CronReleased
    <3>2. n[m] = 0
      BY <1>7, <2>5 DEF Count
    <3> QED
      BY <2>2, <2>4, <3>1, <3>2 DEF MessageRow, MessageStatus
  <2>6. CASE seats[m] # 0 /\ found[m] = 0
    <3>1. msg'[m] = [msg[m] EXCEPT !.status = "SENT"]
      BY <2>3, <2>6 DEF CronReleased
    <3>2. n[m] = 0
      BY <1>7, <2>6 DEF Count
    <3> QED
      BY <2>2, <2>4, <3>1, <3>2 DEF MessageRow, MessageStatus
  <2>7. CASE seats[m] # 0 /\ found[m] # 0
    <3>1. msg'[m] = [msg[m] EXCEPT !.status = "SENDING", !.total = found[m]]
      BY <2>3, <2>7 DEF CronReleased, Promoted
    <3>2. n[m] = found[m] /\ found[m] \in Nat
      BY <1>4, <1>7, <2>1, <2>7 DEF Count
    <3> QED
      BY <2>2, <2>4, <3>1, <3>2 DEF MessageRow, MessageStatus
  <2> QED
    BY <2>5, <2>6, <2>7
<1>9. ASSUME NEW m \in B
      PROVE  /\ row'[m] = row[m] \o NewRows(n[m]) /\ sends'[m] = sends[m] \o Unsent(n[m])
             /\ releases'[m] = releases[m] + 1
  BY <1>3, <1>7 DEF More
<1>10. \A m \in Message \ B : /\ msg'[m] = msg[m] /\ row'[m] = row[m]
                              /\ sends'[m] = sends[m] /\ releases'[m] = releases[m]
  BY <1>3
<1>11. /\ DOMAIN msg' = Message /\ DOMAIN row' = Message
       /\ DOMAIN sends' = Message /\ DOMAIN releases' = Message
       /\ msg' = [j \in Message |-> msg'[j]] /\ row' = [j \in Message |-> row'[j]]
       /\ sends' = [j \in Message |-> sends'[j]] /\ releases' = [j \in Message |-> releases'[j]]
  BY <1>3
<1>12. Releases(r, B, n, todo)
  BY <1>3, <1>6, <1>8, <1>9, <1>10, <1>11 DEF Releases
<1> QED
  BY <1>12, ReleasesInv

-----------------------------------------------------------------------------
(* The end of a dispatch *)

\* One row that was pending has its outcome; the counters the runner read are
\* still those of the message, so what it writes agrees with the rows.
LEMMA DispatchCommitInv ==
  ASSUME MessageInv, NEW r \in Runner, DispatchCommit(r)
  PROVE  MessageInv'
<1>1. /\ run[r] \in Request /\ run[r].op = "sent" /\ run[r].delivery \in Deliveries
      /\ run[r].todo \in SUBSET Deliveries /\ run[r].ok \in BOOLEAN /\ run[r].read \in MessageRow
      /\ run[r].delivery[1] \in Message /\ Exists(run[r].delivery[1])
  BY RequestShape DEF DispatchCommit, MessageInv, TypeOK, Deliveries
<1>2. PICK m \in Message, i \in Nat, todo \in SUBSET Deliveries, q \in Request :
        m = run[r].delivery[1] /\ i = run[r].delivery[2] /\ todo = run[r].todo /\ q = run[r]
  BY <1>1 DEF Deliveries
<1> DEFINE outcome == IF q.ok THEN "SENT" ELSE "FAILED"
<1>3. /\ row' = [row EXCEPT ![m][i] = outcome] /\ msg' = [msg EXCEPT ![m] = Counted(@, q)]
      /\ run' = [run EXCEPT ![r] = Queue(todo)]
      /\ UNCHANGED <<purged, due, seats, faults, releases, sends>>
  BY <1>2 DEF DispatchCommit
<1>4. /\ q.ok \in BOOLEAN /\ q.read \in MessageRow /\ Handles(r, m) /\ Holds(r, m)
      /\ outcome \in {"SENT", "FAILED"} /\ Exists(m)
  BY <1>1, <1>2 DEF Handles, Holds
<1> HIDE DEF outcome
<1>5. msg[m] \in MessageRow
  BY <1>4, ExistingRow DEF MessageInv
<1>6. /\ Counted(msg[m], q) \in MessageRow
      /\ Counted(msg[m], q).total = msg[m].total
      /\ Counted(msg[m], q).status \in {msg[m].status, "SENT"}
  <2>1. Delivered(q) \in Nat /\ Failed(q) \in Nat
    BY <1>4 DEF Delivered, Failed, MessageRow
  <2>2. Counted(msg[m], q) = [msg[m] EXCEPT
          !.delivered = IF q.ok THEN Delivered(q) ELSE @,
          !.failed = IF q.ok THEN @ ELSE Failed(q),
          !.status = IF q.read.status = "SENDING" /\ Accounted(q) THEN "SENT" ELSE @]
    BY DEF Counted
  <2> QED
    BY <1>5, <2>1, <2>2 DEF MessageRow, MessageStatus
<1>7. /\ msg'[m] = Counted(msg[m], q) /\ row'[m] = [row[m] EXCEPT ![i] = outcome]
      /\ \A k \in Message \ {m} : msg'[k] = msg[k] /\ row'[k] = row[k]
  BY <1>3 DEF MessageInv, TypeOK
<1>8. row[m] \in Seq(RowStatus) /\ row'[m] \in Seq(RowStatus) /\ DOMAIN row'[m] = DOMAIN row[m]
  <2>1. row[m] \in Seq(RowStatus) /\ outcome \in RowStatus
    BY <1>4 DEF MessageInv, TypeOK, RowStatus
  <2> PICK rows \in Seq(RowStatus) : rows = row[m]
    BY <2>1
  <2>2. /\ [rows EXCEPT ![i] = outcome] \in Seq(RowStatus)
        /\ DOMAIN [rows EXCEPT ![i] = outcome] = DOMAIN rows
    BY <2>1, ChangedSeq
  <2> QED
    BY <1>7, <2>1, <2>2
<1> DEFINE next == Queue(todo)
<1>9. next \in Request /\ next.op \in {"idle", "queue"} /\ (next.op = "queue" => next.todo = todo)
  BY QueueShape
<1> HIDE DEF next
<1>10. /\ run' \in [Runner -> Request] /\ run'[r] = next
       /\ \A s \in Runner \ {r} : run'[s] = run[s]
  BY <1>3, <1>9 DEF MessageInv, TypeOK, next
<1>11. \A s \in Runner, k \in Message : /\ Holds(s, k)' => Holds(s, k)
                                        /\ Handles(s, k)' => s # r /\ Handles(s, k)
  BY <1>1, <1>2, <1>9, <1>10 DEF Holds, Handles
<1>12. TypeOK'
  <2>1. \A k \in Message : DOMAIN sends'[k] = DOMAIN row'[k]
    BY <1>3, <1>7, <1>8 DEF MessageInv, TypeOK
  <2>2. msg' \in [Message -> {None, Gone} \cup MessageRow]
    BY <1>3, <1>6 DEF MessageInv, TypeOK
  <2>3. row' \in [Message -> Seq(RowStatus)]
    <3>1. row' \in [Message -> {row'[k] : k \in Message}]
      BY <1>3 DEF MessageInv, TypeOK
    <3>2. \A k \in Message : row'[k] \in Seq(RowStatus)
      BY <1>7, <1>8 DEF MessageInv, TypeOK, RowStatus
    <3> QED
      BY <3>1, <3>2
  <2> QED
    BY <1>3, <1>10, <2>1, <2>2, <2>3 DEF MessageInv, TypeOK, RowStatus
<1>13. \A k \in Message : \/ msg'[k].status = msg[k].status
                          \/ k = m /\ msg'[k].status = "SENT"
  BY <1>6, <1>7
<1>14. DueWereScheduled' /\ DraftsStayDrafts'
  <2>1. DueWereScheduled'
    BY <1>3, <1>9, <1>10, <1>13 DEF MessageInv, TypeOK, DueWereScheduled
  <2>2. \A s \in Runner : run[s].op \in DraftOps => run[s].message \in Message
    BY RequestShape DEF MessageInv, TypeOK
  <2>3. DraftsStayDrafts'
    BY <1>3, <1>9, <1>10, <1>13, <2>2 DEF MessageInv, DraftsStayDrafts, DraftOps
  <2> QED
    BY <2>1, <2>3
<1>15. releases[m] > 0
  BY <1>4 DEF MessageInv, UnreleasedUntouched, TypeOK
<1>16. UnreleasedUntouched' /\ OneHolder'
  BY <1>3, <1>7, <1>11, <1>13, <1>15 DEF MessageInv, UnreleasedUntouched, OneHolder
<1>17. InHands'
  <2> SUFFICES ASSUME NEW s \in Runner, NEW k \in Message, Handles(s, k)', Exists(k)',
                      releases[k] <= 1
               PROVE  InHandsAt(s, k)'
    BY <1>3 DEF InHands
  <2>1. s # r /\ Handles(s, k) /\ Holds(s, k)
    BY <1>11 DEF Holds
  <2>2. k # m
    BY <1>4, <2>1 DEF MessageInv, OneHolder
  <2>3. InHandsAt(s, k)
    BY <1>7, <2>1, <2>2 DEF MessageInv, InHands, Exists
  <2> QED
    BY <1>7, <1>10, <2>1, <2>2, <2>3 DEF InHandsAt, Rows
<1>18. ASSUME releases[m] <= 1
       PROVE  /\ msg'[m].total = Len(row'[m])
              /\ msg'[m].delivered = Cardinality(Rows(m, "SENT"))'
              /\ msg'[m].failed = Cardinality(Rows(m, "FAILED"))'
              /\ msg'[m].status = "SENT" => Rows(m, "PENDING")' = {}
  <2>1. /\ i \in Rows(m, "PENDING") /\ q.read.total = msg[m].total
        /\ q.read.delivered = msg[m].delivered /\ q.read.failed = msg[m].failed
    BY <1>1, <1>2, <1>4, <1>18 DEF MessageInv, InHands, InHandsAt
  <2>2. /\ msg[m].total = Len(row[m]) /\ msg[m].delivered = Cardinality(Rows(m, "SENT"))
        /\ msg[m].failed = Cardinality(Rows(m, "FAILED"))
    BY <1>4, <1>18 DEF MessageInv, CountersMatchRows
  <2>3. msg[m].status # "SENT"
    BY <1>18, <2>1 DEF MessageInv, SentMeansDone
  <2>4. Len(row'[m]) = Len(row[m])
    <3>1. /\ Len(row'[m]) \in Nat /\ Len(row[m]) \in Nat
          /\ DOMAIN row'[m] = 1..Len(row'[m]) /\ DOMAIN row[m] = 1..Len(row[m])
      BY <1>8, LenProperties
    <3>2. \A a, b \in Nat : 1..a = 1..b => a = b
      OBVIOUS
    <3> QED
      BY <1>8, <3>1, <3>2, Zenon
  <2>5. /\ Rows(m, "PENDING")' = Rows(m, "PENDING") \ {i}
        /\ Rows(m, outcome)' = Rows(m, outcome) \cup {i}
        /\ \A st \in {"SENT", "FAILED"} \ {outcome} : Rows(m, st)' = Rows(m, st)
        /\ i \notin Rows(m, outcome)
    BY <1>4, <1>7, <1>8, <2>1 DEF Rows
  <2>6. \A st : IsFiniteSet(Rows(m, st)) /\ Cardinality(Rows(m, st)) \in Nat
    BY <1>8, RowsAreCounted DEF Rows, StatusAt
  <2>7. Cardinality(Rows(m, outcome))' = Cardinality(Rows(m, outcome)) + 1
    BY ZenonT(60), <2>5, <2>6, FS_AddElement
  <2>8. /\ msg'[m].delivered = Cardinality(Rows(m, "SENT"))'
        /\ msg'[m].failed = Cardinality(Rows(m, "FAILED"))'
        /\ q.ok => Delivered(q) = Cardinality(Rows(m, "SENT"))'
        /\ ~q.ok => Failed(q) = Cardinality(Rows(m, "FAILED"))'
    <3>1. CASE q.ok
      BY <1>5, <1>7, <2>1, <2>2, <2>5, <2>7, <3>1
      DEF Counted, Delivered, Failed, outcome, MessageRow
    <3>2. CASE ~q.ok
      BY <1>5, <1>7, <2>1, <2>2, <2>5, <2>7, <3>2
      DEF Counted, Delivered, Failed, outcome, MessageRow
    <3> QED
      BY <3>1, <3>2
  <2>9. ASSUME msg'[m].status = "SENT" PROVE Rows(m, "PENDING")' = {}
    <3>1. Accounted(q)
      BY <1>5, <1>7, <2>3, <2>9 DEF Counted, MessageRow
    <3>2. /\ Delivered(q) = Cardinality(Rows(m, "SENT"))'
          /\ Failed(q) = Cardinality(Rows(m, "FAILED"))'
      BY <1>4, <2>1, <2>2, <2>5, <2>8 DEF Delivered, Failed, outcome
    <3>3. /\ \A st : IsFiniteSet(Rows(m, st)') /\ Cardinality(Rows(m, st)') \in Nat
          /\ Cardinality(Rows(m, "PENDING")') + Cardinality(Rows(m, "SENT")')
               + Cardinality(Rows(m, "FAILED")') = Len(row'[m])
      BY <1>8, RowsAreCounted DEF Rows, StatusAt
    <3>4. Cardinality(Rows(m, "PENDING"))' = 0
      BY <1>5, <2>1, <2>2, <2>4, <3>1, <3>2, <3>3 DEF Accounted, MessageRow
    <3> QED
      BY <3>3, <3>4, FS_EmptySet
  <2> QED
    BY <1>6, <1>7, <2>2, <2>4, <2>8, <2>9
<1>19. CountersMatchRows' /\ SentMeansDone'
  <2>1. ASSUME NEW k \in Message, k # m
        PROVE  /\ Exists(k)' <=> Exists(k)
               /\ \A st \in RowStatus : Rows(k, st)' = Rows(k, st)
    BY <1>7, <2>1 DEF Exists, Rows
  <2> QED
    BY <1>3, <1>7, <1>18, <2>1 DEF MessageInv, CountersMatchRows, SentMeansDone, RowStatus
<1> QED
  BY <1>12, <1>14, <1>16, <1>17, <1>19 DEF MessageInv

-----------------------------------------------------------------------------
(* Every step, and what holds of every behaviour *)

LEMMA MessageNextInv == MessageInv /\ [Next]_vars => MessageInv'
<1> SUFFICES ASSUME MessageInv, [Next]_vars PROVE MessageInv'
  OBVIOUS
<1>1. ASSUME NEW m \in Message, Begin(m) PROVE MessageInv'
  <2>1. \A r \in Web : r \in Runner
    BY DEF Runner
  <2>2. CASE \E text \in Text : CreateDraft(m, text) \/ Schedule(m, text)
    BY <2>2, CreateInv
  <2>3. CASE \E r \in Web, text \in Text, n \in 1..MaxRecipients : CreateAndSend(r, m, text, n)
    BY <2>1, <2>3, CreateAndSendInv
  <2>4. CASE \E r \in Web, op \in {"send", "patch", "delete"} : DraftRead(r, m, op)
    BY <2>1, <2>4, BeginReadInv
  <2>5. CASE TimeComes(m)
    BY <2>5, TimeComesInv
  <2> QED
    BY <1>1, <2>2, <2>3, <2>4, <2>5 DEF Begin
<1>2. ASSUME NEW r \in Cron, CronRead(r) PROVE MessageInv'
  BY <1>2, BeginReadInv DEF Runner
<1>3. ASSUME NEW r \in Runner, Proceed(r) PROVE MessageInv'
  BY <1>3, SendCommitInv, PatchCommitInv, DeleteCommitInv, CronCommitInv, FailureInv,
     DispatchReadInv, DispatchSendInv, DispatchCommitInv, DispatchLostInv, DraftKeptInv DEF Proceed
<1>4. ASSUME NEW r \in Runner, Crash(r) PROVE MessageInv'
  BY <1>4, FailureInv
<1>5. ASSUME NEW m \in Message, NEW i \in DOMAIN row[m], PlayerPurged(m, i) PROVE MessageInv'
  BY <1>5, PlayerPurgedInv
<1>6. CASE UNCHANGED vars
  <2>1. UNCHANGED <<msg, row, purged, due, seats, run, faults, releases, sends>>
    BY <1>6 DEF vars
  <2>2. TypeOK'
    BY <2>1 DEF MessageInv, TypeOK
  <2>3. DueWereScheduled' /\ DraftsStayDrafts' /\ UnreleasedUntouched' /\ OneHolder'
    BY <2>1 DEF MessageInv, DueWereScheduled, DraftsStayDrafts, UnreleasedUntouched,
       OneHolder, Holds, Handles
  <2>4. InHands' /\ CountersMatchRows' /\ SentMeansDone'
    BY ZenonT(60), <2>1 DEF MessageInv, InHands, InHandsAt, Handles, CountersMatchRows, SentMeansDone,
       Exists, Rows
  <2> QED
    BY <2>2, <2>3, <2>4 DEF MessageInv
<1> QED
  BY <1>1, <1>2, <1>3, <1>4, <1>5, <1>6 DEF Next

LEMMA MessageInvAlways == Spec => []MessageInv
BY MessageInitInv, MessageNextInv, PTL DEF Spec

\* The tables, and what the requests and cron runs hold, keep their types.
THEOREM MessagesTyped == Spec => []TypeOK
<1>1. MessageInv => TypeOK
  BY DEF MessageInv
<1> QED
  BY <1>1, MessageInvAlways, PTL

\* The counters of a message that was released once agree with its deliveries,
\* however many requests and cron runs overlap and die on the way: dispatches
\* write values they computed from what they read, without a lock.
THEOREM CountersAgree == Spec => []CountersMatchRows
<1>1. MessageInv => CountersMatchRows
  BY DEF MessageInv
<1> QED
  BY <1>1, MessageInvAlways, PTL

\* SENT is reported of such a message only when no delivery is pending.
THEOREM SentIsDone == Spec => []SentMeansDone
<1>1. MessageInv => SentMeansDone
  BY DEF MessageInv
<1> QED
  BY <1>1, MessageInvAlways, PTL

\* A message that waits for its time is not changed before it has come.
LEMMA UntouchedStep ==
  ASSUME MessageInv, [Next]_vars, NEW m \in Message, msg[m].status = "SCHEDULED",
         m \notin due
  PROVE  msg'[m] = msg[m]
<1>1. /\ msg \in [Message -> {None, Gone} \cup MessageRow]
      /\ \A r \in Runner : /\ run[r].op \in DraftOps => run[r].message # m
                           /\ run[r].op = "cron" => m \notin run[r].batch
                           /\ run[r].op = "sent" => run[r].delivery[1] # m
  <2>1. releases[m] = 0
    BY DEF MessageInv, UnreleasedUntouched
  <2>2. \A r \in Runner : ~Holds(r, m)
    BY <2>1 DEF MessageInv, UnreleasedUntouched
  <2> QED
    BY <2>2 DEF MessageInv, TypeOK, DraftsStayDrafts, DueWereScheduled, Holds, Handles, DraftOps
<1>2. ASSUME NEW k \in Message, Begin(k) PROVE msg'[m] = msg[m]
  BY <1>1, <1>2 DEF Begin, CreateDraft, Schedule, CreateAndSend, DraftRead, TimeComes, None
<1>3. ASSUME NEW r \in Cron, CronRead(r) PROVE msg'[m] = msg[m]
  BY <1>3 DEF CronRead
<1>4. ASSUME NEW r \in Runner, Proceed(r) PROVE msg'[m] = msg[m]
  <2>1. ASSUME NEW n \in 1..MaxRecipients, SendCommit(r, n) PROVE msg'[m] = msg[m]
    BY <1>1, <2>1 DEF SendCommit, DraftOps
  <2>2. ASSUME NEW text \in Text, PatchCommit(r, text) PROVE msg'[m] = msg[m]
    BY <1>1, <2>2 DEF PatchCommit, DraftOps
  <2>3. CASE DeleteCommit(r)
    BY <1>1, <2>3 DEF DeleteCommit, DraftOps
  <2>4. ASSUME NEW found \in [Message -> 0..MaxRecipients], CronCommit(r, found)
        PROVE  msg'[m] = msg[m]
    BY <1>1, <2>4 DEF CronCommit
  <2>5. CASE \/ CronFail(r) \/ DispatchRead(r) \/ DispatchLost(r)
           \/ SendRefused(r) \/ LostDraft(r)
    BY <2>5 DEF CronFail, DispatchRead, DispatchLost, SendRefused, LostDraft
  <2>6. ASSUME NEW ok \in BOOLEAN, DispatchSend(r, ok) PROVE msg'[m] = msg[m]
    BY <2>6 DEF DispatchSend
  <2>7. CASE DispatchCommit(r)
    BY <1>1, <2>7 DEF DispatchCommit
  <2> QED
    BY <1>4, <2>1, <2>2, <2>3, <2>4, <2>5, <2>6, <2>7 DEF Proceed
<1>5. ASSUME NEW r \in Runner, Crash(r) PROVE msg'[m] = msg[m]
  BY <1>5 DEF Crash
<1>6. ASSUME NEW k \in Message, NEW i \in DOMAIN row[k], PlayerPurged(k, i) PROVE msg'[m] = msg[m]
  BY <1>6 DEF PlayerPurged
<1>7. CASE UNCHANGED vars
  BY <1>7 DEF vars
<1> QED
  BY <1>2, <1>3, <1>4, <1>5, <1>6, <1>7 DEF Next

\* Whatever the draft endpoints are asked to do meanwhile, and whatever they
\* read before, a scheduled message is changed only once it is due.
THEOREM ScheduledWaits == Spec => ScheduledUntouched
<1>1. MessageInv /\ [Next]_vars =>
        [\A m \in Message :
           (msg[m].status = "SCHEDULED" /\ msg'[m] # msg[m]) => m \in due]_vars
  BY UntouchedStep
<1> QED
  BY <1>1, MessageInvAlways, PTL DEF Spec, ScheduledUntouched
=============================================================================
