-------------------------- MODULE CampaignDispatch --------------------------
(***************************************************************************)
(* A signing campaign from its template to its last reminder               *)
(* (api/org_document_templates.py, api/org_document_campaigns.py,          *)
(* services/document_campaign_service.py, services/document_send_worker.py,*)
(* services/reminder_service.py).                                          *)
(*                                                                         *)
(* Web requests read and commit (get_db). The deliveries a campaign        *)
(* created are dispatched one after the other by the process that created  *)
(* it; a reminder run works off the batch it found in the same way. Every  *)
(* dispatch is a transaction of its own.                                   *)
(***************************************************************************)
EXTENDS Integers, FiniteSets, Sequences

CONSTANTS
  Template,       \* document templates
  Campaign,       \* campaigns that may be created
  TemplateOf,     \* the template each campaign is sent with
  Delivery,       \* ids of deliveries
  CampaignOf,     \* the campaign each delivery belongs to
  Editor,         \* requests in flight that change a template
  Sender,         \* requests in flight that send a campaign
  Cron,           \* reminder runs that may overlap
  MaxReminders,   \* MAX_REMINDERS (2)
  Limit,          \* the limit of a run, MAX_PER_RUN (500) by default
  ReminderAfter,  \* reminder_after_days
  Expiry,         \* days until a delivery expires
  MaxTime,        \* bound: the last day
  MaxFault        \* bound: processes that die

ASSUME CampaignAssumption ==
  /\ TemplateOf \in [Campaign -> Template]
  /\ Delivery \subseteq Nat /\ IsFiniteSet(Delivery)
  /\ IsFiniteSet(Cron)
  /\ CampaignOf \in [Delivery -> Campaign]
  /\ Editor \cap Sender = {} /\ Editor \cap Cron = {} /\ Sender \cap Cron = {}
  /\ {MaxReminders, Limit, ReminderAfter, Expiry, MaxTime, MaxFault} \subseteq Nat

VARIABLES
  tpl,       \* document_templates: is_active and is_completed
  camp,      \* document_campaigns: total_failed of each campaign
  dlv,       \* document_deliveries: the columns dispatch and reminders use
  run,       \* what each request or run is doing
  now,       \* the day
  faults,    \* processes that died
  nudges     \* history: the days on which each delivery was reminded of

vars == <<tpl, camp, dlv, run, now, faults, nudges>>

Runner == Editor \cup Sender \cup Cron

Idle == [op |-> "idle"]

\* total_failed of a campaign that does not exist.
NotCreated == -1

DeliveryRow ==
  [delivery: {"NONE", "PENDING", "SENT", "FAILED"}, document: {"NOT_SIGNED", "SIGNED"},
   sent_at: Nat, expires_at: Nat, last_reminder: Nat, reminders: Nat]

NoRow == [delivery |-> "NONE", document |-> "NOT_SIGNED", sent_at |-> 0,
          expires_at |-> 0, last_reminder |-> 0, reminders |-> 0]

Init ==
  /\ tpl = [t \in Template |-> [active |-> TRUE, completed |-> FALSE]]
  /\ camp = [c \in Campaign |-> NotCreated]
  /\ dlv = [d \in Delivery |-> NoRow]
  /\ run = [r \in Runner |-> Idle]
  /\ now = 0
  /\ faults = 0
  /\ nudges = [d \in Delivery |-> <<>>]

\* A runner with a batch left to work off; it ends with the last of it.
Batch(op, todo) == IF todo = {} THEN Idle ELSE [op |-> op, todo |-> todo]

-----------------------------------------------------------------------------
(* Templates: PATCH, DELETE, POST completion *)

\* What is completed is not edited or deleted, what is inactive is not
\* completed or reopened; DELETE and PATCH is_active=false deactivate alike.
TemplateOpAllowed(x, op) ==
  CASE op = "activate"   -> ~x.completed /\ ~x.active
    [] op = "deactivate" -> ~x.completed /\ x.active
    [] op = "complete"   -> x.active /\ ~x.completed
    [] op = "reopen"     -> x.active /\ x.completed

TemplateRead(r, t, op) ==
  /\ run[r] = Idle
  /\ TemplateOpAllowed(tpl[t], op)
  /\ run' = [run EXCEPT ![r] = [op |-> op, template |-> t]]
  /\ UNCHANGED <<tpl, camp, dlv, now, faults, nudges>>

\* Each assigns one column.
TemplateCommit(r) ==
  /\ run[r].op \in {"activate", "deactivate", "complete", "reopen"}
  /\ LET t == run[r].template
         op == run[r].op
     IN tpl' = [tpl EXCEPT
          ![t].active = IF op \in {"activate", "deactivate"} THEN op = "activate" ELSE @,
          ![t].completed = IF op \in {"complete", "reopen"} THEN op = "complete" ELSE @]
  /\ run' = [run EXCEPT ![r] = Idle]
  /\ UNCHANGED <<camp, dlv, now, faults, nudges>>

-----------------------------------------------------------------------------
(* POST /org/api/document-campaigns: create_and_send, dispatch_delivery *)

CreateRead(r, c) ==
  /\ run[r] = Idle
  /\ camp[c] = NotCreated
  /\ tpl[TemplateOf[c]].active
  /\ ~tpl[TemplateOf[c]].completed
  /\ \A s \in Sender : run[s] # [op |-> "create", campaign |-> c]
  /\ run' = [run EXCEPT ![r] = [op |-> "create", campaign |-> c]]
  /\ UNCHANGED <<tpl, camp, dlv, now, faults, nudges>>

\* The campaign and one delivery per recipient; the dispatch is queued.
CreateCommit(r) ==
  /\ run[r].op = "create"
  /\ LET c == run[r].campaign
         own == {d \in Delivery : CampaignOf[d] = c}
     IN /\ camp' = [camp EXCEPT ![c] = 0]
        /\ dlv' = [d \in Delivery |->
             IF d \in own
             THEN [NoRow EXCEPT !.delivery = "PENDING", !.expires_at = now + Expiry]
             ELSE dlv[d]]
        /\ run' = [run EXCEPT ![r] = Batch("queue", own)]
  /\ UNCHANGED <<tpl, now, faults, nudges>>

First(S) == CHOOSE d \in S : \A e \in S : d <= e

\* dispatch_delivery reads the next pending delivery and its campaign ...
DispatchRead(r) ==
  /\ run[r].op = "queue"
  /\ LET d == First(run[r].todo)
         rest == run[r].todo \ {d}
     IN run' = [run EXCEPT ![r] =
          IF dlv[d].delivery = "PENDING"
          THEN [op |-> "dispatch", delivery |-> d, todo |-> rest,
                failed |-> camp[CampaignOf[d]]]
          ELSE Batch("queue", rest)]
  /\ UNCHANGED <<tpl, camp, dlv, now, faults, nudges>>

\* Fault: a delivery no channel takes stays pending.
Dispatched_Pending(x, ok) ==
  IF ok THEN [x EXCEPT !.delivery = "SENT", !.sent_at = now] ELSE x

Dispatched(x, ok) ==
  IF ok THEN [x EXCEPT !.delivery = "SENT", !.sent_at = now]
        ELSE [x EXCEPT !.delivery = "FAILED"]

\* Fault: the failure is not counted.
FailedTotal_Same(q, ok) == q.failed

FailedTotal(q, ok) == IF ok THEN q.failed ELSE q.failed + 1

\* ... tries the channels and commits.
DispatchCommit(r, ok) ==
  /\ run[r].op = "dispatch"
  /\ LET d == run[r].delivery
     IN /\ dlv' = [dlv EXCEPT ![d] = Dispatched(@, ok)]
        /\ camp' = [camp EXCEPT ![CampaignOf[d]] =
             IF ok THEN @ ELSE FailedTotal(run[r], ok)]
  /\ run' = [run EXCEPT ![r] = Batch("queue", run[r].todo)]
  /\ UNCHANGED <<tpl, now, faults, nudges>>

-----------------------------------------------------------------------------
(* The parent signs (DocumentSigning has the details) *)

Sign(d) ==
  /\ dlv[d].delivery = "SENT"
  /\ dlv[d].document = "NOT_SIGNED"
  /\ dlv[d].expires_at > now
  /\ dlv' = [dlv EXCEPT ![d].document = "SIGNED"]
  /\ UNCHANGED <<tpl, camp, run, now, faults, nudges>>

-----------------------------------------------------------------------------
(* Reminders *)

\* Rows by sent_at; the database breaks ties, here by id.
Before(d, e) ==
  \/ dlv[d].sent_at < dlv[e].sent_at
  \/ dlv[d].sent_at = dlv[e].sent_at /\ d < e

Oldest(S, n) == {d \in S : Cardinality({e \in S : Before(e, d)}) < n}

\* The rows of the query in find_due_reminders, before its limit.
Remindable ==
  {d \in Delivery :
     /\ dlv[d].document = "NOT_SIGNED"
     /\ dlv[d].delivery = "SENT"
     /\ dlv[d].expires_at > now
     /\ dlv[d].reminders < MaxReminders}

\* Fault: the days are counted from the first dispatch.
LastContact_Sent(x) == x.sent_at

LastContact(x) == IF x.reminders > 0 THEN x.last_reminder ELSE x.sent_at

IsDue(d) == LastContact(dlv[d]) + ReminderAfter <= now

\* Twice the limit is fetched, the days are checked on what was fetched.
FindDueReminders == Oldest({d \in Oldest(Remindable, 2 * Limit) : IsDue(d)}, Limit)

RemindersRead(r) ==
  /\ run[r] = Idle
  /\ FindDueReminders # {}
  /\ run' = [run EXCEPT ![r] = [op |-> "batch", todo |-> FindDueReminders]]
  /\ UNCHANGED <<tpl, camp, dlv, now, faults, nudges>>

NextOf(S) == CHOOSE d \in S : \A e \in S \ {d} : Before(d, e)

\* Fault: one more than the maximum.
StillWanted_OffByOne(x) == x.document = "NOT_SIGNED" /\ x.reminders <= MaxReminders

\* dispatch_reminder rechecks these two columns only.
StillWanted(x) == x.document = "NOT_SIGNED" /\ x.reminders < MaxReminders

ReminderRead(r) ==
  /\ run[r].op = "batch"
  /\ LET d == NextOf(run[r].todo)
         rest == run[r].todo \ {d}
     IN run' = [run EXCEPT ![r] =
          IF StillWanted(dlv[d])
          THEN [op |-> "remind", delivery |-> d, todo |-> rest,
                reminders |-> dlv[d].reminders]
          ELSE Batch("batch", rest)]
  /\ UNCHANGED <<tpl, camp, dlv, now, faults, nudges>>

\* No channel took it: nothing is written.
ReminderNotSent(r) ==
  /\ run[r].op = "remind"
  /\ run' = [run EXCEPT ![r] = Batch("batch", run[r].todo)]
  /\ UNCHANGED <<tpl, camp, dlv, now, faults, nudges>>

ReminderSend(r) ==
  /\ run[r].op = "remind"
  /\ nudges' = [nudges EXCEPT ![run[r].delivery] = Append(@, now)]
  /\ run' = [run EXCEPT ![r] =
       [op |-> "reminded", delivery |-> run[r].delivery, todo |-> run[r].todo,
        reminders |-> run[r].reminders, at |-> now]]
  /\ UNCHANGED <<tpl, camp, dlv, now, faults>>

ReminderCommit(r) ==
  /\ run[r].op = "reminded"
  /\ LET q == run[r]
     IN /\ dlv' = [dlv EXCEPT ![q.delivery].last_reminder = q.at,
                              ![q.delivery].reminders = q.reminders + 1]
        /\ run' = [run EXCEPT ![r] = Batch("batch", q.todo)]
  /\ UNCHANGED <<tpl, camp, now, faults, nudges>>

-----------------------------------------------------------------------------

\* A request fails or its process dies: the open transaction is rolled back
\* and what was queued in memory is lost.
Crash(r) ==
  /\ run[r] # Idle
  /\ faults < MaxFault
  /\ faults' = faults + 1
  /\ run' = [run EXCEPT ![r] = Idle]
  /\ UNCHANGED <<tpl, camp, dlv, now, nudges>>

\* A day does not pass inside the transaction of one dispatch, only between
\* the dispatches of a batch.
Tick ==
  /\ now < MaxTime
  /\ \A r \in Runner : run[r].op \notin {"dispatch", "remind", "reminded"}
  /\ now' = now + 1
  /\ UNCHANGED <<tpl, camp, dlv, run, faults, nudges>>

Proceed(r) ==
  \/ TemplateCommit(r)
  \/ CreateCommit(r)
  \/ DispatchRead(r)
  \/ \E ok \in BOOLEAN : DispatchCommit(r, ok)
  \/ ReminderRead(r)
  \/ ReminderNotSent(r)
  \/ ReminderSend(r)
  \/ ReminderCommit(r)

Next ==
  \/ \E r \in Editor, t \in Template, op \in {"activate", "deactivate", "complete", "reopen"} :
       TemplateRead(r, t, op)
  \/ \E r \in Sender, c \in Campaign : CreateRead(r, c)
  \/ \E r \in Cron : RemindersRead(r)
  \/ \E r \in Runner : Proceed(r) \/ Crash(r)
  \/ \E d \in Delivery : Sign(d)
  \/ Tick

\* A process that has begun goes on.
Fairness == \A r \in Runner : WF_vars(Proceed(r))

Spec == Init /\ [][Next]_vars /\ Fairness

-----------------------------------------------------------------------------
(* Properties *)

Request ==
  {Idle}
  \cup [op: {"activate", "deactivate", "complete", "reopen"}, template: Template]
  \cup [op: {"create"}, campaign: Campaign]
  \cup [op: {"queue", "batch"}, todo: SUBSET Delivery]
  \cup [op: {"dispatch"}, delivery: Delivery, todo: SUBSET Delivery, failed: Nat]
  \cup [op: {"remind"}, delivery: Delivery, todo: SUBSET Delivery,
        reminders: 0..(MaxReminders - 1)]
  \cup [op: {"reminded"}, delivery: Delivery, todo: SUBSET Delivery,
        reminders: 0..(MaxReminders - 1), at: Nat]

TypeOK ==
  /\ tpl \in [Template -> [active: BOOLEAN, completed: BOOLEAN]]
  /\ camp \in [Campaign -> {NotCreated} \cup Nat]
  /\ dlv \in [Delivery -> DeliveryRow]
  /\ run \in [Runner -> Request]
  /\ now \in 0..MaxTime
  /\ faults \in 0..MaxFault
  /\ nudges \in [Delivery -> Seq(Nat)]

\* Within reminder_after_days a parent hears of a delivery at most as often as
\* runs overlap, and once more for each process that died before it recorded
\* what it had sent: with one run and no crash the reminders are spaced.  The
\* count never passes the hard cap, although overlapping runs write counts they
\* computed from older reads (reminder_service.py:15).
NudgesSpread ==
  \A d \in Delivery :
    /\ dlv[d].reminders <= MaxReminders
    /\ \A i, j \in DOMAIN nudges[d] :
         j - i >= Cardinality(Cron) + faults => nudges[d][j] - nudges[d][i] >= ReminderAfter

\* total_failed is the number of failed deliveries of the campaign.
FailedIsExact ==
  \A c \in Campaign : camp[c] # NotCreated =>
    camp[c] = Cardinality({d \in Delivery :
                             CampaignOf[d] = c /\ dlv[d].delivery = "FAILED"})

\* As long as no process dies every delivery of a campaign is dispatched.
PendingDispatched ==
  [](faults = 0) =>
    \A d \in Delivery : dlv[d].delivery = "PENDING" ~> dlv[d].delivery # "PENDING"

\* Reminders of a delivery are at least reminder_after_days apart, also when a
\* run starts while another is under way (reminder_service.py:23-24).
NudgesSpaced ==
  \A d \in Delivery : \A i, j \in DOMAIN nudges[d] :
    i < j => nudges[d][j] - nudges[d][i] >= ReminderAfter
=============================================================================
