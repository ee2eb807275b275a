------------------------ MODULE CampaignDispatchProofs ------------------------
(***************************************************************************)
(* What campaigns and their reminders keep for any number of templates,    *)
(* campaigns, deliveries, requests and reminder runs that overlap and die. *)
(***************************************************************************)
EXTENDS CampaignDispatch, FiniteSetTheorems, SequenceTheorems, WellFoundedInduction, TLAPS

-----------------------------------------------------------------------------
(* The inductive invariants.  The count of failed deliveries is exact since  *)
(* one runner alone works off the deliveries of a campaign.                  *)

SendOps == {"create", "queue", "dispatch"}
RemindOps == {"batch", "remind", "reminded"}
TemplateOps == {"activate", "deactivate", "complete", "reopen"}

\* Who does what; what is in hand has been taken from the batch.
RunnerKinds ==
  \A r \in Runner :
    /\ run[r].op \in SendOps => r \in Sender
    /\ run[r].op \in RemindOps => r \in Cron
    /\ run[r].op \in {"queue", "batch"} => run[r].todo # {}
    /\ run[r].op \in {"dispatch", "remind", "reminded"} => run[r].delivery \notin run[r].todo

\* The runner has the delivery in its batch or in its hands.
HasInHand(r, d) ==
  run[r].op \in {"dispatch", "remind", "reminded"} /\ run[r].delivery = d
Has(r, d) ==
  \/ HasInHand(r, d)
  \/ run[r].op \in {"queue", "dispatch", "batch", "remind", "reminded"} /\ d \in run[r].todo

\* Before its campaign a delivery has no row, no reminder and no runner.
NothingBefore ==
  \A d \in Delivery : camp[CampaignOf[d]] = NotCreated =>
    /\ dlv[d] = NoRow
    /\ nudges[d] = <<>>
    /\ \A r \in Runner : ~Has(r, d)

\* A campaign is created by one request, and its deliveries are dispatched by
\* one, which read the count it is about to write.
OneDispatcher ==
  /\ \A r, s \in Sender :
       /\ run[r].op = "create" => camp[run[r].campaign] = NotCreated
       /\ (run[r].op = "create" /\ run[s].op = "create" /\ run[r].campaign = run[s].campaign)
             => r = s
       /\ \A d, e \in Delivery :
            (Has(r, d) /\ Has(s, e) /\ CampaignOf[d] = CampaignOf[e]) => r = s
  /\ \A r \in Runner : run[r].op = "dispatch" =>
       /\ dlv[run[r].delivery].delivery = "PENDING"
       /\ run[r].failed = camp[CampaignOf[run[r].delivery]]

DispatchInv == TypeOK /\ RunnerKinds /\ NothingBefore /\ OneDispatcher /\ FailedIsExact

\* The reminder runs that may still remind of d, and those that have and have
\* not recorded it.
Holders(d) ==
  {r \in Cron : Has(r, d) /\ ~(run[r].op = "reminded" /\ run[r].delivery = d)}
Reminded(d) == {r \in Cron : run[r].op = "reminded" /\ run[r].delivery = d}

\* The i-th reminder of d, or a later one, is in the row.
Recorded(d, i) == dlv[d].reminders > 0 /\ dlv[d].last_reminder >= nudges[d][i]

\* Reminders are numbered in the order of their days.
DaysInOrder ==
  /\ \A r \in Runner : run[r].op = "reminded" => run[r].at = now
  /\ \A d \in Delivery : \A i, j \in DOMAIN nudges[d] :
       /\ nudges[d][i] <= now
       /\ i <= j => nudges[d][i] <= nudges[d][j]

\* A reminder that is not recorded is in the hands of a run, or of one that
\* died; while one that is recorded is recent no further run takes it up.
NudgesAccounted ==
  \A d \in Delivery : \A i \in DOMAIN nudges[d] :
    /\ ~Recorded(d, i) =>
         Len(nudges[d]) - i + 1 <= Cardinality(Reminded(d)) + faults
    /\ Recorded(d, i) /\ nudges[d][i] + ReminderAfter > now =>
         Len(nudges[d]) - i + 1 + Cardinality(Holders(d)) <= Cardinality(Cron) + faults

NudgeInv == DaysInOrder /\ NudgesAccounted /\ NudgesSpread

-----------------------------------------------------------------------------
(* What the operators return *)

\* A request is known by its op.
LEMMA RequestShape ==
  ASSUME NEW q \in Request
  PROVE  /\ q.op \in TemplateOps => q.template \in Template
         /\ q.op = "create" =>
              q.campaign \in Campaign /\ q = [op |-> "create", campaign |-> q.campaign]
         /\ q.op \in {"queue", "batch", "dispatch", "remind", "reminded"} =>
              q.todo \in SUBSET Delivery
         /\ q.op \in {"dispatch", "remind", "reminded"} => q.delivery \in Delivery
         /\ q.op = "dispatch" => q.failed \in Nat
         /\ q.op \in {"remind", "reminded"} => q.reminders \in 0..(MaxReminders - 1)
         /\ q.op = "reminded" => q.at \in Nat
<1>1. CASE q = Idle
  BY <1>1 DEF Idle, TemplateOps
<1>2. CASE q \in [op: TemplateOps, template: Template]
  BY <1>2 DEF TemplateOps
<1>3. CASE q \in [op: {"create"}, campaign: Campaign]
  BY <1>3 DEF TemplateOps
<1>4. CASE q \in [op: {"queue", "batch"}, todo: SUBSET Delivery]
  BY <1>4 DEF TemplateOps
<1>5. CASE q \in [op: {"dispatch"}, delivery: Delivery, todo: SUBSET Delivery, failed: Nat]
  BY <1>5 DEF TemplateOps
<1>6. CASE q \in [op: {"remind"}, delivery: Delivery, todo: SUBSET Delivery,
                  reminders: 0..(MaxReminders - 1)]
  BY <1>6 DEF TemplateOps
<1>7. CASE q \in [op: {"reminded"}, delivery: Delivery, todo: SUBSET Delivery,
                  reminders: 0..(MaxReminders - 1), at: Nat]
  BY <1>7 DEF TemplateOps
<1> QED
  BY <1>1, <1>2, <1>3, <1>4, <1>5, <1>6, <1>7 DEF Request, TemplateOps

\* A batch holds what is left to do, or is no batch.
LEMMA BatchShape ==
  ASSUME NEW op \in {"queue", "batch"}, NEW todo \in SUBSET Delivery
  PROVE  /\ Batch(op, todo) \in Request
         /\ \/ Batch(op, todo).op = "idle"
            \/ Batch(op, todo).op = op /\ Batch(op, todo).todo = todo /\ todo # {}
<1>1. CASE todo = {}
  BY <1>1 DEF Batch, Request, Idle
<1>2. CASE todo # {}
  <2>1. Batch(op, todo) = [op |-> op, todo |-> todo]
    BY <1>2 DEF Batch
  <2>2. Batch(op, todo) \in [op: {"queue", "batch"}, todo: SUBSET Delivery]
    BY <2>1
  <2> QED
    BY <1>2, <2>1, <2>2 DEF Request
<1> QED
  BY <1>1, <1>2

\* Natural numbers have a least one among them.
LEMMA LeastOf ==
  ASSUME NEW S \in SUBSET Nat, S # {}
  PROVE  \E x \in S : \A y \in S : x <= y
<1> DEFINE R == {p \in Nat \X Nat : p[1] < p[2]}
<1>1. IsWellFoundedOn(R, Nat)
  BY NatLessThanWellFounded DEF OpToRel
<1>2. \A x, y \in Nat : <<y, x>> \in R <=> y < x
  OBVIOUS
<1> HIDE DEF R
<1>3. PICK x \in S : \A y \in S : ~(<<y, x>> \in R)
  BY <1>1, WFMin
<1>4. \A y \in S : x \in Nat /\ y \in Nat /\ ~(y < x)
  BY <1>2, <1>3
<1> QED
  BY <1>4

\* The next of a batch, of either kind, is one of it.
LEMMA FirstShape ==
  ASSUME NEW S \in SUBSET Delivery, S # {}
  PROVE  First(S) \in S
<1>1. \E d \in S : \A e \in S : d <= e
  BY LeastOf, CampaignAssumption
<1> QED
  BY <1>1 DEF First

LEMMA NextShape ==
  ASSUME TypeOK, NEW S \in SUBSET Delivery, S # {}
  PROVE  NextOf(S) \in S
<1> DEFINE days == {dlv[d].sent_at : d \in S}
<1>1. \A d \in S : dlv[d].sent_at \in Nat /\ d \in Nat
  BY CampaignAssumption DEF TypeOK, DeliveryRow
<1>2. PICK t \in days : \A u \in days : t <= u
  <2>1. days \in SUBSET Nat /\ days # {}
    BY <1>1
  <2> HIDE DEF days
  <2> QED
    BY <2>1, LeastOf
<1> DEFINE first == {d \in S : dlv[d].sent_at = t}
<1>3. PICK d \in first : \A e \in first : d <= e
  <2>1. first \in SUBSET Nat /\ first # {}
    BY <1>1, <1>2
  <2> QED
    BY <2>1, LeastOf
<1>4. ASSUME NEW e \in S \ {d} PROVE Before(d, e)
  <2>1. d \in S /\ dlv[d].sent_at = t /\ d \in Nat /\ e \in Nat /\ t \in Nat
    BY <1>1, <1>3
  <2>2. dlv[e].sent_at \in Nat /\ t <= dlv[e].sent_at
    BY <1>1, <1>2
  <2>3. dlv[e].sent_at = t => d < e
    <3>1. dlv[e].sent_at = t => d <= e
      BY <1>3
    <3> QED
      BY <2>1, <3>1
  <2> HIDE DEF first
  <2> QED
    BY <2>1, <2>2, <2>3 DEF Before
<1> QED
  BY <1>3, <1>4 DEF NextOf

-----------------------------------------------------------------------------
(* Campaigns and their dispatch *)

LEMMA DispatchInitInv == Init => DispatchInv
<1> SUFFICES ASSUME Init PROVE DispatchInv
  OBVIOUS
<1>1. TypeOK
  <2>1. NoRow \in DeliveryRow
    BY DEF NoRow, DeliveryRow
  <2>2. Idle \in Request /\ MaxTime \in Nat /\ MaxFault \in Nat
    BY CampaignAssumption DEF Request
  <2> QED
    BY <2>1, <2>2 DEF Init, TypeOK, NotCreated
<1>2. /\ \A r \in Runner : run[r].op = "idle"
      /\ \A c \in Campaign : camp[c] = NotCreated
      /\ \A d \in Delivery : dlv[d] = NoRow /\ nudges[d] = <<>>
  BY DEF Init, Idle
<1>3. RunnerKinds /\ NothingBefore /\ OneDispatcher
  BY <1>2 DEF RunnerKinds, NothingBefore, OneDispatcher, Has, HasInHand, SendOps, RemindOps,
     Runner
<1>4. FailedIsExact
  BY <1>2 DEF FailedIsExact
<1> QED
  BY <1>1, <1>3, <1>4 DEF DispatchInv

\* A step that only moves one runner on: to what it had, if it dispatches, and
\* to deliveries of campaigns that exist, if it reminds.
LEMMA RunnerMovesInv ==
  ASSUME DispatchInv, NEW r \in Runner, NEW q \in Request,
         run' = [run EXCEPT ![r] = q],
         UNCHANGED <<camp, dlv, now, nudges>>,
         tpl' \in [Template -> [active: BOOLEAN, completed: BOOLEAN]],
         faults' \in 0..MaxFault,
         q.op \in SendOps => r \in Sender,
         q.op \in RemindOps => r \in Cron,
         q.op \in {"queue", "batch"} => q.todo # {},
         q.op \in {"dispatch", "remind", "reminded"} => q.delivery \notin q.todo,
         q.op = "create" => /\ camp[q.campaign] = NotCreated
                            /\ \A s \in Sender : run[s] # q,
         q.op = "dispatch" => /\ dlv[q.delivery].delivery = "PENDING"
                              /\ q.failed = camp[CampaignOf[q.delivery]],
         \A d \in Delivery : Has(r, d)' =>
           Has(r, d) \/ (r \in Cron /\ camp[CampaignOf[d]] # NotCreated)
  PROVE  DispatchInv'
<1>1. TypeOK'
  BY DEF DispatchInv, TypeOK
<1>2. run'[r] = q /\ \A s \in Runner \ {r} : run'[s] = run[s]
  BY DEF DispatchInv, TypeOK
<1>3. RunnerKinds'
  BY <1>2 DEF DispatchInv, RunnerKinds
<1>4. \A s \in Runner, d \in Delivery : Has(s, d)' =>
        Has(s, d) \/ (s \in Cron /\ camp[CampaignOf[d]] # NotCreated)
  BY <1>2 DEF Has, HasInHand
<1>5. NothingBefore'
  BY <1>4 DEF DispatchInv, NothingBefore
<1>6. OneDispatcher'
  <2>1. \A s \in Sender : s \in Runner /\ s \notin Cron
    BY CampaignAssumption DEF Runner
  <2>2. ASSUME NEW s \in Sender, run'[s].op = "create"
        PROVE  camp'[run'[s].campaign] = NotCreated
    BY <1>2, <2>1, <2>2 DEF DispatchInv, OneDispatcher
  <2>3. ASSUME NEW s \in Sender, NEW t \in Sender, run'[s].op = "create", run'[t].op = "create",
               run'[s].campaign = run'[t].campaign
        PROVE  s = t
    <3>1. run'[s] = run'[t]
      BY ZenonT(60), <1>1, <2>1, <2>3, RequestShape DEF TypeOK
    <3> QED
      BY <1>2, <2>1, <2>3, <3>1 DEF DispatchInv, OneDispatcher
  <2>4. ASSUME NEW s \in Sender, NEW t \in Sender, NEW d \in Delivery, NEW e \in Delivery,
               Has(s, d)', Has(t, e)', CampaignOf[d] = CampaignOf[e]
        PROVE  s = t
    BY <1>4, <2>1, <2>4 DEF DispatchInv, OneDispatcher
  <2>5. ASSUME NEW s \in Runner, run'[s].op = "dispatch"
        PROVE  /\ dlv'[run'[s].delivery].delivery = "PENDING"
               /\ run'[s].failed = camp'[CampaignOf[run'[s].delivery]]
    BY <1>2, <2>5 DEF DispatchInv, OneDispatcher
  <2> QED
    BY <2>2, <2>3, <2>4, <2>5 DEF OneDispatcher
<1>7. FailedIsExact'
  BY DEF DispatchInv, FailedIsExact
<1> QED
  BY <1>1, <1>3, <1>5, <1>6, <1>7 DEF DispatchInv

\* What moves on to nothing, or to less of the same.
LEMMA RunnerShrinksInv ==
  ASSUME DispatchInv, NEW r \in Runner, NEW op \in {"queue", "batch"},
         NEW todo \in SUBSET Delivery,
         run' = [run EXCEPT ![r] = Batch(op, todo)],
         UNCHANGED <<tpl, camp, dlv, now, nudges>>, faults' \in 0..MaxFault,
         todo # {} => IF op = "queue" THEN r \in Sender ELSE r \in Cron,
         \A d \in todo : Has(r, d) \/ (r \in Cron /\ camp[CampaignOf[d]] # NotCreated)
  PROVE  DispatchInv'
<1> DEFINE q == Batch(op, todo)
<1>1. q \in Request /\ \/ q.op = "idle"
                       \/ q.op = op /\ q.todo = todo /\ todo # {}
  BY BatchShape
<1> HIDE DEF q
<1>2. run' = [run EXCEPT ![r] = q] /\ run'[r] = q
  BY DEF q, DispatchInv, TypeOK
<1>3. \A d \in Delivery : Has(r, d)' =>
        Has(r, d) \/ (r \in Cron /\ camp[CampaignOf[d]] # NotCreated)
  BY <1>1, <1>2 DEF Has, HasInHand
<1>4. tpl' \in [Template -> [active: BOOLEAN, completed: BOOLEAN]]
  BY DEF DispatchInv, TypeOK
<1> QED
  BY <1>1, <1>2, <1>3, <1>4, RunnerMovesInv DEF SendOps, RemindOps

\* Two columns of a template are assigned.
LEMMA TemplateColumns ==
  ASSUME NEW f \in [Template -> [active: BOOLEAN, completed: BOOLEAN]], NEW t \in Template,
         NEW a \in BOOLEAN, NEW b \in BOOLEAN
  PROVE  [f EXCEPT ![t].active = a, ![t].completed = b]
           \in [Template -> [active: BOOLEAN, completed: BOOLEAN]]
OBVIOUS

\* Requests on templates and on new campaigns, runs that find what is due,
\* and what dies.
LEMMA BeginningsInv ==
  ASSUME DispatchInv, NEW r \in Runner,
         \/ r \in Editor /\ \E t \in Template, op \in TemplateOps : TemplateRead(r, t, op)
         \/ TemplateCommit(r)
         \/ r \in Sender /\ \E c \in Campaign : CreateRead(r, c)
         \/ r \in Cron /\ RemindersRead(r)
         \/ ReminderNotSent(r)
         \/ Crash(r)
  PROVE  DispatchInv'
<1> USE DEF DispatchInv
<1>1. /\ run[r] \in Request /\ DOMAIN run = Runner
      /\ tpl \in [Template -> [active: BOOLEAN, completed: BOOLEAN]] /\ faults \in 0..MaxFault
  BY DEF TypeOK
<1>2. ASSUME NEW t \in Template, NEW op \in TemplateOps, TemplateRead(r, t, op)
      PROVE  DispatchInv'
  <2> DEFINE q == [op |-> op, template |-> t]
  <2>1. q \in Request
    BY DEF Request, TemplateOps
  <2>2. run' = [run EXCEPT ![r] = q] /\ run'[r] = q
    BY <1>1, <1>2 DEF TemplateRead
  <2>3. \A d \in Delivery : ~Has(r, d)'
    BY SMTT(30), <2>2 DEF Has, HasInHand, TemplateOps
  <2> QED
    BY <1>1, <1>2, <2>1, <2>2, <2>3, RunnerMovesInv
    DEF TemplateRead, TemplateOps, SendOps, RemindOps
<1>3. CASE TemplateCommit(r)
  <2>1. run' = [run EXCEPT ![r] = Idle] /\ run'[r] = Idle /\ Idle \in Request /\ Idle.op = "idle"
    BY <1>1, <1>3 DEF TemplateCommit, Idle, Request
  <2>2. tpl' \in [Template -> [active: BOOLEAN, completed: BOOLEAN]]
    <3> DEFINE op == run[r].op
               a == IF op \in {"activate", "deactivate"} THEN op = "activate"
                    ELSE tpl[run[r].template].active
               b == IF op \in {"complete", "reopen"} THEN op = "complete"
                    ELSE tpl[run[r].template].completed
    <3>1. PICK t \in Template : t = run[r].template
      BY <1>1, <1>3, RequestShape DEF TemplateCommit, TemplateOps
    <3>2. tpl' = [tpl EXCEPT ![t].active = a, ![t].completed = b]
      BY <1>3, <3>1 DEF TemplateCommit
    <3>3. tpl[t].active \in BOOLEAN /\ tpl[t].completed \in BOOLEAN
      BY <1>1
    <3>4. a \in BOOLEAN /\ b \in BOOLEAN
      BY <3>1, <3>3, Zenon
    <3> HIDE DEF a, b
    <3>5. PICK x \in BOOLEAN, y \in BOOLEAN : x = a /\ y = b
      BY <3>4
    <3> QED
      BY <1>1, <3>2, <3>5, TemplateColumns
  <2>3. \A d \in Delivery : ~Has(r, d)'
    BY <2>1 DEF Has, HasInHand
  <2> QED
    BY <1>1, <1>3, <2>1, <2>2, <2>3, RunnerMovesInv DEF TemplateCommit, SendOps, RemindOps
<1>4. ASSUME NEW c \in Campaign, CreateRead(r, c), r \in Sender
      PROVE  DispatchInv'
  <2> DEFINE q == [op |-> "create", campaign |-> c]
  <2>1. q \in Request
    BY DEF Request
  <2>2. run' = [run EXCEPT ![r] = q] /\ run'[r] = q
    BY <1>1, <1>4 DEF CreateRead
  <2>3. \A d \in Delivery : ~Has(r, d)'
    BY <2>2 DEF Has, HasInHand
  <2> QED
    BY <1>1, <1>4, <2>1, <2>2, <2>3, RunnerMovesInv DEF CreateRead, SendOps, RemindOps
<1>5. CASE r \in Cron /\ RemindersRead(r)
  <2>1. /\ FindDueReminders \in SUBSET Delivery /\ FindDueReminders # {}
        /\ \A d \in FindDueReminders : dlv[d].delivery = "SENT"
    BY <1>5 DEF RemindersRead, FindDueReminders, Oldest, Remindable
  <2>2. \A d \in FindDueReminders : camp[CampaignOf[d]] # NotCreated
    BY <2>1 DEF NothingBefore, NoRow
  <2>3. run' = [run EXCEPT ![r] = Batch("batch", FindDueReminders)]
    BY <1>5, <2>1 DEF RemindersRead, Batch
  <2> HIDE DEF DispatchInv
  <2>4. PICK todo \in SUBSET Delivery : todo = FindDueReminders
    BY <2>1
  <2>5. /\ run' = [run EXCEPT ![r] = Batch("batch", todo)]
        /\ \A d \in todo : Has(r, d) \/ (r \in Cron /\ camp[CampaignOf[d]] # NotCreated)
        /\ todo # {} => IF "batch" = "queue" THEN r \in Sender ELSE r \in Cron
    BY <1>5, <2>2, <2>3, <2>4
  <2>6. UNCHANGED <<tpl, camp, dlv, now, nudges>> /\ faults' \in 0..MaxFault
    BY <1>1, <1>5 DEF RemindersRead
  <2> QED
    BY <1>5, <2>5, <2>6, RunnerShrinksInv
<1>6. CASE ReminderNotSent(r)
  <2>1. run[r].op = "remind" /\ r \in Cron
    BY <1>6 DEF ReminderNotSent, RunnerKinds, RemindOps
  <2>2. PICK todo \in SUBSET Delivery : todo = run[r].todo
    BY <1>1, <2>1, RequestShape
  <2>3. \A d \in todo : Has(r, d)
    BY <2>1, <2>2 DEF Has
  <2> HIDE DEF DispatchInv
  <2> QED
    BY <1>1, <1>6, <2>1, <2>2, <2>3, RunnerShrinksInv DEF ReminderNotSent
<1>7. CASE Crash(r)
  <2>1. run' = [run EXCEPT ![r] = Idle] /\ run'[r] = Idle /\ Idle \in Request /\ Idle.op = "idle"
    BY <1>1, <1>7 DEF Crash, Idle, Request
  <2>2. faults' \in 0..MaxFault
    BY <1>1, <1>7, CampaignAssumption DEF Crash
  <2>3. \A d \in Delivery : ~Has(r, d)'
    BY <2>1 DEF Has, HasInHand
  <2> QED
    BY <1>1, <1>7, <2>1, <2>2, <2>3, RunnerMovesInv DEF Crash, SendOps, RemindOps
<1> QED
  BY <1>2, <1>3, <1>4, <1>5, <1>6, <1>7

\* The next delivery of a queue is taken in hand with the count of its
\* campaign, or left out.
LEMMA DispatchReadInv ==
  ASSUME DispatchInv, NEW r \in Runner, DispatchRead(r)
  PROVE  DispatchInv'
<1> USE DEF DispatchInv
<1>1. /\ run[r].op = "queue" /\ r \in Sender /\ run[r].todo \in SUBSET Delivery
      /\ run[r].todo # {} /\ DOMAIN run = Runner /\ faults' \in 0..MaxFault
      /\ tpl' \in [Template -> [active: BOOLEAN, completed: BOOLEAN]]
  BY RequestShape DEF DispatchRead, TypeOK, RunnerKinds, SendOps
<1>2. PICK all \in SUBSET Delivery, d \in Delivery :
        all = run[r].todo /\ d = First(run[r].todo) /\ d \in all
  BY <1>1, FirstShape
<1> DEFINE rest == all \ {d}
<1>3. run' = [run EXCEPT ![r] =
        IF dlv[d].delivery = "PENDING"
        THEN [op |-> "dispatch", delivery |-> d, todo |-> rest, failed |-> camp[CampaignOf[d]]]
        ELSE Batch("queue", rest)]
  BY <1>2 DEF DispatchRead
<1>4. \A e \in all : Has(r, e)
  BY <1>1, <1>2 DEF Has
<1>5. CASE dlv[d].delivery = "PENDING"
  <2>1. camp[CampaignOf[d]] # NotCreated /\ CampaignOf[d] \in Campaign
    BY <1>2, <1>4, CampaignAssumption DEF NothingBefore
  <2>2. camp[CampaignOf[d]] \in Nat
    BY <2>1 DEF TypeOK
  <2> DEFINE q == [op |-> "dispatch", delivery |-> d, todo |-> rest,
                   failed |-> camp[CampaignOf[d]]]
  <2>3. q \in Request
    <3>1. q \in [op: {"dispatch"}, delivery: Delivery, todo: SUBSET Delivery, failed: Nat]
      BY <2>2
    <3> QED
      BY <3>1 DEF Request
  <2>4. run' = [run EXCEPT ![r] = q] /\ run'[r] = q
    BY <1>1, <1>3, <1>5
  <2>5. \A e \in Delivery : Has(r, e)' => Has(r, e)
    BY <1>2, <1>4, <2>4 DEF Has, HasInHand
  <2>6. q.op = "dispatch" /\ q.delivery = d /\ q.delivery \notin q.todo
        /\ q.failed = camp[CampaignOf[d]]
    OBVIOUS
  <2>7. UNCHANGED <<camp, dlv, now, nudges>>
    BY DEF DispatchRead
  <2> HIDE DEF q, DispatchInv
  <2> QED
    BY <1>1, <1>5, <2>3, <2>4, <2>5, <2>6, <2>7, RunnerMovesInv DEF SendOps, RemindOps
<1>6. CASE dlv[d].delivery # "PENDING"
  <2>1. run' = [run EXCEPT ![r] = Batch("queue", rest)] /\ rest \in SUBSET Delivery
        /\ \A e \in rest : Has(r, e)
    BY <1>3, <1>4, <1>6
  <2> HIDE DEF rest, DispatchInv
  <2> QED
    BY <1>1, <2>1, RunnerShrinksInv DEF DispatchRead
<1> QED
  BY <1>5, <1>6

\* A reminder of the batch is taken in hand, or left out.
LEMMA ReminderReadInv ==
  ASSUME DispatchInv, NEW r \in Runner, ReminderRead(r)
  PROVE  DispatchInv'
<1> USE DEF DispatchInv
<1>1. /\ run[r].op = "batch" /\ r \in Cron /\ run[r].todo \in SUBSET Delivery
      /\ run[r].todo # {} /\ DOMAIN run = Runner /\ faults' \in 0..MaxFault
      /\ tpl' \in [Template -> [active: BOOLEAN, completed: BOOLEAN]]
  BY RequestShape DEF ReminderRead, TypeOK, RunnerKinds, RemindOps
<1>2. PICK all \in SUBSET Delivery, d \in Delivery :
        all = run[r].todo /\ d = NextOf(run[r].todo) /\ d \in all
  BY <1>1, NextShape
<1> DEFINE rest == all \ {d}
<1>3. run' = [run EXCEPT ![r] =
        IF StillWanted(dlv[d])
        THEN [op |-> "remind", delivery |-> d, todo |-> rest, reminders |-> dlv[d].reminders]
        ELSE Batch("batch", rest)]
  BY <1>2 DEF ReminderRead
<1>4. \A e \in all : Has(r, e)
  BY <1>1, <1>2 DEF Has
<1>5. CASE StillWanted(dlv[d])
  <2>1. dlv[d].reminders \in 0..(MaxReminders - 1)
    BY <1>5, CampaignAssumption DEF StillWanted, TypeOK, DeliveryRow
  <2> DEFINE q == [op |-> "remind", delivery |-> d, todo |-> rest,
                   reminders |-> dlv[d].reminders]
  <2>2. q \in Request
    <3>1. q \in [op: {"remind"}, delivery: Delivery, todo: SUBSET Delivery,
                 reminders: 0..(MaxReminders - 1)]
      BY <2>1
    <3> QED
      BY <3>1 DEF Request
  <2>3. run' = [run EXCEPT ![r] = q] /\ run'[r] = q
    BY <1>1, <1>3, <1>5
  <2>4. \A e \in Delivery : Has(r, e)' => Has(r, e)
    BY <1>2, <1>4, <2>3 DEF Has, HasInHand
  <2>5. q.op = "remind" /\ q.delivery \notin q.todo
    OBVIOUS
  <2>6. UNCHANGED <<camp, dlv, now, nudges>>
    BY DEF ReminderRead
  <2> HIDE DEF q, DispatchInv
  <2> QED
    BY <1>1, <2>2, <2>3, <2>4, <2>5, <2>6, RunnerMovesInv DEF SendOps, RemindOps
<1>6. CASE ~StillWanted(dlv[d])
  <2>1. run' = [run EXCEPT ![r] = Batch("batch", rest)] /\ rest \in SUBSET Delivery
        /\ \A e \in rest : Has(r, e)
    BY <1>3, <1>4, <1>6
  <2> HIDE DEF rest, DispatchInv
  <2> QED
    BY <1>1, <2>1, RunnerShrinksInv DEF ReminderRead
<1> QED
  BY <1>5, <1>6

\* The deliveries of a campaign whose dispatch failed.
FailedOf(c) == {d \in Delivery : CampaignOf[d] = c /\ dlv[d].delivery = "FAILED"}

LEMMA FailedCount ==
  \A c \in Campaign : IsFiniteSet(FailedOf(c)) /\ Cardinality(FailedOf(c)) \in Nat
<1>1. \A c \in Campaign : FailedOf(c) \in SUBSET Delivery
  BY DEF FailedOf
<1> QED
  BY <1>1, CampaignAssumption, FS_Subset, FS_CardinalityType

\* A campaign and its deliveries come to be together, in the hands of the
\* request that made them.
LEMMA CreateCommitInv ==
  ASSUME DispatchInv, NEW r \in Runner, CreateCommit(r)
  PROVE  DispatchInv'
<1> USE DEF DispatchInv
<1>1. /\ run[r].op = "create" /\ r \in Sender /\ run[r].campaign \in Campaign
      /\ camp[run[r].campaign] = NotCreated /\ DOMAIN run = Runner
  <2>1. run[r].op = "create" /\ r \in Sender
    BY DEF CreateCommit, RunnerKinds, SendOps
  <2> QED
    BY <2>1, RequestShape DEF TypeOK, OneDispatcher
<1>2. PICK c \in Campaign : c = run[r].campaign
  BY <1>1
<1> DEFINE own == {d \in Delivery : CampaignOf[d] = c}
           made == [NoRow EXCEPT !.delivery = "PENDING", !.expires_at = now + Expiry]
           q == Batch("queue", own)
<1>3. /\ camp' = [camp EXCEPT ![c] = 0]
      /\ dlv' = [d \in Delivery |-> IF d \in own THEN made ELSE dlv[d]]
      /\ run' = [run EXCEPT ![r] = q]
      /\ UNCHANGED <<tpl, now, faults, nudges>>
  BY <1>2 DEF CreateCommit
<1>4. made \in DeliveryRow /\ made.delivery = "PENDING"
  <2>1. now \in Nat /\ Expiry \in Nat
    BY CampaignAssumption DEF TypeOK
  <2>2. now + Expiry \in Nat
    BY <2>1
  <2>3. NoRow \in DeliveryRow
    BY DEF NoRow, DeliveryRow
  <2> QED
    BY <2>2, <2>3 DEF DeliveryRow
<1>5. q \in Request /\ (q.op = "idle" \/ (q.op = "queue" /\ q.todo = own /\ own # {}))
  BY BatchShape
<1> HIDE DEF made, q
<1>6. /\ run'[r] = q /\ \A s \in Runner \ {r} : run'[s] = run[s]
      /\ camp'[c] = 0 /\ \A e \in Campaign \ {c} : camp'[e] = camp[e]
      /\ \A d \in Delivery : /\ CampaignOf[d] = c => dlv'[d] = made
                             /\ CampaignOf[d] # c => dlv'[d] = dlv[d]
  BY <1>1, <1>3 DEF TypeOK
<1>7. TypeOK'
  <2>1. camp' \in [Campaign -> {NotCreated} \cup Nat] /\ dlv' \in [Delivery -> DeliveryRow]
    BY <1>3, <1>4 DEF TypeOK
  <2>2. run' \in [Runner -> Request]
    BY <1>3, <1>5 DEF TypeOK
  <2> QED
    BY <1>3, <2>1, <2>2 DEF TypeOK
<1>8. RunnerKinds'
  <2>1. ASSUME NEW s \in Runner
        PROVE  /\ run'[s].op \in SendOps => s \in Sender
               /\ run'[s].op \in RemindOps => s \in Cron
               /\ run'[s].op \in {"queue", "batch"} => run'[s].todo # {}
               /\ run'[s].op \in {"dispatch", "remind", "reminded"} =>
                    run'[s].delivery \notin run'[s].todo
    <3>1. CASE s = r
      BY <1>1, <1>5, <1>6, <3>1 DEF SendOps, RemindOps
    <3>2. CASE s # r
      BY <1>6, <3>2 DEF RunnerKinds
    <3> QED
      BY <3>1, <3>2
  <2> QED
    BY <2>1 DEF RunnerKinds
<1>9. ASSUME NEW s \in Runner, NEW d \in Delivery, Has(s, d)'
      PROVE  (s = r /\ CampaignOf[d] = c) \/ (s # r /\ Has(s, d) /\ CampaignOf[d] # c)
  <2>1. CASE s = r
    <3>1. d \in own
      BY <1>5, <1>6, <1>9, <2>1 DEF Has, HasInHand
    <3> QED
      BY <2>1, <3>1
  <2>2. CASE s # r
    <3>1. Has(s, d)
      BY <1>6, <1>9, <2>2 DEF Has, HasInHand
    <3>2. CampaignOf[d] # c
      BY <1>1, <1>2, <3>1 DEF NothingBefore
    <3> QED
      BY <2>2, <3>1, <3>2
  <2> QED
    BY <2>1, <2>2
<1>10. \A d \in Delivery : CampaignOf[d] \in Campaign
  BY CampaignAssumption
<1>11. NothingBefore'
  <2> SUFFICES ASSUME NEW d \in Delivery, camp'[CampaignOf[d]] = NotCreated
               PROVE  dlv'[d] = NoRow /\ nudges'[d] = <<>> /\ \A s \in Runner : ~Has(s, d)'
    BY DEF NothingBefore
  <2>1. CampaignOf[d] # c
    BY <1>6 DEF NotCreated
  <2>2. camp[CampaignOf[d]] = NotCreated /\ dlv'[d] = dlv[d]
    BY <1>6, <1>10, <2>1
  <2> QED
    BY <1>3, <1>9, <2>1, <2>2 DEF NothingBefore
<1>12. OneDispatcher'
  <2>1. \A s \in Sender : s \in Runner
    BY DEF Runner
  <2>2. ASSUME NEW s \in Sender, run'[s].op = "create"
        PROVE  /\ s # r /\ run'[s] = run[s] /\ run[s].campaign \in Campaign \ {c}
               /\ camp'[run'[s].campaign] = NotCreated
    <3>1. s # r
      BY <1>5, <1>6, <2>2
    <3>2. run'[s] = run[s]
      BY <1>6, <2>1, <3>1
    <3>3. run[s].campaign \in Campaign /\ camp[run[s].campaign] = NotCreated
      BY <2>1, <2>2, <3>2, RequestShape DEF TypeOK, OneDispatcher
    <3>4. run[s].campaign # c
      BY <1>1, <1>2, <2>2, <3>1, <3>2 DEF OneDispatcher
    <3> QED
      BY <1>6, <3>1, <3>2, <3>3, <3>4
  <2>3. ASSUME NEW s \in Sender, NEW t \in Sender, run'[s].op = "create", run'[t].op = "create",
               run'[s].campaign = run'[t].campaign
        PROVE  s = t
    BY <2>2, <2>3 DEF OneDispatcher
  <2>4. ASSUME NEW s \in Sender, NEW t \in Sender, NEW d \in Delivery, NEW e \in Delivery,
               Has(s, d)', Has(t, e)', CampaignOf[d] = CampaignOf[e]
        PROVE  s = t
    BY <1>9, <2>1, <2>4 DEF OneDispatcher
  <2>5. ASSUME NEW s \in Runner, run'[s].op = "dispatch"
        PROVE  /\ dlv'[run'[s].delivery].delivery = "PENDING"
               /\ run'[s].failed = camp'[CampaignOf[run'[s].delivery]]
    <3>1. s # r /\ run'[s] = run[s]
      BY <1>5, <1>6, <2>5
    <3>2. run[s].delivery \in Delivery
      BY <2>5, <3>1, RequestShape DEF TypeOK
    <3>3. Has(s, run[s].delivery)'
      BY <2>5, <3>1 DEF Has, HasInHand
    <3>4. CampaignOf[run[s].delivery] # c
      BY <1>9, <3>1, <3>2, <3>3
    <3>5. /\ dlv[run[s].delivery].delivery = "PENDING"
          /\ run[s].failed = camp[CampaignOf[run[s].delivery]]
      BY <2>5, <3>1 DEF OneDispatcher
    <3> QED
      BY <1>6, <1>10, <3>1, <3>2, <3>4, <3>5
  <2> QED
    BY <2>2, <2>3, <2>4, <2>5 DEF OneDispatcher
<1>13. FailedIsExact'
  <2>1. {d \in Delivery : CampaignOf[d] = c /\ dlv'[d].delivery = "FAILED"} = {}
    BY <1>4, <1>6
  <2>2. \A e \in Campaign \ {c} :
          {d \in Delivery : CampaignOf[d] = e /\ dlv'[d].delivery = "FAILED"}
            = {d \in Delivery : CampaignOf[d] = e /\ dlv[d].delivery = "FAILED"}
    BY <1>6
  <2>3. Cardinality({}) = 0
    BY FS_EmptySet
  <2>4. ASSUME NEW e \in Campaign, camp'[e] # NotCreated
        PROVE  camp'[e] = Cardinality({d \in Delivery :
                                         CampaignOf[d] = e /\ dlv'[d].delivery = "FAILED"})
    <3>1. CASE e = c
      BY <1>6, <2>1, <2>3, <3>1
    <3>2. CASE e # c
      <4>1. camp'[e] = camp[e]
        BY <1>6, <3>2
      <4>2. camp[e] = Cardinality({d \in Delivery :
                                     CampaignOf[d] = e /\ dlv[d].delivery = "FAILED"})
        BY <2>4, <4>1 DEF FailedIsExact
      <4> QED
        BY <2>2, <3>2, <4>1, <4>2
    <3> QED
      BY <3>1, <3>2
  <2> QED
    BY <2>4 DEF FailedIsExact
<1> QED
  BY <1>7, <1>8, <1>11, <1>12, <1>13

\* A row is written by one step, in a way that leaves the runner with less:
\* who holds what of the other campaigns does not change.
LEMMA RowWrittenInv ==
  ASSUME DispatchInv, NEW r \in Runner, NEW op \in {"queue", "batch"},
         NEW todo \in SUBSET Delivery, NEW d \in Delivery, NEW x \in DeliveryRow, NEW n \in Nat,
         run' = [run EXCEPT ![r] = Batch(op, todo)],
         todo # {} => IF op = "queue" THEN r \in Sender ELSE r \in Cron,
         \A e \in todo : Has(r, e),
         Has(r, d),
         dlv' = [dlv EXCEPT ![d] = x],
         camp' = [camp EXCEPT ![CampaignOf[d]] = n],
         UNCHANGED <<tpl, now, faults, nudges>>,
         \/ x.delivery = dlv[d].delivery /\ n = camp[CampaignOf[d]]
         \/ r \in Sender /\ n = Cardinality({e \in Delivery : CampaignOf[e] = CampaignOf[d] /\
              (IF e = d THEN x.delivery = "FAILED" ELSE dlv[e].delivery = "FAILED")})
  PROVE  DispatchInv'
<1> USE DEF DispatchInv
<1> DEFINE q == Batch(op, todo)
           c == CampaignOf[d]
<1>1. q \in Request /\ (q.op = "idle" \/ (q.op = op /\ q.todo = todo /\ todo # {}))
  BY BatchShape
<1> HIDE DEF q
<1>2. /\ run'[r] = q /\ \A s \in Runner \ {r} : run'[s] = run[s]
      /\ dlv'[d] = x /\ \A e \in Delivery \ {d} : dlv'[e] = dlv[e]
      /\ c \in Campaign /\ camp'[c] = n /\ \A k \in Campaign \ {c} : camp'[k] = camp[k]
  BY CampaignAssumption DEF TypeOK, q
<1>3. camp[c] # NotCreated /\ camp'[c] # NotCreated
  BY <1>2 DEF NothingBefore, NotCreated
<1>4. TypeOK'
  BY <1>1 DEF TypeOK, q
<1>5. RunnerKinds'
  <2>1. ASSUME NEW s \in Runner
        PROVE  /\ run'[s].op \in SendOps => s \in Sender
               /\ run'[s].op \in RemindOps => s \in Cron
               /\ run'[s].op \in {"queue", "batch"} => run'[s].todo # {}
               /\ run'[s].op \in {"dispatch", "remind", "reminded"} =>
                    run'[s].delivery \notin run'[s].todo
    <3>1. CASE s = r
      BY <1>1, <1>2, <3>1 DEF SendOps, RemindOps
    <3>2. CASE s # r
      BY <1>2, <3>2 DEF RunnerKinds
    <3> QED
      BY <3>1, <3>2
  <2> QED
    BY <2>1 DEF RunnerKinds
<1>6. \A s \in Runner, e \in Delivery : Has(s, e)' => Has(s, e)
  BY <1>1, <1>2 DEF Has, HasInHand
<1>7. \A e \in Delivery : CampaignOf[e] \in Campaign
  BY CampaignAssumption
<1>8. NothingBefore'
  <2> SUFFICES ASSUME NEW e \in Delivery, camp'[CampaignOf[e]] = NotCreated
               PROVE  dlv'[e] = NoRow /\ nudges'[e] = <<>> /\ \A s \in Runner : ~Has(s, e)'
    BY DEF NothingBefore
  <2>1. CampaignOf[e] # c /\ e # d
    BY <1>3
  <2> QED
    BY <1>2, <1>6, <1>7, <2>1 DEF NothingBefore
<1>9. OneDispatcher'
  <2>1. \A s \in Sender : s \in Runner /\ s \notin Cron
    BY CampaignAssumption DEF Runner
  <2>2. ASSUME NEW s \in Runner, run'[s].op \in {"create", "dispatch"}
        PROVE  s # r /\ run'[s] = run[s] /\ s \in Sender
    BY <1>1, <1>2, <2>2 DEF RunnerKinds, SendOps
  <2>3. ASSUME NEW s \in Sender, run'[s].op = "create"
        PROVE  camp'[run'[s].campaign] = NotCreated
    BY <1>2, <1>3, <2>1, <2>2, <2>3, RequestShape DEF TypeOK, OneDispatcher
  <2>4. ASSUME NEW s \in Sender, NEW t \in Sender, run'[s].op = "create", run'[t].op = "create",
               run'[s].campaign = run'[t].campaign
        PROVE  s = t
    BY <2>1, <2>2, <2>4 DEF OneDispatcher
  <2>5. ASSUME NEW s \in Sender, NEW t \in Sender, NEW e \in Delivery, NEW f \in Delivery,
               Has(s, e)', Has(t, f)', CampaignOf[e] = CampaignOf[f]
        PROVE  s = t
    BY <1>6, <2>1, <2>5 DEF OneDispatcher
  <2>6. ASSUME NEW s \in Runner, run'[s].op = "dispatch"
        PROVE  /\ dlv'[run'[s].delivery].delivery = "PENDING"
               /\ run'[s].failed = camp'[CampaignOf[run'[s].delivery]]
    <3>1. s # r /\ run'[s] = run[s] /\ s \in Sender
      BY <2>2, <2>6
    <3>2. PICK e \in Delivery : e = run[s].delivery
      BY <2>6, <3>1, RequestShape DEF TypeOK
    <3>3. dlv[e].delivery = "PENDING" /\ run[s].failed = camp[CampaignOf[e]] /\ Has(s, e)
      BY <2>6, <3>1, <3>2 DEF OneDispatcher, Has, HasInHand
    <3>4. CASE x.delivery = dlv[d].delivery /\ n = camp[c]
      BY <1>2, <1>7, <3>1, <3>2, <3>3, <3>4
    <3>5. CASE r \in Sender
      <4>1. CampaignOf[e] # c
        BY <3>1, <3>3, <3>5 DEF OneDispatcher
      <4> QED
        BY <1>2, <1>7, <3>1, <3>2, <3>3, <4>1
    <3> QED
      BY <3>4, <3>5
  <2> QED
    BY <2>3, <2>4, <2>5, <2>6 DEF OneDispatcher
<1>10. FailedIsExact'
  <2> DEFINE F(k) == {e \in Delivery : CampaignOf[e] = k /\ dlv'[e].delivery = "FAILED"}
  <2>1. \A k \in Campaign \ {c} :
          F(k) = {e \in Delivery : CampaignOf[e] = k /\ dlv[e].delivery = "FAILED"}
    BY <1>2
  <2>2. camp'[c] = Cardinality(F(c))
    <3>1. CASE x.delivery = dlv[d].delivery /\ n = camp[c]
      <4>1. F(c) = {e \in Delivery : CampaignOf[e] = c /\ dlv[e].delivery = "FAILED"}
        BY <1>2, <3>1
      <4> QED
        BY <1>2, <1>3, <3>1, <4>1 DEF FailedIsExact
    <3>2. CASE n = Cardinality({e \in Delivery : CampaignOf[e] = c /\
                 (IF e = d THEN x.delivery = "FAILED" ELSE dlv[e].delivery = "FAILED")})
      <4>1. F(c) = {e \in Delivery : CampaignOf[e] = c /\
                     (IF e = d THEN x.delivery = "FAILED" ELSE dlv[e].delivery = "FAILED")}
        BY <1>2
      <4> QED
        BY <1>2, <3>2, <4>1
    <3> QED
      BY <3>1, <3>2
  <2>3. ASSUME NEW k \in Campaign, camp'[k] # NotCreated PROVE camp'[k] = Cardinality(F(k))
    <3>1. CASE k = c
      BY <2>2, <3>1
    <3>2. CASE k # c
      BY <1>2, <2>1, <2>3, <3>2 DEF FailedIsExact
    <3> QED
      BY <3>1, <3>2
  <2> QED
    BY <2>3 DEF FailedIsExact
<1> QED
  BY <1>4, <1>5, <1>8, <1>9, <1>10

\* The dispatch of a delivery ends: it was pending, and the count of its
\* campaign is still the one that was read with it.
LEMMA DispatchCommitInv ==
  ASSUME DispatchInv, NEW r \in Runner, NEW ok \in BOOLEAN, DispatchCommit(r, ok)
  PROVE  DispatchInv'
<1> USE DEF DispatchInv
<1>1. /\ run[r].op = "dispatch" /\ r \in Sender
      /\ run[r].delivery \in Delivery /\ run[r].todo \in SUBSET Delivery /\ run[r].failed \in Nat
  BY RequestShape DEF DispatchCommit, TypeOK, RunnerKinds, SendOps
<1>2. PICK d \in Delivery, todo \in SUBSET Delivery, k \in Nat :
        d = run[r].delivery /\ todo = run[r].todo /\ k = run[r].failed
  BY <1>1
<1>3. /\ dlv[d].delivery = "PENDING" /\ k = camp[CampaignOf[d]] /\ Has(r, d)
      /\ \A e \in todo : Has(r, e)
  BY <1>1, <1>2 DEF OneDispatcher, Has, HasInHand
<1>4. /\ CampaignOf[d] \in Campaign
      /\ k = Cardinality(FailedOf(CampaignOf[d]))
  <2>1. CampaignOf[d] \in Campaign /\ k # NotCreated
    BY CampaignAssumption DEF NotCreated
  <2> QED
    BY <1>3, <2>1 DEF FailedIsExact, FailedOf
<1>5. PICK x \in DeliveryRow : x = Dispatched(dlv[d], ok)
  <2>1. dlv[d] \in DeliveryRow /\ now \in Nat
    BY DEF TypeOK
  <2> QED
    BY <2>1 DEF Dispatched, DeliveryRow
<1>6. x.delivery = IF ok THEN "SENT" ELSE "FAILED"
  BY <1>5 DEF Dispatched, TypeOK, DeliveryRow
<1> DEFINE c == CampaignOf[d]
           n == IF ok THEN k ELSE k + 1
           F == {e \in Delivery : CampaignOf[e] = c /\
                  (IF e = d THEN x.delivery = "FAILED" ELSE dlv[e].delivery = "FAILED")}
<1>7. n \in Nat /\ n = Cardinality(F)
  <2>1. d \notin FailedOf(c) /\ IsFiniteSet(FailedOf(c))
    BY <1>3, <1>4, FailedCount DEF FailedOf
  <2>2. CASE ok
    <3>1. F = FailedOf(c)
      BY <1>3, <1>6, <2>2 DEF FailedOf
    <3> QED
      BY <1>4, <2>2, <3>1
  <2>3. CASE ~ok
    <3>1. F = FailedOf(c) \cup {d}
      BY <1>6, <2>3 DEF FailedOf
    <3> HIDE DEF F
    <3>2. Cardinality(F) = Cardinality(FailedOf(c)) + 1
      BY <2>1, <3>1, FS_AddElement
    <3> QED
      BY <1>4, <2>3, <3>2
  <2> QED
    BY <2>2, <2>3
<1>8. /\ dlv' = [dlv EXCEPT ![d] = x]
      /\ run' = [run EXCEPT ![r] = Batch("queue", todo)]
      /\ UNCHANGED <<tpl, now, faults, nudges>>
  BY <1>2, <1>5 DEF DispatchCommit
<1>9. camp' = [camp EXCEPT ![c] = n]
  BY <1>2, <1>3 DEF DispatchCommit, FailedTotal
<1>10. PICK m \in Nat : m = n
  BY <1>7
<1>11. /\ camp' = [camp EXCEPT ![CampaignOf[d]] = m]
       /\ m = Cardinality({e \in Delivery : CampaignOf[e] = CampaignOf[d] /\
                (IF e = d THEN x.delivery = "FAILED" ELSE dlv[e].delivery = "FAILED")})
  BY <1>7, <1>9, <1>10
<1> HIDE DEF DispatchInv, n, F, c
<1> QED
  BY <1>1, <1>3, <1>8, <1>11, RowWrittenInv

\* The count of reminders and the day of the last one are written.
LEMMA ReminderCommitInv ==
  ASSUME DispatchInv, NEW r \in Runner, ReminderCommit(r)
  PROVE  DispatchInv'
<1> USE DEF DispatchInv
<1>1. /\ run[r].op = "reminded" /\ r \in Cron
      /\ run[r].delivery \in Delivery /\ run[r].todo \in SUBSET Delivery
      /\ run[r].reminders \in 0..(MaxReminders - 1) /\ run[r].at \in Nat
  BY RequestShape DEF ReminderCommit, TypeOK, RunnerKinds, RemindOps
<1>2. PICK d \in Delivery, todo \in SUBSET Delivery :
        d = run[r].delivery /\ todo = run[r].todo
  BY <1>1
<1>3. Has(r, d) /\ \A e \in todo : Has(r, e)
  BY <1>1, <1>2 DEF Has, HasInHand
<1>4. camp[CampaignOf[d]] \in Nat /\ CampaignOf[d] \in Campaign
  BY <1>3, CampaignAssumption DEF NothingBefore, TypeOK
<1>5. PICK x \in DeliveryRow :
        x = [dlv[d] EXCEPT !.last_reminder = run[r].at, !.reminders = run[r].reminders + 1]
  <2>1. run[r].reminders + 1 \in Nat
    BY <1>1, CampaignAssumption
  <2>2. dlv[d] \in DeliveryRow
    BY DEF TypeOK
  <2> QED
    BY <1>1, <2>1, <2>2 DEF DeliveryRow
<1>6. x.delivery = dlv[d].delivery
  BY <1>5 DEF TypeOK, DeliveryRow
<1>7. /\ dlv' = [dlv EXCEPT ![d] = x]
      /\ run' = [run EXCEPT ![r] = Batch("batch", todo)]
      /\ UNCHANGED <<tpl, camp, now, faults, nudges>>
  BY <1>2, <1>5 DEF ReminderCommit, TypeOK
<1>8. PICK n \in Nat : n = camp[CampaignOf[d]]
  BY <1>4
<1>9. camp' = [camp EXCEPT ![CampaignOf[d]] = n]
  BY <1>4, <1>7, <1>8 DEF TypeOK
<1> HIDE DEF DispatchInv
<1> QED
  BY <1>1, <1>3, <1>6, <1>7, <1>8, <1>9, RowWrittenInv

\* A reminder is sent, a delivery is signed, a day passes.
LEMMA OtherStepsInv ==
  ASSUME DispatchInv, \/ \E r \in Runner : ReminderSend(r)
                      \/ \E d \in Delivery : Sign(d)
                      \/ Tick
  PROVE  DispatchInv'
<1> USE DEF DispatchInv
<1>1. ASSUME NEW r \in Runner, ReminderSend(r) PROVE DispatchInv'
  <2>1. /\ run[r].op = "remind" /\ r \in Cron /\ r \notin Sender
        /\ run[r].delivery \in Delivery /\ run[r].todo \in SUBSET Delivery
        /\ run[r].reminders \in 0..(MaxReminders - 1) /\ now \in Nat
        /\ run[r].delivery \notin run[r].todo
    BY <1>1, RequestShape, CampaignAssumption DEF ReminderSend, TypeOK, RunnerKinds, RemindOps
  <2> DEFINE q == [op |-> "reminded", delivery |-> run[r].delivery, todo |-> run[r].todo,
                   reminders |-> run[r].reminders, at |-> now]
  <2>2. q \in Request
    <3>1. q \in [op: {"reminded"}, delivery: Delivery, todo: SUBSET Delivery,
                 reminders: 0..(MaxReminders - 1), at: Nat]
      BY <2>1
    <3> QED
      BY <3>1 DEF Request
  <2>3. /\ run' = [run EXCEPT ![r] = q] /\ run'[r] = q /\ \A s \in Runner \ {r} : run'[s] = run[s]
        /\ nudges' = [nudges EXCEPT ![run[r].delivery] = Append(@, now)]
        /\ UNCHANGED <<tpl, camp, dlv, now, faults>>
    BY <1>1 DEF ReminderSend, TypeOK
  <2>4. TypeOK'
    <3>1. nudges' \in [Delivery -> Seq(Nat)]
      BY <2>1, <2>3 DEF TypeOK
    <3> QED
      BY <2>2, <2>3, <3>1 DEF TypeOK
  <2>5. RunnerKinds'
    <3>1. ASSUME NEW s \in Runner
          PROVE  /\ run'[s].op \in SendOps => s \in Sender
                 /\ run'[s].op \in RemindOps => s \in Cron
                 /\ run'[s].op \in {"queue", "batch"} => run'[s].todo # {}
                 /\ run'[s].op \in {"dispatch", "remind", "reminded"} =>
                      run'[s].delivery \notin run'[s].todo
      <4>1. CASE s = r
        BY <2>1, <2>3, <4>1 DEF SendOps
      <4>2. CASE s # r
        BY <2>3, <4>2 DEF RunnerKinds
      <4> QED
        BY <4>1, <4>2
    <3> QED
      BY <3>1 DEF RunnerKinds
  <2>6. \A s \in Runner, d \in Delivery : Has(s, d)' => Has(s, d)
    BY <2>1, <2>3 DEF Has, HasInHand
  <2>7. NothingBefore'
    <3>1. Has(r, run[r].delivery)
      BY <2>1 DEF Has, HasInHand
    <3>2. camp[CampaignOf[run[r].delivery]] # NotCreated
      BY <2>1, <3>1 DEF NothingBefore
    <3>3. \A d \in Delivery : d # run[r].delivery => nudges'[d] = nudges[d]
      BY <2>3 DEF TypeOK
    <3>4. UNCHANGED <<camp, dlv>>
      BY <2>3
    <3>5. ASSUME NEW d \in Delivery, camp[CampaignOf[d]] = NotCreated
          PROVE  /\ dlv[d] = NoRow /\ nudges'[d] = <<>>
                 /\ \A s \in Runner : ~Has(s, d)'
      BY <2>6, <3>2, <3>3, <3>5 DEF NothingBefore
    <3> QED
      BY <3>4, <3>5 DEF NothingBefore
  <2>8. OneDispatcher'
    <3>1. \A s \in Sender : s \in Runner /\ run'[s] = run[s]
      BY <2>1, <2>3 DEF Runner
    <3>2. \A s \in Runner : run'[s].op = "dispatch" => run'[s] = run[s]
      BY <2>3
    <3>3. ASSUME NEW s \in Sender, NEW t \in Sender, NEW d \in Delivery, NEW e \in Delivery,
                 Has(s, d)', Has(t, e)', CampaignOf[d] = CampaignOf[e]
          PROVE  s = t
      BY <2>6, <3>1, <3>3 DEF OneDispatcher
    <3> QED
      BY <2>3, <3>1, <3>2, <3>3 DEF OneDispatcher
  <2>9. FailedIsExact'
    BY <2>3 DEF FailedIsExact
  <2> QED
    BY <2>4, <2>5, <2>7, <2>8, <2>9
<1>2. ASSUME NEW d \in Delivery, Sign(d) PROVE DispatchInv'
  <2>1. /\ dlv' = [dlv EXCEPT ![d].document = "SIGNED"] /\ dlv[d].delivery = "SENT"
        /\ UNCHANGED <<tpl, camp, run, now, faults, nudges>>
    BY <1>2 DEF Sign
  <2>2. /\ dlv' \in [Delivery -> DeliveryRow]
        /\ \A e \in Delivery : dlv'[e].delivery = dlv[e].delivery /\ (e # d => dlv'[e] = dlv[e])
    BY ZenonT(60), <2>1 DEF TypeOK, DeliveryRow
  <2>3. TypeOK' /\ RunnerKinds'
    BY <2>1, <2>2 DEF TypeOK, RunnerKinds
  <2>4. NothingBefore'
    <3>1. camp[CampaignOf[d]] # NotCreated
      BY <2>1 DEF NothingBefore, NoRow
    <3> QED
      BY <2>1, <2>2, <3>1 DEF NothingBefore, Has, HasInHand
  <2>5. OneDispatcher'
    <3>1. \A s \in Runner : run[s].op = "dispatch" => run[s].delivery \in Delivery
      BY RequestShape DEF TypeOK
    <3>2. \A s \in Runner, e \in Delivery : Has(s, e)' <=> Has(s, e)
      BY <2>1 DEF Has, HasInHand
    <3>3. \A s \in Sender : s \in Runner
      BY DEF Runner
    <3> QED
      BY <2>1, <2>2, <3>1, <3>2, <3>3 DEF OneDispatcher
  <2>6. FailedIsExact'
    <3>1. \A c \in Campaign :
            {e \in Delivery : CampaignOf[e] = c /\ dlv'[e].delivery = "FAILED"}
              = {e \in Delivery : CampaignOf[e] = c /\ dlv[e].delivery = "FAILED"}
      BY <2>2
    <3> QED
      BY <2>1, <3>1 DEF FailedIsExact
  <2> QED
    BY <2>3, <2>4, <2>5, <2>6
<1>3. CASE Tick
  <2>1. UNCHANGED <<tpl, camp, dlv, run, faults, nudges>> /\ now' = now + 1 /\ now < MaxTime
    BY <1>3 DEF Tick
  <2>2. TypeOK'
    <3>1. now' \in 0..MaxTime
      BY <2>1, CampaignAssumption DEF TypeOK
    <3> QED
      BY <2>1, <3>1 DEF TypeOK
  <2>3. RunnerKinds' /\ NothingBefore' /\ OneDispatcher' /\ FailedIsExact'
    BY <2>1 DEF RunnerKinds, NothingBefore, OneDispatcher, FailedIsExact, Has, HasInHand
  <2> QED
    BY <2>2, <2>3
<1> QED
  BY <1>1, <1>2, <1>3

LEMMA DispatchNextInv == DispatchInv /\ [Next]_vars => DispatchInv'
<1> SUFFICES ASSUME DispatchInv, [Next]_vars PROVE DispatchInv'
  OBVIOUS
<1>1. Editor \subseteq Runner /\ Sender \subseteq Runner /\ Cron \subseteq Runner
  BY DEF Runner
<1>2. CASE \/ \E r \in Editor, t \in Template,
                op \in {"activate", "deactivate", "complete", "reopen"} : TemplateRead(r, t, op)
           \/ \E r \in Sender, c \in Campaign : CreateRead(r, c)
           \/ \E r \in Cron : RemindersRead(r)
  BY <1>1, <1>2, BeginningsInv DEF TemplateOps
<1>3. ASSUME NEW r \in Runner, Proceed(r) PROVE DispatchInv'
  BY <1>3, BeginningsInv, CreateCommitInv, DispatchReadInv, DispatchCommitInv, ReminderReadInv,
     ReminderCommitInv, OtherStepsInv DEF Proceed
<1>4. ASSUME NEW r \in Runner, Crash(r) PROVE DispatchInv'
  BY <1>4, BeginningsInv
<1>5. CASE (\E d \in Delivery : Sign(d)) \/ Tick
  BY <1>5, OtherStepsInv
<1>6. CASE UNCHANGED vars
  <2>1. UNCHANGED <<tpl, camp, dlv, run, now, faults, nudges>>
    BY <1>6 DEF vars
  <2>2. TypeOK'
    BY <2>1 DEF DispatchInv, TypeOK
  <2>3. RunnerKinds' /\ NothingBefore' /\ OneDispatcher' /\ FailedIsExact'
    BY <2>1 DEF DispatchInv, RunnerKinds, NothingBefore, OneDispatcher, FailedIsExact, Has,
       HasInHand
  <2> QED
    BY <2>2, <2>3 DEF DispatchInv
<1> QED
  BY <1>2, <1>3, <1>4, <1>5, <1>6 DEF Next

LEMMA DispatchInvAlways == Spec => []DispatchInv
BY DispatchInitInv, DispatchNextInv, PTL DEF Spec

\* The tables, and what requests and reminder runs hold, keep their types.
THEOREM CampaignsTyped == Spec => []TypeOK
<1>1. DispatchInv => TypeOK
  BY DEF DispatchInv
<1> QED
  BY <1>1, DispatchInvAlways, PTL

\* total_failed is the number of failed deliveries of a campaign, although it
\* is written from a read without a lock: one process has the whole campaign.
THEOREM FailedCountExact == Spec => []FailedIsExact
<1>1. DispatchInv => FailedIsExact
  BY DEF DispatchInv
<1> QED
  BY <1>1, DispatchInvAlways, PTL

-----------------------------------------------------------------------------
(* Reminders *)

\* Runs are counted.
LEMMA CronCounts ==
  ASSUME NEW H \in SUBSET Cron, NEW R \in SUBSET Cron
  PROVE  /\ Cardinality(H) \in Nat /\ Cardinality(R) \in Nat /\ Cardinality(Cron) \in Nat
         /\ IsFiniteSet(H) /\ IsFiniteSet(R)
         /\ H \subseteq R => Cardinality(H) <= Cardinality(R)
         /\ H \cap R = {} => Cardinality(H) + Cardinality(R) <= Cardinality(Cron)
<1>1. /\ IsFiniteSet(H) /\ IsFiniteSet(R) /\ IsFiniteSet(Cron)
      /\ Cardinality(H) \in Nat /\ Cardinality(R) \in Nat /\ Cardinality(Cron) \in Nat
  BY CampaignAssumption, FS_Subset, FS_CardinalityType
<1>2. H \subseteq R => Cardinality(H) <= Cardinality(R)
  BY <1>1, FS_Subset
<1>3. ASSUME H \cap R = {} PROVE Cardinality(H) + Cardinality(R) <= Cardinality(Cron)
  <2>1. /\ IsFiniteSet(H \cup R)
        /\ Cardinality(H \cup R) = Cardinality(H) + Cardinality(R) - Cardinality({})
    BY <1>1, <1>3, FS_Union
  <2>2. Cardinality({}) = 0
    BY FS_EmptySet
  <2>3. H \cup R \in SUBSET Cron
    OBVIOUS
  <2>4. Cardinality(H \cup R) <= Cardinality(Cron)
    BY <1>1, <2>3, FS_Subset
  <2> QED
    BY <1>1, <2>1, <2>2, <2>4
<1> QED
  BY <1>1, <1>2, <1>3

LEMMA NudgeInitInv == Init => NudgeInv
<1> SUFFICES ASSUME Init PROVE NudgeInv
  OBVIOUS
<1>1. /\ \A d \in Delivery : DOMAIN nudges[d] = {} /\ dlv[d].reminders = 0
      /\ \A r \in Runner : run[r].op = "idle"
  BY DEF Init, NoRow, Idle
<1>2. MaxReminders \in Nat
  BY CampaignAssumption
<1> QED
  BY <1>1, <1>2 DEF NudgeInv, DaysInOrder, NudgesAccounted, NudgesSpread

\* The account: k later reminders, h or g runs that hold the delivery, c runs,
\* f or e processes that died.
LEMMA FewerHolders ==
  ASSUME NEW k \in Int, NEW h \in Nat, NEW g \in Nat, NEW c \in Nat, NEW f \in Nat, NEW e \in Nat,
         k + h <= c + f, g <= h, f <= e
  PROVE  k + g <= c + e
OBVIOUS

\* A step that sends and records no reminder: it only matters that no run
\* takes up what is recorded and recent, and that no run forgets what it sent.
LEMMA QuietInv ==
  ASSUME DispatchInv, NudgeInv, UNCHANGED <<nudges, now>>,
         faults \in Nat, faults' \in Nat, faults <= faults',
         \A r \in Runner : run'[r].op = "reminded" => run'[r] = run[r],
         \A d \in Delivery : dlv'[d].reminders <= MaxReminders,
         \A d \in Delivery : \A i \in DOMAIN nudges[d] : Recorded(d, i)' <=> Recorded(d, i),
         \A d \in Delivery :
           Cardinality(Reminded(d)) + faults <= Cardinality(Reminded(d)') + faults',
         \A d \in Delivery :
           \/ Cardinality(Holders(d)') <= Cardinality(Holders(d))
           \/ \A i \in DOMAIN nudges[d] :
                Recorded(d, i) => nudges[d][i] + ReminderAfter <= now
  PROVE  NudgeInv'
<1>1. DaysInOrder'
  BY DEF NudgeInv, DaysInOrder
<1>2. \A d \in Delivery :
        /\ Cardinality(Reminded(d)) \in Nat /\ Cardinality(Reminded(d)') \in Nat
        /\ Cardinality(Holders(d)) \in Nat /\ Cardinality(Holders(d)') \in Nat
        /\ Cardinality(Cron) \in Nat
  <2> SUFFICES ASSUME NEW d \in Delivery
               PROVE  /\ Cardinality(Reminded(d)) \in Nat /\ Cardinality(Reminded(d)') \in Nat
                      /\ Cardinality(Holders(d)) \in Nat /\ Cardinality(Holders(d)') \in Nat
                      /\ Cardinality(Cron) \in Nat
    OBVIOUS
  <2>1. /\ Reminded(d) \in SUBSET Cron /\ Reminded(d)' \in SUBSET Cron
        /\ Holders(d) \in SUBSET Cron /\ Holders(d)' \in SUBSET Cron
    BY DEF Reminded, Holders
  <2> QED
    BY <2>1, CronCounts
<1>3. \A d \in Delivery : nudges[d] \in Seq(Nat) /\ nudges'[d] = nudges[d]
  BY DEF DispatchInv, TypeOK
<1>4. now \in Nat /\ ReminderAfter \in Nat
  BY CampaignAssumption DEF DispatchInv, TypeOK
<1>5. NudgesAccounted'
  <2> SUFFICES ASSUME NEW d \in Delivery, NEW i \in DOMAIN nudges[d]
               PROVE  /\ ~Recorded(d, i)' =>
                           Len(nudges[d]) - i + 1 <= Cardinality(Reminded(d)') + faults'
                      /\ Recorded(d, i)' /\ nudges[d][i] + ReminderAfter > now =>
                           Len(nudges[d]) - i + 1 + Cardinality(Holders(d)')
                             <= Cardinality(Cron) + faults'
    BY <1>3 DEF NudgesAccounted
  <2>1. Len(nudges[d]) \in Nat /\ i \in Nat /\ nudges[d][i] \in Nat
    BY <1>3, LenProperties
  <2>2. /\ ~Recorded(d, i) =>
             Len(nudges[d]) - i + 1 <= Cardinality(Reminded(d)) + faults
        /\ Recorded(d, i) /\ nudges[d][i] + ReminderAfter > now =>
             Len(nudges[d]) - i + 1 + Cardinality(Holders(d)) <= Cardinality(Cron) + faults
    BY DEF NudgeInv, NudgesAccounted
  <2>3. ASSUME ~Recorded(d, i)'
        PROVE  Len(nudges[d]) - i + 1 <= Cardinality(Reminded(d)') + faults'
    <3>1. Len(nudges[d]) - i + 1 <= Cardinality(Reminded(d)) + faults
      BY <2>2, <2>3
    <3>2. Cardinality(Reminded(d)) + faults <= Cardinality(Reminded(d)') + faults'
      OBVIOUS
    <3> QED
      BY <1>2, <2>1, <3>1, <3>2
  <2>4. ASSUME Recorded(d, i)', nudges[d][i] + ReminderAfter > now
        PROVE  Len(nudges[d]) - i + 1 + Cardinality(Holders(d)') <= Cardinality(Cron) + faults'
    <3>1. Recorded(d, i)
      BY <2>4
    <3>2. Len(nudges[d]) - i + 1 + Cardinality(Holders(d)) <= Cardinality(Cron) + faults
      BY <2>2, <2>4, <3>1
    <3>3. ~(nudges[d][i] + ReminderAfter <= now)
      BY <1>4, <2>1, <2>4
    <3>4. Cardinality(Holders(d)') <= Cardinality(Holders(d))
      BY <3>1, <3>3
    <3>5. Len(nudges[d]) - i + 1 \in Int
      BY <2>1
    <3> QED
      BY <1>2, <3>2, <3>4, <3>5, FewerHolders
  <2> QED
    BY <2>3, <2>4
<1>6. NudgesSpread'
  <2> SUFFICES ASSUME NEW d \in Delivery, NEW i \in DOMAIN nudges[d], NEW j \in DOMAIN nudges[d],
                      j - i >= Cardinality(Cron) + faults'
               PROVE  nudges[d][j] - nudges[d][i] >= ReminderAfter
    BY <1>3 DEF NudgesSpread
  <2>1. j \in Nat /\ i \in Nat
    BY SMTT(30), <1>3, LenProperties
  <2>2. j - i >= Cardinality(Cron) + faults
    BY <1>2, <2>1
  <2> QED
    BY <2>2 DEF NudgeInv, NudgesSpread
<1> QED
  BY <1>1, <1>5, <1>6 DEF NudgeInv

\* One runner moves on, with no reminder in its hands before or after.
LEMMA RunnerQuietInv ==
  ASSUME DispatchInv, DispatchInv', NudgeInv, NEW r \in Runner,
         UNCHANGED <<nudges, now, faults>>,
         \A s \in Runner \ {r} : run'[s] = run[s],
         run[r].op # "reminded", run'[r].op # "reminded",
         \A d \in Delivery : dlv'[d].reminders <= MaxReminders,
         \A d \in Delivery : nudges[d] # <<>> =>
           /\ dlv'[d].reminders = dlv[d].reminders
           /\ dlv'[d].last_reminder = dlv[d].last_reminder,
         \A d \in Delivery : (r \in Cron /\ Has(r, d)') =>
           \/ Has(r, d)
           \/ \A i \in DOMAIN nudges[d] : Recorded(d, i) => nudges[d][i] + ReminderAfter <= now
  PROVE  NudgeInv'
<1>1. faults \in Nat /\ faults' \in Nat /\ faults <= faults'
  BY CampaignAssumption DEF DispatchInv, TypeOK
<1>2. \A s \in Runner : run'[s].op = "reminded" => run'[s] = run[s]
  OBVIOUS
<1>3. \A d \in Delivery : \A i \in DOMAIN nudges[d] : Recorded(d, i)' <=> Recorded(d, i)
  <2> SUFFICES ASSUME NEW d \in Delivery, NEW i \in DOMAIN nudges[d]
               PROVE  Recorded(d, i)' <=> Recorded(d, i)
    OBVIOUS
  <2>1. nudges[d] # <<>>
    BY DEF DispatchInv, TypeOK
  <2> QED
    BY <2>1 DEF Recorded
<1>4. Cron \subseteq Runner
  BY DEF Runner
<1>5. ASSUME NEW d \in Delivery
      PROVE  Cardinality(Reminded(d)) + faults <= Cardinality(Reminded(d)') + faults'
  <2>1. Reminded(d)' = Reminded(d)
    BY <1>4 DEF Reminded
  <2>2. Reminded(d) \in SUBSET Cron
    BY DEF Reminded
  <2>3. Cardinality(Reminded(d)) \in Nat
    BY <2>2, CronCounts
  <2> QED
    BY <1>1, <2>1, <2>3
<1>6. ASSUME NEW d \in Delivery
      PROVE  \/ Cardinality(Holders(d)') <= Cardinality(Holders(d))
             \/ \A i \in DOMAIN nudges[d] :
                  Recorded(d, i) => nudges[d][i] + ReminderAfter <= now
  <2>1. CASE (r \in Cron /\ Has(r, d)') => Has(r, d)
    <3>1. ASSUME NEW s \in Cron PROVE s \in Holders(d)' => s \in Holders(d)
      BY <1>4, <2>1 DEF Holders, Has, HasInHand
    <3>2. Holders(d)' \in SUBSET Cron /\ Holders(d) \in SUBSET Cron
      BY DEF Holders
    <3>3. Holders(d)' \subseteq Holders(d)
      BY <3>1, <3>2
    <3> QED
      BY <3>2, <3>3, CronCounts
  <2>2. CASE ~((r \in Cron /\ Has(r, d)') => Has(r, d))
    BY <2>2
  <2> QED
    BY <2>1, <2>2
<1> QED
  BY <1>1, <1>2, <1>3, <1>5, <1>6, QuietInv

\* A batch that is less of what the runner had takes up nothing.
LEMMA BatchHasLess ==
  ASSUME DispatchInv, NEW r \in Runner, NEW op \in {"queue", "batch"},
         NEW todo \in SUBSET Delivery, run' = [run EXCEPT ![r] = Batch(op, todo)],
         run[r].op \in {"queue", "dispatch", "batch", "remind", "reminded"},
         todo \subseteq run[r].todo
  PROVE  /\ run'[r].op # "reminded"
         /\ \A s \in Runner \ {r} : run'[s] = run[s]
         /\ \A d \in Delivery : Has(r, d)' => d \in todo /\ Has(r, d)
<1>1. run'[r] = Batch(op, todo) /\ \A s \in Runner \ {r} : run'[s] = run[s]
  BY DEF DispatchInv, TypeOK
<1>2. \/ Batch(op, todo).op = "idle"
      \/ Batch(op, todo).op = op /\ Batch(op, todo).todo = todo /\ todo # {}
  BY BatchShape
<1>3. run'[r].op # "reminded"
  BY <1>1, <1>2
<1>4. ASSUME NEW d \in Delivery, Has(r, d)' PROVE d \in todo /\ Has(r, d)
  BY <1>1, <1>2, <1>4 DEF Has, HasInHand
<1> QED
  BY <1>1, <1>3, <1>4

\* Requests on templates and campaigns know nothing of reminders.
LEMMA QuietRequestsInv ==
  ASSUME DispatchInv, DispatchInv', NudgeInv, NEW r \in Runner,
         \/ \E t \in Template, op \in TemplateOps : TemplateRead(r, t, op)
         \/ TemplateCommit(r)
         \/ \E c \in Campaign : CreateRead(r, c)
  PROVE  NudgeInv'
<1>1. UNCHANGED <<nudges, now, faults, dlv>>
  BY DEF TemplateRead, TemplateCommit, CreateRead
<1>2. DOMAIN run = Runner
  BY DEF DispatchInv, TypeOK
<1>3. /\ \A s \in Runner \ {r} : run'[s] = run[s]
      /\ run[r].op # "reminded" /\ run'[r].op # "reminded"
      /\ \A d \in Delivery : ~Has(r, d)'
  <2>1. ASSUME NEW t \in Template, NEW op \in TemplateOps, TemplateRead(r, t, op)
        PROVE  <1>3!:
    <3>1. run[r].op = "idle" /\ run' = [run EXCEPT ![r] = [op |-> op, template |-> t]]
      BY <2>1 DEF TemplateRead, Idle
    <3>2. run'[r] = [op |-> op, template |-> t] /\ run'[r].op \in TemplateOps
      BY <1>2, <3>1
    <3> QED
      BY <1>2, <3>1, <3>2 DEF Has, HasInHand, TemplateOps
  <2>2. CASE TemplateCommit(r)
    <3>1. run'[r] = Idle /\ \A s \in Runner \ {r} : run'[s] = run[s]
      BY <1>2, <2>2 DEF TemplateCommit
    <3>2. Idle.op = "idle"
      BY DEF Idle
    <3> QED
      BY <2>2, <3>1, <3>2 DEF TemplateCommit, Has, HasInHand
  <2>3. ASSUME NEW c \in Campaign, CreateRead(r, c)
        PROVE  <1>3!:
    <3>1. run[r].op = "idle" /\ run' = [run EXCEPT ![r] = [op |-> "create", campaign |-> c]]
      BY <2>3 DEF CreateRead, Idle
    <3> QED
      BY <1>2, <3>1 DEF Has, HasInHand
  <2> QED
    BY <2>1, <2>2, <2>3
<1>4. \A d \in Delivery : dlv'[d].reminders <= MaxReminders
  BY <1>1 DEF NudgeInv, NudgesSpread
<1> QED
  BY <1>1, <1>3, <1>4, RunnerQuietInv

\* A new delivery has no reminder yet.
LEMMA QuietCreateInv ==
  ASSUME DispatchInv, DispatchInv', NudgeInv, NEW r \in Runner, CreateCommit(r)
  PROVE  NudgeInv'
<1>1. run[r].op = "create" /\ r \in Sender /\ r \notin Cron /\ run[r].campaign \in Campaign
  BY RequestShape, CampaignAssumption
  DEF CreateCommit, DispatchInv, TypeOK, RunnerKinds, SendOps
<1>2. PICK c \in Campaign : c = run[r].campaign
  BY <1>1
<1>3. camp[c] = NotCreated
  BY <1>1, <1>2 DEF DispatchInv, OneDispatcher
<1> DEFINE own == {d \in Delivery : CampaignOf[d] = c}
           new == [NoRow EXCEPT !.delivery = "PENDING", !.expires_at = now + Expiry]
<1>4. /\ run' = [run EXCEPT ![r] = Batch("queue", own)]
      /\ dlv' = [d \in Delivery |-> IF d \in own THEN new ELSE dlv[d]]
      /\ UNCHANGED <<nudges, now, faults>>
  BY <1>2 DEF CreateCommit
<1>5. new.reminders = 0
  BY DEF NoRow
<1> HIDE DEF new
<1>6. \A d \in Delivery : nudges[d] # <<>> =>
        /\ dlv'[d].reminders = dlv[d].reminders
        /\ dlv'[d].last_reminder = dlv[d].last_reminder
  <2>1. \A d \in own : nudges[d] = <<>>
    BY <1>3 DEF DispatchInv, NothingBefore
  <2> QED
    BY <1>4, <2>1
<1>7. \A d \in Delivery : dlv'[d].reminders <= MaxReminders
  <2>1. MaxReminders \in Nat
    BY CampaignAssumption
  <2> QED
    BY <1>4, <1>5, <2>1 DEF NudgeInv, NudgesSpread
<1>8. Batch("queue", own).op # "reminded"
  <2>1. own \in SUBSET Delivery
    OBVIOUS
  <2> HIDE DEF own
  <2> QED
    BY <2>1, BatchShape
<1>9. run'[r].op # "reminded" /\ \A s \in Runner \ {r} : run'[s] = run[s]
  BY <1>4, <1>8 DEF DispatchInv, TypeOK
<1> QED
  BY <1>1, <1>4, <1>6, <1>7, <1>9, RunnerQuietInv

\* Dispatching a delivery leaves its reminders alone.
LEMMA QuietDispatchInv ==
  ASSUME DispatchInv, DispatchInv', NudgeInv, NEW r \in Runner,
         DispatchRead(r) \/ \E ok \in BOOLEAN : DispatchCommit(r, ok)
  PROVE  NudgeInv'
<1>1. /\ run[r].op \in {"queue", "dispatch"} /\ r \in Sender /\ r \notin Cron
      /\ run[r].todo \in SUBSET Delivery
      /\ run[r].op = "dispatch" => run[r].delivery \in Delivery
      /\ run[r] \in Request
  BY RequestShape, CampaignAssumption
  DEF DispatchRead, DispatchCommit, DispatchInv, TypeOK, RunnerKinds, SendOps
<1>2. UNCHANGED <<nudges, now, faults>>
  BY DEF DispatchRead, DispatchCommit
<1>3. \A d \in Delivery : /\ dlv'[d].reminders = dlv[d].reminders
                          /\ dlv'[d].last_reminder = dlv[d].last_reminder
  <2>1. CASE DispatchRead(r)
    BY <2>1 DEF DispatchRead
  <2>2. ASSUME NEW ok \in BOOLEAN, DispatchCommit(r, ok) PROVE <1>3!:
    <3>1. \A d \in Delivery : dlv[d] \in DeliveryRow
      BY DEF DispatchInv, TypeOK
    <3>2. \A d \in Delivery : /\ Dispatched(dlv[d], ok).reminders = dlv[d].reminders
                              /\ Dispatched(dlv[d], ok).last_reminder = dlv[d].last_reminder
      BY <3>1 DEF Dispatched, DeliveryRow
    <3>3. PICK e \in Delivery : e = run[r].delivery
      BY <1>1, <2>2 DEF DispatchCommit
    <3>4. dlv' = [dlv EXCEPT ![e] = Dispatched(dlv[e], ok)]
      BY <2>2, <3>3 DEF DispatchCommit
    <3> QED
      BY <3>2, <3>4 DEF DispatchInv, TypeOK
  <2> QED
    BY <2>1, <2>2
<1>4. run'[r].op # "reminded" /\ \A s \in Runner \ {r} : run'[s] = run[s]
  <2>1. CASE DispatchRead(r)
    <3> DEFINE d == First(run[r].todo)
               rest == run[r].todo \ {d}
    <3>1. PICK todo \in SUBSET Delivery : todo = rest
      BY <1>1
    <3>2. run' = [run EXCEPT ![r] =
            IF dlv[d].delivery = "PENDING"
            THEN [op |-> "dispatch", delivery |-> d, todo |-> todo,
                  failed |-> camp[CampaignOf[d]]]
            ELSE Batch("queue", todo)]
      BY <2>1, <3>1 DEF DispatchRead
    <3>3. Batch("queue", todo).op # "reminded"
      BY BatchShape
    <3> HIDE DEF d
    <3> QED
      BY <3>2, <3>3 DEF DispatchInv, TypeOK
  <2>2. ASSUME NEW ok \in BOOLEAN, DispatchCommit(r, ok) PROVE <1>4!:
    <3>1. PICK todo \in SUBSET Delivery : todo = run[r].todo
      BY <1>1
    <3>2. run' = [run EXCEPT ![r] = Batch("queue", todo)]
      BY <2>2, <3>1 DEF DispatchCommit
    <3>3. Batch("queue", todo).op # "reminded"
      BY BatchShape
    <3> QED
      BY <3>2, <3>3 DEF DispatchInv, TypeOK
  <2> QED
    BY <2>1, <2>2
<1>5. \A d \in Delivery : dlv'[d].reminders <= MaxReminders
  BY <1>3 DEF NudgeInv, NudgesSpread
<1> QED
  BY <1>1, <1>2, <1>3, <1>4, <1>5, RunnerQuietInv

\* A run takes up what has not been reminded of for reminder_after_days.
LEMMA FindDueShape ==
  ASSUME DispatchInv, NEW d \in FindDueReminders
  PROVE  /\ d \in Delivery
         /\ \A i \in DOMAIN nudges[d] : Recorded(d, i) => nudges[d][i] + ReminderAfter <= now
<1>1. d \in Delivery /\ IsDue(d)
  BY DEF FindDueReminders, Oldest, Remindable
<1>2. dlv[d] \in DeliveryRow /\ now \in Nat /\ ReminderAfter \in Nat /\ nudges[d] \in Seq(Nat)
  BY <1>1, CampaignAssumption DEF DispatchInv, TypeOK
<1>3. ASSUME NEW i \in DOMAIN nudges[d], Recorded(d, i)
      PROVE  nudges[d][i] + ReminderAfter <= now
  <2>1. /\ dlv[d].reminders > 0 /\ dlv[d].last_reminder >= nudges[d][i]
        /\ nudges[d][i] \in Nat /\ dlv[d].last_reminder \in Nat
    BY <1>2, <1>3 DEF Recorded, DeliveryRow
  <2>2. dlv[d].last_reminder + ReminderAfter <= now
    BY <1>1, <2>1 DEF IsDue, LastContact
  <2> QED
    BY <1>2, <2>1, <2>2
<1> QED
  BY <1>1, <1>3

\* A run finds what is due, drops what is no longer wanted or not taken.
LEMMA QuietRunInv ==
  ASSUME DispatchInv, DispatchInv', NudgeInv, NEW r \in Runner,
         RemindersRead(r) \/ ReminderRead(r) \/ ReminderNotSent(r)
  PROVE  NudgeInv'
<1>1. UNCHANGED <<nudges, now, faults, dlv>>
  BY DEF RemindersRead, ReminderRead, ReminderNotSent
<1>2. run[r].op # "reminded" /\ DOMAIN run = Runner /\ run[r] \in Request
  BY DEF RemindersRead, ReminderRead, ReminderNotSent, DispatchInv, TypeOK, Idle
<1>3. /\ \A s \in Runner \ {r} : run'[s] = run[s]
      /\ run'[r].op # "reminded"
      /\ \A d \in Delivery : Has(r, d)' =>
           \/ Has(r, d)
           \/ \A i \in DOMAIN nudges[d] : Recorded(d, i) => nudges[d][i] + ReminderAfter <= now
  <2>1. CASE RemindersRead(r)
    <3>1. PICK todo : todo = FindDueReminders
      OBVIOUS
    <3>2. run' = [run EXCEPT ![r] = [op |-> "batch", todo |-> todo]]
      BY <2>1, <3>1 DEF RemindersRead
    <3>3. \A d \in todo : \A i \in DOMAIN nudges[d] :
            Recorded(d, i) => nudges[d][i] + ReminderAfter <= now
      BY <3>1, FindDueShape
    <3>4. \A d \in Delivery : Has(r, d)' => d \in todo
      BY <1>2, <3>2 DEF Has, HasInHand
    <3> QED
      BY <1>2, <3>2, <3>3, <3>4
  <2>2. CASE ReminderRead(r)
    <3>1. run[r].op = "batch" /\ run[r].todo \in SUBSET Delivery /\ run[r].todo # {}
      BY <1>2, <2>2, RequestShape DEF ReminderRead, DispatchInv, RunnerKinds
    <3>2. NextOf(run[r].todo) \in run[r].todo
      BY <3>1, NextShape DEF DispatchInv
    <3>3. PICK d \in Delivery, todo \in SUBSET Delivery :
            d = NextOf(run[r].todo) /\ todo = run[r].todo \ {d}
      BY <3>1, <3>2
    <3>4. d \in run[r].todo /\ todo \subseteq run[r].todo
      BY <3>2, <3>3
    <3>5. CASE StillWanted(dlv[d])
      <4>1. run' = [run EXCEPT ![r] = [op |-> "remind", delivery |-> d, todo |-> todo,
                                       reminders |-> dlv[d].reminders]]
        BY <2>2, <3>3, <3>5 DEF ReminderRead
      <4>2. \A e \in Delivery : Has(r, e)' => Has(r, e)
        BY <1>2, <3>1, <3>4, <4>1 DEF Has, HasInHand
      <4> QED
        BY <1>2, <4>1, <4>2
    <3>6. CASE ~StillWanted(dlv[d])
      <4>1. run' = [run EXCEPT ![r] = Batch("batch", todo)]
        BY <2>2, <3>3, <3>6 DEF ReminderRead
      <4> QED
        BY <3>1, <3>4, <4>1, BatchHasLess
    <3> QED
      BY <3>5, <3>6
  <2>3. CASE ReminderNotSent(r)
    <3>1. PICK todo \in SUBSET Delivery : todo = run[r].todo
      BY <1>2, <2>3, RequestShape DEF ReminderNotSent
    <3>2. run' = [run EXCEPT ![r] = Batch("batch", todo)] /\ run[r].op = "remind"
      BY <2>3, <3>1 DEF ReminderNotSent
    <3> QED
      BY <3>1, <3>2, BatchHasLess
  <2> QED
    BY <2>1, <2>2, <2>3
<1>4. \A d \in Delivery : dlv'[d].reminders <= MaxReminders
  BY <1>1 DEF NudgeInv, NudgesSpread
<1> QED
  BY <1>1, <1>2, <1>3, <1>4, RunnerQuietInv

\* A run that dies forgets at most one reminder it has sent.
LEMMA NudgeCrashInv ==
  ASSUME DispatchInv, DispatchInv', NudgeInv, NEW r \in Runner, Crash(r)
  PROVE  NudgeInv'
<1>1. UNCHANGED <<nudges, now, dlv>> /\ faults' = faults + 1 /\ faults \in Nat
  BY CampaignAssumption DEF Crash, DispatchInv, TypeOK
<1>2. run'[r] = Idle /\ Idle.op = "idle" /\ \A s \in Runner \ {r} : run'[s] = run[s]
  BY DEF Crash, DispatchInv, TypeOK, Idle
<1>3. Cron \subseteq Runner
  BY DEF Runner
<1>4. ASSUME NEW d \in Delivery
      PROVE  /\ Cardinality(Reminded(d)) + faults <= Cardinality(Reminded(d)') + faults'
             /\ Cardinality(Holders(d)') <= Cardinality(Holders(d))
  <2>1. /\ Reminded(d) \in SUBSET Cron /\ Reminded(d)' \in SUBSET Cron
        /\ Holders(d) \in SUBSET Cron /\ Holders(d)' \in SUBSET Cron
    BY DEF Reminded, Holders
  <2>2. Reminded(d)' = Reminded(d) \ {r}
    BY <1>2, <1>3 DEF Reminded
  <2>3. Holders(d)' \subseteq Holders(d)
    <3>1. ASSUME NEW s \in Cron, s \in Holders(d)' PROVE s \in Holders(d)
      BY <1>2, <1>3, <3>1 DEF Holders, Has, HasInHand
    <3> QED
      BY <2>1, <3>1
  <2>4. Cardinality(Reminded(d)) <= Cardinality(Reminded(d) \ {r}) + 1
    <3>1. IsFiniteSet(Reminded(d)) /\ Cardinality(Reminded(d)) \in Nat
      BY <2>1, CronCounts
    <3>2. CASE r \in Reminded(d)
      <4>1. Cardinality(Reminded(d) \ {r}) = Cardinality(Reminded(d)) - 1
        BY <3>1, <3>2, FS_RemoveElement
      <4> QED
        BY <3>1, <4>1
    <3>3. CASE r \notin Reminded(d)
      <4>1. Reminded(d) \ {r} = Reminded(d)
        BY <3>3
      <4> QED
        BY <3>1, <4>1
    <3> QED
      BY <3>2, <3>3
  <2>5. Cardinality(Reminded(d)) \in Nat /\ Cardinality(Reminded(d)') \in Nat
    BY <2>1, CronCounts
  <2>6. Cardinality(Holders(d)') <= Cardinality(Holders(d))
    BY <2>1, <2>3, CronCounts
  <2> QED
    BY <1>1, <2>2, <2>4, <2>5, <2>6
<1>5. \A d \in Delivery : \A i \in DOMAIN nudges[d] : Recorded(d, i)' <=> Recorded(d, i)
  BY <1>1 DEF Recorded
<1>6. \A d \in Delivery : dlv'[d].reminders <= MaxReminders
  BY <1>1 DEF NudgeInv, NudgesSpread
<1>7. faults' \in Nat /\ faults <= faults'
  BY <1>1
<1>8. \A s \in Runner : run'[s].op = "reminded" => run'[s] = run[s]
  BY <1>2
<1> QED
  BY <1>1, <1>4, <1>5, <1>6, <1>7, <1>8, QuietInv

\* A signature leaves the reminders alone.
LEMMA NudgeSignInv ==
  ASSUME DispatchInv, DispatchInv', NudgeInv, NEW d \in Delivery, Sign(d)
  PROVE  NudgeInv'
<1>1. UNCHANGED <<nudges, now, faults, run>> /\ faults \in Nat
  BY CampaignAssumption DEF Sign, DispatchInv, TypeOK
<1>2. \A e \in Delivery : /\ dlv'[e].reminders = dlv[e].reminders
                          /\ dlv'[e].last_reminder = dlv[e].last_reminder
  BY SMTT(30) DEF Sign, DispatchInv, TypeOK, DeliveryRow
<1>3. \A e \in Delivery : \A i \in DOMAIN nudges[e] : Recorded(e, i)' <=> Recorded(e, i)
  BY <1>1, <1>2 DEF Recorded
<1>4. ASSUME NEW e \in Delivery
      PROVE  /\ Cardinality(Reminded(e)) + faults <= Cardinality(Reminded(e)') + faults'
             /\ Cardinality(Holders(e)') <= Cardinality(Holders(e))
  <2>1. Reminded(e)' = Reminded(e) /\ Holders(e)' = Holders(e)
    BY <1>1 DEF Reminded, Holders, Has, HasInHand
  <2>2. Reminded(e) \in SUBSET Cron /\ Holders(e) \in SUBSET Cron
    BY DEF Reminded, Holders
  <2>3. Cardinality(Reminded(e)) \in Nat /\ Cardinality(Holders(e)) \in Nat
    BY <2>2, CronCounts
  <2> QED
    BY <1>1, <2>1, <2>3
<1>5. \A e \in Delivery : dlv'[e].reminders <= MaxReminders
  BY <1>2 DEF NudgeInv, NudgesSpread
<1> QED
  BY <1>1, <1>3, <1>4, <1>5, QuietInv

\* A run sends a reminder: it no longer may, and has not recorded it.
LEMMA NudgeSendInv ==
  ASSUME DispatchInv, DispatchInv', NudgeInv, NEW r \in Runner, ReminderSend(r)
  PROVE  NudgeInv'
<1>1. /\ run[r].op = "remind" /\ r \in Cron /\ run[r].delivery \in Delivery
      /\ run[r].todo \in SUBSET Delivery /\ run[r].delivery \notin run[r].todo
  BY RequestShape DEF ReminderSend, DispatchInv, TypeOK, RunnerKinds, RemindOps
<1>2. PICK d \in Delivery : d = run[r].delivery
  BY <1>1
<1>3. /\ run'[r].op = "reminded" /\ run'[r].delivery = d /\ run'[r].todo = run[r].todo
      /\ run'[r].at = now
      /\ \A s \in Runner \ {r} : run'[s] = run[s]
      /\ nudges' = [nudges EXCEPT ![d] = Append(nudges[d], now)]
      /\ UNCHANGED <<dlv, now, faults>>
  BY <1>2 DEF ReminderSend, DispatchInv, TypeOK
<1>4. Cron \subseteq Runner
  BY DEF Runner
<1>5. /\ now \in Nat /\ faults \in Nat /\ ReminderAfter \in Nat
      /\ \A e \in Delivery : nudges[e] \in Seq(Nat)
      /\ DOMAIN nudges = Delivery
  BY CampaignAssumption DEF DispatchInv, TypeOK
<1>6. PICK n \in Nat : n = Len(nudges[d])
  BY <1>5, LenProperties
<1>7. /\ nudges'[d] = Append(nudges[d], now) /\ \A e \in Delivery \ {d} : nudges'[e] = nudges[e]
      /\ DOMAIN nudges[d] = 1..n /\ DOMAIN nudges'[d] = 1..(n + 1) /\ Len(nudges'[d]) = n + 1
      /\ \A i \in 1..n : nudges'[d][i] = nudges[d][i]
      /\ nudges'[d][n + 1] = now
  <2>1. nudges'[d] = Append(nudges[d], now) /\ \A e \in Delivery \ {d} : nudges'[e] = nudges[e]
    BY <1>3, <1>5
  <2>2. /\ Len(Append(nudges[d], now)) = n + 1
        /\ \A i \in 1..n : Append(nudges[d], now)[i] = nudges[d][i]
        /\ Append(nudges[d], now)[n + 1] = now
        /\ Append(nudges[d], now) \in Seq(Nat)
    BY <1>5, <1>6, AppendProperties
  <2>3. DOMAIN nudges[d] = 1..n /\ DOMAIN nudges'[d] = 1..(n + 1)
    BY <1>5, <1>6, <2>1, <2>2, LenProperties
  <2> QED
    BY <2>1, <2>2, <2>3
<1>8. /\ \A i \in 1..n : nudges[d][i] \in Nat /\ nudges[d][i] <= now
      /\ \A i, j \in 1..n : i <= j => nudges[d][i] <= nudges[d][j]
  <2>1. \A i \in 1..n : nudges[d][i] \in Nat
    BY <1>5, <1>7
  <2> QED
    BY <1>7, <2>1 DEF NudgeInv, DaysInOrder
<1>9. /\ r \in Holders(d) /\ r \notin Reminded(d)
      /\ Reminded(d)' = Reminded(d) \cup {r}
      /\ Holders(d)' = Holders(d) \ {r}
  <2>1. r \in Holders(d) /\ r \notin Reminded(d)
    BY <1>1, <1>2 DEF Holders, Reminded, Has, HasInHand
  <2>2. ASSUME NEW s \in Cron PROVE s \in Reminded(d)' <=> s \in Reminded(d) \cup {r}
    BY <1>3, <1>4 DEF Reminded
  <2>3. ASSUME NEW s \in Cron PROVE s \in Holders(d)' <=> s \in Holders(d) \ {r}
    BY <1>3, <1>4 DEF Holders, Has, HasInHand
  <2>4. /\ Reminded(d)' \in SUBSET Cron /\ Reminded(d) \in SUBSET Cron
        /\ Holders(d)' \in SUBSET Cron /\ Holders(d) \in SUBSET Cron
    BY DEF Reminded, Holders
  <2> QED
    BY <1>1, <2>1, <2>2, <2>3, <2>4
<1>10. ASSUME NEW e \in Delivery \ {d}
       PROVE  Reminded(e)' = Reminded(e) /\ Holders(e)' = Holders(e)
  <2>1. ASSUME NEW s \in Cron PROVE s \in Reminded(e)' <=> s \in Reminded(e)
    BY <1>1, <1>3, <1>4 DEF Reminded
  <2>2. ASSUME NEW s \in Cron PROVE s \in Holders(e)' <=> s \in Holders(e)
    BY <1>1, <1>2, <1>3, <1>4 DEF Holders, Has, HasInHand
  <2>3. /\ Reminded(e)' \in SUBSET Cron /\ Reminded(e) \in SUBSET Cron
        /\ Holders(e)' \in SUBSET Cron /\ Holders(e) \in SUBSET Cron
    BY DEF Reminded, Holders
  <2> QED
    BY <2>1, <2>2, <2>3
<1>11. PICK h \in Nat, m \in Nat, c \in Nat :
         /\ h = Cardinality(Holders(d)) /\ m = Cardinality(Reminded(d))
         /\ c = Cardinality(Cron)
         /\ Cardinality(Holders(d)') = h - 1 /\ Cardinality(Reminded(d)') = m + 1
         /\ h + m <= c /\ h >= 1
  <2>1. /\ Reminded(d) \in SUBSET Cron /\ Holders(d) \in SUBSET Cron
        /\ Holders(d) \cap Reminded(d) = {}
    BY DEF Reminded, Holders
  <2>2. /\ Cardinality(Holders(d)) \in Nat /\ Cardinality(Reminded(d)) \in Nat
        /\ Cardinality(Cron) \in Nat
        /\ IsFiniteSet(Holders(d)) /\ IsFiniteSet(Reminded(d))
        /\ Cardinality(Holders(d)) + Cardinality(Reminded(d)) <= Cardinality(Cron)
    BY <2>1, CronCounts
  <2>3. Cardinality(Holders(d) \ {r}) = Cardinality(Holders(d)) - 1
    BY <1>9, <2>2, FS_RemoveElement
  <2>4. Cardinality(Reminded(d) \cup {r}) = Cardinality(Reminded(d)) + 1
    BY <1>9, <2>2, FS_AddElement
  <2>5. Holders(d) \ {r} \in SUBSET Cron
    BY <2>1
  <2>6. Cardinality(Holders(d) \ {r}) \in Nat
    BY <2>5, CronCounts
  <2>7. Cardinality(Holders(d)) >= 1
    BY <2>2, <2>3, <2>6
  <2> QED
    BY <1>9, <2>2, <2>3, <2>4, <2>7
<1>12. \A i \in 1..n : Recorded(d, i)' <=> Recorded(d, i)
  BY <1>3, <1>7 DEF Recorded
<1>13. \A i \in 1..n :
         /\ ~Recorded(d, i) => n - i + 1 <= m + faults
         /\ Recorded(d, i) /\ nudges[d][i] + ReminderAfter > now => n - i + 1 + h <= c + faults
  BY <1>6, <1>7, <1>11 DEF NudgeInv, NudgesAccounted
<1>14. DaysInOrder'
  <2>1. ASSUME NEW s \in Runner, run'[s].op = "reminded" PROVE run'[s].at = now'
    BY <1>3, <2>1 DEF NudgeInv, DaysInOrder
  <2>2. ASSUME NEW i \in 1..(n + 1), NEW j \in 1..(n + 1)
        PROVE  nudges'[d][i] <= now /\ (i <= j => nudges'[d][i] <= nudges'[d][j])
    <3>1. (i \in 1..n \/ i = n + 1) /\ (j \in 1..n \/ j = n + 1)
      OBVIOUS
    <3>2. nudges'[d][i] <= now
      BY <1>5, <1>7, <1>8, <3>1
    <3>3. ASSUME i <= j PROVE nudges'[d][i] <= nudges'[d][j]
      <4>1. CASE j = n + 1
        BY <1>7, <3>2, <4>1
      <4>2. CASE j \in 1..n
        <5>1. i \in 1..n
          BY <3>3, <4>2
        <5> QED
          BY <1>7, <1>8, <3>3, <4>2, <5>1
      <4> QED
        BY <3>1, <4>1, <4>2
    <3> QED
      BY <3>2, <3>3
  <2>3. ASSUME NEW e \in Delivery, NEW i \in DOMAIN nudges'[e], NEW j \in DOMAIN nudges'[e]
        PROVE  nudges'[e][i] <= now' /\ (i <= j => nudges'[e][i] <= nudges'[e][j])
    <3>1. CASE e = d
      BY <1>3, <1>7, <2>2, <3>1
    <3>2. CASE e # d
      BY <1>3, <1>7, <3>2 DEF NudgeInv, DaysInOrder
    <3> QED
      BY <3>1, <3>2
  <2> QED
    BY <2>1, <2>3 DEF DaysInOrder
<1>15. NudgesAccounted'
  <2>0. faults' = faults /\ now' = now
    BY <1>3
  <2>1. ASSUME NEW i \in 1..(n + 1)
        PROVE  /\ ~Recorded(d, i)' =>
                    Len(nudges'[d]) - i + 1 <= Cardinality(Reminded(d)') + faults'
               /\ Recorded(d, i)' /\ nudges'[d][i] + ReminderAfter > now' =>
                    Len(nudges'[d]) - i + 1 + Cardinality(Holders(d)')
                      <= Cardinality(Cron) + faults'
    <3>1. CASE i \in 1..n
      <4>1. /\ ~Recorded(d, i)' => n - i + 1 <= m + faults
            /\ Recorded(d, i)' /\ nudges'[d][i] + ReminderAfter > now =>
                 n - i + 1 + h <= c + faults
        BY <1>7, <1>12, <1>13, <3>1
      <4>2. Len(nudges'[d]) - i + 1 = (n - i + 1) + 1 /\ n - i + 1 \in Int
        BY <1>7, <3>1
      <4>3. ~Recorded(d, i)' => Len(nudges'[d]) - i + 1 <= (m + 1) + faults
        BY <1>5, <4>1, <4>2
      <4>4. Recorded(d, i)' /\ nudges'[d][i] + ReminderAfter > now =>
              Len(nudges'[d]) - i + 1 + (h - 1) <= c + faults
        BY <1>5, <4>1, <4>2
      <4>5. (m + 1) + faults = Cardinality(Reminded(d)') + faults'
        BY <1>11, <2>0
      <4>6. h - 1 = Cardinality(Holders(d)') /\ c + faults = Cardinality(Cron) + faults'
        BY <1>11, <2>0
      <4>7. ~Recorded(d, i)' => Len(nudges'[d]) - i + 1 <= Cardinality(Reminded(d)') + faults'
        BY <4>3, <4>5
      <4>8. Recorded(d, i)' /\ nudges'[d][i] + ReminderAfter > now' =>
              Len(nudges'[d]) - i + 1 + Cardinality(Holders(d)') <= Cardinality(Cron) + faults'
        BY <2>0, <4>4, <4>6
      <4> QED
        BY <4>7, <4>8
    <3>2. CASE i = n + 1
      <4>1. Len(nudges'[d]) - i + 1 = 1
        BY <1>7, <3>2
      <4>2. Len(nudges'[d]) - i + 1 <= (m + 1) + faults
        <5>1. m \in Nat /\ faults \in Nat
          BY <1>5
        <5>2. 1 <= (m + 1) + faults
          BY <5>1
        <5> QED
          BY <4>1, <5>2
      <4>3. Len(nudges'[d]) - i + 1 + (h - 1) <= c + faults
        <5>1. 1 + (h - 1) <= c + faults
          <6>1. h + m <= c /\ faults \in Nat
            BY <1>5, <1>11
          <6> QED
            BY <6>1
        <5> QED
          BY <4>1, <5>1
      <4>4. Len(nudges'[d]) - i + 1 <= Cardinality(Reminded(d)') + faults'
        <5>1. (m + 1) + faults = Cardinality(Reminded(d)') + faults'
          BY <1>11, <2>0
        <5> QED
          BY <4>2, <5>1
      <4>5. Len(nudges'[d]) - i + 1 + Cardinality(Holders(d)') <= Cardinality(Cron) + faults'
        BY <1>11, <2>0, <4>3
      <4> QED
        BY <4>4, <4>5
    <3> QED
      BY <3>1, <3>2
  <2>2. ASSUME NEW e \in Delivery, e # d, NEW i \in DOMAIN nudges'[e]
        PROVE  /\ ~Recorded(e, i)' =>
                    Len(nudges'[e]) - i + 1 <= Cardinality(Reminded(e)') + faults'
               /\ Recorded(e, i)' /\ nudges'[e][i] + ReminderAfter > now' =>
                    Len(nudges'[e]) - i + 1 + Cardinality(Holders(e)')
                      <= Cardinality(Cron) + faults'
    <3>1. Recorded(e, i)' <=> Recorded(e, i)
      BY <1>3, <1>7, <2>2 DEF Recorded
    <3>2. Reminded(e)' = Reminded(e) /\ Holders(e)' = Holders(e)
      BY <1>10, <2>2
    <3> QED
      BY <1>3, <1>7, <2>2, <3>1, <3>2 DEF NudgeInv, NudgesAccounted
  <2> QED
    BY <1>7, <2>1, <2>2 DEF NudgesAccounted
<1>16. NudgesSpread'
  <2>1. ASSUME NEW i \in 1..(n + 1), NEW j \in 1..(n + 1), j - i >= c + faults
        PROVE  nudges'[d][j] - nudges'[d][i] >= ReminderAfter
    <3>1. i \in 1..n
      BY <1>5, <1>11, <2>1
    <3>2. CASE j \in 1..n
      <4>1. nudges[d][j] - nudges[d][i] >= ReminderAfter
        BY <1>7, <1>11, <2>1, <3>1, <3>2 DEF NudgeInv, NudgesSpread
      <4> QED
        BY <1>7, <3>1, <3>2, <4>1
    <3>3. CASE j = n + 1
      <4>1. ASSUME ~Recorded(d, i) PROVE FALSE
        <5>1. n - i + 1 <= m + faults
          BY <1>13, <3>1, <4>1
        <5>2. h >= 1 /\ h + m <= c /\ {h, m, c, faults} \subseteq Nat
          BY <1>5, <1>11
        <5>3. n \in Nat /\ i \in Nat /\ (n + 1) - i >= c + faults
          BY <1>5, <2>1, <3>1, <3>3
        <5>4. c + faults > m + faults
          BY <5>2
        <5> QED
          BY <5>1, <5>2, <5>3, <5>4
      <4>2. ASSUME nudges[d][i] + ReminderAfter > now PROVE FALSE
        <5>1. n - i + 1 + h <= c + faults
          BY <1>13, <3>1, <4>1, <4>2
        <5>2. h >= 1 /\ h \in Nat /\ c \in Nat /\ faults \in Nat
          BY <1>5, <1>11
        <5>3. n \in Nat /\ i \in Nat /\ (n + 1) - i >= c + faults
          BY <1>5, <2>1, <3>1, <3>3
        <5>4. n - i + 1 >= c + faults
          BY <5>2, <5>3
        <5> QED
          BY <5>1, <5>2, <5>3, <5>4
      <4>3. nudges'[d][j] = now /\ nudges'[d][i] = nudges[d][i]
        BY <1>7, <3>1, <3>3
      <4>4. PICK a \in Nat, b \in Nat, w \in Nat :
              a = nudges[d][i] /\ b = now /\ w = ReminderAfter
        BY <1>5, <1>8, <3>1
      <4>5. ~(a + w > b)
        BY <4>2, <4>4
      <4>6. b - a >= w
        BY <4>5
      <4> QED
        BY <4>3, <4>4, <4>6
    <3> QED
      BY <3>2, <3>3
  <2>2. ASSUME NEW e \in Delivery, NEW i \in DOMAIN nudges'[e], NEW j \in DOMAIN nudges'[e],
               j - i >= Cardinality(Cron) + faults'
        PROVE  nudges'[e][j] - nudges'[e][i] >= ReminderAfter
    <3>1. CASE e = d
      BY <1>3, <1>7, <1>11, <2>1, <2>2, <3>1
    <3>2. CASE e # d
      BY <1>3, <1>7, <2>2, <3>2 DEF NudgeInv, NudgesSpread
    <3> QED
      BY <3>1, <3>2
  <2>3. \A e \in Delivery : dlv'[e].reminders <= MaxReminders
    BY <1>3 DEF NudgeInv, NudgesSpread
  <2> QED
    BY <2>2, <2>3 DEF NudgesSpread
<1> QED
  BY <1>14, <1>15, <1>16 DEF NudgeInv

\* What a run has sent is recorded with the day it was sent on.
LEMMA NudgeCommitInv ==
  ASSUME DispatchInv, DispatchInv', NudgeInv, NEW r \in Runner, ReminderCommit(r)
  PROVE  NudgeInv'
<1>1. /\ run[r].op = "reminded" /\ r \in Cron /\ run[r].delivery \in Delivery
      /\ run[r].todo \in SUBSET Delivery /\ run[r].delivery \notin run[r].todo
      /\ run[r].reminders \in 0..(MaxReminders - 1) /\ run[r].at = now
  BY RequestShape
  DEF ReminderCommit, DispatchInv, TypeOK, RunnerKinds, RemindOps, NudgeInv, DaysInOrder
<1>2. PICK d \in Delivery, todo \in SUBSET Delivery :
        d = run[r].delivery /\ todo = run[r].todo
  BY <1>1
<1>3. Cron \subseteq Runner /\ DOMAIN run = Runner /\ dlv[d] \in DeliveryRow
  BY DEF Runner, DispatchInv, TypeOK
<1>4. /\ run' = [run EXCEPT ![r] = Batch("batch", todo)]
      /\ dlv' = [dlv EXCEPT ![d].last_reminder = now, ![d].reminders = run[r].reminders + 1]
      /\ UNCHANGED <<nudges, now, faults>>
  BY <1>1, <1>2 DEF ReminderCommit
<1>5. PICK x \in 1..MaxReminders : x = run[r].reminders + 1
  BY <1>1, CampaignAssumption
<1>6. /\ dlv'[d].reminders = x /\ dlv'[d].last_reminder = now
      /\ \A e \in Delivery \ {d} : dlv'[e] = dlv[e]
  BY <1>3, <1>4, <1>5 DEF DispatchInv, TypeOK, DeliveryRow
<1>7. /\ run'[r].op # "reminded" /\ \A s \in Runner \ {r} : run'[s] = run[s]
      /\ \A e \in Delivery : Has(r, e)' <=> e \in todo
  <2>1. run'[r] = Batch("batch", todo) /\ \A s \in Runner \ {r} : run'[s] = run[s]
    BY <1>3, <1>4
  <2>2. CASE todo = {}
    <3>1. run'[r].op = "idle"
      BY <2>1, <2>2 DEF Batch, Idle
    <3> QED
      BY <2>1, <2>2, <3>1 DEF Has, HasInHand
  <2>3. CASE todo # {}
    <3>1. run'[r].op = "batch" /\ run'[r].todo = todo
      BY <2>1, <2>3 DEF Batch
    <3> QED
      BY <2>1, <3>1 DEF Has, HasInHand
  <2> QED
    BY <2>2, <2>3
<1>8. \A e \in Delivery : Holders(e)' = Holders(e)
  <2>1. ASSUME NEW e \in Delivery, NEW s \in Cron PROVE s \in Holders(e)' <=> s \in Holders(e)
    <3>1. CASE s = r
      <4>1. s \in Holders(e)' <=> e \in todo
        BY <1>7, <2>1, <3>1 DEF Holders
      <4>2. s \in Holders(e) <=> e \in todo
        BY <1>1, <1>2, <2>1, <3>1 DEF Holders, Has, HasInHand
      <4> QED
        BY <4>1, <4>2
    <3>2. CASE s # r
      BY <1>3, <1>7, <3>2 DEF Holders, Has, HasInHand
    <3> QED
      BY <3>1, <3>2
  <2>2. \A e \in Delivery : Holders(e)' \in SUBSET Cron /\ Holders(e) \in SUBSET Cron
    BY DEF Holders
  <2> QED
    BY <2>1, <2>2
<1>9. ASSUME NEW e \in Delivery \ {d} PROVE Reminded(e)' = Reminded(e)
  <2>1. ASSUME NEW s \in Cron PROVE s \in Reminded(e)' <=> s \in Reminded(e)
    BY <1>2, <1>3, <1>7 DEF Reminded
  <2>2. Reminded(e)' \in SUBSET Cron /\ Reminded(e) \in SUBSET Cron
    BY DEF Reminded
  <2> QED
    BY <2>1, <2>2
<1>10. /\ now \in Nat /\ faults \in Nat /\ ReminderAfter \in Nat
       /\ now' = now /\ faults' = faults /\ nudges' = nudges
       /\ \A e \in Delivery : nudges[e] \in Seq(Nat)
  BY <1>4, CampaignAssumption DEF DispatchInv, TypeOK
<1>11. \A i \in DOMAIN nudges[d] : Recorded(d, i)'
  BY <1>5, <1>6, <1>10 DEF Recorded, NudgeInv, DaysInOrder
<1>12. DaysInOrder'
  <2>1. \A s \in Runner : run'[s].op = "reminded" => run'[s].at = now'
    BY <1>7, <1>10 DEF NudgeInv, DaysInOrder
  <2> QED
    BY <1>10, <2>1 DEF NudgeInv, DaysInOrder
<1>13. NudgesAccounted'
  <2>1. ASSUME NEW i \in DOMAIN nudges[d], nudges[d][i] + ReminderAfter > now
        PROVE  Len(nudges[d]) - i + 1 + Cardinality(Holders(d)) <= Cardinality(Cron) + faults
    <3>1. CASE Recorded(d, i)
      BY <2>1, <3>1 DEF NudgeInv, NudgesAccounted
    <3>2. CASE ~Recorded(d, i)
      <4>1. /\ Reminded(d) \in SUBSET Cron /\ Holders(d) \in SUBSET Cron
            /\ Holders(d) \cap Reminded(d) = {}
        BY DEF Reminded, Holders
      <4>2. PICK h \in Nat, m \in Nat, c \in Nat :
              /\ h = Cardinality(Holders(d)) /\ m = Cardinality(Reminded(d))
              /\ c = Cardinality(Cron) /\ h + m <= c
        BY <4>1, CronCounts
      <4>3. PICK k \in Int : k = Len(nudges[d]) - i + 1
        BY <1>10, LenProperties
      <4>4. k <= m + faults
        BY <3>2, <4>2, <4>3 DEF NudgeInv, NudgesAccounted
      <4>5. k + h <= c + faults
        BY <1>10, <4>2, <4>4
      <4> QED
        BY <4>2, <4>3, <4>5
    <3> QED
      BY <3>1, <3>2
  <2>2. ASSUME NEW e \in Delivery, NEW i \in DOMAIN nudges[e]
        PROVE  /\ ~Recorded(e, i)' =>
                    Len(nudges[e]) - i + 1 <= Cardinality(Reminded(e)') + faults
               /\ Recorded(e, i)' /\ nudges[e][i] + ReminderAfter > now =>
                    Len(nudges[e]) - i + 1 + Cardinality(Holders(e)') <= Cardinality(Cron) + faults
    <3>1. CASE e = d
      BY <1>8, <1>11, <2>1, <2>2, <3>1
    <3>2. CASE e # d
      <4>1. Recorded(e, i)' <=> Recorded(e, i)
        BY <1>6, <1>10, <3>2 DEF Recorded
      <4>2. Holders(e)' = Holders(e) /\ Reminded(e)' = Reminded(e)
        BY <1>8, <1>9, <3>2
      <4> QED
        BY <2>2, <4>1, <4>2 DEF NudgeInv, NudgesAccounted
    <3> QED
      BY <3>1, <3>2
  <2> QED
    BY <1>10, <2>2 DEF NudgesAccounted
<1>14. NudgesSpread'
  <2>1. \A e \in Delivery : dlv'[e].reminders <= MaxReminders
    <3>1. x <= MaxReminders
      BY <1>5
    <3> QED
      BY <1>6, <3>1 DEF NudgeInv, NudgesSpread
  <2> QED
    BY <1>10, <2>1 DEF NudgeInv, NudgesSpread
<1> QED
  BY <1>12, <1>13, <1>14 DEF NudgeInv

\* No day passes while a reminder is on its way, and days close windows only.
LEMMA NudgeTickInv ==
  ASSUME DispatchInv, NudgeInv, Tick
  PROVE  NudgeInv'
<1>1. /\ UNCHANGED <<dlv, run, faults, nudges>> /\ now' = now + 1 /\ now \in Nat
      /\ ReminderAfter \in Nat /\ \A d \in Delivery : nudges[d] \in Seq(Nat)
  BY CampaignAssumption DEF Tick, DispatchInv, TypeOK
<1>2. DaysInOrder'
  <2>1. \A d \in Delivery : \A i, j \in DOMAIN nudges[d] :
          /\ nudges[d][i] \in Nat /\ nudges[d][i] <= now
          /\ i <= j => nudges[d][i] <= nudges[d][j]
    BY <1>1 DEF NudgeInv, DaysInOrder
  <2>2. \A d \in Delivery : \A i \in DOMAIN nudges[d] : nudges[d][i] <= now + 1
    BY <1>1, <2>1
  <2>3. \A r \in Runner : run[r].op # "reminded"
    BY DEF Tick
  <2> QED
    BY <1>1, <2>1, <2>2, <2>3 DEF DaysInOrder
<1>3. NudgesAccounted'
  <2>1. ASSUME NEW d \in Delivery, NEW i \in DOMAIN nudges[d]
        PROVE  /\ Recorded(d, i)' <=> Recorded(d, i)
               /\ nudges[d][i] + ReminderAfter > now' => nudges[d][i] + ReminderAfter > now
    <3>1. nudges[d][i] \in Nat
      BY <1>1
    <3> QED
      BY <1>1, <3>1 DEF Recorded
  <2>2. \A d \in Delivery : Reminded(d)' = Reminded(d) /\ Holders(d)' = Holders(d)
    BY <1>1 DEF Reminded, Holders, Has, HasInHand
  <2> QED
    BY <1>1, <2>1, <2>2 DEF NudgeInv, NudgesAccounted
<1>4. NudgesSpread'
  BY <1>1 DEF NudgeInv, NudgesSpread
<1> QED
  BY <1>2, <1>3, <1>4 DEF NudgeInv

LEMMA NudgeNextInv == DispatchInv /\ DispatchInv' /\ NudgeInv /\ [Next]_vars => NudgeInv'
<1> SUFFICES ASSUME DispatchInv, DispatchInv', NudgeInv, [Next]_vars PROVE NudgeInv'
  OBVIOUS
<1>1. Editor \subseteq Runner /\ Sender \subseteq Runner /\ Cron \subseteq Runner
  BY DEF Runner
<1>2. CASE \/ \E r \in Editor, t \in Template,
                op \in {"activate", "deactivate", "complete", "reopen"} : TemplateRead(r, t, op)
           \/ \E r \in Sender, c \in Campaign : CreateRead(r, c)
           \/ \E r \in Cron : RemindersRead(r)
  BY <1>1, <1>2, QuietRequestsInv, QuietRunInv DEF TemplateOps
<1>3. ASSUME NEW r \in Runner, Proceed(r) PROVE NudgeInv'
  BY <1>3, QuietRequestsInv, QuietCreateInv, QuietDispatchInv, QuietRunInv, NudgeSendInv,
     NudgeCommitInv DEF Proceed
<1>4. ASSUME NEW r \in Runner, Crash(r) PROVE NudgeInv'
  BY <1>4, NudgeCrashInv
<1>5. CASE (\E d \in Delivery : Sign(d)) \/ Tick
  BY <1>5, NudgeSignInv, NudgeTickInv
<1>6. CASE UNCHANGED vars
  <2>1. UNCHANGED <<dlv, run, now, faults, nudges>>
    BY <1>6 DEF vars
  <2>2. \A d \in Delivery : Reminded(d)' = Reminded(d) /\ Holders(d)' = Holders(d)
    BY <2>1 DEF Reminded, Holders, Has, HasInHand
  <2>3. \A d \in Delivery : \A i \in DOMAIN nudges[d] : Recorded(d, i)' <=> Recorded(d, i)
    BY <2>1 DEF Recorded
  <2>4. DaysInOrder' /\ NudgesAccounted' /\ NudgesSpread'
    BY <2>1, <2>2, <2>3 DEF NudgeInv, DaysInOrder, NudgesAccounted, NudgesSpread
  <2> QED
    BY <2>4 DEF NudgeInv
<1> QED
  BY <1>2, <1>3, <1>4, <1>5, <1>6 DEF Next

\* Within reminder_after_days a parent is reminded of a delivery at most as
\* often as reminder runs overlap, and once more per process that died, and
\* the recorded count never passes MAX_REMINDERS.
THEOREM RemindersSpread == Spec => []NudgesSpread
<1>1. NudgeInv => NudgesSpread
  BY DEF NudgeInv
<1> QED
  BY <1>1, NudgeInitInv, NudgeNextInv, DispatchInvAlways, PTL DEF Spec
=============================================================================
