------------------------------- MODULE PushJobs -------------------------------
(***************************************************************************)
(* Push notifications of a coach: devices and preferences (api/push.py)    *)
(* and the cron run that reminds of what is on the calendar                *)
(* (services/push_service.py).  The job for inactive coaches is left out:  *)
(* it looks at users.last_seen_at, which nothing sets.                     *)
(*                                                                         *)
(* A run is one transaction that pushes as it goes and commits at the end. *)
(***************************************************************************)
EXTENDS Integers, Functions

CONSTANTS
  Coach, Device, Meeting,
  PushRun,     \* cron runs that may be in flight
  DayHours,    \* hours of a day
  CapHours, DedupHours,
  Lead, After, \* hours before the start, and after it, at which to remind
  MaxHour      \* bound of the clock

ASSUME PushAssumption ==
  DayHours \in Nat \ {0} /\ CapHours \in Nat /\ DedupHours \in Nat /\ Lead \in Nat /\ After \in Nat

VARIABLES
  hour,
  prefs,       \* the push columns of users
  device,      \* push_subscriptions: whose each endpoint is
  pushLog,     \* push_log
  diary,       \* the events of the calendar, with the coach of their team
  jobs,        \* the cron runs
  pushed       \* history: the last reminder each coach got

pushVars == <<hour, prefs, device, pushLog, diary, jobs, pushed>>

Nobody == "nobody"
Resting == [stage |-> "rest", since |-> 0, todo |-> {}, log |-> {}, swept |-> {}]

\* The quiet hours to choose from: none, or a window that wraps midnight.
Windows == {[start |-> 0, end |-> 0], [start |-> DayHours - 1, end |-> 1]}

PushInit ==
  /\ hour = 0
  /\ prefs \in [Coach -> {[on |-> FALSE, quiet |-> w] : w \in Windows}]
  /\ device = [d \in Device |-> Nobody]
  /\ pushLog = {}
  /\ diary \in [Meeting -> [coach : Coach, hour : 0..MaxHour, summed : {FALSE}]]
  /\ jobs = [r \in PushRun |-> Resting]
  /\ pushed = [c \in Coach |-> [at |-> -1, run |-> Nobody, lost |-> TRUE]]

-----------------------------------------------------------------------------
(* Devices and preferences *)

\* save_subscription moves the row of the endpoint to this user; it fails if a
\* run is deleting that row.
Subscribe(c, d) ==
  /\ \A r \in PushRun : d \notin jobs[r].swept
  /\ device' = [device EXCEPT ![d] = c]
  /\ prefs' = [prefs EXCEPT ![c].on = TRUE]
  /\ UNCHANGED <<hour, pushLog, diary, jobs, pushed>>

\* push_unsubscribe: the endpoint sent, whosever it is, and the flag of the user.
Unsubscribe(c, gone) ==
  /\ device' = [d \in Device |-> IF d \in gone THEN Nobody ELSE device[d]]
  /\ prefs' = [prefs EXCEPT ![c].on = FALSE]
  /\ UNCHANGED <<hour, pushLog, diary, jobs, pushed>>

SetPreferences(c, on, w) ==
  /\ prefs' = [prefs EXCEPT ![c] = [on |-> on, quiet |-> w]]
  /\ UNCHANGED <<hour, device, pushLog, diary, jobs, pushed>>

-----------------------------------------------------------------------------
(* The calendar, as the jobs see it *)

\* The event is moved, gets another coach, or its attendance or notes.
ChangeDiary(e, c, h) ==
  /\ diary' = [diary EXCEPT ![e] = [coach |-> c, hour |-> h, summed |-> FALSE]]
  /\ UNCHANGED <<hour, prefs, device, pushLog, jobs, pushed>>

SumUp(e) ==
  /\ diary[e].hour <= hour
  /\ diary' = [diary EXCEPT ![e].summed = TRUE]
  /\ UNCHANGED <<hour, prefs, device, pushLog, jobs, pushed>>

\* Rows that no gate looks at any more are forgotten.
Tick ==
  /\ hour < MaxHour
  /\ hour' = hour + 1
  /\ pushLog' = {l \in pushLog : \/ l.at >= hour' - DedupHours /\ l.kind # "test"
                                 \/ l.at >= hour' - CapHours /\ l.sent}
  /\ UNCHANGED <<prefs, device, diary, jobs, pushed>>

-----------------------------------------------------------------------------
(* The gates of send_push_to_user *)

DevicesOf(c, swept) == {d \in Device \ swept : device[d] = c}

InQuietHours(w) ==
  LET h == hour % DayHours
  IN IF w.start < w.end THEN w.start <= h /\ h < w.end
     ELSE w.start # w.end /\ (h >= w.start \/ h < w.end)

\* Fault: each kind of reminder has a cap of its own.
HasRecentSend_Kind(c, log, kind) ==
  \E l \in log : l.coach = c /\ l.sent /\ l.at >= hour - CapHours /\ l.kind = kind

\* has_recent_send: whatever was sent, test pushes too.
HasRecentSend(c, log, kind) ==
  \E l \in log : l.coach = c /\ l.sent /\ l.at >= hour - CapHours

\* The row of this reminder, sent or not, of the last hours.
Duplicate(x, kind, log) ==
  \E l \in log : /\ l.coach = x.coach /\ l.kind = kind /\ l.event = x.event
                 /\ l.at >= hour - DedupHours

Gated(c, kind, log) ==
  \/ ~ prefs[c].on
  \/ InQuietHours(prefs[c].quiet)
  \/ HasRecentSend(c, log, kind)

Row(c, kind, e, sent, at) == [coach |-> c, kind |-> kind, event |-> e, sent |-> sent, at |-> at]

\* send_test_push, which skips the flag, the quiet hours and the cap; nothing
\* looks at the row of one that failed.
TestPush(c, works, dead) ==
  LET mine == DevicesOf(c, {})
  IN /\ dead \subseteq mine
     /\ works => mine \ dead # {}
     /\ \A r \in PushRun : jobs[r].swept \cap mine = {}
     /\ pushLog' = IF works THEN pushLog \cup {Row(c, "test", Nobody, TRUE, hour)} ELSE pushLog
     /\ device' = [d \in Device |-> IF d \in dead THEN Nobody ELSE device[d]]
     /\ UNCHANGED <<hour, prefs, diary, jobs, pushed>>

-----------------------------------------------------------------------------
(* The cron run *)

InFlight(r) == jobs[r].stage # "rest"

Asked(events) == {[event |-> e, coach |-> diary[e].coach] : e \in events}

\* _run_event_3h_reminder looks for what begins about then.
LeadRead(r) ==
  /\ ~ InFlight(r)
  /\ jobs' = [jobs EXCEPT ![r] = [Resting EXCEPT !.stage = "calendar_3h", !.since = hour,
       !.todo = Asked({e \in Meeting : diary[e].hour = hour + Lead})]]
  /\ UNCHANGED <<hour, prefs, device, pushLog, diary, pushed>>

\* _run_event_summary_reminder looks for what ended about an hour ago.
SummaryRead(r) ==
  /\ jobs[r].stage = "calendar_3h" /\ jobs[r].todo = {}
  /\ jobs' = [jobs EXCEPT ![r].stage = "calendar_summary",
       ![r].todo = Asked({e \in Meeting : diary[e].hour + After = hour})]
  /\ UNCHANGED <<hour, prefs, device, pushLog, diary, pushed>>

\* The next reminder of the list is dropped, refused or pushed to the devices,
\* some of which answer that they are gone.
Remind(r, x, works, dead) ==
  LET kind == jobs[r].stage
      log  == pushLog \cup jobs[r].log
      mine == DevicesOf(x.coach, jobs[r].swept)
      rest == jobs[r].todo \ {x}
      needless == \/ Duplicate(x, kind, log)
                  \/ kind = "calendar_summary" /\ diary[x.event].summed
      refused == Gated(x.coach, kind, log) \/ mine = {}
  IN /\ x \in jobs[r].todo
     /\ IF needless \/ refused
        THEN ~ works /\ dead = {} ELSE dead \subseteq mine /\ (works => mine \ dead # {})
     /\ jobs' = [jobs EXCEPT ![r].todo = rest,
          ![r].log = IF needless THEN @
                     ELSE @ \cup {Row(x.coach, kind, x.event, works, jobs[r].since)},
          ![r].swept = @ \cup dead]
     /\ pushed' = IF works
                  THEN [pushed EXCEPT ![x.coach] = [at |-> jobs[r].since, run |-> r, lost |-> FALSE]]
                  ELSE pushed
     /\ UNCHANGED <<hour, prefs, device, pushLog, diary>>

\* The only commit of run_push_jobs
CommitRun(r) ==
  /\ jobs[r].stage = "calendar_summary" /\ jobs[r].todo = {}
  /\ pushLog' = pushLog \cup jobs[r].log
  /\ device' = [d \in Device |-> IF d \in jobs[r].swept THEN Nobody ELSE device[d]]
  /\ jobs' = [jobs EXCEPT ![r] = Resting]
  /\ UNCHANGED <<hour, prefs, diary, pushed>>

\* A run in flight has pushed to the coach, and no other run can know.
Unseen(c, r) == \E l \in jobs[r].log : l.coach = c /\ l.sent

\* An exception or a crash: what was pushed has no row.
RollBackRun(r) ==
  /\ InFlight(r)
  /\ jobs' = [jobs EXCEPT ![r] = Resting]
  /\ pushed' = [c \in Coach |-> IF pushed[c].run = r /\ Unseen(c, r)
                                THEN [pushed[c] EXCEPT !.lost = TRUE] ELSE pushed[c]]
  /\ UNCHANGED <<hour, prefs, device, pushLog, diary>>

-----------------------------------------------------------------------------

CoachNext ==
  \/ \E c \in Coach :
       \/ \E d \in Device : Unsubscribe(c, {d})
       \/ Unsubscribe(c, {})
       \/ \E on \in BOOLEAN, w \in Windows : SetPreferences(c, on, w)
       \/ \E e \in Meeting, h \in 0..MaxHour : ChangeDiary(e, c, h)
  \/ \E e \in Meeting : SumUp(e)

PushNext ==
  \/ Tick
  \/ \E c \in Coach :
       \/ \E d \in Device : Subscribe(c, d)
       \/ \E works \in BOOLEAN, dead \in SUBSET Device : TestPush(c, works, dead)
  \/ \E r \in PushRun :
       \/ LeadRead(r) \/ SummaryRead(r) \/ CommitRun(r) \/ RollBackRun(r)
       \/ \E x \in jobs[r].todo, works \in BOOLEAN, dead \in SUBSET Device :
            Remind(r, x, works, dead)

\* The rows of a run are of its own time, and no device is swept twice.
PushTypeOK ==
  /\ device \in [Device -> Coach \cup {Nobody}]
  /\ \A r \in PushRun :
       /\ jobs[r].since \in 0..hour
       /\ \A l \in jobs[r].log : l.at = jobs[r].since
       /\ ~ InFlight(r) => jobs[r] = Resting
  /\ \A l \in pushLog : l.coach \in Coach /\ l.at \in 0..hour

-----------------------------------------------------------------------------
(* Properties *)

\* A coach gets no second reminder, of whatever event, within the hours of the
\* cap, counted from the start of the run that pushed the first: unless that
\* run still goes on, or was rolled back, so that no row tells of it
\* (send_push_to_user, has_recent_send, run_push_jobs).
RemindersSpaced ==
  [][\A r \in PushRun : \A l \in jobs'[r].log \ jobs[r].log :
       LET last == pushed[l.coach]
       IN l.sent => \/ last.lost
                    \/ last.run # r /\ Unseen(l.coach, last.run)
                    \/ hour - last.at > CapHours]_pushVars
=============================================================================
