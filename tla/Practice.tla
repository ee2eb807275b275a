------------------------------- MODULE Practice -------------------------------
(***************************************************************************)
(* The calendar of the teams: practices that a manager schedules for       *)
(* several teams at once (api/org_practice.py), events of the coach        *)
(* (api/coach_practice.py), series of both, and the attendance sheet of an *)
(* event.                                                                  *)
(*                                                                         *)
(* A series is a name that its events share.  An event of a series that    *)
(* the coach has edited alone points to another event of the series, and   *)
(* goes with it when that one is deleted (ON DELETE CASCADE).              *)
(***************************************************************************)
EXTENDS Integers, FiniteSets, FiniteSetsExt, Functions

CONSTANTS
  Squad,       \* the teams
  Coached,     \* those of the coach
  Marker,      \* attendance requests that may be in flight
  Week,        \* days of a week
  LastDay,     \* bound: days of the calendar
  MaxEvent,    \* bound: events at any time
  MaxSeries    \* bound: series made

ASSUME PracticeAssumption ==
  /\ IsFiniteSet(Squad) /\ Coached \subseteq Squad
  /\ Week \in Nat \ {0} /\ LastDay \in Nat /\ MaxEvent \in Nat

VARIABLES
  events,      \* practice_sessions: team, day, series and parent, by id
  series,      \* how many series were made
  sheets,      \* how many attendance entries each event has
  marking      \* attendance requests that have looked for the entry

practiceVars == <<events, series, sheets, marking>>

NoSeries == 0
NoEvent == 0
NotMarking == [event |-> NoEvent, new |-> FALSE, raced |-> FALSE]
NoSheet == [count |-> 0, raced |-> FALSE]

PracticeInit ==
  /\ events = <<>>
  /\ series = 0
  /\ sheets = <<>>
  /\ marking = [k \in Marker |-> NotMarking]

Ids == DOMAIN events

-----------------------------------------------------------------------------
(* Scheduling *)

\* One event for each team and day; they share a series if there are several,
\* or if one is said to recur.
AddEvents(teams, days, recurring) ==
  LET new == teams \X days
      n == Cardinality(new)
      s == IF recurring THEN series + 1 ELSE NoSeries
      free == CHOOSE f \in [1..n -> (1..MaxEvent) \ Ids] : IsInjective(f)
      nth == CHOOSE f \in [1..n -> new] : IsInjective(f)
  IN /\ n > 0 /\ Cardinality(Ids) + n <= MaxEvent
     /\ s <= MaxSeries
     /\ series' = IF recurring THEN s ELSE series
     /\ events' = [e \in Ids \cup Range(free) |->
          IF e \in Ids THEN events[e]
          ELSE LET x == nth[CHOOSE i \in 1..n : free[i] = e]
               IN [team |-> x[1], day |-> x[2], series |-> s, parent |-> NoEvent]]
     /\ sheets' = [e \in DOMAIN events' |-> IF e \in Ids THEN sheets[e] ELSE NoSheet]
     /\ UNCHANGED marking

\* create_practice, by someone whose scope has every team (_resolve_team_scope).
CreatePractice(teams, day, until, weekly) ==
  /\ weekly => until >= day
  /\ AddEvents(teams,
       IF weekly THEN {d \in day..until : (d - day) % Week = 0} ELSE {day},
       weekly \/ Cardinality(teams) > 1)

\* _expand_recurrence: the days asked for, or else the first one.
Occurrences(day, until, weekdays) ==
  LET due == {d \in day..until : d % Week \in weekdays}
  IN IF due = {} THEN {day} ELSE due

CreateCoachEvent(t, day, until, weekdays) ==
  /\ t \in Coached
  /\ until >= day
  /\ AddEvents({t}, IF weekdays = {} THEN {day} ELSE Occurrences(day, until, weekdays),
               weekdays # {})

-----------------------------------------------------------------------------
(* Deleting *)

Children(gone) == {e \in Ids : events[e].parent \in gone}

\* What the database deletes with the rows: children, and theirs.
Cascade(rows) ==
  LET closed == {s \in SUBSET Ids : rows \subseteq s /\ Children(s) \subseteq s}
  IN {e \in Ids : \A s \in closed : e \in s}

\* Attendance and notes are kept, without their event (ON DELETE SET NULL); an
\* entry still to be inserted for the event is refused.
DeleteEvents(rows) ==
  LET left == Ids \ Cascade(rows)
  IN /\ events' = Restrict(events, left)
     /\ sheets' = Restrict(sheets, left)
     /\ marking' = [k \in Marker |->
          IF marking[k].event \in left THEN marking[k] ELSE NotMarking]
     /\ UNCHANGED series

SameSeries(e) == {f \in Ids : events[f].series = events[e].series}

\* Fault: the whole series goes, what is past with it.
DeletePractice_All(e, wholeSeries) ==
  DeleteEvents(IF wholeSeries /\ events[e].series # NoSeries THEN SameSeries(e) ELSE {e})

\* delete_practice: only the team of this event is checked; the series is that
\* of the whole organization from here on.
DeletePractice(e, wholeSeries) ==
  DeleteEvents(IF wholeSeries /\ events[e].series # NoSeries
               THEN {f \in SameSeries(e) : events[f].day >= events[e].day}
               ELSE {e})

\* delete_coach_event
DeleteThis(e) == events[e].team \in Coached /\ DeleteEvents({e})

DeleteSeries(e) ==
  /\ events[e].team \in Coached
  /\ DeleteEvents(IF events[e].series = NoSeries THEN {e}
                  ELSE {f \in SameSeries(e) : events[f].team \in Coached})

\* Whatever the team has on that weekday from here on.
DeleteDayOfWeek(e) ==
  /\ events[e].team \in Coached
  /\ DeleteEvents({f \in Ids : /\ events[f].team = events[e].team
                               /\ events[f].day >= events[e].day
                               /\ events[f].day % Week = events[e].day % Week})

-----------------------------------------------------------------------------
(* Editing *)

\* update_practice
UpdatePractice(e, day) ==
  /\ events' = [events EXCEPT ![e].day = day]
  /\ UNCHANGED <<series, sheets, marking>>

\* The other events of the series on a team of the coach.
Anchors(e) == {f \in SameSeries(e) \ {e} : events[f].team \in Coached}

\* update_coach_event of this event alone: it becomes the child of the first
\* other one of its series, be it a child itself or not.
UpdateThis(e, day) ==
  LET first == {f \in Anchors(e) : \A g \in Anchors(e) : events[f].day <= events[g].day}
      hangs == events[e].series # NoSeries /\ events[e].parent = NoEvent /\ first # {}
  IN /\ events[e].team \in Coached
     /\ \E p \in IF hangs THEN first ELSE {events[e].parent} :
          events' = [events EXCEPT ![e].parent = p, ![e].day = day]
     /\ UNCHANGED <<series, sheets, marking>>

\* update_coach_event of the series: the time is set on every event from here
\* on, which puts them all at one moment.
UpdateSeries(e, day) ==
  /\ events[e].team \in Coached
  /\ events[e].series # NoSeries
  /\ events' = [f \in Ids |->
       IF f \in SameSeries(e) /\ events[f].team \in Coached /\ events[f].day >= events[e].day
       THEN [events[f] EXCEPT !.day = day] ELSE events[f]]
  /\ UNCHANGED <<series, sheets, marking>>

-----------------------------------------------------------------------------
(* Attendance *)

\* mark_attendance looks for the entry of the event; if there are two, it fails.
MarkRead(k, e) ==
  /\ marking[k] = NotMarking
  /\ events[e].team \in Coached
  /\ sheets[e].count <= 1
  /\ marking' = [j \in Marker |->
       CASE j = k -> [event |-> e, new |-> sheets[e].count = 0,
                      raced |-> \E i \in Marker \ {k} : marking[i].event = e]
         [] j # k /\ marking[j].event = e -> [marking[j] EXCEPT !.raced = TRUE]
         [] OTHER -> marking[j]]
  /\ UNCHANGED <<events, series, sheets>>

\* A new entry, or the rows of the old one are replaced.
MarkCommit(k) ==
  LET e == marking[k].event
  IN /\ e # NoEvent
     /\ IF marking[k].new
        THEN sheets' = [sheets EXCEPT ![e] =
               [count |-> @.count + 1, raced |-> @.raced \/ marking[k].raced]]
        ELSE UNCHANGED sheets
     /\ marking' = [marking EXCEPT ![k] = NotMarking]
     /\ UNCHANGED <<events, series>>

-----------------------------------------------------------------------------

CalendarNext ==
  \/ \E day, until \in 0..LastDay :
       \/ \E teams \in SUBSET Squad, weekly \in BOOLEAN :
            CreatePractice(teams, day, until, weekly)
       \/ \E t \in Squad, weekdays \in SUBSET (0..Week - 1) :
            CreateCoachEvent(t, day, until, weekdays)
  \/ \E e \in Ids :
       \/ \E whole \in BOOLEAN : DeletePractice(e, whole)
       \/ DeleteThis(e) \/ DeleteSeries(e) \/ DeleteDayOfWeek(e)
       \/ \E day \in 0..LastDay :
            UpdatePractice(e, day) \/ UpdateThis(e, day) \/ UpdateSeries(e, day)

AttendanceNext ==
  \E k \in Marker : MarkCommit(k) \/ \E e \in Ids : MarkRead(k, e)

\* An event points to another one, and has one sheet unless two requests that
\* looked for it overlapped.
PracticeTypeOK ==
  \A e \in Ids :
    /\ events[e].team \in Squad
    /\ events[e].day \in 0..LastDay
    /\ events[e].series \in 0..series
    /\ events[e].parent \in (Ids \ {e}) \cup {NoEvent}
    /\ sheets[e].count > 1 => sheets[e].raced

-----------------------------------------------------------------------------
(* Properties *)

InSeries(e, f) == events[e].series # NoSeries /\ events[f].series = events[e].series

\* What goes though it is not of the events asked for was edited alone: it hangs
\* on one that goes, and is of the series of one that was asked for.
GoesWith(asked) ==
  LET gone == Ids \ Ids'
  IN \A f \in gone \ asked :
       events[f].parent \in gone /\ \E x \in asked \cap gone : InSeries(x, f)

\* An event deleted alone goes alone, past ones are kept when a series or a
\* weekday is deleted from one event on, and the coach deletes a series on the
\* coach's own teams, each up to what hangs on the rows deleted, past or not
\* ("Past occurrences are kept", delete_practice: not those; delete_coach_event).
DeletesWhatWasAsked ==
  [][~ (Ids \subseteq Ids') => \A e \in Ids :
       /\ DeleteThis(e) \/ DeletePractice(e, FALSE) => GoesWith({e})
       /\ DeletePractice(e, TRUE) \/ DeleteDayOfWeek(e) =>
            GoesWith({f \in Ids : /\ events[f].day >= events[e].day
                                  /\ events[f].team = events[e].team \/ InSeries(e, f)})
       /\ DeleteSeries(e) =>
            GoesWith({f \in Ids : events[f].team \in Coached /\ (f = e \/ InSeries(e, f))})
    ]_practiceVars
=============================================================================
