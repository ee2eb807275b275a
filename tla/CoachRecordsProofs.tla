-------------------------- MODULE CoachRecordsProofs --------------------------
(***************************************************************************)
(* What the records of the coach's side keep, one component at a time and  *)
(* for any number of requests: the club and its purge, practice and the    *)
(* calendar, players and the notebook, scouting clips, push reminders.     *)
(***************************************************************************)
EXTENDS TrialPurge, Practice, Notebook, ScoutingLibrary, PushJobs,
        FiniteSetTheorems, SequenceTheorems, WellFoundedInduction, TLAPS

\* The first n numbers.
LEMMA FirstNumbers == ASSUME NEW n \in Nat PROVE IsFiniteSet(1..n) /\ Cardinality(1..n) = n
<1>1. IsFiniteSet(1..n) /\ Cardinality(1..n) = IF 1 > n THEN 0 ELSE n - 1 + 1
  BY FS_Interval
<1> QED
  BY <1>1

\* The least number in a set.
LEMMA LeastOf ==
  ASSUME NEW N \in SUBSET Nat, N # {}
  PROVE  \E n \in N : \A m \in N : n <= m
<1> DEFINE R == {p \in Nat \X Nat : p[1] < p[2]}
<1>1. IsWellFoundedOn(R, Nat)
  BY NatLessThanWellFounded DEF OpToRel
<1>2. \A n, m \in Nat : <<m, n>> \in R <=> m < n
  OBVIOUS
<1> HIDE DEF R
<1>3. PICK n \in N : \A m \in N : ~(<<m, n>> \in R)
  BY <1>1, WFMin
<1>4. \A m \in N : n \in Nat /\ m \in Nat /\ ~(m < n)
  BY <1>2, <1>3
<1> QED
  BY <1>4

-----------------------------------------------------------------------------
(* Trials.  Whatever is due, for the account or for a request that read it,  *)
(* was put at Grace days after some marking, so not before the first.        *)

AccountRow == [plan : {"trial", "expired", "club"}, ends : {TrialEnds, Never}, due : 0..Never,
               club : BOOLEAN]

VisitRow == [step : {"read", "flipped", "redeem"}, seen : AccountRow]

GraceGiven(seen) == seen.due # Never => marked + Grace <= seen.due

PurgeInv ==
  /\ account \in AccountRow
  /\ rows \subseteq Kind
  /\ visiting \in [Call -> {Out} \cup VisitRow]
  /\ day \in 0..MaxDay /\ marked \in 0..day \cup {Never}
  /\ GraceGiven(account)
  /\ \A r \in Call : visiting[r] # Out => GraceGiven(visiting[r].seen)

LEMMA PurgeInitially == TrialPurgeInit => PurgeInv
BY TrialAssumption DEF TrialPurgeInit, PurgeInv, AccountRow, GraceGiven, Never

LEMMA PurgeSound == PurgeInv => TrialPurgeTypeOK
BY DEF PurgeInv, AccountRow, TrialPurgeTypeOK

LEMMA MarkedOnce ==
  ASSUME PurgeInv, marked' = IF marked = Never THEN day ELSE marked
  PROVE  /\ marked' \in 0..day /\ marked' + Grace <= day + Grace
         /\ \A seen \in AccountRow : GraceGiven(seen) /\ seen.due # Never => marked' + Grace <= seen.due
BY TrialAssumption DEF PurgeInv, AccountRow, GraceGiven, Never

LEMMA VisitFlips ==
  ASSUME PurgeInv, NEW r \in Call, FlipToExpired(r)
  PROVE  PurgeInv'
<1> DEFINE v == [visiting[r] EXCEPT !.step = "flipped", !.seen = [visiting[r].seen EXCEPT !.plan = "expired"]]
           due == IF account.due = Never THEN day + Grace ELSE account.due
           a == [account EXCEPT !.plan = "expired", !.due = due]
<1>1. /\ visiting[r].step = "read" /\ account' = a /\ visiting' = [visiting EXCEPT ![r] = v]
      /\ marked' = IF marked = Never THEN day ELSE marked
      /\ UNCHANGED <<rows, day>>
  BY DEF FlipToExpired
<1>2. due \in 0..Never
  BY TrialAssumption DEF PurgeInv, AccountRow, Never
<1>3. due # Never => marked' + Grace <= due
  <2>1. CASE account.due = Never
    BY <1>1, <2>1, MarkedOnce
  <2>2. CASE account.due # Never
    BY <1>1, <2>2, MarkedOnce DEF PurgeInv
  <2> QED
    BY <2>1, <2>2
<1> HIDE DEF due
<1>4. a \in AccountRow /\ a.due = due
  BY <1>2 DEF PurgeInv, AccountRow
<1>5. visiting[r] \in VisitRow /\ visiting[r] # Out
  BY <1>1 DEF PurgeInv, Out
<1>6. v \in VisitRow /\ v.seen.due = visiting[r].seen.due
  BY <1>5 DEF VisitRow, AccountRow
<1> HIDE DEF a, v
<1>7. marked' \in 0..day' \cup {Never}
  BY <1>1, MarkedOnce
<1>8. ASSUME NEW q \in Call, visiting'[q] # Out PROVE visiting'[q].seen.due # Never => marked' + Grace <= visiting'[q].seen.due
  <2>1. visiting[q] # Out /\ visiting'[q].seen.due = visiting[q].seen.due
    BY <1>1, <1>5, <1>6, <1>8 DEF PurgeInv
  <2>2. visiting[q].seen \in AccountRow /\ GraceGiven(visiting[q].seen)
    BY <2>1 DEF PurgeInv, VisitRow
  <2> QED
    BY <1>1, <2>1, <2>2, MarkedOnce
<1>9. visiting' \in [Call -> {Out} \cup VisitRow]
  BY <1>1, <1>6 DEF PurgeInv
<1>10. account' \in AccountRow /\ (account'.due # Never => marked' + Grace <= account'.due)
  BY <1>1, <1>3, <1>4
<1> QED
  BY <1>1, <1>7, <1>8, <1>9, <1>10 DEF PurgeInv, GraceGiven, Never

LEMMA VisitEnds ==
  ASSUME PurgeInv, NEW r \in Call, Depart(r), account' \in AccountRow, rows' \subseteq Kind,
         account'.due \in {account.due, Never}, UNCHANGED <<day, marked>>
  PROVE  PurgeInv'
BY DEF PurgeInv, GraceGiven, Depart, Never

LEMMA PurgeStep == PurgeInv /\ [TrialPurgeNext]_trialPurgeVars => PurgeInv'
<1> SUFFICES ASSUME PurgeInv, [TrialPurgeNext]_trialPurgeVars PROVE PurgeInv'
  OBVIOUS
<1>1. CASE UNCHANGED trialPurgeVars
  BY <1>1 DEF trialPurgeVars, PurgeInv, GraceGiven, Never
<1>2. CASE DayPasses
  BY <1>2, TrialAssumption DEF DayPasses, PurgeInv, GraceGiven, Never
<1>3. ASSUME NEW k \in Kind, AddRow(k) PROVE PurgeInv'
  BY <1>3 DEF AddRow, PurgeInv, GraceGiven, Never
<1>4. ASSUME NEW r \in Call, NEW op \in {"read", "redeem"}, Arrives(r, op) PROVE PurgeInv'
  <2> DEFINE v == [step |-> op, seen |-> account]
  <2>1. visiting' = [visiting EXCEPT ![r] = v] /\ UNCHANGED <<account, rows, day, marked>>
    BY <1>4 DEF Arrives
  <2>2. v \in VisitRow /\ v.seen = account
    BY DEF PurgeInv, VisitRow
  <2> HIDE DEF v
  <2> QED
    BY <2>1, <2>2 DEF PurgeInv, GraceGiven, Never
<1>5. ASSUME NEW r \in Call, Serve(r) PROVE PurgeInv'
  <2>1. account' \in AccountRow /\ account'.due = account.due
    BY <1>5 DEF Serve, PurgeInv, AccountRow
  <2> QED
    BY <1>5, <2>1, VisitEnds DEF Serve, PurgeInv
<1>6. ASSUME NEW r \in Call, ServeRefused(r) PROVE PurgeInv'
  BY <1>6, VisitEnds DEF ServeRefused, PurgeInv
<1>7. ASSUME NEW r \in Call, PurgeUserData(r) PROVE PurgeInv'
  <2>1. Never \in 0..Never
    BY TrialAssumption DEF Never
  <2>2. account' \in AccountRow /\ rows' \subseteq Kind /\ account'.due \in {account.due, Never}
    BY <1>7, <2>1 DEF PurgeUserData, PurgeInv, AccountRow
  <2> QED
    BY <1>7, <2>2, VisitEnds DEF PurgeUserData
<1>8. ASSUME NEW r \in Call, JoinClub(r) PROVE PurgeInv'
  <2> DEFINE plan == IF visiting[r].seen.plan = "club" THEN account.plan ELSE "club"
             due == IF visiting[r].seen.due = Never THEN account.due ELSE Never
  <2>1. account' = [plan |-> plan, ends |-> Never, due |-> due, club |-> TRUE]
    BY <1>8 DEF JoinClub
  <2>2. plan \in {"trial", "expired", "club"} /\ due \in 0..Never /\ due \in {account.due, Never}
    BY TrialAssumption DEF PurgeInv, AccountRow, Never
  <2> HIDE DEF plan, due
  <2>3. account' \in AccountRow /\ account'.due = due
    BY <2>1, <2>2 DEF AccountRow
  <2> QED
    BY <1>8, <2>2, <2>3, VisitEnds DEF JoinClub, PurgeInv
<1> QED
  BY <1>1, <1>2, <1>3, <1>4, <1>5, <1>6, <1>7, <1>8, VisitFlips DEF TrialPurgeNext

\* Whoever purges has read an account outside of clubs, that was due.
LEMMA RowsGoDue ==
  ASSUME PurgeInv, [TrialPurgeNext]_trialPurgeVars, ~ (rows \subseteq rows')
  PROVE  /\ marked + Grace <= day
         /\ \E r \in Call : visiting[r] # Out /\ ~ visiting[r].seen.club /\ visiting[r].seen.due <= day
<1>1. PICK r \in Call : PurgeUserData(r)
  BY DEF TrialPurgeNext, trialPurgeVars, DayPasses, AddRow, Arrives, FlipToExpired, Serve,
         ServeRefused, JoinClub
<1>2. visiting[r] # Out
  BY <1>1 DEF PurgeUserData, Ready, Out
<1>3. visiting[r].seen.due <= day /\ ~ visiting[r].seen.club
  BY <1>1, <1>2 DEF PurgeUserData, ShouldPurge, PurgeInv, VisitRow, AccountRow
<1>4. visiting[r].seen.due \in 0..Never /\ GraceGiven(visiting[r].seen)
  BY <1>2 DEF PurgeInv, VisitRow, AccountRow
<1>5. visiting[r].seen.due # Never /\ day \in Nat /\ marked \in Nat
  BY <1>3, <1>4, TrialAssumption DEF PurgeInv, Never
<1>6. marked + Grace <= day
  BY <1>3, <1>4, <1>5, TrialAssumption DEF GraceGiven, Never
<1> QED
  BY <1>2, <1>3, <1>6

\* A date that is set stays, until it is cleared.
LEMMA DateStays ==
  ASSUME PurgeInv, [TrialPurgeNext]_trialPurgeVars, account'.due # account.due
  PROVE  Never \in {account.due, account'.due}
<1>1. ASSUME NEW r \in Call, FlipToExpired(r) PROVE account.due = Never
  <2> DEFINE due == IF account.due = Never THEN day + Grace ELSE account.due
  <2>1. account' = [account EXCEPT !.plan = "expired", !.due = due]
    BY <1>1 DEF FlipToExpired
  <2> HIDE DEF due
  <2>2. account'.due = due
    BY <2>1 DEF PurgeInv, AccountRow
  <2> QED
    BY <2>2 DEF due
<1>2. ASSUME NEW r \in Call, Serve(r) PROVE FALSE
  BY <1>2 DEF Serve, PurgeInv, AccountRow
<1>3. ASSUME NEW r \in Call, PurgeUserData(r) PROVE account'.due = Never
  BY <1>3 DEF PurgeUserData, PurgeInv, AccountRow
<1>4. ASSUME NEW r \in Call, JoinClub(r) PROVE account'.due = Never
  BY <1>4 DEF JoinClub
<1> QED
  BY <1>1, <1>2, <1>3, <1>4
     DEF TrialPurgeNext, trialPurgeVars, DayPasses, AddRow, Arrives, ServeRefused

-----------------------------------------------------------------------------
(* The calendar.  An event hangs on another of its own series, so what the   *)
(* database deletes with some rows is of their series.  Who looked for the   *)
(* sheet of an event without overlap is alone with it.                       *)

EventRow == [team : Squad, day : 0..LastDay, series : 0..series, parent : Nat]
SheetRow == [count : Nat, raced : BOOLEAN]
MarkRow == [event : Nat, new : BOOLEAN, raced : BOOLEAN]

HangsRight(e) ==
  events[e].parent # NoEvent =>
    /\ events[e].parent \in Ids \ {e}
    /\ events[e].series # NoSeries /\ events[events[e].parent].series = events[e].series

MarksAlone(k) ==
  marking[k].event # NoEvent =>
    /\ marking[k].event \in Ids
    /\ ~ marking[k].raced =>
         /\ marking[k].new => sheets[marking[k].event].count = 0
         /\ \A j \in Marker \ {k} : marking[j].event # marking[k].event

CalendarInv ==
  /\ series \in Nat
  /\ Ids \subseteq 1..MaxEvent
  /\ events \in [Ids -> EventRow]
  /\ \A e \in Ids : HangsRight(e)

PracticeInv ==
  /\ CalendarInv
  /\ sheets \in [Ids -> SheetRow]
  /\ \A e \in Ids : sheets[e].count > 1 => sheets[e].raced
  /\ marking \in [Marker -> MarkRow]
  /\ \A k \in Marker : MarksAlone(k)

LEMMA PracticeInitially == PracticeInit => PracticeInv
<1> SUFFICES ASSUME PracticeInit PROVE PracticeInv
  OBVIOUS
<1>1. Ids = {} /\ events = <<>> /\ sheets = <<>> /\ series = 0
  BY DEF PracticeInit, Ids
<1>2. CalendarInv
  BY <1>1 DEF CalendarInv
<1>3. sheets \in [Ids -> SheetRow]
  BY <1>1
<1>4. marking \in [Marker -> MarkRow] /\ \A k \in Marker : marking[k].event = NoEvent
  BY DEF PracticeInit, NotMarking, MarkRow, NoEvent
<1> QED
  BY <1>1, <1>2, <1>3, <1>4 DEF PracticeInv, MarksAlone

LEMMA PracticeSound == PracticeInv => PracticeTypeOK
<1> SUFFICES ASSUME PracticeInv PROVE PracticeTypeOK
  OBVIOUS
<1>1. ASSUME NEW e \in Ids
      PROVE  /\ events[e].team \in Squad /\ events[e].day \in 0..LastDay
             /\ events[e].series \in 0..series /\ events[e].parent \in (Ids \ {e}) \cup {NoEvent}
  BY <1>1 DEF PracticeInv, CalendarInv, EventRow, HangsRight
<1> QED
  BY <1>1 DEF PracticeInv, PracticeTypeOK

\* What is deleted with some rows.
LEMMA CascadeCloses ==
  ASSUME NEW wanted \in SUBSET Ids
  PROVE  /\ wanted \subseteq Cascade(wanted) /\ Cascade(wanted) \subseteq Ids
         /\ Children(Cascade(wanted)) \subseteq Cascade(wanted)
         /\ \A s \in SUBSET Ids :
              wanted \subseteq s /\ Children(s) \subseteq s => Cascade(wanted) \subseteq s
<1> DEFINE closed == {s \in SUBSET Ids : wanted \subseteq s /\ Children(s) \subseteq s}
<1>1. Cascade(wanted) = {e \in Ids : \A s \in closed : e \in s}
  BY DEF Cascade
<1>2. \A s \in closed, e \in Ids : events[e].parent \in s => e \in s
  BY DEF Children
<1>3. Children(Cascade(wanted)) = {e \in Ids : events[e].parent \in Cascade(wanted)}
  BY DEF Children
<1>4. Children(Cascade(wanted)) \subseteq Cascade(wanted)
  BY <1>1, <1>2, <1>3
<1> QED
  BY <1>1, <1>4

LEMMA CascadeInSeries ==
  ASSUME CalendarInv, NEW wanted \in SUBSET Ids, NEW f \in Cascade(wanted)
  PROVE  f \in wanted \/ \E x \in wanted : /\ events[x].series = events[f].series
                                           /\ events[x].series # NoSeries
<1> DEFINE s == {g \in Ids : g \in wanted \/ \E x \in wanted : /\ events[x].series = events[g].series
                                                                /\ events[x].series # NoSeries}
<1>1. ASSUME NEW e \in Ids, events[e].parent \in s PROVE e \in s
  <2>1. events[e].parent # NoEvent
    BY <1>1 DEF CalendarInv, NoEvent
  <2>2. events[e].series # NoSeries /\ events[events[e].parent].series = events[e].series
    BY <2>1 DEF CalendarInv, HangsRight
  <2> QED
    BY <1>1, <2>2
<1>2. Children(s) \subseteq s
  BY <1>1 DEF Children
<1> HIDE DEF Children
<1>3. Cascade(wanted) \subseteq s
  <2>1. s \in SUBSET Ids /\ wanted \subseteq s
    OBVIOUS
  <2> HIDE DEF s
  <2> QED
    BY <1>2, <2>1, CascadeCloses
<1> QED
  BY <1>3

LEMMA EventsDeleted ==
  ASSUME PracticeInv, NEW wanted \in SUBSET Ids, DeleteEvents(wanted)
  PROVE  PracticeInv' /\ Ids \ Ids' = Cascade(wanted)
<1> DEFINE left == Ids \ Cascade(wanted)
<1>1. /\ events' = [e \in left |-> events[e]] /\ sheets' = [e \in left |-> sheets[e]]
      /\ marking' = [k \in Marker |-> IF marking[k].event \in left THEN marking[k] ELSE NotMarking]
      /\ series' = series
  BY DEF DeleteEvents, Restrict
<1>2. Ids' = left /\ left \subseteq Ids
  BY <1>1 DEF Ids
<1>3. Cascade(wanted) \subseteq Ids /\ \A e \in left : events[e].parent \notin Cascade(wanted)
  BY CascadeCloses DEF Children
<1>4. EventRow' = EventRow
  BY <1>1 DEF EventRow
<1> HIDE DEF left
<1>5. \A e \in left : HangsRight(e)'
  <2> SUFFICES ASSUME NEW e \in left, events[e].parent # NoEvent
               PROVE  /\ events[e].parent \in left \ {e}
                      /\ events[e].series # NoSeries
                      /\ events'[events[e].parent].series = events[e].series
    BY <1>1, <1>2 DEF HangsRight
  <2>1. events[e].parent \in Ids \ {e}
        /\ events[e].series # NoSeries /\ events[events[e].parent].series = events[e].series
    BY <1>2 DEF PracticeInv, CalendarInv, HangsRight
  <2>2. events[e].parent \in left
    BY <1>3, <2>1 DEF left
  <2> QED
    BY <1>1, <2>1, <2>2
<1>6. CalendarInv'
  BY <1>1, <1>2, <1>4, <1>5 DEF PracticeInv, CalendarInv
<1>7. sheets' \in [Ids' -> SheetRow] /\ \A e \in Ids' : sheets'[e].count > 1 => sheets'[e].raced
  BY <1>1, <1>2 DEF PracticeInv
<1>8. marking' \in [Marker -> MarkRow]
  BY <1>1 DEF PracticeInv, NotMarking, MarkRow, NoEvent
<1>9. ASSUME NEW k \in Marker, marking'[k].event # NoEvent
      PROVE  /\ marking[k].event \in left /\ marking'[k] = marking[k]
  BY <1>1, <1>9 DEF NotMarking
<1>10. \A k \in Marker : MarksAlone(k)'
  BY <1>1, <1>2, <1>9 DEF PracticeInv, MarksAlone
<1>11. Ids \ Ids' = Cascade(wanted)
  BY <1>2, <1>3 DEF left
<1> QED
  BY <1>6, <1>7, <1>8, <1>10, <1>11 DEF PracticeInv

\* Events that are edited keep their series.
LEMMA EventsEdited ==
  ASSUME PracticeInv, UNCHANGED <<series, sheets, marking>>,
         events' \in [Ids -> EventRow], \A e \in Ids : HangsRight(e)'
  PROVE  PracticeInv' /\ Ids' = Ids
<1>1. Ids' = Ids /\ EventRow' = EventRow
  BY DEF Ids, EventRow
<1>2. CalendarInv'
  BY <1>1 DEF PracticeInv, CalendarInv
<1>3. \A k \in Marker : MarksAlone(k)'
  BY <1>1 DEF PracticeInv, MarksAlone
<1> QED
  BY <1>1, <1>2, <1>3 DEF PracticeInv

LEMMA DaysEdited ==
  ASSUME PracticeInv, UNCHANGED <<series, sheets, marking>>, DOMAIN events' = Ids,
         \A e \in Ids : /\ events'[e] \in EventRow
                        /\ events'[e].series = events[e].series /\ events'[e].parent = events[e].parent,
         events' = [e \in Ids |-> events'[e]]
  PROVE  PracticeInv' /\ Ids' = Ids
<1>1. \A e \in Ids : HangsRight(e)
  BY DEF PracticeInv, CalendarInv
<1>2. Ids' = Ids
  BY DEF Ids
<1>3. \A e \in Ids : HangsRight(e)'
  BY <1>1, <1>2 DEF HangsRight
<1> QED
  BY <1>3, EventsEdited

LEMMA EventMoves ==
  ASSUME PracticeInv, NEW e \in Ids, NEW from \in 0..LastDay,
         UpdatePractice(e, from) \/ UpdateThis(e, from) \/ UpdateSeries(e, from)
  PROVE  PracticeInv' /\ Ids' = Ids
<1>0. events[e] \in EventRow /\ \A f \in Ids : events[f] \in EventRow
  BY DEF PracticeInv, CalendarInv
<1>1. CASE UpdatePractice(e, from)
  <2> DEFINE x == [events[e] EXCEPT !.day = from]
  <2>1. x \in EventRow /\ x.series = events[e].series /\ x.parent = events[e].parent
    BY <1>0 DEF EventRow
  <2>2. events' = [events EXCEPT ![e] = x] /\ UNCHANGED <<series, sheets, marking>>
    BY <1>1 DEF UpdatePractice
  <2> HIDE DEF x
  <2>3. events' = [f \in Ids |-> IF f = e THEN x ELSE events[f]]
    BY <2>2 DEF PracticeInv, CalendarInv
  <2> QED
    BY <1>0, <2>1, <2>2, <2>3, DaysEdited
<1>2. CASE UpdateSeries(e, from)
  <2> DEFINE moved(f) == /\ f \in SameSeries(e) /\ events[f].team \in Coached
                         /\ events[f].day >= events[e].day
             x(f) == IF moved(f) THEN [events[f] EXCEPT !.day = from] ELSE events[f]
  <2>1. events' = [f \in Ids |-> x(f)] /\ UNCHANGED <<series, sheets, marking>>
    BY <1>2 DEF UpdateSeries
  <2> HIDE DEF moved
  <2>2. \A f \in Ids : x(f) \in EventRow /\ x(f).series = events[f].series /\ x(f).parent = events[f].parent
    BY <1>0 DEF EventRow
  <2> HIDE DEF x
  <2> QED
    BY <2>1, <2>2, DaysEdited
<1>3. CASE UpdateThis(e, from)
  <2> DEFINE first == {f \in Anchors(e) : \A g \in Anchors(e) : events[f].day <= events[g].day}
             hangs == events[e].series # NoSeries /\ events[e].parent = NoEvent /\ first # {}
  <2>1. PICK p \in IF hangs THEN first ELSE {events[e].parent} :
          events' = [events EXCEPT ![e].parent = p, ![e].day = from]
    BY <1>3 DEF UpdateThis
  <2>2. UNCHANGED <<series, sheets, marking>>
    BY <1>3 DEF UpdateThis
  <2>3. \A f \in first : f \in Ids \ {e} /\ events[f].series = events[e].series
    BY DEF Anchors, SameSeries
  <2>4. HangsRight(e)
    BY DEF PracticeInv, CalendarInv
  <2>5. p # NoEvent => p \in Ids \ {e} /\ events[e].series # NoSeries
                        /\ events[p].series = events[e].series
    BY <2>1, <2>3, <2>4 DEF HangsRight
  <2>6. p \in Nat
    BY <1>0, <2>1, <2>3 DEF PracticeInv, CalendarInv, EventRow
  <2> HIDE DEF first, hangs
  <2> DEFINE x == [events[e] EXCEPT !.parent = p, !.day = from]
  <2>7. x \in EventRow /\ x.series = events[e].series /\ x.parent = p
    BY <1>0, <2>6 DEF EventRow
  <2>8. events' = [events EXCEPT ![e] = x]
    BY <2>1
  <2> HIDE DEF x
  <2>9. events' \in [Ids -> EventRow] /\ events'[e] = x /\ \A f \in Ids \ {e} : events'[f] = events[f]
    BY <2>7, <2>8 DEF PracticeInv, CalendarInv
  <2>10. Ids' = Ids
    BY <2>9 DEF Ids
  <2>11. \A f \in Ids : events'[f].series = events[f].series
    BY <2>7, <2>9
  <2>12. \A f \in Ids \ {e} : HangsRight(f)'
    <3>1. \A f \in Ids \ {e} : HangsRight(f)
      BY DEF PracticeInv, CalendarInv
    <3> QED
      BY <2>9, <2>10, <2>11, <3>1 DEF HangsRight
  <2>13. HangsRight(e)'
    BY <2>5, <2>7, <2>9, <2>10, <2>11 DEF HangsRight
  <2> QED
    BY <2>2, <2>9, <2>12, <2>13, EventsEdited
<1> QED
  BY <1>1, <1>2, <1>3

\* An entry is looked for, and inserted.
LEMMA SheetsMarked ==
  ASSUME PracticeInv, NEW k \in Marker, MarkCommit(k) \/ \E e \in Ids : MarkRead(k, e)
  PROVE  PracticeInv' /\ Ids' = Ids
<1>1. UNCHANGED <<events, series>>
  BY DEF MarkCommit, MarkRead
<1>2. Ids' = Ids /\ CalendarInv'
  BY <1>1 DEF PracticeInv, CalendarInv, Ids, EventRow, HangsRight
<1>3. ASSUME NEW e \in Ids, MarkRead(k, e) PROVE PracticeInv'
  <2> DEFINE new == sheets[e].count = 0
             raced == \E i \in Marker \ {k} : marking[i].event = e
             x(j) == CASE j = k -> [event |-> e, new |-> new, raced |-> raced]
                       [] j # k /\ marking[j].event = e -> [marking[j] EXCEPT !.raced = TRUE]
                       [] OTHER -> marking[j]
  <2>1. marking' = [j \in Marker |-> x(j)] /\ sheets' = sheets
    BY <1>3 DEF MarkRead
  <2>2. e \in Nat
    BY DEF PracticeInv, CalendarInv
  <2>3. x(k) = [event |-> e, new |-> new, raced |-> raced]
    OBVIOUS
  <2>4. new \in BOOLEAN /\ raced \in BOOLEAN
    OBVIOUS
  <2>5. (new => sheets[e].count = 0) /\ (~ raced => \A i \in Marker \ {k} : marking[i].event # e)
    OBVIOUS
  <2> HIDE DEF new, raced
  <2>6. x(k) \in MarkRow /\ x(k).event = e /\ x(k).new = new /\ x(k).raced = raced
    BY <2>2, <2>3, <2>4 DEF MarkRow
  <2>7. \A j \in Marker \ {k} :
          /\ x(j) \in MarkRow /\ x(j).event = marking[j].event /\ x(j).new = marking[j].new
          /\ ~ x(j).raced => ~ marking[j].raced /\ marking[j].event # e
    BY DEF PracticeInv, MarkRow
  <2> HIDE DEF x
  <2>8. \A j \in Marker : MarksAlone(j)'
    BY <1>2, <2>1, <2>5, <2>6, <2>7 DEF PracticeInv, MarksAlone
  <2>9. marking' \in [Marker -> MarkRow]
    BY <2>1, <2>6, <2>7
  <2> QED
    BY <1>2, <2>1, <2>8, <2>9 DEF PracticeInv
<1>4. CASE MarkCommit(k)
  <2> DEFINE e == marking[k].event
  <2>1. e # NoEvent /\ marking' = [marking EXCEPT ![k] = NotMarking]
    BY <1>4 DEF MarkCommit
  <2>2. /\ marking' \in [Marker -> MarkRow] /\ marking'[k] = NotMarking
        /\ \A j \in Marker \ {k} : marking'[j] = marking[j]
    BY <2>1 DEF PracticeInv, NotMarking, MarkRow, NoEvent
  <2>3. MarksAlone(k) /\ e \in Ids /\ marking[k] \in MarkRow
    BY <2>1 DEF PracticeInv, MarksAlone
  <2>4. \A j \in Marker \ {k} : marking[j].event = e => marking[j].raced
    BY <2>1 DEF PracticeInv, MarksAlone
  <2>5. ASSUME sheets' \in [Ids -> SheetRow], \A f \in Ids \ {e} : sheets'[f] = sheets[f],
               sheets'[e].count > 1 => sheets'[e].raced
        PROVE  PracticeInv'
    <3>1. \A f \in Ids' : sheets'[f].count > 1 => sheets'[f].raced
      BY <1>2, <2>5 DEF PracticeInv
    <3>2. \A j \in Marker : MarksAlone(j)'
      BY <1>2, <2>2, <2>4, <2>5 DEF PracticeInv, MarksAlone, NotMarking
    <3> QED
      BY <1>2, <2>2, <2>5, <3>1, <3>2 DEF PracticeInv
  <2>6. CASE marking[k].new
    <3> DEFINE raced == sheets[e].raced \/ marking[k].raced
               y == [count |-> sheets[e].count + 1, raced |-> raced]
    <3>1. sheets' = [sheets EXCEPT ![e] = y]
      BY <1>4, <2>6 DEF MarkCommit
    <3>2. sheets[e] \in SheetRow /\ (sheets[e].count > 1 => sheets[e].raced)
      BY <2>3 DEF PracticeInv
    <3>3. sheets[e].count + 1 > 1 => raced
      BY <2>1, <2>3, <2>6, <3>2 DEF MarksAlone, SheetRow
    <3>4. raced \in BOOLEAN
      OBVIOUS
    <3> HIDE DEF raced
    <3>5. y \in SheetRow /\ (y.count > 1 => y.raced)
      BY <3>2, <3>3, <3>4 DEF SheetRow
    <3> HIDE DEF y
    <3>6. /\ sheets' \in [Ids -> SheetRow] /\ sheets'[e] = y
          /\ \A f \in Ids \ {e} : sheets'[f] = sheets[f]
      BY <2>3, <3>1, <3>5 DEF PracticeInv
    <3> QED
      BY <1>2, <2>5, <3>5, <3>6
  <2>7. CASE ~ marking[k].new
    BY <1>2, <1>4, <2>3, <2>5, <2>7 DEF MarkCommit, PracticeInv
  <2> QED
    BY <2>6, <2>7
<1> QED
  BY <1>2, <1>3, <1>4

\* New events have ids of their own and hang on nothing.
LEMMA IdsToChoose ==
  ASSUME NEW S, IsFiniteSet(S), NEW n \in Nat, n <= Cardinality(S)
  PROVE  \E f \in [1..n -> S] : IsInjective(f)
<1>1. PICK f \in Bijection(1..Cardinality(S), S) : TRUE
  BY FS_CardinalityType DEF ExistsBijection
<1>2. Cardinality(S) \in Nat /\ 1..n \subseteq 1..Cardinality(S)
  BY FS_CardinalityType
<1>3. f \in [1..Cardinality(S) -> S] /\ IsInjective(f)
  BY DEF Bijection, Injection
<1> DEFINE g == [i \in 1..n |-> f[i]]
<1>4. g \in [1..n -> S] /\ IsInjective(g)
  BY <1>2, <1>3 DEF IsInjective
<1> QED
  BY <1>4

LEMMA EventsAdded ==
  ASSUME PracticeInv, NEW teams \in SUBSET Squad, NEW days \in SUBSET (0..LastDay),
         NEW recurring \in BOOLEAN, AddEvents(teams, days, recurring)
  PROVE  PracticeInv' /\ Ids \subseteq Ids'
<1> DEFINE new == teams \X days
           n == Cardinality(new)
           s == IF recurring THEN series + 1 ELSE NoSeries
           free == CHOOSE f \in [1..n -> (1..MaxEvent) \ Ids] : IsInjective(f)
           nth == CHOOSE f \in [1..n -> new] : IsInjective(f)
           at(e) == nth[CHOOSE i \in 1..n : free[i] = e]
           row(e) == IF e \in Ids THEN events[e]
                     ELSE [team |-> at(e)[1], day |-> at(e)[2], series |-> s, parent |-> NoEvent]
<1>1. /\ n > 0 /\ Cardinality(Ids) + n <= MaxEvent
      /\ series' = IF recurring THEN s ELSE series
      /\ events' = [e \in Ids \cup Range(free) |-> row(e)]
      /\ sheets' = [e \in DOMAIN events' |-> IF e \in Ids THEN sheets[e] ELSE NoSheet]
      /\ marking' = marking
  BY DEF AddEvents
<1>2. IsFiniteSet(new)
  <2>1. IsFiniteSet(teams)
    BY PracticeAssumption, FS_Subset
  <2>2. IsFiniteSet(0..LastDay)
    BY PracticeAssumption, FS_Interval
  <2>3. IsFiniteSet(days)
    BY <2>2, FS_Subset
  <2> QED
    BY <2>1, <2>3, FS_Product
<1>3. n \in Nat
  BY <1>2, FS_CardinalityType
<1>4. nth \in [1..n -> new]
  <2>1. n <= Cardinality(new)
    BY <1>3
  <2>2. \E f \in [1..n -> new] : IsInjective(f)
    BY <1>2, <1>3, <2>1, IdsToChoose
  <2> QED
    BY <2>2
<1>5. free \in [1..n -> (1..MaxEvent) \ Ids]
  <2>1. IsFiniteSet(1..MaxEvent) /\ Cardinality(1..MaxEvent) = MaxEvent
    BY PracticeAssumption, FS_Interval
  <2>2. IsFiniteSet(Ids) /\ Ids \subseteq 1..MaxEvent
    BY <2>1, FS_Subset DEF PracticeInv, CalendarInv
  <2>3. IsFiniteSet((1..MaxEvent) \ Ids)
    BY <2>1, FS_Subset
  <2>4. Cardinality((1..MaxEvent) \ Ids) = MaxEvent - Cardinality((1..MaxEvent) \cap Ids)
    BY <2>1, FS_Difference
  <2>5. (1..MaxEvent) \cap Ids = Ids
    BY <2>2
  <2>6. n <= Cardinality((1..MaxEvent) \ Ids)
    <3>1. Cardinality(Ids) \in Nat
      BY <2>2, FS_CardinalityType
    <3>2. Cardinality((1..MaxEvent) \ Ids) = MaxEvent - Cardinality(Ids)
      BY <2>4, <2>5
    <3> HIDE DEF n
    <3> QED
      BY <1>1, <1>3, <3>1, <3>2, PracticeAssumption
  <2>7. \E f \in [1..n -> (1..MaxEvent) \ Ids] : IsInjective(f)
    BY <1>3, <2>3, <2>6, IdsToChoose
  <2> QED
    BY <2>7
<1>6. \A e \in Range(free) \ Ids : at(e)[1] \in Squad /\ at(e)[2] \in 0..LastDay
  <2> SUFFICES ASSUME NEW e \in Range(free) \ Ids PROVE at(e)[1] \in Squad /\ at(e)[2] \in 0..LastDay
    OBVIOUS
  <2>1. \E i \in 1..n : free[i] = e
    BY <1>5 DEF Range
  <2>2. at(e) \in new
    BY <1>4, <2>1
  <2>3. \A x \in new : x[1] \in Squad /\ x[2] \in 0..LastDay
    OBVIOUS
  <2> HIDE DEF at, new
  <2> QED
    BY <2>2, <2>3
<1> HIDE DEF new, n, free, nth, at
<1>7. Ids' = Ids \cup Range(free) /\ Ids' \subseteq 1..MaxEvent
  <2>1. Range(free) \subseteq 1..MaxEvent
    BY <1>5 DEF Range
  <2> QED
    BY <1>1, <2>1 DEF Ids, PracticeInv, CalendarInv
<1>8. series' \in Nat /\ s \in 0..series' /\ series <= series' /\ series \in Nat
  BY <1>1 DEF PracticeInv, CalendarInv, NoSeries
<1> HIDE DEF s
<1>9. \A e \in Ids' : row(e) \in EventRow' /\ (e \notin Ids => row(e).parent = NoEvent)
  <2> SUFFICES ASSUME NEW e \in Ids' PROVE row(e) \in EventRow' /\ (e \notin Ids => row(e).parent = NoEvent)
    OBVIOUS
  <2>1. CASE e \in Ids
    BY <1>8, <2>1 DEF PracticeInv, CalendarInv, EventRow
  <2>2. CASE e \notin Ids
    <3> DEFINE t == at(e)[1]
               d == at(e)[2]
               x == [team |-> t, day |-> d, series |-> s, parent |-> NoEvent]
    <3>1. t \in Squad /\ d \in 0..LastDay
      BY <1>6, <1>7, <2>2
    <3>2. row(e) = x
      BY <2>2
    <3> HIDE DEF t, d
    <3>3. x \in EventRow' /\ x.parent = NoEvent
      BY <1>8, <3>1 DEF EventRow, NoEvent
    <3> QED
      BY <3>2, <3>3
  <2> QED
    BY <2>1, <2>2
<1>10. \A e \in Ids : row(e) = events[e]
  OBVIOUS
<1> HIDE DEF row
<1>11. events' \in [Ids' -> EventRow'] /\ \A e \in Ids : events'[e] = events[e]
  BY <1>1, <1>7, <1>9, <1>10
<1>12. \A e \in Ids' : HangsRight(e)'
  <2> SUFFICES ASSUME NEW e \in Ids', events'[e].parent # NoEvent
               PROVE  /\ events'[e].parent \in Ids' \ {e}
                      /\ events'[e].series # NoSeries
                      /\ events'[events'[e].parent].series = events'[e].series
    BY DEF HangsRight
  <2>1. e \in Ids
    BY <1>1, <1>7, <1>9
  <2>2. HangsRight(e)
    BY <2>1 DEF PracticeInv, CalendarInv
  <2> QED
    BY <1>7, <1>11, <2>1, <2>2 DEF HangsRight
<1>13. CalendarInv'
  BY <1>7, <1>8, <1>11, <1>12 DEF CalendarInv
<1>14. /\ sheets' \in [Ids' -> SheetRow] /\ \A e \in Ids : sheets'[e] = sheets[e]
       /\ \A e \in Ids' : sheets'[e].count > 1 => sheets'[e].raced
  <2>1. sheets' = [e \in Ids' |-> IF e \in Ids THEN sheets[e] ELSE NoSheet]
    BY <1>1 DEF Ids
  <2>2. NoSheet \in SheetRow /\ NoSheet.count = 0
    BY DEF NoSheet, SheetRow
  <2> QED
    BY <1>7, <2>1, <2>2 DEF PracticeInv
<1>15. \A k \in Marker : MarksAlone(k)'
  BY <1>1, <1>7, <1>14 DEF PracticeInv, MarksAlone
<1> QED
  BY <1>1, <1>7, <1>13, <1>14, <1>15 DEF PracticeInv

\* What a deletion asks for.
LEMMA DeletionAsks ==
  ASSUME PracticeInv, NEW e \in Ids,
         \/ \E whole \in BOOLEAN : DeletePractice(e, whole)
         \/ DeleteThis(e) \/ DeleteSeries(e) \/ DeleteDayOfWeek(e)
  PROVE  \E wanted \in SUBSET Ids : DeleteEvents(wanted)
BY DEF DeletePractice, DeleteThis, DeleteSeries, DeleteDayOfWeek, SameSeries

\* What is deleted though nobody asked for it.
LEMMA DeletionGoesWith ==
  ASSUME PracticeInv, NEW wanted \in SUBSET Ids, NEW asked, wanted \subseteq asked, DeleteEvents(wanted)
  PROVE  GoesWith(asked)
<1>1. Ids \ Ids' = Cascade(wanted)
  BY EventsDeleted
<1>2. ASSUME NEW f \in Cascade(wanted) \ wanted PROVE events[f].parent \in Cascade(wanted)
  <2> DEFINE s == Cascade(wanted) \ {f}
  <2>1. SUFFICES ASSUME events[f].parent \notin Cascade(wanted) PROVE FALSE
    OBVIOUS
  <2>2. Cascade(wanted) \subseteq Ids /\ Children(Cascade(wanted)) \subseteq Cascade(wanted)
        /\ wanted \subseteq Cascade(wanted)
    BY CascadeCloses
  <2>3. Children(s) \subseteq s
    BY <2>1, <2>2 DEF Children
  <2>4. s \in SUBSET Ids /\ wanted \subseteq s /\ f \notin s
    BY <1>2, <2>2
  <2> HIDE DEF s
  <2>5. Cascade(wanted) \subseteq s
    BY <2>3, <2>4, CascadeCloses
  <2> QED
    BY <1>2, <2>4, <2>5
<1>3. ASSUME NEW f \in Cascade(wanted) \ wanted
      PROVE  \E x \in wanted : InSeries(x, f)
  BY <1>3, CascadeInSeries DEF PracticeInv, InSeries
<1>4. wanted \subseteq Cascade(wanted)
  BY CascadeCloses
<1> QED
  BY <1>1, <1>2, <1>3, <1>4 DEF GoesWith

LEMMA DeletionsGoWith ==
  ASSUME PracticeInv, NEW e \in Ids
  PROVE  /\ DeleteThis(e) \/ DeletePractice(e, FALSE) => GoesWith({e})
         /\ DeletePractice(e, TRUE) \/ DeleteDayOfWeek(e) =>
              GoesWith({f \in Ids : /\ events[f].day >= events[e].day
                                    /\ events[f].team = events[e].team \/ InSeries(e, f)})
         /\ DeleteSeries(e) =>
              GoesWith({f \in Ids : events[f].team \in Coached /\ (f = e \/ InSeries(e, f))})
<1> DEFINE later == {f \in Ids : /\ events[f].day >= events[e].day
                                 /\ events[f].team = events[e].team \/ InSeries(e, f)}
           own == {f \in Ids : events[f].team \in Coached /\ (f = e \/ InSeries(e, f))}
<1>1. events[e].day \in Int /\ events[e].day >= events[e].day
  BY DEF PracticeInv, CalendarInv, EventRow
<1>2. e \in later
  BY <1>1
<1>3. ASSUME DeleteThis(e) \/ DeletePractice(e, FALSE) PROVE GoesWith({e})
  <2>1. DeleteEvents({e})
    BY <1>3 DEF DeleteThis, DeletePractice
  <2> QED
    BY <2>1, DeletionGoesWith
<1>4. ASSUME DeletePractice(e, TRUE) PROVE GoesWith(later)
  <2> DEFINE some == {f \in SameSeries(e) : events[f].day >= events[e].day}
  <2>1. CASE events[e].series # NoSeries
    <3>1. DeleteEvents(some)
      BY <1>4, <2>1 DEF DeletePractice
    <3>2. some \subseteq later /\ some \in SUBSET Ids
      BY <2>1 DEF SameSeries, InSeries
    <3> HIDE DEF some, later
    <3> QED
      BY <3>1, <3>2, DeletionGoesWith
  <2>2. CASE events[e].series = NoSeries
    <3>1. DeleteEvents({e})
      BY <1>4, <2>2 DEF DeletePractice
    <3> HIDE DEF later
    <3> QED
      BY <1>2, <3>1, DeletionGoesWith
  <2> QED
    BY <2>1, <2>2
<1>5. ASSUME DeleteDayOfWeek(e) PROVE GoesWith(later)
  <2> DEFINE some == {f \in Ids : /\ events[f].team = events[e].team
                                  /\ events[f].day >= events[e].day
                                  /\ events[f].day % Week = events[e].day % Week}
  <2>1. DeleteEvents(some)
    BY <1>5 DEF DeleteDayOfWeek
  <2>2. some \subseteq later /\ some \in SUBSET Ids
    OBVIOUS
  <2> HIDE DEF some, later
  <2> QED
    BY <2>1, <2>2, DeletionGoesWith
<1>6. ASSUME DeleteSeries(e) PROVE GoesWith(own)
  <2> DEFINE some == {f \in SameSeries(e) : events[f].team \in Coached}
  <2>1. events[e].team \in Coached
    BY <1>6 DEF DeleteSeries
  <2>2. CASE events[e].series # NoSeries
    <3>1. DeleteEvents(some)
      BY <1>6, <2>2 DEF DeleteSeries
    <3>2. some \subseteq own /\ some \in SUBSET Ids
      BY <2>2 DEF SameSeries, InSeries
    <3> HIDE DEF some, own
    <3> QED
      BY <3>1, <3>2, DeletionGoesWith
  <2>3. CASE events[e].series = NoSeries
    <3>1. DeleteEvents({e})
      BY <1>6, <2>3 DEF DeleteSeries
    <3>2. e \in own
      BY <2>1
    <3> HIDE DEF own
    <3> QED
      BY <3>1, <3>2, DeletionGoesWith
  <2> QED
    BY <2>2, <2>3
<1> HIDE DEF later, own
<1>7. /\ DeletePractice(e, TRUE) \/ DeleteDayOfWeek(e) => GoesWith(later)
      /\ DeleteSeries(e) => GoesWith(own)
  BY <1>4, <1>5, <1>6
<1> QED
  BY <1>3, <1>7 DEF later, own

PracticeMoves == CalendarNext \/ AttendanceNext

LEMMA PracticeStep ==
  PracticeInv /\ [PracticeMoves]_practiceVars => PracticeInv'
<1> SUFFICES ASSUME PracticeInv, [PracticeMoves]_practiceVars
             PROVE  PracticeInv'
  OBVIOUS
<1>2. CASE UNCHANGED practiceVars
  <2>1. UNCHANGED <<events, series, sheets, marking>>
    BY <1>2 DEF practiceVars
  <2>2. Ids' = Ids /\ CalendarInv'
    BY <2>1 DEF PracticeInv, CalendarInv, Ids, EventRow, HangsRight
  <2>3. PracticeInv'
    BY <2>1, <2>2 DEF PracticeInv, MarksAlone
  <2> QED
    BY <2>3
<1>3. ASSUME NEW e \in Ids, \/ \E whole \in BOOLEAN : DeletePractice(e, whole)
                            \/ DeleteThis(e) \/ DeleteSeries(e) \/ DeleteDayOfWeek(e)
      PROVE  PracticeInv'
  BY <1>3, DeletionAsks, EventsDeleted
<1>4. ASSUME NEW e \in Ids, NEW from \in 0..LastDay,
             UpdatePractice(e, from) \/ UpdateThis(e, from) \/ UpdateSeries(e, from)
      PROVE  PracticeInv'
  BY <1>4, EventMoves
<1>5. ASSUME NEW k \in Marker, MarkCommit(k) \/ \E e \in Ids : MarkRead(k, e)
      PROVE  PracticeInv'
  BY <1>5, SheetsMarked
<1>6. ASSUME NEW teams \in SUBSET Squad, NEW days \in SUBSET (0..LastDay), NEW recurring \in BOOLEAN,
             AddEvents(teams, days, recurring)
      PROVE  PracticeInv'
  BY <1>6, EventsAdded
<1>7. \A from, until \in 0..LastDay : from..until \subseteq 0..LastDay /\ {from} \subseteq 0..LastDay
  BY PracticeAssumption
<1>8. ASSUME NEW from \in 0..LastDay, NEW until \in 0..LastDay,
             NEW teams \in SUBSET Squad, NEW weekly \in BOOLEAN,
             CreatePractice(teams, from, until, weekly)
      PROVE  PracticeInv'
  <2> DEFINE days == IF weekly THEN {d \in from..until : (d - from) % Week = 0} ELSE {from}
             recurring == weekly \/ Cardinality(teams) > 1
  <2>1. days \in SUBSET (0..LastDay) /\ recurring \in BOOLEAN
    BY <1>7
  <2>2. AddEvents(teams, days, recurring)
    BY <1>8 DEF CreatePractice
  <2> HIDE DEF days, recurring
  <2> QED
    BY <1>6, <2>1, <2>2
<1>9. ASSUME NEW from \in 0..LastDay, NEW until \in 0..LastDay,
             NEW t \in Squad, NEW weekdays \in SUBSET (0..Week - 1),
             CreateCoachEvent(t, from, until, weekdays)
      PROVE  PracticeInv'
  <2> DEFINE days == IF weekdays = {} THEN {from} ELSE Occurrences(from, until, weekdays)
             recurring == weekdays # {}
  <2>1. days \in SUBSET (0..LastDay) /\ recurring \in BOOLEAN /\ {t} \in SUBSET Squad
    BY <1>7 DEF Occurrences
  <2>2. AddEvents({t}, days, recurring)
    BY <1>9 DEF CreateCoachEvent
  <2> HIDE DEF days, recurring
  <2> QED
    BY <1>6, <2>1, <2>2
<1>10. CASE CalendarNext
  BY <1>3, <1>4, <1>8, <1>9, <1>10 DEF CalendarNext
<1>11. CASE AttendanceNext
  BY <1>5, <1>11 DEF AttendanceNext
<1> QED
  BY <1>2, <1>10, <1>11 DEF PracticeMoves

-----------------------------------------------------------------------------
(* The roster.  Rows of teams and players stay, deleted or not, so what a    *)
(* request refers to is there; and who was profiled stays so.                *)

PlayerRow == [team : Nat, active : BOOLEAN, filled : BOOLEAN, metrics : Metrics]

WorkRow == [step : {"away", "open", "switch", "asking", "save", "merge", "import"},
            at : Nat, of : Nat, read : Metrics, scored : SUBSET Skill]

WorkSound(r) ==
  /\ working[r] \in WorkRow
  /\ working[r].at \in DOMAIN teamRows \cup {Nowhere}
  /\ working[r].step = "switch" => working[r].of \in DOMAIN teamRows
  /\ working[r].step \in {"asking", "save", "merge"} => working[r].of \in DOMAIN playerRows

TeamsInv ==
  /\ teamRows \in Seq({"own", "taken", "deleted"})
  /\ atTeam \in DOMAIN teamRows \cup {Nowhere}

PlayersInv ==
  /\ playerRows \in Seq(PlayerRow)
  /\ \A p \in DOMAIN playerRows :
       /\ playerRows[p].team \in DOMAIN teamRows
       /\ teamRows[playerRows[p].team] # "deleted"
       /\ playerRows[p].metrics = NoMetrics \/ playerRows[p].filled

WorkInv == DOMAIN working = Worker /\ \A r \in Worker : WorkSound(r)

RosterInv == TeamsInv /\ PlayersInv /\ WorkInv

LEMMA RosterInitially ==
  ASSUME NEW settled \in BOOLEAN, CoachRosterInit(settled)
  PROVE  RosterInv
<1>1. NoMetrics \in Metrics
  BY DEF NoMetrics, Metrics
<1>2. NewPlayer(1) \in PlayerRow /\ NewPlayer(1).team = 1 /\ NewPlayer(1).metrics = NoMetrics
  BY <1>1 DEF NewPlayer, PlayerRow
<1>3. TeamsInv
  BY DEF CoachRosterInit, TeamsInv, Nowhere
<1>4. PlayersInv
  <2>1. CASE settled
    <3>1. teamRows = <<"own">> /\ playerRows = <<NewPlayer(1), NewPlayer(1)>>
      BY <2>1 DEF CoachRosterInit
    <3>2. DOMAIN playerRows = 1..2 /\ \A p \in 1..2 : playerRows[p] = NewPlayer(1)
      BY <3>1
    <3> QED
      BY <1>2, <3>1, <3>2 DEF PlayersInv
  <2>2. CASE ~ settled
    BY <2>2 DEF CoachRosterInit, PlayersInv
  <2> QED
    BY <2>1, <2>2
<1>5. Away \in WorkRow /\ Away.at = Nowhere /\ Away.step = "away"
  BY <1>1 DEF Away, WorkRow, Nowhere
<1>6. working = [r \in Worker |-> Away]
  BY DEF CoachRosterInit
<1>7. WorkInv
  BY <1>5, <1>6 DEF WorkInv, WorkSound
<1> QED
  BY <1>3, <1>4, <1>7 DEF RosterInv

LEMMA RosterSound == RosterInv => CoachRosterTypeOK
<1> SUFFICES ASSUME RosterInv PROVE CoachRosterTypeOK
  OBVIOUS
<1>1. \A p \in DOMAIN playerRows : playerRows[p] \in PlayerRow
  BY DEF RosterInv, PlayersInv
<1>2. \A p \in DOMAIN playerRows : playerRows[p].metrics \in Metrics
  BY <1>1 DEF PlayerRow
<1> QED
  BY <1>2 DEF RosterInv, TeamsInv, PlayersInv, CoachRosterTypeOK

\* One request moves; teams and players are as they were, or more.
LEMMA WorkMoves ==
  ASSUME WorkInv, NEW r \in Worker, NEW w \in WorkRow, working' = [working EXCEPT ![r] = w],
         DOMAIN teamRows \subseteq DOMAIN teamRows', DOMAIN playerRows \subseteq DOMAIN playerRows',
         w.at \in DOMAIN teamRows' \cup {Nowhere},
         w.step = "switch" => w.of \in DOMAIN teamRows',
         w.step \in {"asking", "save", "merge"} => w.of \in DOMAIN playerRows'
  PROVE  WorkInv'
<1>1. DOMAIN working' = Worker /\ working'[r] = w /\ \A o \in Worker \ {r} : working'[o] = working[o]
  BY DEF WorkInv
<1>2. WorkSound(r)'
  BY <1>1 DEF WorkSound
<1>3. \A o \in Worker \ {r} : WorkSound(o)'
  BY <1>1 DEF WorkInv, WorkSound
<1> QED
  BY <1>1, <1>2, <1>3 DEF WorkInv

LEMMA WorkCloses ==
  ASSUME WorkInv, NEW r \in Worker, Close(r),
         DOMAIN teamRows \subseteq DOMAIN teamRows', DOMAIN playerRows \subseteq DOMAIN playerRows'
  PROVE  WorkInv'
<1>1. Away \in WorkRow /\ Away.at = Nowhere /\ Away.step = "away"
  BY DEF Away, WorkRow, Nowhere, NoMetrics, Metrics
<1>2. working' = [working EXCEPT ![r] = Away]
  BY DEF Close
<1> QED
  BY <1>1, <1>2, WorkMoves

LEMMA WorkStands == WorkInv /\ UNCHANGED <<working, teamRows, playerRows>> => WorkInv'
BY DEF WorkInv, WorkSound

LEMMA PlayersStand == PlayersInv /\ UNCHANGED <<teamRows, playerRows>> => PlayersInv'
BY DEF PlayersInv

LEMMA TeamsStand == TeamsInv /\ UNCHANGED <<teamRows, atTeam>> => TeamsInv'
BY DEF TeamsInv

\* A row of a team is replaced.
LEMMA TeamChanges ==
  ASSUME RosterInv, NEW t \in DOMAIN teamRows, NEW x \in {"own", "taken", "deleted"},
         teamRows' = [teamRows EXCEPT ![t] = x], playerRows' = playerRows,
         x = "deleted" => \A p \in DOMAIN playerRows : playerRows[p].team # t
  PROVE  /\ DOMAIN teamRows' = DOMAIN teamRows /\ teamRows' \in Seq({"own", "taken", "deleted"})
         /\ PlayersInv'
<1>1. /\ teamRows' \in Seq({"own", "taken", "deleted"}) /\ DOMAIN teamRows' = DOMAIN teamRows
      /\ teamRows'[t] = x /\ \A u \in DOMAIN teamRows \ {t} : teamRows'[u] = teamRows[u]
  BY DEF RosterInv, TeamsInv
<1>2. PlayersInv'
  BY <1>1 DEF RosterInv, PlayersInv
<1> QED
  BY <1>1, <1>2

LEMMA TeamsStep ==
  ASSUME RosterInv, TeamsNext
  PROVE  RosterInv' /\ playerRows' = playerRows
<1> USE DEF RosterInv
<1>0. OwnTeams \subseteq DOMAIN teamRows
  BY DEF OwnTeams
<1>1. ASSUME NEW r \in Worker, OpenRequest(r) PROVE RosterInv' /\ playerRows' = playerRows
  <2> DEFINE w == [Away EXCEPT !.step = "open", !.at = atTeam]
  <2>1. working' = [working EXCEPT ![r] = w] /\ UNCHANGED <<teamRows, atTeam, playerRows>>
    BY <1>1 DEF OpenRequest
  <2>2. atTeam \in Nat /\ atTeam \in DOMAIN teamRows \cup {Nowhere}
    BY DEF TeamsInv, Nowhere
  <2>3. w \in WorkRow /\ w.at = atTeam /\ w.step = "open"
    BY <2>2 DEF Away, WorkRow, Nowhere, NoMetrics, Metrics
  <2> HIDE DEF w
  <2>4. WorkInv'
    BY <2>1, <2>2, <2>3, WorkMoves
  <2> QED
    BY <2>1, <2>4, PlayersStand, TeamsStand
<1>2. ASSUME NEW r \in Worker, EndRequest(r) PROVE RosterInv' /\ playerRows' = playerRows
  BY <1>2, WorkCloses, PlayersStand, TeamsStand DEF EndRequest
<1>3. ASSUME NEW r \in Worker, CreateTeam(r) PROVE RosterInv' /\ playerRows' = playerRows
  <2>1. /\ teamRows' \in Seq({"own", "taken", "deleted"}) /\ Len(teamRows') = Len(teamRows) + 1
        /\ DOMAIN teamRows \subseteq DOMAIN teamRows' /\ Len(teamRows') \in DOMAIN teamRows'
        /\ \A t \in DOMAIN teamRows : teamRows'[t] = teamRows[t]
    BY <1>3 DEF CreateTeam, TeamsInv
  <2>2. atTeam' \in DOMAIN teamRows' \cup {Nowhere}
    BY <1>3, <2>1 DEF CreateTeam, TeamsInv
  <2>3. PlayersInv' /\ playerRows' = playerRows
    BY <1>3, <2>1 DEF CreateTeam, PlayersInv
  <2>4. WorkInv'
    BY <1>3, <2>1, <2>3, WorkCloses DEF CreateTeam
  <2> QED
    BY <2>1, <2>2, <2>3, <2>4 DEF TeamsInv
<1>4. ASSUME NEW r \in Worker, MakeActive(r) PROVE RosterInv' /\ playerRows' = playerRows
  <2>1. atTeam' \in DOMAIN teamRows /\ UNCHANGED <<teamRows, playerRows>> /\ Close(r)
    BY <1>4 DEF MakeActive, WorkInv, WorkSound
  <2> QED
    BY <2>1, WorkCloses, PlayersStand DEF TeamsInv
<1>5. ASSUME NEW r \in Worker, NEW t \in OwnTeams, CheckTeam(r, t)
      PROVE  RosterInv' /\ playerRows' = playerRows
  <2> DEFINE w == [working[r] EXCEPT !.step = "switch", !.of = t]
  <2>1. working' = [working EXCEPT ![r] = w] /\ UNCHANGED <<teamRows, atTeam, playerRows>>
    BY <1>5 DEF CheckTeam
  <2>2. WorkSound(r) /\ t \in DOMAIN teamRows /\ t \in Nat
    BY <1>0 DEF WorkInv, TeamsInv
  <2>3. w \in WorkRow /\ w.at = working[r].at /\ w.step = "switch" /\ w.of = t
    BY <2>2 DEF WorkSound, WorkRow
  <2> HIDE DEF w
  <2>4. WorkInv'
    BY <2>1, <2>2, <2>3, WorkMoves DEF WorkSound
  <2> QED
    BY <2>1, <2>4, PlayersStand, TeamsStand
<1>6. ASSUME NEW r \in Worker, NEW t \in OwnTeams, DeleteTeam(r, t)
      PROVE  RosterInv' /\ playerRows' = playerRows
  <2>1. teamRows' = [teamRows EXCEPT ![t] = "deleted"] /\ playerRows' = playerRows /\ Close(r)
        /\ \A p \in DOMAIN playerRows : playerRows[p].team # t
    BY <1>6 DEF DeleteTeam
  <2>2. /\ DOMAIN teamRows' = DOMAIN teamRows /\ teamRows' \in Seq({"own", "taken", "deleted"})
        /\ PlayersInv'
    BY <1>0, <2>1, TeamChanges
  <2>3. atTeam' \in DOMAIN teamRows \cup {Nowhere}
    BY <1>0, <1>6 DEF DeleteTeam, TeamsInv
  <2>4. WorkInv'
    BY <2>1, <2>2, WorkCloses
  <2> QED
    BY <2>1, <2>2, <2>3, <2>4 DEF TeamsInv
<1>7. ASSUME NEW t \in OwnTeams, TakeOff(t) PROVE RosterInv' /\ playerRows' = playerRows
  <2>1. teamRows' = [teamRows EXCEPT ![t] = "taken"] /\ UNCHANGED <<atTeam, playerRows, working>>
    BY <1>7 DEF TakeOff
  <2>2. /\ DOMAIN teamRows' = DOMAIN teamRows /\ teamRows' \in Seq({"own", "taken", "deleted"})
        /\ PlayersInv'
    BY <1>0, <2>1, TeamChanges
  <2>3. WorkInv'
    BY <2>1, <2>2 DEF WorkInv, WorkSound
  <2> QED
    BY <2>1, <2>2, <2>3 DEF TeamsInv
<1>8. CASE OpenPage
  <2>1. atTeam' \in DOMAIN teamRows /\ UNCHANGED <<teamRows, playerRows, working>>
    BY <1>0, <1>8 DEF OpenPage
  <2> QED
    BY <2>1, PlayersStand, WorkStands DEF TeamsInv
<1> QED
  BY <1>1, <1>2, <1>3, <1>4, <1>5, <1>6, <1>7, <1>8 DEF TeamsNext

\* Of what the players have, a step loses no profile, and a score only as it should.
ScoreLost(p, k) ==
  \E r \in Worker :
    /\ working[r].of = p /\ working'[r] = Away
    /\ working[r].step = "save" \/ k \notin working[r].read.scored

PlayersKept ==
  /\ DOMAIN playerRows \subseteq DOMAIN playerRows'
  /\ \A p \in DOMAIN playerRows :
       /\ playerRows[p].filled => playerRows'[p].filled
       /\ playerRows'[p].team = playerRows[p].team
       /\ \A k \in playerRows[p].metrics.scored \ playerRows'[p].metrics.scored : ScoreLost(p, k)

LEMMA KeptIsKept == ASSUME PlayersKept PROVE ScoresKept
<1>1. \A t \in DOMAIN teamRows : Profiled(t) \cap Pending(t)' = {}
  BY DEF PlayersKept, Profiled, Pending, Active
<1>2. \A p \in DOMAIN playerRows :
        \A k \in playerRows[p].metrics.scored \ playerRows'[p].metrics.scored :
          \E r \in Worker :
            /\ working[r].of = p /\ working'[r] = Away
            /\ working[r].step = "save" \/ k \notin working[r].read.scored
  BY DEF PlayersKept, ScoreLost
<1> QED
  BY <1>1, <1>2 DEF ScoresKept

LEMMA UnchangedKeeps == ASSUME playerRows' = playerRows PROVE PlayersKept
BY DEF PlayersKept

\* One player is changed.
LEMMA PlayerChanges ==
  ASSUME RosterInv, NEW p \in DOMAIN playerRows, NEW x \in PlayerRow,
         playerRows' = [playerRows EXCEPT ![p] = x], UNCHANGED <<teamRows, atTeam>>,
         x.team = playerRows[p].team, x.metrics = NoMetrics \/ x.filled,
         playerRows[p].filled => x.filled,
         \A k \in playerRows[p].metrics.scored \ x.metrics.scored : ScoreLost(p, k)
  PROVE  /\ PlayersInv' /\ TeamsInv' /\ DOMAIN playerRows' = DOMAIN playerRows
         /\ PlayersKept
<1>1. /\ playerRows' \in Seq(PlayerRow) /\ DOMAIN playerRows' = DOMAIN playerRows
      /\ playerRows'[p] = x /\ \A o \in DOMAIN playerRows \ {p} : playerRows'[o] = playerRows[o]
  BY DEF RosterInv, PlayersInv
<1>2. PlayersInv'
  BY <1>1 DEF RosterInv, PlayersInv
<1> HIDE DEF ScoreLost
<1>3. \A o \in DOMAIN playerRows : o # p =>
        playerRows[o].metrics.scored \ playerRows'[o].metrics.scored = {}
  BY <1>1
<1>4. PlayersKept
  BY <1>1, <1>3 DEF PlayersKept
<1> QED
  BY <1>1, <1>2, <1>4, TeamsStand DEF RosterInv

LEMMA PlayersAdded ==
  ASSUME RosterInv, NEW r \in Worker, NEW n \in 1..2, AddPlayers(r, n)
  PROVE  RosterInv' /\ PlayersKept
<1> USE DEF RosterInv
<1> DEFINE t == working[r].at
           new == [i \in 1..n |-> NewPlayer(t)]
<1>1. /\ t # Nowhere /\ teamRows[t] # "deleted" /\ playerRows' = playerRows \o new
      /\ Close(r) /\ UNCHANGED <<teamRows, atTeam>>
  BY DEF AddPlayers
<1>2. t \in DOMAIN teamRows /\ t \in Nat
  BY <1>1 DEF WorkInv, WorkSound, TeamsInv
<1>3. NewPlayer(t) \in PlayerRow /\ NewPlayer(t).team = t /\ NewPlayer(t).metrics = NoMetrics
  BY <1>2 DEF NewPlayer, PlayerRow, NoMetrics, Metrics
<1> HIDE DEF t
<1>4. new \in Seq(PlayerRow) /\ Len(new) = n /\ \A i \in 1..n : new[i] = NewPlayer(t)
  BY <1>3
<1> HIDE DEF new
<1>5. playerRows \in Seq(PlayerRow)
  BY DEF PlayersInv
<1>6. /\ playerRows' \in Seq(PlayerRow) /\ Len(playerRows') = Len(playerRows) + n
      /\ \A p \in 1..Len(playerRows) : playerRows'[p] = playerRows[p]
      /\ \A p \in 1..(Len(playerRows) + n) : p > Len(playerRows) =>
           playerRows'[p] = NewPlayer(t)
  <2>1. \A p \in 1..(Len(playerRows) + n) : p > Len(playerRows) =>
          /\ p - Len(playerRows) \in 1..n
          /\ playerRows'[p] = new[p - Len(playerRows)]
    BY <1>1, <1>4, <1>5
  <2>2. \A p \in 1..Len(playerRows) : playerRows'[p] = playerRows[p]
    BY <1>1, <1>4, <1>5
  <2>3. playerRows' \in Seq(PlayerRow) /\ Len(playerRows') = Len(playerRows) + n
    BY <1>1, <1>4, <1>5
  <2> QED
    BY <1>4, <2>1, <2>2, <2>3
<1>7. DOMAIN playerRows' = 1..(Len(playerRows) + n) /\ DOMAIN playerRows = 1..Len(playerRows)
      /\ Len(playerRows) \in Nat
  BY <1>5, <1>6
<1>8. PlayersInv'
  <2>1. ASSUME NEW p \in DOMAIN playerRows'
        PROVE  /\ playerRows'[p].team \in DOMAIN teamRows'
               /\ teamRows'[playerRows'[p].team] # "deleted"
               /\ playerRows'[p].metrics = NoMetrics \/ playerRows'[p].filled
    <3>1. CASE p \in DOMAIN playerRows
      BY <1>1, <1>6, <1>7, <3>1 DEF PlayersInv
    <3>2. CASE p \notin DOMAIN playerRows
      <4>1. playerRows'[p] = NewPlayer(t)
        BY <1>6, <1>7, <2>1, <3>2
      <4> QED
        BY <1>1, <1>2, <1>3, <4>1 DEF t
    <3> QED
      BY <3>1, <3>2
  <2> QED
    BY <1>6, <2>1 DEF PlayersInv
<1>9. DOMAIN playerRows \subseteq DOMAIN playerRows'
  BY <1>7
<1>10. WorkInv'
  BY <1>1, <1>9, WorkCloses
<1>11. PlayersKept
  BY <1>6, <1>7, <1>9 DEF PlayersKept
<1> QED
  BY <1>1, <1>8, <1>10, <1>11, TeamsStand

LEMMA PlayersStep ==
  ASSUME RosterInv, PlayersNext
  PROVE  RosterInv' /\ PlayersKept
<1> USE DEF RosterInv
<1>1. ASSUME NEW r \in Worker, NEW p \in DOMAIN playerRows, NEW yes \in BOOLEAN, Activate(r, p, yes)
      PROVE  RosterInv' /\ PlayersKept
  <2> DEFINE x == [playerRows[p] EXCEPT !.active = yes]
  <2>1. playerRows' = [playerRows EXCEPT ![p] = x] /\ Close(r) /\ UNCHANGED <<teamRows, atTeam>>
    BY <1>1 DEF Activate
  <2>2. playerRows[p] \in PlayerRow
    BY DEF PlayersInv
  <2>3. /\ x \in PlayerRow /\ x.team = playerRows[p].team /\ x.metrics = playerRows[p].metrics
        /\ x.filled = playerRows[p].filled
    BY <2>2 DEF PlayerRow
  <2>4. x.metrics = NoMetrics \/ x.filled
    BY <2>3 DEF PlayersInv
  <2> HIDE DEF x
  <2>5. playerRows[p].metrics.scored \ x.metrics.scored = {}
    BY <2>3
  <2>6. PlayersInv' /\ TeamsInv' /\ DOMAIN playerRows' = DOMAIN playerRows /\ PlayersKept
    BY <2>1, <2>3, <2>4, <2>5, PlayerChanges
  <2>7. WorkInv'
    BY <2>1, <2>6, WorkCloses
  <2> QED
    BY <2>6, <2>7
<1> QED
  BY <1>1, PlayersAdded DEF PlayersNext, AddByTool

LEMMA MetricsRead ==
  ASSUME RosterInv, NEW r \in Worker, NEW p \in DOMAIN playerRows, NEW step \in {"save", "merge"},
         NEW scored \in SUBSET Skill, ReadMetrics(r, p, step, scored),
         UNCHANGED <<teamRows, atTeam, playerRows>>
  PROVE  RosterInv' /\ PlayersKept
<1> USE DEF RosterInv
<1> DEFINE w == [working[r] EXCEPT !.step = step, !.of = p,
                                   !.read = playerRows[p].metrics, !.scored = scored]
<1>1. working' = [working EXCEPT ![r] = w]
  BY DEF ReadMetrics
<1>2. playerRows[p].metrics \in Metrics /\ p \in Nat /\ WorkSound(r)
  <2>1. playerRows[p] \in PlayerRow
    BY DEF PlayersInv
  <2> QED
    BY <2>1 DEF PlayersInv, PlayerRow, WorkInv
<1>3. w \in WorkRow /\ w.at = working[r].at /\ w.step = step /\ w.of = p
  BY <1>2 DEF WorkSound, WorkRow
<1> HIDE DEF w
<1>4. WorkInv'
  BY <1>1, <1>2, <1>3, WorkMoves DEF WorkSound
<1> QED
  BY <1>4, PlayersStand, TeamsStand, UnchangedKeeps

LEMMA MetricsCommitted ==
  ASSUME RosterInv, NEW r \in Worker, NEW rescored \in BOOLEAN, CommitMetrics(r, rescored)
  PROVE  RosterInv' /\ PlayersKept
<1> USE DEF RosterInv
<1> DEFINE p == working[r].of
           old == playerRows[p].metrics
           new == IF rescored \/ Stored(r) # working[r].read THEN Stored(r) ELSE old
           filled == playerRows[p].filled \/ Profiles(r)
           x == [playerRows[p] EXCEPT !.filled = filled, !.metrics = new]
<1>1. /\ working[r].step \in {"save", "merge"} /\ Profiles(r)
      /\ playerRows' = [playerRows EXCEPT ![p] = x] /\ Close(r) /\ UNCHANGED <<teamRows, atTeam>>
  BY DEF CommitMetrics, Profiles
<1>2. WorkSound(r) /\ p \in DOMAIN playerRows
  BY <1>1 DEF WorkInv, WorkSound
<1>3. playerRows[p] \in PlayerRow /\ working[r].read \in Metrics /\ working[r].scored \in SUBSET Skill
  BY <1>2 DEF PlayersInv, WorkSound, WorkRow
<1>4. Stored(r) \in Metrics
  <2> DEFINE scored == working[r].read.scored \cup working[r].scored
             row == working[r].read.row \/ scored # {}
  <2>1. Merged(r) = [row |-> row, scored |-> scored]
    BY DEF Merged
  <2>2. row \in BOOLEAN /\ scored \in SUBSET Skill
    BY <1>3 DEF Metrics
  <2> HIDE DEF row, scored
  <2>3. Merged(r) \in Metrics
    BY <2>1, <2>2 DEF Metrics
  <2>4. [row |-> TRUE, scored |-> working[r].scored] \in Metrics
    BY <1>3 DEF Metrics
  <2> QED
    BY <2>3, <2>4 DEF Stored
<1>5. working[r].step = "merge" => working[r].read.scored \subseteq Stored(r).scored
  BY DEF Stored, Merged
<1>6. old \in Metrics /\ new \in Metrics /\ filled \in BOOLEAN /\ filled
  BY <1>1, <1>3, <1>4 DEF PlayerRow
<1>7. working'[r] = Away
  BY <1>1 DEF Close, WorkInv
<1>8. \A k \in old.scored \ new.scored : ScoreLost(p, k)
  BY <1>1, <1>5, <1>7 DEF ScoreLost
<1> HIDE DEF new, filled
<1>9. x \in PlayerRow /\ x.team = playerRows[p].team /\ x.metrics = new /\ x.filled = filled
  BY <1>3, <1>6 DEF PlayerRow
<1> HIDE DEF x, p, ScoreLost
<1>10. PlayersInv' /\ TeamsInv' /\ DOMAIN playerRows' = DOMAIN playerRows /\ PlayersKept
  BY <1>1, <1>2, <1>6, <1>8, <1>9, PlayerChanges
<1>11. WorkInv'
  BY <1>1, <1>10, WorkCloses
<1> QED
  BY <1>10, <1>11

LEMMA MetricsStep ==
  ASSUME RosterInv, MetricsNext
  PROVE  RosterInv' /\ PlayersKept
<1>1. ASSUME NEW r \in Worker, NEW scored \in SUBSET Skill, ModelScores(r, scored)
      PROVE  RosterInv' /\ PlayersKept
  <2>1. working[r].of \in DOMAIN playerRows
    BY <1>1 DEF ModelScores, RosterInv, WorkInv, WorkSound
  <2> QED
    BY <1>1, <2>1, MetricsRead DEF ModelScores
<1>2. ASSUME NEW r \in Worker, NEW scored \in SUBSET Skill, NEW p \in DOMAIN playerRows,
             EnterMetrics(r, p, scored)
      PROVE  RosterInv' /\ PlayersKept
  BY <1>2, MetricsRead DEF EnterMetrics
<1>3. ASSUME NEW r \in Worker, NEW p \in DOMAIN playerRows, Describe(r, p)
      PROVE  RosterInv' /\ PlayersKept
  <2> DEFINE w == [working[r] EXCEPT !.step = "asking", !.of = p]
  <2>1. working' = [working EXCEPT ![r] = w] /\ UNCHANGED <<teamRows, atTeam, playerRows>>
    BY <1>3 DEF Describe
  <2>2. WorkSound(r) /\ p \in Nat
    BY DEF RosterInv, WorkInv, PlayersInv
  <2>3. w \in WorkRow /\ w.at = working[r].at /\ w.step = "asking" /\ w.of = p
    BY <2>2 DEF WorkSound, WorkRow
  <2> HIDE DEF w
  <2>4. WorkInv'
    BY <2>1, <2>2, <2>3, WorkMoves DEF WorkSound, RosterInv
  <2> QED
    BY <2>1, <2>4, PlayersStand, TeamsStand, UnchangedKeeps DEF RosterInv
<1> QED
  BY <1>1, <1>2, <1>3, MetricsCommitted DEF MetricsNext

-----------------------------------------------------------------------------
(* The notebook.  A line names a player and a game once, whichever imports   *)
(* file it.                                                                  *)

EntryRow == [team : Nat, kind : EntryKind, tags : SUBSET Nat, live : BOOLEAN, records : SUBSET Nat]

ImportSound(i) == i.listed \in Seq(Nat) /\ i.game \subseteq Game /\ \A g, h \in i.game : g = h

FiledOnce(L) == \A l, k \in L : l.player = k.player /\ l.game = k.game => l = k

EntriesInv ==
  /\ entries \in Seq(EntryRow)
  /\ \A e \in DOMAIN entries : entries[e].records # {} => entries[e].kind = "attendance"

LinesInv == lines \subseteq Line /\ IsFiniteSet(lines) /\ FiledOnce(lines)

ImportsInv == DOMAIN importing = Worker /\ \A r \in Worker : ImportSound(importing[r])

NotebookInv == RosterInv /\ EntriesInv /\ LinesInv /\ ImportsInv

LEMMA NoImportSound == ImportSound(NoImport)
BY DEF ImportSound, NoImport

LEMMA NotebookInitially ==
  ASSUME NEW settled \in BOOLEAN, CoachRosterInit(settled), NotebookInit
  PROVE  NotebookInv
<1>1. EntriesInv
  BY DEF NotebookInit, EntriesInv
<1>2. LinesInv
  BY FS_EmptySet DEF NotebookInit, LinesInv, FiledOnce
<1>3. ImportsInv
  BY NoImportSound DEF NotebookInit, ImportsInv
<1> QED
  BY <1>1, <1>2, <1>3, RosterInitially DEF NotebookInv

LEMMA NotebookSound == NotebookInv => NotebookTypeOK
BY RosterSound DEF NotebookInv, EntriesInv, LinesInv, FiledOnce, NotebookTypeOK

\* Lines of one player are lines of as many games.
LEMMA GamesApart ==
  ASSUME NEW L, IsFiniteSet(L), FiledOnce(L), NEW t, NEW p
  PROVE  Cardinality({l \in L : l.team = t /\ l.player = p})
           <= Cardinality({l.game : l \in {k \in L : k.team = t}})
<1> DEFINE mine == {l \in L : l.team = t /\ l.player = p}
           all == {k \in L : k.team = t}
           games == {l.game : l \in all}
           f == [l \in mine |-> l.game]
           h == [l \in all |-> l.game]
<1>1. IsFiniteSet(all)
  BY FS_Subset
<1>2. h \in Surjection(all, games)
  BY DEF Surjection
<1>3. IsFiniteSet(games)
  BY <1>1, <1>2, FS_Surjection
<1>4. f \in [mine -> games]
  OBVIOUS
<1>5. \A l, k \in mine : f[l] = f[k] => l = k
  BY DEF FiledOnce
<1> HIDE DEF mine, games, f
<1>6. f \in Injection(mine, games)
  BY <1>4, <1>5 DEF Injection, IsInjective
<1>7. Cardinality(mine) <= Cardinality(games)
  BY <1>3, <1>6, FS_Injection
<1> QED
  BY <1>7 DEF mine, games

LEMMA LinesAreFiled ==
  ASSUME LinesInv', lines \subseteq lines' \/ \E l \in lines : lines' = lines \ {l}
  PROVE  LinesFiled
<1>1. ASSUME NEW r \in Worker, CommitImport(r),
             NEW g \in importing[r].game, NEW p \in Range(importing[r].listed) \ {0},
             p \in importing[r].found => LinesOf(p, g) # {}
      PROVE  \E l \in lines' : l.player = p /\ l.game = g
  <2>1. lines' = lines \cup Added(r)
    BY <1>1 DEF CommitImport
  <2>2. CASE p \in importing[r].found
    <3>1. PICK l \in lines : l.player = p /\ l.game = g
      BY <1>1, <2>2 DEF LinesOf
    <3> QED
      BY <2>1, <3>1
  <2>3. CASE p \notin importing[r].found
    <3>1. PICK n \in DOMAIN importing[r].listed : importing[r].listed[n] = p
      BY DEF Range
    <3>2. n \in Missing(importing[r])
      BY <2>3, <3>1 DEF Missing
    <3> DEFINE l == [player |-> importing[r].listed[n], game |-> g,
                     team |-> working[r].at, entry |-> Len(entries) + 1]
    <3>3. l \in Added(r)
      BY <3>2 DEF Added
    <3>4. l.player = p /\ l.game = g
      BY <3>1
    <3> QED
      BY <2>1, <3>3, <3>4
  <2> QED
    BY <2>2, <2>3
<1>2. \A l \in lines \ lines' : lines' = lines \ {l}
  OBVIOUS
<1>3. \A t \in DOMAIN teamRows, p \in DOMAIN playerRows : GamesOf(t, p)' <= TeamGames(t)'
  <2> SUFFICES ASSUME NEW t \in DOMAIN teamRows, NEW p \in DOMAIN playerRows
               PROVE  \A u, o : u = t /\ o = p => GamesOf(u, o)' <= TeamGames(u)'
    OBVIOUS
  <2>1. IsFiniteSet(lines') /\ FiledOnce(lines')
    BY DEF LinesInv
  <2>2. \A u, o : Cardinality({l \in lines' : l.team = u /\ l.player = o})
                     <= Cardinality({l.game : l \in {k \in lines' : k.team = u}})
    BY <2>1, GamesApart
  <2> QED
    BY <2>2 DEF GamesOf, TeamGames
<1> QED
  BY <1>1, <1>2, <1>3 DEF LinesFiled

LEMMA RequestCloses ==
  ASSUME RosterInv, NEW r \in Worker, Close(r), UNCHANGED <<teamRows, atTeam, playerRows>>
  PROVE  RosterInv'
BY WorkCloses, PlayersStand, TeamsStand DEF RosterInv

LEMMA NotebookStands == NotebookInv /\ RosterInv' /\ UNCHANGED notebookVars => NotebookInv'
BY DEF NotebookInv, notebookVars, EntriesInv, LinesInv, ImportsInv

LEMMA LinesStand == LinesInv /\ lines' = lines => LinesInv'
BY DEF LinesInv

LEMMA ImportsStand == ImportsInv /\ importing' = importing => ImportsInv'
BY DEF ImportsInv

\* One entry is added, or changed.
LEMMA EntryAdded ==
  ASSUME EntriesInv, NEW x \in EntryRow, entries' = Append(entries, x),
         x.records # {} => x.kind = "attendance"
  PROVE  EntriesInv'
BY DEF EntriesInv

LEMMA EntryChanged ==
  ASSUME EntriesInv, NEW e \in DOMAIN entries, NEW x \in EntryRow,
         entries' = [entries EXCEPT ![e] = x], x.records # {} => x.kind = "attendance"
  PROVE  EntriesInv'
<1>1. entries' \in Seq(EntryRow) /\ DOMAIN entries' = DOMAIN entries
      /\ entries'[e] = x /\ \A o \in DOMAIN entries \ {e} : entries'[o] = entries[o]
  BY DEF EntriesInv
<1> QED
  BY <1>1 DEF EntriesInv

LEMMA EntriesStep ==
  ASSUME NotebookInv, EntriesNext
  PROVE  NotebookInv' /\ PlayersKept /\ lines' = lines
<1> USE DEF NotebookInv
<1>0. DOMAIN playerRows \subseteq Nat /\ LiveEntries \subseteq DOMAIN entries
      /\ \A e \in DOMAIN entries : entries[e] \in EntryRow
  BY DEF RosterInv, PlayersInv, LiveEntries, EntriesInv
<1>1. ASSUME NEW r \in Worker, Close(r), UNCHANGED <<teamRows, atTeam, playerRows, lines, importing>>,
             EntriesInv'
      PROVE  NotebookInv' /\ PlayersKept /\ lines' = lines
  BY <1>1, RequestCloses, LinesStand, ImportsStand, UnchangedKeeps
<1>2. ASSUME NEW r \in Worker, NEW tags \in SUBSET DOMAIN playerRows,
             NEW records \in {{}, DOMAIN playerRows}, NEW kind \in EntryKind,
             CreateEntry(r, kind, tags, records)
      PROVE  NotebookInv' /\ PlayersKept /\ lines' = lines
  <2> DEFINE x == [team |-> working[r].at, kind |-> kind, tags |-> tags, live |-> TRUE,
                   records |-> IF kind = "attendance" THEN records ELSE {}]
  <2>1. entries' = Append(entries, x)
    BY <1>2 DEF CreateEntry
  <2>2. working[r].at \in Nat
    BY DEF RosterInv, WorkInv, WorkSound, WorkRow
  <2>3. x \in EntryRow /\ (x.records # {} => x.kind = "attendance")
    BY <1>0, <2>2 DEF EntryRow
  <2> HIDE DEF x
  <2>4. EntriesInv'
    BY <2>1, <2>3, EntryAdded
  <2> QED
    BY <1>1, <1>2, <2>4 DEF CreateEntry
<1>3. ASSUME NEW r \in Worker, NEW tags \in SUBSET DOMAIN playerRows,
             NEW records \in {{}, DOMAIN playerRows}, NEW e \in LiveEntries,
             UpdateEntry(r, e, tags, records)
      PROVE  NotebookInv' /\ PlayersKept /\ lines' = lines
  <2> DEFINE kept == IF entries[e].kind = "attendance" THEN records ELSE entries[e].records
             x == [entries[e] EXCEPT !.tags = tags, !.records = kept]
  <2>1. entries' = [entries EXCEPT ![e] = x]
    BY <1>3 DEF UpdateEntry
  <2>2. entries[e] \in EntryRow /\ (kept # {} => entries[e].kind = "attendance") /\ kept \in SUBSET Nat
    BY <1>0 DEF EntriesInv, EntryRow
  <2> HIDE DEF kept
  <2>3. x \in EntryRow /\ (x.records # {} => x.kind = "attendance")
    BY <1>0, <2>2 DEF EntryRow
  <2> HIDE DEF x
  <2>4. EntriesInv'
    BY <1>0, <2>1, <2>3, EntryChanged
  <2> QED
    BY <1>1, <1>3, <2>4 DEF UpdateEntry
<1>4. ASSUME NEW r \in Worker, NEW e \in LiveEntries, DeleteEntry(r, e)
      PROVE  NotebookInv' /\ PlayersKept /\ lines' = lines
  <2> DEFINE x == [entries[e] EXCEPT !.live = FALSE, !.tags = {}, !.records = {}]
  <2>1. entries' = [entries EXCEPT ![e] = x]
    BY <1>4 DEF DeleteEntry
  <2>2. x \in EntryRow /\ x.records = {}
    BY <1>0 DEF EntryRow
  <2> HIDE DEF x
  <2>3. EntriesInv'
    BY <1>0, <2>1, <2>2, EntryChanged
  <2> QED
    BY <1>1, <1>4, <2>3 DEF DeleteEntry
<1> QED
  BY <1>2, <1>3, <1>4 DEF EntriesNext

\* What an import adds: a line of each missing player, of the one game.
LEMMA LinesAdded ==
  ASSUME NotebookInv, NEW r \in Worker, CommitImport(r)
  PROVE  LinesInv'
<1> USE DEF NotebookInv
<1> DEFINE i == importing[r]
           line(n, g) == [player |-> i.listed[n], game |-> g,
                          team |-> working[r].at, entry |-> Len(entries) + 1]
<1>1. lines' = lines \cup Added(r) /\ \A a \in Added(r) : LinesOf(a.player, a.game) = {}
  BY DEF CommitImport, Unique
<1>2. ImportSound(i) /\ working[r].at \in Nat /\ Len(entries) + 1 \in Nat
  BY DEF ImportsInv, EntriesInv, RosterInv, WorkInv, WorkSound, WorkRow
<1>3. /\ DOMAIN i.listed = 1..Len(i.listed) /\ Len(i.listed) \in Nat
      /\ \A n \in DOMAIN i.listed : i.listed[n] \in Nat
  BY <1>2 DEF ImportSound
<1>4. Added(r) = {line(n, g) : n \in Missing(i), g \in i.game} /\ Missing(i) \subseteq DOMAIN i.listed
  BY DEF Added, Missing
<1>5. \A n \in Missing(i), g \in i.game :
        line(n, g) \in Line /\ line(n, g).player = i.listed[n] /\ line(n, g).game = g
  BY <1>2, <1>3, <1>4 DEF ImportSound, Line
<1>6. FiledOnce(Added(r))
  <2> SUFFICES ASSUME NEW n \in Missing(i), NEW m \in Missing(i), NEW g \in i.game, NEW h \in i.game,
                      line(n, g).player = line(m, h).player
               PROVE  line(n, g) = line(m, h)
    BY <1>4 DEF FiledOnce
  <2>1. i.listed[n] = i.listed[m] /\ g = h
    BY <1>2, <1>5 DEF ImportSound
  <2> QED
    BY <2>1
<1>7. IsFiniteSet(Added(r))
  <2>1. CASE i.game = {}
    <3>1. Added(r) = {}
      BY <1>4, <2>1
    <3> QED
      BY <3>1, FS_EmptySet
  <2>2. CASE i.game # {}
    <3>1. PICK g \in i.game : TRUE
      BY <2>2
    <3>2. Added(r) = {line(n, g) : n \in Missing(i)}
      BY <1>2, <1>4, <3>1 DEF ImportSound
    <3> DEFINE f == [n \in Missing(i) |-> line(n, g)]
    <3>3. IsFiniteSet(Missing(i))
      <4>1. IsFiniteSet(1..Len(i.listed))
        BY <1>3, FirstNumbers
      <4>2. Missing(i) \in SUBSET (1..Len(i.listed))
        BY <1>3, <1>4
      <4> QED
        BY <4>1, <4>2, FS_Subset
    <3>4. f \in Surjection(Missing(i), Added(r))
      BY <3>2 DEF Surjection
    <3> HIDE DEF f
    <3> QED
      BY <3>3, <3>4, FS_Surjection
  <2> QED
    BY <2>1, <2>2
<1>8. \A a \in Added(r), l \in lines : ~ (a.player = l.player /\ a.game = l.game)
  BY <1>1 DEF LinesOf
<1>9. Added(r) \subseteq Line
  BY <1>4, <1>5
<1>10. IsFiniteSet(lines')
  BY <1>1, <1>7, FS_Union DEF LinesInv
<1>11. FiledOnce(lines')
  BY <1>1, <1>6, <1>8 DEF LinesInv, FiledOnce
<1> QED
  BY <1>1, <1>9, <1>10, <1>11 DEF LinesInv

LEMMA BoxScoresStep ==
  ASSUME NotebookInv, BoxScoresNext
  PROVE  NotebookInv' /\ PlayersKept /\ LinesFiled
<1> USE DEF NotebookInv
<1>1. ASSUME NEW r \in Worker, NEW g \in Game, NEW listed \in Matches(working[r].at),
             LookForLines(r, listed, g)
      PROVE  NotebookInv' /\ PlayersKept /\ LinesFiled
  <2> DEFINE i == [listed |-> listed, game |-> {g},
                   found |-> {p \in DOMAIN playerRows : LinesOf(p, g) # {}}]
             w == [working[r] EXCEPT !.step = "import"]
  <2>1. /\ importing' = [importing EXCEPT ![r] = i] /\ working' = [working EXCEPT ![r] = w]
        /\ UNCHANGED <<teamRows, atTeam, playerRows, entries, lines>>
    BY <1>1 DEF LookForLines
  <2>2. listed \in Seq(Nat)
    <3>1. PICK n \in 1..2 : listed \in [1..n -> Active(working[r].at) \cup {0}]
      BY DEF Matches
    <3>2. Active(working[r].at) \subseteq Nat
      BY DEF Active, RosterInv, PlayersInv
    <3> QED
      BY <3>1, <3>2
  <2>3. ImportSound(i)
    BY <2>2 DEF ImportSound
  <2>4. WorkSound(r)
    BY DEF RosterInv, WorkInv
  <2>5. w \in WorkRow /\ w.at = working[r].at /\ w.step = "import"
    BY <2>4 DEF WorkSound, WorkRow
  <2> HIDE DEF i, w
  <2>6. WorkInv'
    BY <2>1, <2>4, <2>5, WorkMoves DEF RosterInv, WorkSound
  <2>7. ImportsInv'
    BY <2>1, <2>3 DEF ImportsInv
  <2>8. EntriesInv' /\ LinesInv'
    BY <2>1, LinesStand DEF EntriesInv
  <2>9. RosterInv'
    BY <2>1, <2>6, PlayersStand, TeamsStand DEF RosterInv
  <2> QED
    BY <2>1, <2>7, <2>8, <2>9, UnchangedKeeps, LinesAreFiled
<1>2. ASSUME NEW r \in Worker, importing' = [importing EXCEPT ![r] = NoImport] PROVE ImportsInv'
  BY <1>2, NoImportSound DEF ImportsInv
<1>3. ASSUME NEW r \in Worker, CommitImport(r) PROVE NotebookInv' /\ PlayersKept /\ LinesFiled
  <2> DEFINE x == [team |-> working[r].at, kind |-> "game_summary",
                   tags |-> {}, records |-> {}, live |-> TRUE]
  <2>1. entries' = Append(entries, x) /\ lines \subseteq lines' /\ Close(r)
        /\ UNCHANGED <<teamRows, atTeam, playerRows>>
    BY <1>3 DEF CommitImport
  <2>2. working[r].at \in Nat
    BY DEF RosterInv, WorkInv, WorkSound, WorkRow
  <2>3. x \in EntryRow /\ x.records = {}
    BY <2>2 DEF EntryRow, EntryKind
  <2> HIDE DEF x
  <2>4. EntriesInv'
    BY <2>1, <2>3, EntryAdded
  <2>5. LinesInv' /\ ImportsInv'
    BY <1>2, <1>3, LinesAdded DEF CommitImport
  <2> QED
    BY <2>1, <2>4, <2>5, RequestCloses, UnchangedKeeps, LinesAreFiled
<1>4. ASSUME NEW r \in Worker, FailImport(r) PROVE NotebookInv' /\ PlayersKept /\ LinesFiled
  <2>1. ImportsInv' /\ LinesInv' /\ RosterInv' /\ EntriesInv'
    BY <1>2, <1>4, LinesStand, RequestCloses DEF FailImport, EntriesInv
  <2> QED
    BY <1>4, <2>1, UnchangedKeeps, LinesAreFiled DEF FailImport
<1>5. ASSUME NEW r \in Worker, NEW l \in lines, DeleteLine(r, l)
      PROVE  NotebookInv' /\ PlayersKept /\ LinesFiled
  <2>1. lines' = lines \ {l} /\ Close(r) /\ UNCHANGED <<teamRows, atTeam, playerRows, entries, importing>>
    BY <1>5 DEF DeleteLine
  <2>2. IsFiniteSet(lines')
    BY <2>1, FS_RemoveElement DEF LinesInv
  <2>3. LinesInv'
    BY <2>1, <2>2 DEF LinesInv, FiledOnce
  <2>4. EntriesInv' /\ ImportsInv'
    BY <2>1, ImportsStand DEF EntriesInv
  <2> QED
    BY <2>1, <2>3, <2>4, RequestCloses, UnchangedKeeps, LinesAreFiled
<1> QED
  BY <1>1, <1>3, <1>4, <1>5 DEF BoxScoresNext

\* The roster moves under a notebook that stands.
LEMMA RosterTurns ==
  ASSUME NotebookInv, UNCHANGED notebookVars,
         TeamsNext \/ PlayersNext \/ MetricsNext \/ UNCHANGED coachRosterVars
  PROVE  NotebookInv' /\ ScoresKept /\ LinesFiled
<1>1. RosterInv' /\ PlayersKept
  <2>1. CASE UNCHANGED coachRosterVars
    BY <2>1, WorkStands, PlayersStand, TeamsStand, UnchangedKeeps
       DEF coachRosterVars, NotebookInv, RosterInv
  <2> QED
    BY <2>1, TeamsStep, PlayersStep, MetricsStep, UnchangedKeeps DEF NotebookInv
<1>2. NotebookInv'
  BY <1>1, NotebookStands
<1>3. LinesFiled
  BY <1>2, LinesAreFiled DEF NotebookInv, notebookVars
<1> QED
  BY <1>1, <1>2, <1>3, KeptIsKept

\* A step of the notebook, or of the requests under it.
LEMMA NotebookStep ==
  ASSUME NotebookInv, EntriesNext \/ BoxScoresNext \/ RequestsNext \/ SwitchesNext
  PROVE  NotebookInv' /\ ScoresKept /\ LinesFiled
<1>1. CASE EntriesNext
  <2>1. NotebookInv' /\ PlayersKept /\ lines' = lines
    BY <1>1, EntriesStep
  <2> QED
    BY <2>1, LinesAreFiled, KeptIsKept DEF NotebookInv
<1>2. CASE BoxScoresNext
  BY <1>2, BoxScoresStep, KeptIsKept
<1>3. CASE RequestsNext \/ SwitchesNext
  <2>1. TeamsNext /\ UNCHANGED notebookVars
    BY <1>3 DEF RequestsNext, SwitchesNext, TeamsNext
  <2> QED
    BY <2>1, RosterTurns
<1> QED
  BY <1>1, <1>2, <1>3

-----------------------------------------------------------------------------
(* Links.  The ids of the same clips have one order, so that a link is found *)
(* again by what was written.                                                *)

\* Ids can be put in order: each goes to its rank, behind the same id sent earlier.
LEMMA OrderExists ==
  ASSUME NEW cs \in Seq(Nat)
  PROVE  \E k \in Arrangements(cs) : Ascends(k)
<1> DEFINE D == DOMAIN cs
           Before(j, i) == cs[j] < cs[i] \/ (cs[j] = cs[i] /\ j < i)
           Below(i) == {j \in D : Before(j, i)}
           rank == [i \in D |-> Cardinality(Below(i)) + 1]
           p == [r \in D |-> CHOOSE i \in D : rank[i] = r]
           k == [i \in D |-> cs[p[i]]]
<1>1. Len(cs) \in Nat /\ D = 1..Len(cs) /\ IsFiniteSet(D) /\ Cardinality(D) = Len(cs)
  <2>1. Len(cs) \in Nat /\ D = 1..Len(cs)
    OBVIOUS
  <2>2. IsFiniteSet(1..Len(cs)) /\ Cardinality(1..Len(cs)) = Len(cs)
    BY <2>1, FirstNumbers
  <2> QED
    BY <2>1, <2>2
<1>2. \A i \in D : cs[i] \in Nat
  OBVIOUS
<1>3. /\ \A i \in D : ~ Before(i, i)
      /\ \A i, j \in D : i # j => Before(i, j) \/ Before(j, i)
      /\ \A i, j, l \in D : Before(l, i) /\ Before(i, j) => Before(l, j)
  <2>1. D \subseteq Nat
    BY <1>1
  <2> HIDE DEF D
  <2> QED
    BY <1>2, <2>1
<1>4. \A i \in D : IsFiniteSet(Below(i)) /\ Cardinality(Below(i)) \in Nat
  BY <1>1, FS_Subset, FS_CardinalityType
<1>5. ASSUME NEW i \in D PROVE rank[i] \in D
  <2>1. Below(i) \in SUBSET (D \ {i})
    BY <1>3
  <2>2. IsFiniteSet(D \ {i}) /\ Cardinality(D \ {i}) = Len(cs) - 1
    BY <1>1, FS_RemoveElement
  <2>3. Cardinality(Below(i)) <= Len(cs) - 1
    BY <2>1, <2>2, FS_Subset
  <2>4. Cardinality(Below(i)) + 1 \in 1..Len(cs)
    <3>1. Cardinality(Below(i)) \in Nat
      BY <1>4
    <3> HIDE DEF Below
    <3> QED
      BY <1>1, <2>3, <3>1
  <2> QED
    BY <1>1, <2>4
<1>6. ASSUME NEW i \in D, NEW j \in D, Before(i, j) PROVE rank[i] < rank[j]
  <2>1. Below(i) \in SUBSET Below(j)
    BY <1>3, <1>6
  <2>2. i \in Below(j) /\ i \notin Below(i)
    BY <1>3, <1>6
  <2>3. Cardinality(Below(i)) <= Cardinality(Below(j)) /\ Cardinality(Below(i)) # Cardinality(Below(j))
    <3>1. IsFiniteSet(Below(j))
      BY <1>4
    <3> HIDE DEF Below
    <3> QED
      BY <2>1, <2>2, <3>1, FS_Subset
  <2>4. Cardinality(Below(i)) \in Nat /\ Cardinality(Below(j)) \in Nat
    BY <1>4
  <2>5. rank[i] = Cardinality(Below(i)) + 1 /\ rank[j] = Cardinality(Below(j)) + 1
    OBVIOUS
  <2> HIDE DEF Below, rank
  <2> QED
    BY <2>3, <2>4, <2>5
<1> HIDE DEF Below
<1>7. \A i, j \in D : i # j => rank[i] # rank[j]
  <2> SUFFICES ASSUME NEW i \in D, NEW j \in D, i # j PROVE rank[i] # rank[j]
    OBVIOUS
  <2>1. Before(i, j) \/ Before(j, i)
    BY <1>3
  <2>2. rank[i] \in Nat /\ rank[j] \in Nat
    BY <1>4
  <2> HIDE DEF Before
  <2> QED
    BY <1>6, <2>1, <2>2
<1>8. rank \in Injection(D, D)
  BY <1>5, <1>7 DEF Injection, IsInjective
<1> HIDE DEF rank, D
<1>9. rank \in Surjection(D, D)
  BY <1>1, <1>8, FS_Injection
<1>10. \A r \in D : p[r] \in D /\ rank[p[r]] = r
  BY <1>9 DEF Surjection
<1>11. \A i \in D : rank[i] \in D /\ p[rank[i]] = i
  <2> SUFFICES ASSUME NEW i \in D PROVE rank[i] \in D /\ p[rank[i]] = i
    OBVIOUS
  <2>1. rank[i] \in D
    BY <1>5
  <2>2. p[rank[i]] \in D /\ rank[p[rank[i]]] = rank[i]
    BY <1>10, <2>1
  <2> HIDE DEF p
  <2> QED
    BY <1>7, <2>1, <2>2
<1>12. p \in Bijection(D, D)
  <2>1. p \in [D -> D]
    BY <1>10
  <2> HIDE DEF p
  <2>2. p \in Injection(D, D)
    BY <1>10, <2>1 DEF Injection, IsInjective
  <2>3. p \in Surjection(D, D)
    BY <1>11, <2>1 DEF Surjection
  <2> QED
    BY <2>2, <2>3 DEF Bijection
<1> HIDE DEF p
<1>13. k \in Arrangements(cs)
  BY <1>12 DEF Arrangements, D
<1>14. Ascends(k)
  <2> SUFFICES ASSUME NEW r \in D, NEW q \in D, r < q PROVE cs[p[r]] <= cs[p[q]]
    BY DEF Ascends
  <2>1. p[r] \in D /\ p[q] \in D /\ rank[p[r]] = r /\ rank[p[q]] = q
    BY <1>10
  <2>2. ~ Before(p[q], p[r])
    <3>1. r \in Nat /\ q \in Nat /\ r < q
      BY <1>1 DEF D
    <3>2. Before(p[q], p[r]) => q < r
      BY <1>6, <2>1
    <3> HIDE DEF Before, p
    <3> QED
      BY <3>1, <3>2
  <2> QED
    BY <1>2, <2>1, <2>2
<1> QED
  BY <1>13, <1>14

\* The places of an id in a list.
PlacesOf(k, c) == {i \in DOMAIN k : k[i] = c}

\* Lists of the same ids, each as often, have it at as many places.
LEMMA SameBag ==
  ASSUME NEW a \in Seq(Nat), NEW b \in Seq(Nat)
  PROVE  ToBag(a) = ToBag(b) <=>
           /\ Range(a) = Range(b)
           /\ \A c \in Range(a) : Cardinality(PlacesOf(a, c)) = Cardinality(PlacesOf(b, c))
<1>1. \A k : ToBag(k) = [c \in Range(k) |-> Cardinality(PlacesOf(k, c))]
  BY DEF ToBag, PlacesOf
<1>2. ASSUME ToBag(a) = ToBag(b)
      PROVE  /\ Range(a) = Range(b)
             /\ \A c \in Range(a) : Cardinality(PlacesOf(a, c)) = Cardinality(PlacesOf(b, c))
  <2>1. DOMAIN ToBag(a) = Range(a) /\ DOMAIN ToBag(b) = Range(b)
    BY <1>1
  <2>2. \A c \in Range(a) : ToBag(a)[c] = Cardinality(PlacesOf(a, c))
    BY <1>1
  <2>3. \A c \in Range(b) : ToBag(b)[c] = Cardinality(PlacesOf(b, c))
    BY <1>1
  <2> QED
    BY <1>2, <2>1, <2>2, <2>3
<1> QED
  BY <1>1, <1>2

\* The key holds the ids of the clips, in order.
LEMMA KeyHolds ==
  ASSUME NEW cs \in Seq(Nat)
  PROVE  /\ ShareKey(cs) \in Seq(Nat) /\ Ascends(ShareKey(cs))
         /\ ToBag(ShareKey(cs)) = ToBag(cs)
<1> DEFINE k == ShareKey(cs)
           D == DOMAIN cs
<1>1. k \in Arrangements(cs) /\ Ascends(k)
  BY OrderExists DEF ShareKey
<1>2. PICK p \in Bijection(D, D) : k = [i \in D |-> cs[p[i]]]
  BY <1>1 DEF Arrangements
<1>3. /\ p \in [D -> D] /\ (\A i, j \in D : p[i] = p[j] => i = j)
      /\ \A i \in D : \E j \in D : p[j] = i
  BY <1>2 DEF Bijection, Injection, Surjection, IsInjective
<1>4. Len(cs) \in Nat /\ D = 1..Len(cs) /\ \A i \in D : cs[i] \in Nat
  OBVIOUS
<1> HIDE DEF k, D
<1>5. k \in Seq(Nat) /\ DOMAIN k = D /\ \A i \in D : k[i] = cs[p[i]]
  <2>1. DOMAIN k = D /\ \A i \in D : k[i] = cs[p[i]] /\ k[i] \in Nat
    BY <1>2, <1>3, <1>4
  <2>2. k \in [D -> Nat]
    BY <1>2, <2>1
  <2> QED
    BY <1>4, <2>1, <2>2
<1>6. ASSUME NEW c PROVE Cardinality(PlacesOf(k, c)) = Cardinality(PlacesOf(cs, c))
  <2> DEFINE F == PlacesOf(k, c)
             G == PlacesOf(cs, c)
             f == [i \in F |-> p[i]]
  <2>1. F \in SUBSET D /\ \A i \in D : i \in F <=> cs[p[i]] = c
    BY <1>5 DEF PlacesOf
  <2>2. G \in SUBSET D /\ \A i \in D : i \in G <=> cs[i] = c
    BY DEF PlacesOf, D
  <2>3. IsFiniteSet(F)
    <3>1. IsFiniteSet(1..Len(cs))
      BY <1>4, FirstNumbers
    <3> QED
      BY <1>4, <2>1, <3>1, FS_Subset
  <2> HIDE DEF F, G
  <2>4. f \in [F -> G]
    BY <1>3, <2>1, <2>2
  <2>5. \A i, j \in F : f[i] = f[j] => i = j
    BY <1>3, <2>1
  <2>6. \A g \in G : \E i \in F : f[i] = g
    BY <1>3, <2>1, <2>2
  <2> HIDE DEF f
  <2>7. f \in Surjection(F, G) /\ f \in Injection(F, G)
    BY <2>4, <2>5, <2>6 DEF Surjection, Injection, IsInjective
  <2> QED
    BY <2>3, <2>7, FS_Surjection DEF F, G
<1>7. Range(k) = Range(cs)
  BY <1>3, <1>5 DEF Range, D
<1> QED
  BY <1>1, <1>4, <1>5, <1>6, <1>7, SameBag DEF k

\* Lists of the same ids match place by place.
LEMMA Matched ==
  ASSUME NEW a \in Seq(Nat), NEW b \in Seq(Nat), ToBag(a) = ToBag(b)
  PROVE  \E p \in [DOMAIN a -> DOMAIN b] :
           /\ \A i \in DOMAIN a : b[p[i]] = a[i]
           /\ \A i, j \in DOMAIN a : p[i] = p[j] => i = j
<1> DEFINE Match(c) == Bijection(PlacesOf(a, c), PlacesOf(b, c))
           match(c) == CHOOSE f \in Match(c) : TRUE
           p == [i \in DOMAIN a |-> match(a[i])[i]]
<1>1. \A k \in Seq(Nat) : \A c : IsFiniteSet(PlacesOf(k, c))
  <2> SUFFICES ASSUME NEW k \in Seq(Nat), NEW c PROVE IsFiniteSet(PlacesOf(k, c))
    OBVIOUS
  <2>1. DOMAIN k = 1..Len(k) /\ Len(k) \in Nat /\ PlacesOf(k, c) \in SUBSET DOMAIN k
    BY DEF PlacesOf
  <2>2. IsFiniteSet(1..Len(k))
    BY <2>1, FirstNumbers
  <2> QED
    BY <2>1, <2>2, FS_Subset
<1>2. \A c \in Range(a) : match(c) \in Match(c)
  <2> SUFFICES ASSUME NEW c \in Range(a) PROVE Match(c) # {}
    OBVIOUS
  <2>1. Cardinality(PlacesOf(a, c)) = Cardinality(PlacesOf(b, c))
    BY SameBag
  <2> QED
    BY <1>1, <2>1, FS_SameCardinalityBij DEF ExistsBijection
<1> HIDE DEF match
<1>3. ASSUME NEW i \in DOMAIN a
      PROVE  /\ a[i] \in Range(a) /\ i \in PlacesOf(a, a[i])
             /\ p[i] = match(a[i])[i] /\ p[i] \in DOMAIN b /\ b[p[i]] = a[i]
  <2>1. a[i] \in Range(a) /\ i \in PlacesOf(a, a[i]) /\ p[i] = match(a[i])[i]
    BY DEF Range, PlacesOf
  <2>2. match(a[i]) \in [PlacesOf(a, a[i]) -> PlacesOf(b, a[i])]
    BY <1>2, <2>1 DEF Bijection, Injection
  <2>3. p[i] \in PlacesOf(b, a[i])
    BY <2>1, <2>2
  <2> QED
    BY <2>1, <2>3 DEF PlacesOf
<1>4. ASSUME NEW i \in DOMAIN a, NEW j \in DOMAIN a, p[i] = p[j] PROVE i = j
  <2>1. a[i] = a[j]
    BY <1>3, <1>4
  <2>2. i \in PlacesOf(a, a[i]) /\ j \in PlacesOf(a, a[i]) /\ match(a[i])[i] = match(a[i])[j]
    BY <1>3, <1>4, <2>1
  <2>3. IsInjective(match(a[i])) /\ DOMAIN match(a[i]) = PlacesOf(a, a[i])
    BY <1>2, <1>3 DEF Bijection, Injection
  <2> QED
    BY <2>2, <2>3 DEF IsInjective
<1>5. p \in [DOMAIN a -> DOMAIN b]
  BY <1>3
<1> QED
  BY <1>3, <1>4, <1>5

\* Of two lists of the same ids in order, none has a greater id at a place: the ids
\* up to it would have too few places in the other.
LEMMA NoneGreater ==
  ASSUME NEW a \in Seq(Nat), NEW b \in Seq(Nat), Ascends(a), Ascends(b), ToBag(a) = ToBag(b),
         NEW i \in DOMAIN a
  PROVE  i \in DOMAIN b /\ b[i] <= a[i]
<1> SUFFICES ASSUME ~ (i \in DOMAIN b /\ b[i] <= a[i]) PROVE FALSE
  OBVIOUS
<1>1. PICK p \in [DOMAIN a -> DOMAIN b] :
        /\ \A j \in DOMAIN a : b[p[j]] = a[j]
        /\ \A j, l \in DOMAIN a : p[j] = p[l] => j = l
  BY Matched
<1>2. /\ DOMAIN a = 1..Len(a) /\ Len(a) \in Nat /\ DOMAIN b = 1..Len(b) /\ Len(b) \in Nat
      /\ \A j \in DOMAIN a : a[j] \in Nat
      /\ \A j \in DOMAIN b : b[j] \in Nat
  OBVIOUS
<1> DEFINE S == 1..i
           T == 1..(i - 1)
           f == [j \in S |-> p[j]]
<1>3. i \in Nat /\ i - 1 \in Nat /\ S \subseteq DOMAIN a
  BY <1>2
<1>4. ASSUME NEW j \in S PROVE p[j] \in T
  <2>1. j \in DOMAIN a /\ p[j] \in DOMAIN b /\ b[p[j]] = a[j] /\ (j < i \/ j = i)
    BY <1>1, <1>3
  <2>2. a[j] <= a[i]
    <3>1. CASE j < i
      BY <2>1, <3>1 DEF Ascends
    <3>2. CASE j = i
      <4>1. a[i] \in Nat
        BY <1>2
      <4> QED
        BY <3>2, <4>1
    <3> QED
      BY <2>1, <3>1, <3>2
  <2>4. p[j] \in Nat
    BY <1>2, <2>1
  <2>3. CASE p[j] >= i
    <3>1. i \in DOMAIN b
      BY <1>2, <2>1, <2>3
    <3>2. b[i] <= b[p[j]]
      BY <1>2, <2>1, <2>3, <3>1 DEF Ascends
    <3> QED
      BY <1>2, <2>1, <2>2, <3>1, <3>2
  <2>5. p[j] >= 1
    BY <1>2, <2>1
  <2> QED
    BY <1>3, <2>3, <2>4, <2>5
<1>5. f \in [S -> T] /\ \A j, l \in S : f[j] = f[l] => j = l
  BY <1>1, <1>3, <1>4
<1>6. /\ IsFiniteSet(T) /\ Cardinality(T) = i - 1
      /\ Cardinality(S) = i
  BY <1>3, FirstNumbers
<1> HIDE DEF f, S, T
<1>7. f \in Injection(S, T)
  BY <1>5 DEF Injection, IsInjective
<1>8. Cardinality(S) <= Cardinality(T)
  BY <1>6, <1>7, FS_Injection
<1> QED
  BY <1>3, <1>6, <1>8

\* So the order of the same ids is the same.
LEMMA OneOrder ==
  ASSUME NEW k \in Seq(Nat), NEW m \in Seq(Nat), Ascends(k), Ascends(m), ToBag(k) = ToBag(m)
  PROVE  k = m
<1>1. /\ \A i \in DOMAIN k : i \in DOMAIN m /\ m[i] <= k[i]
      /\ \A i \in DOMAIN m : i \in DOMAIN k /\ k[i] <= m[i]
  BY NoneGreater
<1>2. /\ \A i \in DOMAIN k : k[i] \in Nat
      /\ \A i \in DOMAIN m : m[i] \in Nat
  OBVIOUS
<1>3. DOMAIN k = DOMAIN m
  BY <1>1
<1>4. ASSUME NEW i \in DOMAIN k PROVE k[i] = m[i]
  BY <1>1, <1>2
<1> QED
  BY <1>3, <1>4

-----------------------------------------------------------------------------
(* What is listed is there: items, clips and annotations go with what they   *)
(* belong to.                                                                *)

ClipRow == [video : Video, rated : BOOLEAN, live : BOOLEAN]

AnnotationRow == [video : Video, clip : Nat, live : BOOLEAN]

ClipsInv ==
  /\ video \subseteq Video
  /\ clips \in Seq(ClipRow)
  /\ \A c \in DOMAIN clips : clips[c].live => clips[c].video \in video

MarksInv ==
  /\ annotations \in Seq(AnnotationRow)
  /\ \A a \in DOMAIN annotations :
       /\ annotations[a].live => annotations[a].video \in video
       /\ annotations[a].clip \in LiveClips \cup {0}

ItemsInv ==
  /\ playlists \in Seq(BOOLEAN)
  /\ items \in [DOMAIN items -> Nat]
  /\ DOMAIN items \subseteq LivePlaylists \X LiveClips

TablesInv == ClipsInv /\ MarksInv /\ ItemsInv

LEMMA TablesStand ==
  TablesInv /\ UNCHANGED <<video, clips, annotations, playlists, items>> => TablesInv'
BY DEF TablesInv, ClipsInv, MarksInv, ItemsInv, LiveClips, LivePlaylists

\* Clips go, and with them what they are an item of.
LEMMA ClipsDropped ==
  ASSUME TablesInv, NEW C, DropClips(C), playlists' = playlists
  PROVE  /\ clips' \in Seq(ClipRow) /\ DOMAIN clips' = DOMAIN clips
         /\ LiveClips' = LiveClips \ C /\ ItemsInv'
         /\ \A c \in DOMAIN clips : clips'[c].video = clips[c].video
<1>1. clips \in Seq(ClipRow) /\ DOMAIN clips = 1..Len(clips) /\ Len(clips) \in Nat
  BY DEF TablesInv, ClipsInv
<1>2. clips' = [c \in DOMAIN clips |->
         IF c \in C THEN [clips[c] EXCEPT !.live = FALSE] ELSE clips[c]]
  BY DEF DropClips
<1>3. \A c \in DOMAIN clips :
        /\ clips'[c] \in ClipRow /\ clips'[c].video = clips[c].video
        /\ clips'[c].live <=> clips[c].live /\ c \notin C
  <2> SUFFICES ASSUME NEW c \in DOMAIN clips
               PROVE  /\ clips'[c] \in ClipRow /\ clips'[c].video = clips[c].video
                      /\ clips'[c].live <=> clips[c].live /\ c \notin C
    OBVIOUS
  <2>1. clips[c] \in ClipRow
    BY <1>1
  <2>2. CASE c \in C
    <3>1. clips'[c] = [clips[c] EXCEPT !.live = FALSE]
      BY <1>2, <2>2
    <3> QED
      BY <2>1, <2>2, <3>1 DEF ClipRow
  <2>3. CASE c \notin C
    BY <1>2, <2>1, <2>3
  <2> QED
    BY <2>2, <2>3
<1>4. DOMAIN clips' = DOMAIN clips /\ clips' \in Seq(ClipRow)
  <2>1. DOMAIN clips' = DOMAIN clips
    BY <1>2
  <2>2. clips' \in [1..Len(clips) -> ClipRow]
    BY <1>1, <1>2, <1>3
  <2> QED
    BY <1>1, <2>1, <2>2
<1>5. LiveClips' = LiveClips \ C
  BY <1>3, <1>4 DEF LiveClips
<1>6. ItemsInv'
  <2> DEFINE left == {x \in DOMAIN items : x[2] \notin C}
  <2>1. items' = [x \in left |-> items[x]]
    BY DEF DropClips, Restrict
  <2>2. left \subseteq LivePlaylists \X (LiveClips \ C)
    BY DEF TablesInv, ItemsInv
  <2>3. DOMAIN items' = left /\ items' \in [left -> Nat]
    BY <2>1 DEF TablesInv, ItemsInv
  <2>4. LivePlaylists' = LivePlaylists
    BY DEF LivePlaylists
  <2> HIDE DEF left
  <2> QED
    BY <1>5, <2>2, <2>3, <2>4 DEF TablesInv, ItemsInv
<1> QED
  BY <1>3, <1>4, <1>5, <1>6

\* Annotations are taken off the clips, and those of a video are deleted.
TakenOff(C, v) ==
  [a \in DOMAIN annotations |->
     IF annotations[a].video = v
     THEN [annotations[a] EXCEPT !.live = FALSE, !.clip = 0]
     ELSE Unclip(C)[a]]

LEMMA MarksTakenOff ==
  ASSUME TablesInv, NEW C, NEW v, annotations' = TakenOff(C, v),
         LiveClips' = LiveClips \ C, video \ {v} \subseteq video'
  PROVE  MarksInv'
<1>1. annotations \in Seq(AnnotationRow) /\ DOMAIN annotations = 1..Len(annotations) /\ Len(annotations) \in Nat
  BY DEF TablesInv, MarksInv
<1>2. \A a \in DOMAIN annotations :
        /\ annotations'[a] \in AnnotationRow
        /\ annotations'[a].live => annotations'[a].video \in video'
        /\ annotations'[a].clip \in LiveClips' \cup {0}
  <2> SUFFICES ASSUME NEW a \in DOMAIN annotations
               PROVE  /\ annotations'[a] \in AnnotationRow
                      /\ annotations'[a].live => annotations'[a].video \in video'
                      /\ annotations'[a].clip \in LiveClips' \cup {0}
    OBVIOUS
  <2> DEFINE m == annotations[a]
  <2>1. m \in AnnotationRow /\ (m.live => m.video \in video) /\ m.clip \in LiveClips \cup {0}
    BY <1>1 DEF TablesInv, MarksInv
  <2>0. TakenOff(C, v)[a] = IF m.video = v THEN [m EXCEPT !.live = FALSE, !.clip = 0]
                            ELSE IF m.clip \in C THEN [m EXCEPT !.clip = 0] ELSE m
    BY DEF TakenOff, Unclip
  <2> HIDE DEF m
  <2>2. CASE m.video = v
    <3> DEFINE x == [m EXCEPT !.live = FALSE, !.clip = 0]
    <3>1. annotations'[a] = x
      BY <2>0, <2>2
    <3>2. x \in AnnotationRow /\ x.live = FALSE /\ x.clip = 0
      <4>1. m \in AnnotationRow
        BY <2>1
      <4> QED
        BY <4>1 DEF AnnotationRow
    <3> HIDE DEF x
    <3> QED
      BY <3>1, <3>2
  <2>3. CASE m.video # v /\ m.clip \in C
    <3>1. annotations'[a] = [m EXCEPT !.clip = 0]
      BY <2>0, <2>3
    <3> QED
      BY <2>1, <2>3, <3>1 DEF AnnotationRow
  <2>4. CASE m.video # v /\ m.clip \notin C
    <3>1. annotations'[a] = m
      BY <2>0, <2>4
    <3> QED
      BY <2>1, <2>4, <3>1
  <2> QED
    BY <2>2, <2>3, <2>4
<1>3. DOMAIN annotations' = DOMAIN annotations /\ annotations' = [a \in DOMAIN annotations |-> annotations'[a]]
  BY DEF TakenOff
<1>4. annotations' \in Seq(AnnotationRow)
  <2>1. annotations' \in [1..Len(annotations) -> AnnotationRow]
    BY <1>1, <1>2, <1>3
  <2> QED
    BY <1>1, <2>1
<1> QED
  BY <1>2, <1>3, <1>4 DEF MarksInv

LEMMA ClipsDeleted ==
  ASSUME TablesInv, NEW C, DropClips(C), annotations' = Unclip(C), UNCHANGED <<video, playlists>>
  PROVE  TablesInv'
<1>1. /\ clips' \in Seq(ClipRow) /\ DOMAIN clips' = DOMAIN clips
      /\ LiveClips' = LiveClips \ C /\ ItemsInv'
      /\ \A c \in DOMAIN clips : clips'[c].video = clips[c].video
  BY ClipsDropped
<1>2. ClipsInv'
  BY <1>1 DEF TablesInv, ClipsInv, LiveClips
<1>3. \A a \in DOMAIN annotations : annotations[a].video # 0
  <2>1. \A a \in DOMAIN annotations : annotations[a] \in AnnotationRow
    BY DEF TablesInv, MarksInv
  <2> QED
    BY <2>1 DEF AnnotationRow, Video
<1>4. annotations' = TakenOff(C, 0)
  <2>1. TakenOff(C, 0) = [a \in DOMAIN annotations |-> Unclip(C)[a]]
    BY <1>3 DEF TakenOff
  <2>2. Unclip(C) = [a \in DOMAIN annotations |-> Unclip(C)[a]]
    BY DEF Unclip
  <2> QED
    BY <2>1, <2>2
<1>5. MarksInv'
  BY <1>1, <1>4, MarksTakenOff
<1> QED
  BY <1>1, <1>2, <1>5 DEF TablesInv

LEMMA VideoDeleted ==
  ASSUME TablesInv, NEW v, DeleteLibraryVideo(v)
  PROVE  TablesInv'
<1> DEFINE cut == {c \in LiveClips : clips[c].video = v}
<1>1. /\ DropClips(cut) /\ video' = video \ {v} /\ playlists' = playlists
      /\ annotations' = TakenOff(cut, v)
  BY DEF DeleteLibraryVideo, TakenOff
<1>2. /\ clips' \in Seq(ClipRow) /\ DOMAIN clips' = DOMAIN clips
      /\ LiveClips' = LiveClips \ cut /\ ItemsInv'
      /\ \A c \in DOMAIN clips : clips'[c].video = clips[c].video
  BY <1>1, ClipsDropped
<1>3. ClipsInv'
  BY <1>1, <1>2 DEF TablesInv, ClipsInv, LiveClips
<1> HIDE DEF cut
<1>4. MarksInv'
  BY <1>1, <1>2, MarksTakenOff
<1> QED
  BY <1>2, <1>3, <1>4 DEF TablesInv

ClipsStand == UNCHANGED <<video, clips>>

LEMMA MarksStand == MarksInv /\ ClipsStand /\ annotations' = annotations => MarksInv'
BY DEF MarksInv, ClipsStand, LiveClips

LEMMA ItemsStand == ItemsInv /\ ClipsStand /\ UNCHANGED <<playlists, items>> => ItemsInv'
BY DEF ItemsInv, ClipsStand, LiveClips, LivePlaylists

LEMMA ClipCreated ==
  ASSUME TablesInv, NEW v, CreateClip(v)
  PROVE  TablesInv'
<1> USE DEF TablesInv
<1> DEFINE x == [video |-> v, rated |-> FALSE, live |-> TRUE]
<1>1. clips' = Append(clips, x) /\ UNCHANGED <<video, annotations, playlists, items>> /\ v \in video
  BY DEF CreateClip
<1>2. x \in ClipRow /\ x.video \in video
  BY <1>1 DEF ClipRow, ClipsInv
<1> HIDE DEF x
<1>3. /\ clips' \in Seq(ClipRow) /\ DOMAIN clips \subseteq DOMAIN clips'
      /\ \A c \in DOMAIN clips : clips'[c] = clips[c]
      /\ \A c \in DOMAIN clips' : c \in DOMAIN clips \/ clips'[c] = x
  BY <1>1, <1>2 DEF ClipsInv
<1>4. ClipsInv'
  BY <1>1, <1>2, <1>3 DEF ClipsInv
<1>5. LiveClips \subseteq LiveClips'
  BY <1>3 DEF LiveClips
<1>6. MarksInv'
  BY <1>1, <1>5 DEF MarksInv
<1>7. ItemsInv'
  <2>1. LivePlaylists' = LivePlaylists
    BY <1>1 DEF LivePlaylists
  <2> QED
    BY <1>1, <1>5, <2>1 DEF ItemsInv
<1> QED
  BY <1>4, <1>6, <1>7

LEMMA ClipsRated ==
  ASSUME TablesInv, NEW cs, RateClips(cs)
  PROVE  TablesInv'
<1> USE DEF TablesInv
<1>1. /\ clips' = [c \in DOMAIN clips |->
           IF c \in Range(cs) THEN [clips[c] EXCEPT !.rated = TRUE] ELSE clips[c]]
      /\ UNCHANGED <<video, annotations, playlists, items>>
  BY DEF RateClips
<1>2. clips \in Seq(ClipRow) /\ DOMAIN clips = 1..Len(clips) /\ Len(clips) \in Nat
  BY DEF ClipsInv
<1>3. \A c \in DOMAIN clips :
        /\ clips'[c] \in ClipRow /\ clips'[c].video = clips[c].video
        /\ clips'[c].live = clips[c].live
  <2> SUFFICES ASSUME NEW c \in DOMAIN clips
               PROVE  /\ clips'[c] \in ClipRow /\ clips'[c].video = clips[c].video
                      /\ clips'[c].live = clips[c].live
    OBVIOUS
  <2>1. clips[c] \in ClipRow
    BY <1>2
  <2>2. CASE c \in Range(cs)
    <3>1. clips'[c] = [clips[c] EXCEPT !.rated = TRUE]
      BY <1>1, <2>2
    <3> QED
      BY <2>1, <3>1 DEF ClipRow
  <2>3. CASE c \notin Range(cs)
    BY <1>1, <2>1, <2>3
  <2> QED
    BY <2>2, <2>3
<1>4. DOMAIN clips' = DOMAIN clips /\ clips' \in Seq(ClipRow)
  <2>1. DOMAIN clips' = DOMAIN clips
    BY <1>1
  <2>2. clips' \in [1..Len(clips) -> ClipRow]
    BY <1>1, <1>2, <1>3
  <2> QED
    BY <1>2, <2>1, <2>2
<1>5. ClipsInv' /\ LiveClips' = LiveClips
  BY <1>1, <1>3, <1>4 DEF ClipsInv, LiveClips
<1>6. LivePlaylists' = LivePlaylists
  BY <1>1 DEF LivePlaylists
<1> QED
  BY <1>1, <1>5, <1>6 DEF MarksInv, ItemsInv

LEMMA MarkCreated ==
  ASSUME TablesInv, NEW v, NEW c, CreateAnnotation(v, c)
  PROVE  TablesInv'
<1> USE DEF TablesInv
<1> DEFINE x == [video |-> v, clip |-> c, live |-> TRUE]
<1>1. annotations' = Append(annotations, x) /\ UNCHANGED <<video, clips, playlists, items>>
      /\ v \in video /\ c \in LiveClips \cup {0}
  BY DEF CreateAnnotation
<1>2. x \in AnnotationRow /\ x.video \in video /\ x.clip \in LiveClips \cup {0}
  <2>1. c \in Nat /\ v \in Video
    BY <1>1 DEF LiveClips, ClipsInv
  <2> QED
    BY <1>1, <2>1 DEF AnnotationRow
<1> HIDE DEF x
<1>3. LiveClips' = LiveClips
  BY <1>1 DEF LiveClips
<1>4. /\ annotations' \in Seq(AnnotationRow)
      /\ \A a \in DOMAIN annotations' : (a \in DOMAIN annotations /\ annotations'[a] = annotations[a]) \/ annotations'[a] = x
  BY <1>1, <1>2 DEF MarksInv
<1>5. MarksInv'
  BY <1>1, <1>2, <1>3, <1>4 DEF MarksInv
<1> QED
  BY <1>1, <1>5, ItemsStand DEF ClipsInv, ClipsStand

LEMMA MarkDeleted ==
  ASSUME TablesInv, NEW a \in DOMAIN annotations, DeleteAnnotation(a)
  PROVE  TablesInv'
<1> USE DEF TablesInv
<1> DEFINE x == [annotations[a] EXCEPT !.live = FALSE, !.clip = 0]
<1>1. annotations' = [annotations EXCEPT ![a] = x] /\ UNCHANGED <<video, clips, playlists, items>>
  BY DEF DeleteAnnotation
<1>2. x \in AnnotationRow /\ x.live = FALSE /\ x.clip = 0
  <2>1. annotations[a] \in AnnotationRow
    BY DEF MarksInv
  <2> QED
    BY <2>1 DEF AnnotationRow
<1> HIDE DEF x
<1>3. LiveClips' = LiveClips
  BY <1>1 DEF LiveClips
<1>4. /\ annotations' \in Seq(AnnotationRow) /\ DOMAIN annotations' = DOMAIN annotations
      /\ annotations'[a] = x /\ \A o \in DOMAIN annotations \ {a} : annotations'[o] = annotations[o]
  BY <1>1, <1>2 DEF MarksInv
<1>5. MarksInv'
  BY <1>1, <1>2, <1>3, <1>4 DEF MarksInv
<1> QED
  BY <1>1, <1>5, ItemsStand DEF ClipsInv, ClipsStand

\* An id on a list has a last place there.
LEMMA LastOnList ==
  ASSUME NEW cs \in Seq(Nat), NEW c \in Range(cs)
  PROVE  LastPlace(cs, c) - 1 \in Nat
<1> DEFINE S == {i \in DOMAIN cs : cs[i] = c}
           N == {Len(cs) - i : i \in S}
<1>1. Len(cs) \in Nat /\ DOMAIN cs = 1..Len(cs)
  OBVIOUS
<1>2. N \in SUBSET Nat /\ N # {}
  BY <1>1 DEF Range
<1>3. PICK n \in N : \A m \in N : n <= m
  BY <1>2, LeastOf
<1>4. PICK i \in S : n = Len(cs) - i
  BY <1>3
<1>5. \A j \in S : j <= i
  <2> SUFFICES ASSUME NEW j \in S PROVE j <= i
    OBVIOUS
  <2>1. Len(cs) - i <= Len(cs) - j
    BY <1>3, <1>4
  <2> QED
    BY <1>1, <2>1
<1>6. \E l \in DOMAIN cs : cs[l] = c /\ \A j \in DOMAIN cs : cs[j] = c => j <= l
  BY <1>4, <1>5
<1>7. LastPlace(cs, c) \in DOMAIN cs
  BY <1>6 DEF LastPlace
<1> QED
  BY <1>1, <1>7

LEMMA PlaylistsStep ==
  ASSUME TablesInv,
         CreatePlaylist \/ \E p \in DOMAIN playlists :
           \/ DeletePlaylist(p)
           \/ \E c \in DOMAIN clips : AddPlaylistItem(p, c) \/ RemovePlaylistItem(p, c)
           \/ \E cs : cs \in Seq(Nat) /\ ReorderPlaylist(p, cs)
  PROVE  TablesInv'
<1> USE DEF TablesInv
<1>1. ASSUME UNCHANGED <<video, clips, annotations>>, ItemsInv' PROVE TablesInv'
  BY <1>1, MarksStand DEF ClipsInv, ClipsStand
<1>2. CASE CreatePlaylist
  <2>1. playlists' = Append(playlists, TRUE) /\ UNCHANGED <<video, clips, annotations, items>>
    BY <1>2 DEF CreatePlaylist
  <2>2. playlists' \in Seq(BOOLEAN) /\ LivePlaylists \subseteq LivePlaylists'
    BY <2>1 DEF ItemsInv, LivePlaylists
  <2>3. LiveClips' = LiveClips
    BY <2>1 DEF LiveClips
  <2> QED
    BY <1>1, <2>1, <2>2, <2>3 DEF ItemsInv
<1>3. ASSUME NEW p \in DOMAIN playlists, DeletePlaylist(p) PROVE TablesInv'
  <2> DEFINE left == {x \in DOMAIN items : x[1] # p}
  <2>1. /\ playlists' = [playlists EXCEPT ![p] = FALSE] /\ items' = [x \in left |-> items[x]]
        /\ UNCHANGED <<video, clips, annotations>>
    BY <1>3 DEF DeletePlaylist, Restrict
  <2>2. playlists' \in Seq(BOOLEAN) /\ LivePlaylists' = LivePlaylists \ {p}
    BY <2>1 DEF ItemsInv, LivePlaylists
  <2>3. LiveClips' = LiveClips
    BY <2>1 DEF LiveClips
  <2>4. left \subseteq (LivePlaylists \ {p}) \X LiveClips
    BY DEF ItemsInv
  <2>5. DOMAIN items' = left /\ items' \in [left -> Nat]
    BY <2>1 DEF ItemsInv
  <2> HIDE DEF left
  <2> QED
    BY <1>1, <2>1, <2>2, <2>3, <2>4, <2>5 DEF ItemsInv
<1>4. ASSUME UNCHANGED <<video, clips, annotations, playlists>>, NEW D, items' \in [D -> Nat],
             D \subseteq LivePlaylists \X LiveClips
      PROVE  TablesInv'
  <2>1. LivePlaylists' = LivePlaylists /\ LiveClips' = LiveClips /\ DOMAIN items' = D
    BY <1>4 DEF LivePlaylists, LiveClips
  <2> QED
    BY <1>1, <1>4, <2>1 DEF ItemsInv
<1>5. ASSUME NEW p \in DOMAIN playlists, NEW c \in DOMAIN clips, AddPlaylistItem(p, c) PROVE TablesInv'
  <2> DEFINE D == DOMAIN items \cup {<<p, c>>}
  <2>1. /\ items' = [x \in D |-> IF x = <<p, c>> THEN 0 ELSE items[x]]
        /\ p \in LivePlaylists /\ c \in LiveClips /\ UNCHANGED <<video, clips, annotations, playlists>>
    BY <1>5 DEF AddPlaylistItem
  <2>2. D \subseteq LivePlaylists \X LiveClips
    BY <2>1 DEF ItemsInv
  <2>3. items' \in [D -> Nat]
    BY <2>1 DEF ItemsInv
  <2> HIDE DEF D
  <2> QED
    BY <1>4, <2>1, <2>2, <2>3
<1>6. ASSUME NEW p \in DOMAIN playlists, NEW c \in DOMAIN clips, RemovePlaylistItem(p, c)
      PROVE  TablesInv'
  <2> DEFINE D == DOMAIN items \ {<<p, c>>}
  <2>1. items' = [x \in D |-> items[x]] /\ UNCHANGED <<video, clips, annotations, playlists>>
    BY <1>6 DEF RemovePlaylistItem, Restrict
  <2>2. D \subseteq LivePlaylists \X LiveClips
    BY DEF ItemsInv
  <2>3. items' \in [D -> Nat]
    BY <2>1 DEF ItemsInv
  <2> HIDE DEF D
  <2> QED
    BY <1>4, <2>1, <2>2, <2>3
<1>7. ASSUME NEW p \in DOMAIN playlists, NEW cs \in Seq(Nat), ReorderPlaylist(p, cs) PROVE TablesInv'
  <2> DEFINE at(x) == LastPlace(cs, x[2]) - 1
  <2>1. /\ items' = [x \in DOMAIN items |->
             IF x[1] = p /\ x[2] \in Range(cs) THEN at(x) ELSE items[x]]
        /\ UNCHANGED <<video, clips, annotations, playlists>>
    BY <1>7 DEF ReorderPlaylist
  <2>2. \A x : x[2] \in Range(cs) => at(x) \in Nat
    BY LastOnList
  <2> HIDE DEF at
  <2>3. items' \in [DOMAIN items -> Nat]
    BY <2>1, <2>2 DEF ItemsInv
  <2>4. DOMAIN items \subseteq LivePlaylists \X LiveClips
    BY DEF ItemsInv
  <2> QED
    BY <1>4, <2>1, <2>3, <2>4
<1> QED
  BY <1>2, <1>3, <1>5, <1>6, <1>7

-----------------------------------------------------------------------------
(* Links to the same clips overlapped while they were made.                  *)

LinkRow == [video : Video, clips : Seq(Nat), timeline : BOOLEAN, raced : BOOLEAN]

SharingRow == [video : Video, clips : Seq(Nat), raced : BOOLEAN]

SameClips(a, b) == a.video = b.video /\ ToBag(a.clips) = ToBag(b.clips)

SharesTyped ==
  /\ shares \in Seq(LinkRow)
  /\ \A s \in DOMAIN shares : Ascends(shares[s].clips)

Sharing(t) == sharing[t] # NoShare

SharingTyped ==
  /\ DOMAIN sharing = Tab
  /\ \A t \in Tab : Sharing(t) => sharing[t] \in SharingRow

\* Of a link and a request, and of two requests.
SharingRaced ==
  /\ \A t \in Tab, s \in DOMAIN shares :
       Sharing(t) /\ SameClips(sharing[t], shares[s]) =>
         shares[s].timeline \/ (shares[s].raced /\ sharing[t].raced)
  /\ \A t, u \in Tab :
       Sharing(t) /\ Sharing(u) /\ t # u /\ SameClips(sharing[t], sharing[u]) => sharing[t].raced

SharesInv == SharesTyped /\ SharesReused /\ SharingTyped /\ SharingRaced

LibraryInv == TablesInv /\ SharesInv

LEMMA SharesStand == SharesInv /\ UNCHANGED <<shares, sharing>> => SharesInv'
BY DEF SharesInv, SharesTyped, SharesReused, SharingTyped, SharingRaced, Sharing

LEMMA LibraryInitially == ScoutingLibraryInit => LibraryInv
<1> SUFFICES ASSUME ScoutingLibraryInit PROVE LibraryInv
  OBVIOUS
<1>1. ClipsInv /\ MarksInv
  BY DEF ScoutingLibraryInit, ClipsInv, MarksInv
<1>2. ItemsInv
  BY DEF ScoutingLibraryInit, ItemsInv
<1>3. SharesTyped /\ SharesReused
  BY DEF ScoutingLibraryInit, SharesTyped, SharesReused
<1>4. SharingTyped /\ SharingRaced
  BY DEF ScoutingLibraryInit, SharingTyped, SharingRaced, Sharing
<1> QED
  BY <1>1, <1>2, <1>3, <1>4 DEF LibraryInv, TablesInv, SharesInv

LEMMA LibrarySound == LibraryInv => ScoutingLibraryTypeOK /\ SharesReused
<1> SUFFICES ASSUME LibraryInv PROVE ScoutingLibraryTypeOK
  BY DEF LibraryInv, SharesInv
<1>1. \A s \in DOMAIN shares : shares[s].video \in Video
  <2>1. \A s \in DOMAIN shares : shares[s] \in LinkRow
    BY DEF LibraryInv, SharesInv, SharesTyped
  <2> QED
    BY <2>1 DEF LinkRow
<1> QED
  BY <1>1 DEF ScoutingLibraryTypeOK, LibraryInv, TablesInv, ClipsInv, MarksInv, ItemsInv, LiveClips

\* One link more: no link, and no other request, has its clips, but where both raced.
LEMMA LinkAdded ==
  ASSUME SharesInv, NEW x \in LinkRow, shares' = Append(shares, x),
         Ascends(x.clips),
         \A s \in DOMAIN shares : SameClips(shares[s], x) =>
           shares[s].timeline \/ x.timeline \/ (shares[s].raced /\ x.raced),
         SharingTyped',
         \A t \in Tab : Sharing(t)' => sharing'[t] = sharing[t] /\ Sharing(t),
         \A t \in Tab : Sharing(t)' /\ SameClips(sharing[t], x) =>
           x.timeline \/ (x.raced /\ sharing[t].raced)
  PROVE  SharesInv'
<1> USE DEF SharesInv
<1>1. /\ shares' \in Seq(LinkRow) /\ DOMAIN shares \subseteq DOMAIN shares'
      /\ \A s \in DOMAIN shares : shares'[s] = shares[s]
      /\ \A s \in DOMAIN shares' : s \in DOMAIN shares \/ shares'[s] = x
      /\ \A s, t \in DOMAIN shares' : s = t \/ s \in DOMAIN shares \/ t \in DOMAIN shares
  BY DEF SharesTyped
<1>2. SharesTyped'
  <2> SUFFICES ASSUME NEW s \in DOMAIN shares' PROVE Ascends(shares'[s].clips)
    BY <1>1 DEF SharesTyped
  <2> QED
    BY <1>1 DEF SharesTyped
<1>3. SharesReused'
  <2> SUFFICES ASSUME NEW s \in DOMAIN shares', NEW t \in DOMAIN shares', s # t,
                      shares'[s].video = shares'[t].video,
                      ToBag(shares'[s].clips) = ToBag(shares'[t].clips)
               PROVE  \/ shares'[s].timeline \/ shares'[t].timeline
                      \/ shares'[s].raced /\ shares'[t].raced
    BY DEF SharesReused
  <2>1. CASE s \in DOMAIN shares /\ t \in DOMAIN shares
    BY <1>1, <2>1 DEF SharesReused
  <2>2. CASE s \in DOMAIN shares /\ t \notin DOMAIN shares
    BY <1>1, <2>2 DEF SameClips
  <2>3. CASE s \notin DOMAIN shares /\ t \in DOMAIN shares
    BY <1>1, <2>3 DEF SameClips
  <2> QED
    BY <1>1, <2>1, <2>2, <2>3
<1>4. \A t \in Tab, s \in DOMAIN shares' :
        Sharing(t)' /\ SameClips(sharing'[t], shares'[s]) =>
          shares'[s].timeline \/ (shares'[s].raced /\ sharing'[t].raced)
  <2> SUFFICES ASSUME NEW t \in Tab, NEW s \in DOMAIN shares', Sharing(t)',
                      SameClips(sharing'[t], shares'[s])
               PROVE  shares'[s].timeline \/ (shares'[s].raced /\ sharing'[t].raced)
    OBVIOUS
  <2>1. sharing'[t] = sharing[t] /\ Sharing(t)
    OBVIOUS
  <2>2. CASE s \in DOMAIN shares
    BY <1>1, <2>1, <2>2 DEF SharingRaced
  <2>3. CASE s \notin DOMAIN shares
    BY <1>1, <2>1, <2>3
  <2> QED
    BY <2>2, <2>3
<1>5. \A t, u \in Tab :
        Sharing(t)' /\ Sharing(u)' /\ t # u /\ SameClips(sharing'[t], sharing'[u]) => sharing'[t].raced
  BY DEF SharingRaced
<1>6. SharingRaced'
  BY <1>4, <1>5 DEF SharingRaced, Sharing
<1> QED
  BY <1>2, <1>3, <1>6

LEMMA FieldKept == ASSUME NEW f, f = [x \in DOMAIN f |-> f[x]], NEW a PROVE [f EXCEPT ![a] = f[a]] = f
OBVIOUS

LEMMA NothingWritten == [NoShare EXCEPT !.raced = FALSE] = NoShare
<1>1. NoShare = [x \in DOMAIN NoShare |-> NoShare[x]] /\ NoShare.raced = FALSE
  BY DEF NoShare
<1> QED
  BY <1>1, FieldKept

LEMMA ShareBegins ==
  ASSUME SharesInv, NEW t \in Tab, NEW v \in Video, NEW cs \in Seq(Nat), ShareRead(t, v, cs)
  PROVE  SharesInv'
<1> USE DEF SharesInv
<1> DEFINE others == {u \in Tab : sharing[u].video = v /\ ToBag(sharing[u].clips) = ToBag(cs)}
           early == others # {}
           x == [video |-> v, clips |-> cs, raced |-> early]
<1>1. /\ sharing[t] = NoShare /\ Links(v, cs) = {} /\ shares' = shares
      /\ sharing' = [u \in Tab |-> IF u = t THEN x
                                   ELSE [sharing[u] EXCEPT !.raced = @ \/ u \in others]]
  BY DEF ShareRead
<1>2. early \in BOOLEAN /\ NoShare.video = 0 /\ NoShare.raced = FALSE
  BY DEF NoShare
<1>3. \A u \in others : Sharing(u)
  BY <1>2 DEF Sharing, Video
<1>4. t \notin others
  BY <1>1, <1>3 DEF Sharing
<1> HIDE DEF early
<1>5. x.video = v /\ x.clips = cs /\ x.raced = early /\ x \in SharingRow
  BY <1>2 DEF SharingRow
<1>6. sharing'[t] = x /\ Sharing(t)'
  BY <1>1, <1>5 DEF Sharing, NoShare, Video
<1> HIDE DEF x
<1>7. ASSUME NEW u \in Tab, u # t
      PROVE  /\ Sharing(u)' <=> Sharing(u)
             /\ Sharing(u) => /\ sharing'[u] \in SharingRow
                              /\ sharing'[u].video = sharing[u].video
                              /\ sharing'[u].clips = sharing[u].clips
                              /\ sharing'[u].raced <=> sharing[u].raced \/ u \in others
  <2> DEFINE raced == sharing[u].raced \/ u \in others
  <2>1. sharing'[u] = [sharing[u] EXCEPT !.raced = raced]
    BY <1>1, <1>7
  <2>2. CASE ~ Sharing(u)
    <3>1. sharing[u] = NoShare /\ u \notin others
      BY <1>3, <2>2 DEF Sharing
    <3>2. raced = FALSE
      BY <1>2, <3>1
    <3> HIDE DEF raced
    <3>3. sharing'[u] = NoShare
      BY <2>1, <3>1, <3>2, NothingWritten
    <3> QED
      BY <2>2, <3>3 DEF Sharing
  <2>3. CASE Sharing(u)
    <3>1. sharing[u] \in SharingRow
      BY <2>3 DEF SharingTyped
    <3>2. raced \in BOOLEAN
      BY <3>1 DEF SharingRow
    <3> DEFINE y == [sharing[u] EXCEPT !.raced = raced]
    <3> HIDE DEF raced
    <3>3. y \in SharingRow /\ y.video = sharing[u].video /\ y.clips = sharing[u].clips /\ y.raced = raced
      BY <3>1, <3>2 DEF SharingRow
    <3>4. y # NoShare
      BY <3>3 DEF SharingRow, NoShare, Video
    <3> HIDE DEF y
    <3>5. sharing'[u] = y
      BY <2>1 DEF y
    <3> QED
      BY <2>3, <3>3, <3>4, <3>5 DEF Sharing, raced
  <2> QED
    BY <2>2, <2>3
<1>8. SharingTyped'
  <2>1. DOMAIN sharing' = Tab
    BY <1>1
  <2>2. ASSUME NEW u \in Tab, Sharing(u)' PROVE sharing'[u] \in SharingRow
    <3>1. CASE u = t
      BY <1>5, <1>6, <3>1
    <3>2. CASE u # t
      BY <1>7, <2>2, <3>2 DEF SharingTyped
    <3> QED
      BY <3>1, <3>2
  <2> QED
    BY <2>1, <2>2 DEF SharingTyped, Sharing
<1>9. \A s \in DOMAIN shares : ~ (shares[s].video = v /\ ToBag(shares[s].clips) = ToBag(cs))
  <2> SUFFICES ASSUME NEW s \in DOMAIN shares, shares[s].video = v, ToBag(shares[s].clips) = ToBag(cs)
               PROVE  FALSE
    OBVIOUS
  <2>0. ToBag(shares[s].clips) = ToBag(cs)
    OBVIOUS
  <2>1. shares[s].clips = ShareKey(cs)
    <3>1. shares[s].clips \in Seq(Nat) /\ Ascends(shares[s].clips)
      <4>1. shares[s] \in LinkRow
        BY DEF SharesTyped
      <4> QED
        BY <4>1 DEF SharesTyped, LinkRow
    <3> QED
      BY <2>0, <3>1, KeyHolds, OneOrder
  <2> QED
    BY <1>1, <2>1 DEF Links
<1>10. SharingRaced'
  <2>1. ASSUME NEW u \in Tab, NEW s \in DOMAIN shares, Sharing(u)', SameClips(sharing'[u], shares[s])
        PROVE  shares[s].timeline \/ (shares[s].raced /\ sharing'[u].raced)
    <3>1. CASE u = t
      BY <1>5, <1>6, <1>9, <2>1, <3>1 DEF SameClips
    <3>2. CASE u # t
      BY <1>7, <2>1, <3>2 DEF SharingRaced, SameClips
    <3> QED
      BY <3>1, <3>2
  <2>2. ASSUME NEW u \in Tab, NEW w \in Tab, Sharing(u)', Sharing(w)', u # w,
               SameClips(sharing'[u], sharing'[w])
        PROVE  sharing'[u].raced
    <3>1. CASE u = t
      <4>1. w \in others
        BY <1>5, <1>6, <1>7, <2>2, <3>1 DEF SameClips
      <4> QED
        BY <1>5, <1>6, <3>1, <4>1 DEF early
    <3>2. CASE w = t
      <4>1. u \in others
        BY <1>5, <1>6, <1>7, <2>2, <3>2 DEF SameClips
      <4> QED
        BY <1>7, <2>2, <3>2, <4>1
    <3>3. CASE u # t /\ w # t
      <4>1. SameClips(sharing[u], sharing[w]) /\ Sharing(u) /\ Sharing(w)
        BY <1>7, <2>2, <3>3 DEF SameClips
      <4>2. sharing[u].raced
        BY <2>2, <4>1 DEF SharingRaced
      <4> QED
        BY <1>7, <3>3, <4>1, <4>2
    <3> QED
      BY <3>1, <3>2, <3>3
  <2> HIDE DEF others
  <2> QED
    BY <1>1, <2>1, <2>2 DEF SharingRaced, Sharing
<1> QED
  BY <1>1, <1>8, <1>10 DEF SharesTyped, SharesReused

LEMMA ShareEnds ==
  ASSUME SharesInv, NEW t \in Tab, ShareCommit(t)
  PROVE  SharesInv'
<1> USE DEF SharesInv
<1> DEFINE cs == sharing[t].clips
           x == [video |-> sharing[t].video, clips |-> ShareKey(cs),
                 timeline |-> FALSE, raced |-> sharing[t].raced]
<1>1. /\ Sharing(t) /\ shares' = Append(shares, x)
      /\ sharing' = [sharing EXCEPT ![t] = NoShare]
  BY DEF ShareCommit, InsertShare, Sharing
<1>2. sharing[t] \in SharingRow /\ cs \in Seq(Nat)
  BY <1>1 DEF SharingTyped, SharingRow
<1>3. ShareKey(cs) \in Seq(Nat) /\ Ascends(ShareKey(cs)) /\ ToBag(ShareKey(cs)) = ToBag(cs)
  BY <1>2, KeyHolds
<1> DEFINE key == ShareKey(cs)
<1> HIDE DEF key
<1>4. x = [video |-> sharing[t].video, clips |-> key, timeline |-> FALSE, raced |-> sharing[t].raced]
      /\ key \in Seq(Nat) /\ Ascends(key) /\ ToBag(key) = ToBag(cs)
  BY <1>3 DEF key
<1> HIDE DEF x
<1>5. /\ x \in LinkRow /\ x.video = sharing[t].video /\ x.clips = key
      /\ x.timeline = FALSE /\ x.raced = sharing[t].raced
  <2>1. key \in Seq(Nat)
    BY <1>4
  <2>2. sharing[t].video \in Video /\ sharing[t].raced \in BOOLEAN
    BY <1>2 DEF SharingRow
  <2> QED
    BY <1>4, <2>1, <2>2 DEF LinkRow
<1>6. \A s : SameClips(s, x) <=> s.video = sharing[t].video /\ ToBag(s.clips) = ToBag(cs)
  BY <1>4, <1>5 DEF SameClips
<1>7. \A s \in DOMAIN shares : SameClips(shares[s], x) =>
        shares[s].timeline \/ (shares[s].raced /\ x.raced)
  BY <1>1, <1>5, <1>6 DEF SharingRaced, SameClips
<1>8. \A u \in Tab : Sharing(u)' <=> u # t /\ Sharing(u)
  BY <1>1 DEF SharingTyped, Sharing
<1>9. \A u \in Tab \ {t} : sharing'[u] = sharing[u]
  BY <1>1 DEF SharingTyped
<1>10. SharingTyped'
  <2>1. DOMAIN sharing' = Tab
    BY <1>1 DEF SharingTyped
  <2>2. \A u \in Tab : Sharing(u)' => sharing'[u] \in SharingRow
    BY <1>8, <1>9 DEF SharingTyped
  <2> QED
    BY <2>1, <2>2 DEF SharingTyped, Sharing
<1>11. \A u \in Tab : Sharing(u)' /\ SameClips(sharing[u], x) => x.raced /\ sharing[u].raced
  <2> SUFFICES ASSUME NEW u \in Tab, u # t, Sharing(u), SameClips(sharing[u], x)
               PROVE  x.raced /\ sharing[u].raced
    BY <1>8
  <2>1. SameClips(sharing[u], sharing[t]) /\ SameClips(sharing[t], sharing[u])
    BY <1>6 DEF SameClips
  <2> QED
    BY <1>1, <1>5, <2>1 DEF SharingRaced
<1> QED
  BY <1>1, <1>4, <1>5, <1>7, <1>8, <1>9, <1>10, <1>11, LinkAdded

LEMMA TimelineShared ==
  ASSUME SharesInv, NEW v \in Video, NEW cs \in Seq(Nat), ShareTimeline(v, cs)
  PROVE  SharesInv'
<1> USE DEF SharesInv
<1> DEFINE key == ShareKey(cs)
           x == [video |-> v, clips |-> key, timeline |-> TRUE, raced |-> FALSE]
<1>1. shares' = Append(shares, x) /\ sharing' = sharing
  BY DEF ShareTimeline, InsertShare
<1>2. key \in Seq(Nat) /\ Ascends(key)
  BY KeyHolds
<1> HIDE DEF key
<1>3. x \in LinkRow /\ x.clips = key /\ x.timeline
  BY <1>2 DEF LinkRow
<1> HIDE DEF x
<1>4. SharingTyped'
  BY <1>1 DEF SharingTyped, Sharing
<1>5. \A t \in Tab : Sharing(t)' => sharing'[t] = sharing[t] /\ Sharing(t)
  BY <1>1 DEF Sharing
<1> QED
  BY <1>1, <1>2, <1>3, <1>4, <1>5, LinkAdded

-----------------------------------------------------------------------------

LEMMA PicksListed == ASSUME TablesInv, NEW cs \in Pick PROVE cs \in Seq(Nat)
<1>1. cs \in UNION {[1..n -> DOMAIN clips] : n \in 0..MaxClip}
  BY DEF Pick, BoundedSeq, SeqOf
<1>2. PICK n \in 0..MaxClip : cs \in [1..n -> DOMAIN clips]
  BY <1>1
<1>3. DOMAIN clips \subseteq Nat
  BY DEF TablesInv, ClipsInv
<1>4. n \in Nat /\ cs \in [1..n -> Nat]
  BY <1>2, <1>3, ScoutingLibraryAssumption
<1> QED
  BY <1>4

LEMMA LibraryStep == LibraryInv /\ [ScoutingLibraryNext]_scoutingLibraryVars => LibraryInv'
<1> SUFFICES ASSUME LibraryInv, [ScoutingLibraryNext]_scoutingLibraryVars PROVE LibraryInv'
  OBVIOUS
<1> USE DEF LibraryInv
<1>1. ASSUME TablesInv', UNCHANGED <<shares, sharing>> PROVE LibraryInv'
  BY <1>1, SharesStand
<1>2. ASSUME SharesInv', UNCHANGED <<video, clips, annotations, playlists, items>> PROVE LibraryInv'
  BY <1>2, TablesStand
<1>3. ASSUME NEW v \in Video, CreateClip(v) \/ DeleteLibraryVideo(v) PROVE LibraryInv'
  BY <1>1, <1>3, ClipCreated, VideoDeleted DEF CreateClip, DeleteLibraryVideo
<1>4. ASSUME NEW c, DeleteClip(c) PROVE LibraryInv'
  <2>1. TablesInv'
    BY <1>4, ClipsDeleted DEF DeleteClip
  <2> QED
    BY <1>1, <1>4, <2>1 DEF DeleteClip
<1>5. ASSUME NEW v, NEW c, CreateAnnotation(v, c) PROVE LibraryInv'
  BY <1>1, <1>5, MarkCreated DEF CreateAnnotation
<1>6. ASSUME NEW a \in DOMAIN annotations, DeleteAnnotation(a) PROVE LibraryInv'
  BY <1>1, <1>6, MarkDeleted DEF DeleteAnnotation
<1>7. ASSUME NEW cs, BatchDeleteClips(cs) PROVE LibraryInv'
  <2>1. TablesInv'
    BY <1>7, ClipsDeleted DEF BatchDeleteClips
  <2> QED
    BY <1>1, <1>7, <2>1 DEF BatchDeleteClips
<1>8. ASSUME NEW cs, RateClips(cs) PROVE LibraryInv'
  BY <1>1, <1>8, ClipsRated DEF RateClips
<1>9. CASE CreatePlaylist
  BY <1>1, <1>9, PlaylistsStep DEF CreatePlaylist
<1>10. ASSUME NEW p \in DOMAIN playlists, DeletePlaylist(p) PROVE LibraryInv'
  BY <1>1, <1>10, PlaylistsStep DEF DeletePlaylist
<1>11. ASSUME NEW p \in DOMAIN playlists, NEW c \in DOMAIN clips,
              AddPlaylistItem(p, c) \/ RemovePlaylistItem(p, c)
       PROVE  LibraryInv'
  BY <1>1, <1>11, PlaylistsStep DEF AddPlaylistItem, RemovePlaylistItem
<1>12. ASSUME NEW p \in DOMAIN playlists, NEW cs \in Pick, ReorderPlaylist(p, cs) PROVE LibraryInv'
  <2>1. cs \in Seq(Nat)
    BY PicksListed
  <2>2. TablesInv'
    BY <1>12, <2>1, PlaylistsStep
  <2> QED
    BY <1>1, <1>12, <2>2 DEF ReorderPlaylist
<1>13. ASSUME NEW v \in Video, NEW cs \in Pick, ShareTimeline(v, cs) PROVE LibraryInv'
  <2>1. SharesInv'
    BY <1>13, PicksListed, TimelineShared
  <2> QED
    BY <1>2, <1>13, <2>1 DEF ShareTimeline
<1>14. ASSUME NEW v \in Video, NEW cs \in Pick, NEW t \in Tab, ShareRead(t, v, cs) PROVE LibraryInv'
  <2>1. SharesInv'
    BY <1>14, PicksListed, ShareBegins
  <2> QED
    BY <1>2, <1>14, <2>1 DEF ShareRead
<1>15. ASSUME NEW t \in Tab, ShareCommit(t) PROVE LibraryInv'
  BY <1>2, <1>15, ShareEnds DEF ShareCommit
<1>16. CASE UNCHANGED scoutingLibraryVars
  BY <1>1, <1>16, TablesStand DEF scoutingLibraryVars
<1>17. CASE ClipsNext
  BY <1>3, <1>4, <1>17 DEF ClipsNext
<1>18. CASE ListsNext
  BY <1>5, <1>6, <1>7, <1>8, <1>9, <1>10, <1>11, <1>12, <1>18 DEF ListsNext
<1>19. CASE LinksNext
  BY <1>13, <1>14, <1>15, <1>19 DEF LinksNext
<1> QED
  BY <1>16, <1>17, <1>18, <1>19 DEF ScoutingLibraryNext

-----------------------------------------------------------------------------
(* Push notifications.  The last reminder a coach got is lost, or a row      *)
(* tells of it: in the table, or in the log of the run that pushed it.       *)

Reminders == [event : Meeting, coach : Coach]

PushRow == [coach : Coach, kind : {"calendar_3h", "calendar_summary", "test"},
            event : Meeting \cup {Nobody}, sent : BOOLEAN, at : Nat]

JobRow == [stage : {"rest", "calendar_3h", "calendar_summary"}, since : Nat,
           todo : SUBSET Reminders, log : SUBSET PushRow, swept : SUBSET Device]

JobSound(r) ==
  /\ jobs[r] \in JobRow
  /\ jobs[r].since <= hour
  /\ \A l \in jobs[r].log : l.at = jobs[r].since
  /\ ~ InFlight(r) => jobs[r] = Resting

LogInv ==
  /\ hour \in Nat
  /\ pushLog \subseteq PushRow
  /\ \A l \in pushLog : l.at <= hour

DiaryInv == DOMAIN diary = Meeting /\ \A e \in Meeting : diary[e].coach \in Coach

DeviceInv == device \in [Device -> Coach \cup {Nobody}]

JobsInv == DOMAIN jobs = PushRun /\ \A r \in PushRun : JobSound(r)

Tells(log, c) == \E l \in log : l.coach = c /\ l.sent /\ l.at = pushed[c].at

PushTold(c) ==
  /\ pushed[c].at \in Int
  /\ \/ pushed[c].lost
     \/ hour - pushed[c].at > CapHours
     \/ Tells(pushLog, c)
     \/ pushed[c].run \in PushRun /\ Tells(jobs[pushed[c].run].log, c)

PushedInv == DOMAIN pushed = Coach /\ \A c \in Coach : PushTold(c)

PushInv == LogInv /\ DiaryInv /\ DeviceInv /\ JobsInv /\ PushedInv

LEMMA RestingSound ==
  /\ Resting \in JobRow /\ Resting.since = 0 /\ Resting.log = {}
  /\ Resting.stage = "rest" /\ Resting.todo = {}
BY DEF Resting, JobRow

LEMMA PushInitially == PushInit => PushInv
<1> SUFFICES ASSUME PushInit PROVE PushInv
  OBVIOUS
<1>1. LogInv /\ DeviceInv
  BY DEF PushInit, LogInv, DeviceInv
<1>2. DiaryInv
  BY DEF PushInit, DiaryInv
<1>3. JobsInv
  <2>1. hour = 0 /\ DOMAIN jobs = PushRun /\ \A r \in PushRun : jobs[r] = Resting
    BY DEF PushInit
  <2> QED
    BY <2>1, RestingSound DEF JobsInv, JobSound
<1>4. PushedInv
  BY DEF PushInit, PushedInv, PushTold
<1> QED
  BY <1>1, <1>2, <1>3, <1>4 DEF PushInv

LEMMA PushSound == PushInv => PushTypeOK
<1> SUFFICES ASSUME PushInv PROVE PushTypeOK
  OBVIOUS
<1>1. \A r \in PushRun : jobs[r].since \in 0..hour
  BY DEF PushInv, JobsInv, JobSound, JobRow, LogInv
<1>2. \A l \in pushLog : l.coach \in Coach /\ l.at \in 0..hour
  <2> SUFFICES ASSUME NEW l \in pushLog PROVE l.coach \in Coach /\ l.at \in 0..hour
    OBVIOUS
  <2>1. l \in PushRow /\ l.at <= hour /\ hour \in Nat
    BY DEF PushInv, LogInv
  <2> QED
    BY <2>1 DEF PushRow
<1> QED
  BY <1>1, <1>2 DEF PushTypeOK, PushInv, DeviceInv, JobsInv, JobSound

-----------------------------------------------------------------------------

\* No run, and nothing that was pushed, is touched; rows are added.
LEMMA PushGrows ==
  ASSUME PushInv, UNCHANGED <<hour, jobs, pushed>>, pushLog \subseteq pushLog'
  PROVE  JobsInv' /\ PushedInv'
<1>1. JobsInv'
  BY DEF PushInv, JobsInv, JobSound, InFlight
<1>2. PushedInv'
  <2> SUFFICES ASSUME NEW c \in Coach PROVE PushTold(c)'
    BY DEF PushInv, PushedInv
  <2>1. PushTold(c)
    BY DEF PushInv, PushedInv
  <2> QED
    BY <2>1 DEF PushTold, Tells
<1> QED
  BY <1>1, <1>2

LEMMA LogStands == LogInv /\ UNCHANGED <<hour, pushLog>> => LogInv'
BY DEF LogInv

LEMMA DiaryStands == DiaryInv /\ UNCHANGED diary => DiaryInv'
BY DEF DiaryInv

LEMMA DeviceStands == DeviceInv /\ UNCHANGED device => DeviceInv'
BY DEF DeviceInv

\* A coach's own acts, and what happens on the calendar.
LEMMA CoachActs ==
  ASSUME PushInv, UNCHANGED <<hour, pushLog, jobs, pushed>>, DiaryInv', DeviceInv'
  PROVE  PushInv'
BY PushGrows, LogStands DEF PushInv

LEMMA CoachStep ==
  ASSUME PushInv, CoachNext
  PROVE  PushInv' /\ jobs' = jobs
<1> USE DEF PushInv
<1>1. ASSUME NEW c \in Coach, NEW gone, Unsubscribe(c, gone) PROVE PushInv' /\ jobs' = jobs
  <2>1. DeviceInv'
    BY <1>1 DEF Unsubscribe, DeviceInv
  <2> QED
    BY <1>1, <2>1, CoachActs, DiaryStands DEF Unsubscribe
<1>2. ASSUME NEW c \in Coach, NEW on, NEW w, SetPreferences(c, on, w) PROVE PushInv' /\ jobs' = jobs
  BY <1>2, CoachActs, DiaryStands, DeviceStands DEF SetPreferences
<1>3. ASSUME NEW c \in Coach, NEW e \in Meeting, NEW h, ChangeDiary(e, c, h)
      PROVE  PushInv' /\ jobs' = jobs
  <2>1. DiaryInv'
    BY <1>3 DEF ChangeDiary, DiaryInv
  <2> QED
    BY <1>3, <2>1, CoachActs, DeviceStands DEF ChangeDiary
<1>4. ASSUME NEW e \in Meeting, SumUp(e) PROVE PushInv' /\ jobs' = jobs
  <2>1. \A m \in Meeting : diary'[m].coach = diary[m].coach
    BY <1>4 DEF SumUp, DiaryInv
  <2>2. DiaryInv'
    BY <1>4, <2>1 DEF SumUp, DiaryInv
  <2> QED
    BY <1>4, <2>2, CoachActs, DeviceStands DEF SumUp
<1> QED
  BY <1>1, <1>2, <1>3, <1>4 DEF CoachNext

Spaced(r, l) ==
  l.sent => \/ pushed[l.coach].lost
            \/ pushed[l.coach].run # r /\ Unseen(l.coach, pushed[l.coach].run)
            \/ hour - pushed[l.coach].at > CapHours

AllSpaced == \A r \in PushRun : \A l \in jobs'[r].log \ jobs[r].log : Spaced(r, l)

\* The clock goes on: what is forgotten is older than the cap.
LEMMA TickStep ==
  ASSUME PushInv, Tick
  PROVE  PushInv' /\ AllSpaced
<1> USE DEF PushInv
<1>1. hour \in Nat /\ hour' = hour + 1 /\ UNCHANGED <<prefs, device, diary, jobs, pushed>>
  BY DEF Tick, LogInv
<1>2. LogInv'
  <2> SUFFICES ASSUME NEW l \in pushLog' PROVE l \in PushRow /\ l.at <= hour'
    BY <1>1 DEF LogInv
  <2>1. l \in pushLog
    BY DEF Tick
  <2>2. l \in PushRow /\ l.at <= hour
    BY <2>1 DEF LogInv
  <2>3. l.at \in Nat
    BY <2>2 DEF PushRow
  <2> QED
    BY <1>1, <2>2, <2>3
<1>3. JobsInv'
  <2> SUFFICES ASSUME NEW r \in PushRun PROVE JobSound(r)'
    BY <1>1 DEF JobsInv
  <2>1. JobSound(r) /\ jobs[r].since \in Nat
    BY DEF JobsInv, JobSound, JobRow
  <2> QED
    BY <1>1, <2>1 DEF JobSound, InFlight
<1>4. PushedInv'
  <2> SUFFICES ASSUME NEW c \in Coach PROVE PushTold(c)'
    BY <1>1 DEF PushedInv
  <2>1. PushTold(c) /\ pushed[c].at \in Int /\ CapHours \in Nat
    BY PushAssumption DEF PushedInv, PushTold
  <2>2. CASE pushed[c].lost
    BY <1>1, <2>1, <2>2 DEF PushTold
  <2>3. CASE hour - pushed[c].at > CapHours
    <3>1. hour' - pushed[c].at > CapHours
      BY <1>1, <2>1, <2>3
    <3> QED
      BY <1>1, <2>1, <3>1 DEF PushTold
  <2>4. CASE pushed[c].run \in PushRun /\ Tells(jobs[pushed[c].run].log, c)
    BY <1>1, <2>1, <2>4 DEF PushTold, Tells
  <2>5. CASE Tells(pushLog, c)
    <3>1. PICK l \in pushLog : l.coach = c /\ l.sent /\ l.at = pushed[c].at
      BY <2>5 DEF Tells
    <3>2. CASE l \in pushLog'
      BY <1>1, <2>1, <3>1, <3>2 DEF PushTold, Tells
    <3>3. CASE l \notin pushLog'
      <4>1. ~ (l.at >= hour' - CapHours)
        BY <3>1, <3>3 DEF Tick
      <4>2. hour' - pushed[c].at > CapHours
        BY <1>1, <2>1, <3>1, <4>1
      <4> QED
        BY <1>1, <2>1, <4>2 DEF PushTold
    <3> QED
      BY <3>2, <3>3
  <2> QED
    BY <2>1, <2>2, <2>3, <2>4, <2>5 DEF PushTold
<1> QED
  BY <1>1, <1>2, <1>3, <1>4, DiaryStands, DeviceStands DEF AllSpaced

LEMMA TestStep ==
  ASSUME PushInv, NEW c \in Coach, NEW works \in BOOLEAN, NEW dead, TestPush(c, works, dead)
  PROVE  PushInv' /\ AllSpaced
<1> USE DEF PushInv
<1>1. UNCHANGED <<hour, diary, jobs, pushed>> /\ pushLog \subseteq pushLog'
      /\ pushLog' \subseteq pushLog \cup {Row(c, "test", Nobody, TRUE, hour)}
  BY DEF TestPush
<1>2. LogInv'
  <2> DEFINE row == Row(c, "test", Nobody, TRUE, hour)
  <2>1. row \in PushRow /\ row.at = hour
    BY DEF Row, PushRow, LogInv
  <2> HIDE DEF row
  <2>2. pushLog' \subseteq pushLog \cup {row}
    BY <1>1 DEF row
  <2> QED
    BY <1>1, <2>1, <2>2 DEF LogInv
<1>3. DeviceInv'
  BY DEF TestPush, DeviceInv
<1> QED
  BY <1>1, <1>2, <1>3, PushGrows, DiaryStands DEF AllSpaced

\* One run moves, the table stays; what it had pushed is still told of.
LEMMA JobMoves ==
  ASSUME PushInv, NEW r \in PushRun, NEW x \in JobRow, jobs' = [jobs EXCEPT ![r] = x],
         UNCHANGED <<hour, pushLog, diary, device>>,
         x.since <= hour, \A l \in x.log : l.at = x.since,
         x.stage # "rest" \/ x = Resting
  PROVE  LogInv' /\ DiaryInv' /\ DeviceInv' /\ JobsInv'
<1>1. JobSound(r)'
  BY DEF PushInv, JobsInv, JobSound, InFlight
<1>2. \A o \in PushRun \ {r} : JobSound(o)'
  BY DEF PushInv, JobsInv, JobSound, InFlight
<1>3. JobsInv'
  BY <1>1, <1>2 DEF PushInv, JobsInv
<1> QED
  BY <1>3, LogStands, DiaryStands, DeviceStands DEF PushInv

\* A list of reminders is made, and nothing is pushed.
LEMMA ListMade ==
  ASSUME PushInv, NEW r \in PushRun, NEW x \in JobRow, jobs' = [jobs EXCEPT ![r] = x],
         UNCHANGED <<hour, pushLog, diary, device, pushed>>,
         x.since <= hour, x.log = jobs[r].log, \A l \in x.log : l.at = x.since,
         x.stage # "rest"
  PROVE  PushInv' /\ AllSpaced
<1>1. \A o \in PushRun : jobs'[o].log = jobs[o].log
  BY DEF PushInv, JobsInv
<1>2. PushedInv'
  <2> SUFFICES ASSUME NEW c \in Coach PROVE PushTold(c)'
    BY DEF PushInv, PushedInv
  <2>1. PushTold(c)
    BY DEF PushInv, PushedInv
  <2> QED
    BY <1>1, <2>1 DEF PushTold, Tells
<1> QED
  BY <1>1, <1>2, JobMoves DEF PushInv, AllSpaced

LEMMA ListsStep ==
  ASSUME PushInv, NEW r \in PushRun, LeadRead(r) \/ SummaryRead(r)
  PROVE  PushInv' /\ AllSpaced
<1> USE DEF PushInv
<1>1. \A E \in SUBSET Meeting : Asked(E) \in SUBSET Reminders
  BY DEF Asked, Reminders, DiaryInv
<1>2. CASE LeadRead(r)
  <2> DEFINE due == Asked({e \in Meeting : diary[e].hour = hour + Lead})
             x == [Resting EXCEPT !.stage = "calendar_3h", !.since = hour, !.todo = due]
  <2>1. jobs' = [jobs EXCEPT ![r] = x] /\ jobs[r] = Resting
        /\ UNCHANGED <<hour, pushLog, diary, device, pushed>>
    BY <1>2 DEF LeadRead, JobsInv, JobSound
  <2>2. due \in SUBSET Reminders
    BY <1>1
  <2> HIDE DEF due
  <2>3. x \in JobRow /\ x.since = hour /\ x.log = {} /\ x.stage = "calendar_3h"
    BY <2>2 DEF Resting, JobRow, LogInv
  <2> HIDE DEF x
  <2>4. x.since <= hour /\ x.log = jobs[r].log
    BY <2>1, <2>3, RestingSound DEF LogInv
  <2> QED
    BY <2>1, <2>3, <2>4, ListMade
<1>3. CASE SummaryRead(r)
  <2> DEFINE due == Asked({e \in Meeting : diary[e].hour + After = hour})
             x == [jobs[r] EXCEPT !.stage = "calendar_summary", !.todo = due]
  <2>1. jobs' = [jobs EXCEPT ![r] = x]
        /\ UNCHANGED <<hour, pushLog, diary, device, pushed>>
    BY <1>3 DEF SummaryRead
  <2>2. due \in SUBSET Reminders
    BY <1>1
  <2> HIDE DEF due
  <2>3. JobSound(r) /\ jobs[r] \in JobRow
    BY DEF JobsInv, JobSound
  <2>4. x \in JobRow /\ x.since = jobs[r].since /\ x.log = jobs[r].log /\ x.stage = "calendar_summary"
    BY <2>2, <2>3 DEF JobRow
  <2> HIDE DEF x
  <2> QED
    BY <2>1, <2>3, <2>4, ListMade DEF JobSound
<1> QED
  BY <1>2, <1>3

\* The next reminder: one that is pushed follows the last by more than the cap,
\* as far as the run can know.
LEMMA RemindStep ==
  ASSUME PushInv, NEW r \in PushRun, NEW x \in jobs[r].todo, NEW works \in BOOLEAN,
         NEW dead \in SUBSET Device, Remind(r, x, works, dead)
  PROVE  PushInv' /\ AllSpaced
<1> USE DEF PushInv
<1> DEFINE kind == jobs[r].stage
           needless == \/ Duplicate(x, kind, pushLog \cup jobs[r].log)
                       \/ kind = "calendar_summary" /\ diary[x.event].summed
           row == Row(x.coach, kind, x.event, works, jobs[r].since)
           log == IF needless THEN jobs[r].log ELSE jobs[r].log \cup {row}
           y == [jobs[r] EXCEPT !.todo = jobs[r].todo \ {x}, !.log = log,
                                !.swept = jobs[r].swept \cup dead]
<1>1. /\ jobs' = [jobs EXCEPT ![r] = y]
      /\ pushed' = IF works
                   THEN [pushed EXCEPT ![x.coach] = [at |-> jobs[r].since, run |-> r, lost |-> FALSE]]
                   ELSE pushed
      /\ UNCHANGED <<hour, prefs, device, pushLog, diary>>
  BY DEF Remind
<1>2. works => ~ needless /\ ~ HasRecentSend(x.coach, pushLog \cup jobs[r].log, kind)
  BY DEF Remind, Gated
<1>3. JobSound(r) /\ jobs[r] \in JobRow /\ x \in Reminders
  BY DEF JobsInv, JobSound, JobRow
<1>4. jobs[r].since \in Nat /\ jobs[r].log \in SUBSET PushRow /\ x.coach \in Coach
  BY <1>3 DEF JobRow, Reminders
<1>5. kind # "rest" /\ kind \in {"calendar_3h", "calendar_summary"}
  BY <1>3, RestingSound DEF JobSound, JobRow, InFlight
<1>6. /\ row \in PushRow /\ row.coach = x.coach /\ row.at = jobs[r].since
      /\ row.sent = works
  BY <1>3, <1>4, <1>5 DEF Row, PushRow, Reminders
<1> HIDE DEF needless, row
<1>7. log \in SUBSET PushRow /\ jobs[r].log \subseteq log /\ log \subseteq jobs[r].log \cup {row}
      /\ \A l \in log : l.at = jobs[r].since
  BY <1>3, <1>4, <1>6 DEF JobSound
<1>8. works => row \in log
  BY <1>2
<1> HIDE DEF log
<1>9. y \in JobRow /\ y.since = jobs[r].since /\ y.log = log /\ y.stage = kind
  BY <1>3, <1>7 DEF JobRow
<1> HIDE DEF y, kind
<1>10. LogInv' /\ DiaryInv' /\ DeviceInv' /\ JobsInv'
  BY <1>1, <1>3, <1>5, <1>7, <1>9, JobMoves DEF JobSound
<1>11. /\ jobs'[r].log = log
       /\ \A o \in PushRun : jobs[o].log \subseteq jobs'[o].log /\ (o # r => jobs'[o] = jobs[o])
  BY <1>1, <1>7, <1>9 DEF JobsInv
<1>12. PushedInv'
  <2>1. DOMAIN pushed' = Coach
    BY <1>1 DEF PushedInv
  <2> SUFFICES ASSUME NEW c \in Coach PROVE PushTold(c)'
    BY <2>1 DEF PushedInv
  <2>2. CASE works /\ c = x.coach
    <3>1. pushed'[c] = [at |-> jobs[r].since, run |-> r, lost |-> FALSE]
      BY <1>1, <2>2 DEF PushedInv
    <3>2. row \in jobs'[r].log /\ row.coach = c /\ row.sent /\ row.at = pushed'[c].at
      BY <1>6, <1>8, <1>11, <2>2, <3>1
    <3>3. Tells(jobs[pushed[c].run].log, c)'
      BY <3>1, <3>2 DEF Tells
    <3> QED
      BY <1>4, <3>1, <3>3 DEF PushTold
  <2>3. CASE ~ (works /\ c = x.coach)
    <3>1. pushed'[c] = pushed[c]
      BY <1>1, <2>3 DEF PushedInv
    <3>2. PushTold(c)
      BY DEF PushedInv
    <3> QED
      BY <1>1, <1>11, <3>1, <3>2 DEF PushTold, Tells
  <2> QED
    BY <2>2, <2>3
<1>13. ASSUME NEW o \in PushRun, NEW l \in jobs'[o].log \ jobs[o].log, l.sent
       PROVE  Spaced(o, l)
  <2>1. o = r /\ l = row /\ works
    BY <1>6, <1>7, <1>11, <1>13
  <2> DEFINE c == x.coach
  <2>2. l.coach = c /\ c \in Coach
    BY <1>4, <1>6, <2>1
  <2>3. PushTold(c) /\ hour \in Nat /\ CapHours \in Nat
    BY <1>4, PushAssumption DEF PushedInv, LogInv
  <2>4. \A m \in pushLog \cup jobs[r].log : m.coach = c /\ m.sent => ~ (m.at >= hour - CapHours)
    BY <1>2, <2>1 DEF HasRecentSend
  <2> HIDE DEF c
  <2>5. \A L \in SUBSET (pushLog \cup jobs[r].log) : Tells(L, c) => hour - pushed[c].at > CapHours
    <3> SUFFICES ASSUME NEW m \in pushLog \cup jobs[r].log,
                        m.coach = c, m.sent, m.at = pushed[c].at
                 PROVE  hour - pushed[c].at > CapHours
      BY DEF Tells
    <3> QED
      BY <2>3, <2>4 DEF PushTold
  <2>6. ASSUME pushed[c].run \in PushRun, Tells(jobs[pushed[c].run].log, c), pushed[c].run # r
        PROVE  Unseen(c, pushed[c].run)
    BY <2>6 DEF Tells, Unseen
  <2>7. \/ pushed[c].lost \/ hour - pushed[c].at > CapHours
        \/ pushed[c].run # r /\ Unseen(c, pushed[c].run)
    BY <2>3, <2>5, <2>6 DEF PushTold
  <2> QED
    BY <2>1, <2>2, <2>7 DEF Spaced
<1> QED
  BY <1>10, <1>12, <1>13 DEF AllSpaced, Spaced

LEMMA CommitStep ==
  ASSUME PushInv, NEW r \in PushRun, CommitRun(r)
  PROVE  PushInv' /\ AllSpaced
<1> USE DEF PushInv
<1>1. /\ jobs' = [jobs EXCEPT ![r] = Resting] /\ pushLog' = pushLog \cup jobs[r].log
      /\ UNCHANGED <<hour, diary, pushed>>
  BY DEF CommitRun
<1>2. JobSound(r) /\ jobs[r].log \in SUBSET PushRow
  BY DEF JobsInv, JobSound, JobRow
<1>3. LogInv'
  BY <1>1, <1>2 DEF LogInv, JobSound
<1>4. DeviceInv'
  BY DEF CommitRun, DeviceInv
<1>5. jobs'[r] = Resting /\ \A o \in PushRun \ {r} : jobs'[o] = jobs[o]
  BY <1>1 DEF JobsInv
<1>6. JobsInv'
  <2>1. JobSound(r)'
    BY <1>1, <1>5, RestingSound DEF JobSound, LogInv
  <2>2. \A o \in PushRun \ {r} : JobSound(o)'
    BY <1>1, <1>5 DEF JobsInv, JobSound, InFlight
  <2> QED
    BY <1>1, <2>1, <2>2 DEF JobsInv
<1>7. PushedInv'
  <2> SUFFICES ASSUME NEW c \in Coach PROVE PushTold(c)'
    BY <1>1 DEF PushedInv
  <2>1. PushTold(c)
    BY DEF PushedInv
  <2> QED
    BY <1>1, <1>5, <2>1 DEF PushTold, Tells
<1>8. AllSpaced
  BY <1>5, RestingSound DEF AllSpaced
<1> QED
  BY <1>1, <1>3, <1>4, <1>6, <1>7, <1>8, DiaryStands

LEMMA RollBackStep ==
  ASSUME PushInv, NEW r \in PushRun, RollBackRun(r)
  PROVE  PushInv' /\ AllSpaced
<1> USE DEF PushInv
<1>1. /\ jobs' = [jobs EXCEPT ![r] = Resting]
      /\ pushed' = [c \in Coach |-> IF pushed[c].run = r /\ Unseen(c, r)
                                    THEN [pushed[c] EXCEPT !.lost = TRUE] ELSE pushed[c]]
      /\ UNCHANGED <<hour, pushLog, diary, device>>
  BY DEF RollBackRun
<1>2. LogInv' /\ DiaryInv' /\ DeviceInv' /\ JobsInv'
  <2>1. Resting.since <= hour /\ \A l \in Resting.log : l.at = Resting.since
    BY RestingSound DEF LogInv
  <2> QED
    BY <1>1, <2>1, RestingSound, JobMoves
<1>3. jobs'[r] = Resting /\ \A o \in PushRun \ {r} : jobs'[o] = jobs[o]
  BY <1>1 DEF JobsInv
<1>4. PushedInv'
  <2> SUFFICES ASSUME NEW c \in Coach PROVE PushTold(c)'
    BY <1>1 DEF PushedInv
  <2>1. PushTold(c) /\ pushed[c].at \in Int
    BY DEF PushedInv, PushTold
  <2>2. CASE pushed[c].run = r /\ Unseen(c, r)
    <3>1. pushed'[c] = [pushed[c] EXCEPT !.lost = TRUE]
      BY <1>1, <2>2
    <3> QED
      BY <2>1, <3>1 DEF PushTold
  <2>3. CASE ~ (pushed[c].run = r /\ Unseen(c, r))
    <3>1. pushed'[c] = pushed[c]
      BY <1>1, <2>3
    <3>2. ASSUME pushed[c].run \in PushRun, Tells(jobs[pushed[c].run].log, c)
          PROVE  Tells(jobs[pushed[c].run].log, c)'
      <4>1. pushed[c].run # r
        BY <2>3, <3>2 DEF Tells, Unseen
      <4> QED
        BY <1>3, <3>1, <3>2, <4>1 DEF Tells
    <3>3. Tells(pushLog, c) => Tells(pushLog, c)'
      BY <1>1, <3>1 DEF Tells
    <3> QED
      BY <1>1, <2>1, <3>1, <3>2, <3>3 DEF PushTold
  <2> QED
    BY <2>2, <2>3
<1>5. AllSpaced
  BY <1>3, RestingSound DEF AllSpaced
<1> QED
  BY <1>2, <1>4, <1>5

LEMMA PushStands == PushInv /\ UNCHANGED pushVars => PushInv' /\ AllSpaced
<1> SUFFICES ASSUME PushInv, UNCHANGED pushVars PROVE PushInv' /\ AllSpaced
  OBVIOUS
<1>1. PushInv'
  BY CoachActs, DiaryStands, DeviceStands DEF pushVars, PushInv
<1> QED
  BY <1>1 DEF AllSpaced, pushVars

LEMMA PushStep ==
  PushInv /\ [PushNext \/ CoachNext]_pushVars => PushInv' /\ AllSpaced
<1> SUFFICES ASSUME PushInv, [PushNext \/ CoachNext]_pushVars PROVE PushInv' /\ AllSpaced
  OBVIOUS
<1>1. ASSUME NEW c \in Coach, NEW d \in Device, Subscribe(c, d) PROVE PushInv' /\ AllSpaced
  <2>1. DeviceInv'
    BY <1>1 DEF Subscribe, PushInv, DeviceInv
  <2> QED
    BY <1>1, <2>1, CoachActs, DiaryStands DEF Subscribe, PushInv, AllSpaced
<1>2. CASE CoachNext
  BY <1>2, CoachStep DEF AllSpaced
<1>3. CASE PushNext
  BY <1>1, <1>3, TickStep, TestStep, ListsStep, CommitStep, RollBackStep, RemindStep DEF PushNext
<1> QED
  BY <1>2, <1>3, PushStands
=============================================================================
