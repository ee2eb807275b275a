------------------------------- MODULE Roadmap -------------------------------
(***************************************************************************)
(* The roadmap of a coach's first steps with a team: rows are counted one  *)
(* statement after the other while the coach, in other tabs, adds and      *)
(* deletes them (services/onboarding_service.py, api/onboarding.py).       *)
(* Of the twelve items those are kept that share a count, take two, or     *)
(* narrow one another; the others are counted like the first notebook      *)
(* entry.                                                                  *)
(***************************************************************************)
EXTENDS Playbook

CONSTANTS
  Looker,      \* requests for the roadmap in flight
  FewPlayers,  \* players for "three_players"
  FullRoster   \* players for "full_roster"

ASSUME RoadmapAssumption ==
  FewPlayers \in Nat \ {0} /\ FullRoster \in Nat /\ FewPlayers <= FullRoster

VARIABLES
  bench,   \* the number of active players of each team
  pages,   \* notebook_entries: of whom, for which team, a practice plan or not
  opened,  \* onboarding_events, play_creator_used
  looks,   \* the requests in flight, with the items found so far
  meant    \* history: what has been done throughout each request, and at any time in it

roadmapVars == <<playbookVars, bench, pages, opened, looks, meant>>

NotLooking == [next |-> 0]
NotMeant == [ever |-> {}, always |-> {}]

RoadmapInit ==
  /\ PlaybookInit
  /\ bench = [t \in Court |-> 0]
  /\ pages = {} /\ opened = {}
  /\ looks = [r \in Looker |-> NotLooking]
  /\ meant = [r \in Looker |-> NotMeant]

-----------------------------------------------------------------------------
(* What is counted *)

OnBench(t, n) ==
  /\ n \in 0..FullRoster
  /\ bench' = [bench EXCEPT ![t] = n]
  /\ UNCHANGED <<pages, opened, looks>>

\* add_player, bulk_add_players, delete_player: of the active team.
ChangeBench(c) ==
  /\ courtNow[c] # NoCourt
  /\ LET t == courtNow[c]
     IN OnBench(t, bench[t] + 1) \/ OnBench(t, bench[t] + FullRoster) \/ OnBench(t, bench[t] - 1)
  /\ UNCHANGED playbookVars

WritePage(c, plan) ==
  /\ courtNow[c] # NoCourt
  /\ pages' = pages \cup {[by |-> c, court |-> courtNow[c], plan |-> plan]}
  /\ pages' # pages
  /\ UNCHANGED <<playbookVars, bench, opened, looks>>

TearPage(page) ==
  /\ pages' = pages \ {page}
  /\ UNCHANGED <<playbookVars, bench, opened, looks>>

\* mark_event: a second one does nothing ("ON CONFLICT DO NOTHING").
MarkEvent(c) ==
  /\ courtNow[c] # NoCourt
  /\ opened' = opened \cup {[by |-> c, court |-> courtNow[c]]}
  /\ opened' # opened
  /\ UNCHANGED <<playbookVars, bench, pages, looks>>

\* The plays, and the teams, change by themselves.
ChangePlays ==
  /\ \/ CourtsNext
     \/ \E c \in Planner :
          \/ \E content \in Content : CreatePlay(c, content)
          \/ \E p \in plays : DeletePlay(c, p)
  /\ UNCHANGED <<bench, pages, opened, looks>>

-----------------------------------------------------------------------------
(* compute_onboarding_status *)

Kept(item, holds) == IF holds THEN {item} ELSE {}

RosterItems(t) ==
  Kept("three_players", bench[t] >= FewPlayers) \cup Kept("full_roster", bench[t] >= FullRoster)

\* Fault: the plays of the team, whoever drew them.
PlayOf_Any(c, t) == \E p \in plays : p.court = t

PlayOf(c, t) == \E p \in plays : p.by = c /\ p.court = t
EventOf(c, t) == [by |-> c, court |-> t] \in opened

PagesOf(c, t) == {p \in pages : p.court = t /\ p.by = c}
PlanOf(c, t) == \E p \in PagesOf(c, t) : p.plan

\* The statements, in their order, with what each finds for a coach and a team.
\* The roster is counted once, for two items; two statements stand for one item.
Counted(statement, c, t) ==
  CASE statement = 1 -> RosterItems(t)
    [] statement = 2 -> Kept("first_play", PlayOf(c, t))
    [] statement = 3 -> Kept("first_play", EventOf(c, t))
    [] statement = 4 -> Kept("first_notebook", PagesOf(c, t) # {})
    [] statement = 5 -> Kept("practice_plan", PlanOf(c, t))

Statements == 5

\* onboarding_status: the active team was read with the user; without one there is
\* nothing to count.
BeginLook(r, c) ==
  /\ looks[r] = NotLooking /\ courtNow[c] # NoCourt
  /\ looks' = [looks EXCEPT ![r] = [next |-> 1, by |-> c, court |-> courtNow[c], items |-> {}]]
  /\ UNCHANGED <<playbookVars, bench, pages, opened>>

CountNext(r) ==
  LET q == looks[r]
  IN /\ q.next \in 1..Statements
     /\ looks' = [looks EXCEPT ![r].next = @ + 1,
                               ![r].items = @ \cup Counted(q.next, q.by, q.court)]
     /\ UNCHANGED <<playbookVars, bench, pages, opened>>

ShowRoadmap(r) ==
  /\ looks[r].next > Statements
  /\ looks' = [looks EXCEPT ![r] = NotLooking]
  /\ UNCHANGED <<playbookVars, bench, pages, opened>>

-----------------------------------------------------------------------------
(* What is meant *)

Item == {"three_players", "full_roster", "first_play", "first_notebook", "practice_plan"}

\* The items each coach has done with each team.
Done ==
  [whose \in Planner \X Court |->
     LET c == whose[1]
         t == whose[2]
     IN RosterItems(t) \cup Kept("first_play",
             (\E p \in plays : p.by = c /\ p.court = t) \/ [by |-> c, court |-> t] \in opened)
          \cup Kept("first_notebook", \E p \in pages : p.by = c /\ p.court = t)
          \cup Kept("practice_plan", \E p \in pages : p.by = c /\ p.court = t /\ p.plan)]

Meaning(r) ==
  LET q == looks'[r]
      now == Done'[<<q.by, q.court>>]
  IN IF q = NotLooking THEN NotMeant
     ELSE IF looks[r] = NotLooking THEN [ever |-> now, always |-> now]
     ELSE [ever |-> meant[r].ever \cup now, always |-> meant[r].always \cap now]

RoadmapNext ==
  /\ \/ \E c \in Planner :
          \/ ChangeBench(c) \/ MarkEvent(c)
          \/ \E plan \in BOOLEAN : WritePage(c, plan)
          \/ \E r \in Looker : BeginLook(r, c)
     \/ \E page \in pages : TearPage(page)
     \/ ChangePlays
     \/ \E r \in Looker : CountNext(r) \/ ShowRoadmap(r)
  /\ meant' = [r \in Looker |-> Meaning(r)]

\* The type of the state.
RoadmapTypeOK ==
  /\ PlaybookTypeOK
  /\ bench \in [Court -> 0..FullRoster]
  /\ pages \subseteq [by : Planner, court : Court, plan : BOOLEAN]
  /\ opened \subseteq [by : Planner, court : Court]
  /\ \A r \in Looker :
       looks[r] = NotLooking \/ (looks[r].next \in 1..Statements + 1 /\ looks[r].items \subseteq Item)

-----------------------------------------------------------------------------
(* Properties *)

\* A roadmap shows what its coach had done with the team all the while it was
\* counted, nothing they had not done at any time meanwhile, and a full roster
\* never without the first players.  So a second look, undisturbed, is exact
\* (onboarding_status, "the widget must reflect actions the coach JUST performed").
RoadmapIsHonest ==
  \A r \in Looker :
    looks[r] # NotLooking =>
      /\ looks[r].items \subseteq meant[r].ever
      /\ looks[r].next > Statements => meant[r].always \subseteq looks[r].items
      /\ "full_roster" \in looks[r].items => "three_players" \in looks[r].items
=============================================================================
