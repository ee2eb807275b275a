------------------------------- MODULE OrgReach -------------------------------
(***************************************************************************)
(* What the rest of the organization's pages make of a manager's scope:    *)
(* each of them narrows its query in a way of its own.  Everything here is *)
(* a set of teams, whose players, events or documents are meant, as it     *)
(* follows from the structure (OrgStructure).  Coaches, who have the teams *)
(* they own everywhere, are left out.                                      *)
(***************************************************************************)
EXTENDS OrgStructure, FiniteSets

\* The older path alone: JOIN branches.  A region that is NULL finds the
\* branches without one, as SQLAlchemy compares with IS NULL.
ByBranch(g) == {t \in LiveTeams : teams[t].branch # Nil /\ branches[teams[t].branch] = g}

OfBranch(b) == {t \in LiveTeams : teams[t].branch = b}

OfProgram(p) == {t \in LiveTeams : teams[t].program = p}

\* A filter whose value is NULL is left out of the query.
Optional(value, found) == IF value = Nil THEN LiveTeams ELSE found

-----------------------------------------------------------------------------
(* Recipients of messages and documents *)

\* The filters of a list of deliveries; a sender may also name players one by
\* one, here those of a team.
Filters ==
  {[type |-> "all"]}
    \cup [type : {"region"}, region : regions]
    \cup [type : {"branch"}, branch : LiveBranches]
    \cup [type : {"team"}, team : LiveTeams]

Recipients == Filters \cup [type : {"players"}, team : LiveTeams]

\* resolve_recipients.  A manager of a program is never narrowed, nor is a
\* branch manager who asks for a region, nor who names players; the program of a
\* region manager does not matter.
Reached(a, f) ==
  LET s == scope[a]
      own == CASE a = "region_manager" -> ByBranch(s.region)
               [] a = "branch_manager" -> OfBranch(s.branch)
               [] OTHER -> LiveTeams
  IN CASE f.type = "all" -> own
       [] f.type = "team" -> own \cap {f.team}
       [] f.type = "players" -> {f.team}
       [] f.type = "region" ->
            IF a = "region_manager" /\ s.region # f.region THEN {} ELSE ByBranch(f.region)
       [] f.type = "branch" ->
            IF \/ a = "branch_manager" /\ s.branch # f.branch
               \/ a = "region_manager" /\ branches[f.branch] # s.region
            THEN {} ELSE OfBranch(f.branch)

-----------------------------------------------------------------------------
(* Players *)

\* Fault: the list forgets the program a region manager is pinned to.
PlayersListed_AnyProgram(a) ==
  CASE a = "region_manager" -> Optional(scope[a].region, RegionTeams(scope[a].region))
    [] OTHER -> TeamsListed(a)

\* list_players, PlayersRepository.list_for_org: those of a manager who lost
\* the region or the branch are not narrowed at all.
PlayersListed(a) ==
  LET s == scope[a]
  IN CASE a = Admin -> LiveTeams
       [] a = "branch_manager" -> Optional(s.branch, OfBranch(s.branch))
       [] a = "region_manager" ->
            Optional(s.region, RegionTeams(s.region)) \cap Optional(s.program, OfProgram(s.program))
       [] a = "program_manager" -> IF s.program = Nil THEN {} ELSE OfProgram(s.program)

-----------------------------------------------------------------------------
(* Calendar *)

\* The region and program a practice is stamped with (_resolve_team_scope).
Stamp(t) == [region |-> EffectiveRegion(t), program |-> teams[t].program]

\* _scope_for_membership, list_in_range_for_scope, of practices made now: a
\* branch manager has the calendar of the organization.
CalendarListed(a) ==
  LET s == scope[a]
  IN CASE a = "program_manager" ->
            Optional(s.program, {t \in LiveTeams : Stamp(t).program = s.program})
       [] a = "region_manager" ->
            Optional(s.region, {t \in LiveTeams : Stamp(t).region = s.region})
       [] OTHER -> LiveTeams

-----------------------------------------------------------------------------
(* Dashboard, region cards and region page *)

\* role_stats, by the region on the team alone; for some roles no tiles.
DashboardTeams(a) ==
  LET s == scope[a]
  IN CASE a = Admin -> LiveTeams
       [] a = "program_manager" -> IF s.program = Nil THEN {} ELSE OfProgram(s.program)
       [] a = "region_manager" ->
            IF s.region = Nil THEN {}
            ELSE {t \in LiveTeams : teams[t].region = s.region}
                   \cap Optional(s.program, OfProgram(s.program))
       [] OTHER -> {}

\* The regions a program manager's tile counts.
DashboardRegions(a) ==
  IF scope[a].program = Nil THEN {}
  ELSE {teams[t].region : t \in OfProgram(scope[a].program)} \ {Nil}

\* The bars of the chart: the teams per region, or the teams of the region.
Breakdown(a, g) ==
  CASE a = Admin -> {t \in LiveTeams : teams[t].region = g}
    [] a = "program_manager" -> {t \in DashboardTeams(a) : teams[t].region = g}
    [] a = "region_manager" -> IF g = scope[a].region THEN DashboardTeams(a) ELSE {}
    [] OTHER -> {}

\* _enrich_regions: the two paths for teams, the direct one for programs.
RegionCard(g) ==
  [branches |-> {b \in LiveBranches : branches[b] = g},
   teams    |-> RegionTeams(g),
   programs |-> {teams[t].program : t \in {u \in LiveTeams : teams[u].region = g}} \ {Nil}]

\* get_region_detail: a manager of a program has that program's teams.
RegionPage(a, g) ==
  IF a = "program_manager" THEN RegionTeams(g) \cap OfProgram(scope[a].program)
  ELSE RegionTeams(g)

-----------------------------------------------------------------------------
(* Documents *)

\* _scope_to_actor of the deliveries of a template and of their statistics.
DocumentsOf(a) ==
  CASE a = "region_manager" -> ByBranch(scope[a].region)
    [] a = "branch_manager" -> OfBranch(scope[a].branch)
    [] OTHER -> LiveTeams

\* list_for_template_filtered, with one filter.  A column of a table that the
\* actor's own narrowing did not join only asks whether there is such a row.
TemplateDeliveries(a, f) ==
  LET joined == CASE a = Admin -> {"region", "branch", "team"}
                  [] a = "region_manager" -> {"region", "branch", "team"}
                  [] a = "branch_manager" -> {"branch", "team"}
                  [] OTHER -> {}
      meant == CASE f.type = "all" -> LiveTeams
                 [] f.type = "region" -> ByBranch(f.region)
                 [] f.type = "branch" -> OfBranch(f.branch)
                 [] f.type = "team" -> {f.team}
      row == CASE f.type = "region" -> \E b \in LiveBranches : branches[b] = f.region
               [] OTHER -> meant # {}
  IN IF f.type \in joined \cup {"all"} THEN DocumentsOf(a) \cap meant
     ELSE IF row THEN DocumentsOf(a) ELSE {}

\* How often _by_org_unit counts a delivery of a team.  By team, the query
\* of a region manager names the branches without a join: once for each
\* branch of the region, whatever the team.
Counted(a, unit, t) ==
  CASE unit = "team" /\ a = "region_manager" ->
         Cardinality({b \in LiveBranches : branches[b] = scope[a].region})
    [] unit = "branch" /\ teams[t].branch = Nil -> 0
    [] unit = "region" /\ (teams[t].branch = Nil \/ branches[teams[t].branch] = Nil) -> 0
    [] OTHER -> IF t \in DocumentsOf(a) THEN 1 ELSE 0

-----------------------------------------------------------------------------
(* Properties *)

\* The roles whose messages and documents are narrowed, and the place that is
\* pinned: teams without a region or a branch, if it has been deleted.
Narrowed == {"region_manager", "branch_manager"}

OwnPlace(a) ==
  IF a = "region_manager" THEN RegionTeams(scope[a].region) ELSE OfBranch(scope[a].branch)

OfOwnProgram(a) == Optional(scope[a].program, OfProgram(scope[a].program))

\* The pages of a manager agree: the players listed are those of the teams
\* listed, and what the dashboard, a region's card and its page show fits
\* (list_players, role_stats, get_region_detail).
PagesAgree(a) ==
  /\ PlayersListed(a) = TeamsListed(a)
  /\ DashboardTeams(a) \subseteq TeamsListed(a)
  /\ a = "program_manager" => DashboardRegions(a) = RegionsListed(a)
  /\ \A g \in RegionsListed(a) :
       /\ Breakdown(a, g) \subseteq RegionPage(a, g)
       /\ RegionPage(a, g) \subseteq RegionCard(g).teams
       /\ a = "program_manager" => RegionPage(a, g) \subseteq TeamsListed(a)

\* Messages and documents stay in the place pinned, whatever the program and
\* even after the place was deleted, but for players named one by one and for a
\* branch manager who asks for a region (recipient_resolver.py:97-101, 61-72); and,
\* while there is one, so does a region manager's calendar (_scope_to_actor,
\* _scope_for_membership).
StaysInPlace(a) ==
  /\ \A f \in Recipients :
       f.type \in {"all", "team", "branch"} \/ (f.type = "region" /\ a = "region_manager")
         => Reached(a, f) \subseteq OwnPlace(a)
  /\ \A f \in Filters : TemplateDeliveries(a, f) \subseteq OwnPlace(a)
  /\ \A t \in LiveTeams, unit \in {"branch", "region"} :
       Counted(a, unit, t) > 0 => t \in OwnPlace(a)
  /\ ~ Adrift(a) =>
       /\ TeamsListed(a) = OwnPlace(a) \cap OfOwnProgram(a)
       /\ a = "region_manager" => CalendarListed(a) \subseteq OwnPlace(a)

\* One scope, and where it is two.  What opens is listed; the administrator's
\* documents are whom a message reaches; the pages of a manager agree, and a
\* manager of a place stays in it.  But whom a program manager reaches is the
\* whole organization, which recipient_resolver.py:12-15 claims to narrow for
\* every other role; and a manager whose place was deleted has no team listed
\* and yet the players of every place.
ScopesAgree ==
  /\ OpensWhatItLists
  /\ \A f \in Filters : TemplateDeliveries(Admin, f) = Reached(Admin, f)
  /\ \A f \in Recipients : Reached("program_manager", f) = Reached(Admin, f)
  /\ \A a \in Managers :
       IF Adrift(a) THEN TeamsListed(a) = {} /\ PlayersListed(a) = OfOwnProgram(a)
       ELSE PagesAgree(a)
  /\ \A a \in Narrowed : StaysInPlace(a)
=============================================================================
