----------------------------- MODULE OrgStructure -----------------------------
(***************************************************************************)
(* The structure of one organization: regions, branches and teams, and     *)
(* what a manager of a program, a region or a branch lists, opens and      *)
(* changes (api/org_regions.py, api/org_branches.py, api/org_programs.py,  *)
(* api/org_teams.py).                                                      *)
(*                                                                         *)
(* A team is in a region by its own region_id or, in the older scheme, by  *)
(* its branch's.  Deleting a region or a branch sets to NULL what refers   *)
(* to it.  Every request is one step.                                      *)
(***************************************************************************)
EXTENDS Functions

CONSTANTS
  Region, Branch, Team,
  Program      \* the programs, which this code never changes

Nil == "null"

ASSUME OrgStructureAssumption == Nil \notin Region \cup Branch \cup Program

VARIABLES
  regions,     \* the regions there are
  branches,    \* the region of each branch there is
  teams,       \* the program, region and branch of each team there is
  scope        \* user_organizations: what each manager is pinned to

orgStructureVars == <<regions, branches, teams, scope>>

Admin == "org_admin"
Managers == {"program_manager", "region_manager", "branch_manager"}
Actors == Managers \cup {Admin}

\* A manager of a program or of a region may lack the program: the link of an
\* invite drops it.
OrgStructureInit ==
  /\ regions = Region
  /\ branches = <<>>
  /\ teams = <<>>
  /\ \E p, q \in Program \cup {Nil}, g \in Region :
       scope = [a \in Actors |->
         CASE a = "program_manager" -> [program |-> p, region |-> Nil, branch |-> Nil]
           [] a = "region_manager"  -> [program |-> q, region |-> g, branch |-> Nil]
           [] OTHER                 -> [program |-> Nil, region |-> Nil, branch |-> Nil]]

LiveTeams == DOMAIN teams
LiveBranches == DOMAIN branches

-----------------------------------------------------------------------------
(* What an actor sees *)

\* The team's own region, else its branch's.
EffectiveRegion(t) ==
  IF teams[t].region = Nil /\ teams[t].branch # Nil
  THEN branches[teams[t].branch] ELSE teams[t].region

\* _ensure_team_visible
TeamVisible(a, t) ==
  LET s == scope[a]
  IN /\ t \in LiveTeams
     /\ a = "program_manager" => s.program # Nil /\ teams[t].program = s.program
     /\ a = "region_manager" =>
          /\ s.program # Nil => teams[t].program = s.program
          /\ EffectiveRegion(t) = s.region
     /\ a = "branch_manager" => teams[t].branch = s.branch

\* Both paths into a region, in lists and in rollups (_enrich_regions).
RegionTeams(g) ==
  {t \in LiveTeams :
     \/ teams[t].region = g
     \/ teams[t].branch # Nil /\ branches[teams[t].branch] = g}

\* list_teams, without the optional filters
TeamsListed(a) ==
  LET s == scope[a]
      ofProgram == {t \in LiveTeams : s.program # Nil => teams[t].program = s.program}
  IN CASE a = Admin -> LiveTeams
       [] a = "program_manager" -> IF s.program = Nil THEN {} ELSE ofProgram
       [] a = "region_manager" ->
            IF s.region = Nil THEN {} ELSE ofProgram \cap RegionTeams(s.region)
       [] a = "branch_manager" ->
            IF s.branch = Nil THEN {} ELSE {t \in LiveTeams : teams[t].branch = s.branch}

\* list_regions: a program manager sees where the program has teams.
RegionsListed(a) ==
  CASE a = "program_manager" ->
         {g \in regions : scope[a].program # Nil /\ \E t \in LiveTeams :
            teams[t].region = g /\ teams[t].program = scope[a].program}
    [] a = "region_manager" /\ scope[a].region # Nil -> regions \cap {scope[a].region}
    [] OTHER -> regions

\* get_region_detail
RegionVisible(a, g) ==
  /\ g \in regions
  /\ a = "region_manager" => g = scope[a].region
  /\ a = "program_manager" => g \in RegionsListed(a)

\* list_branches
BranchesListed(a) ==
  CASE a = "region_manager" /\ scope[a].region # Nil ->
         {b \in LiveBranches : branches[b] = scope[a].region}
    [] a = "branch_manager" /\ scope[a].branch # Nil -> LiveBranches \cap {scope[a].branch}
    [] OTHER -> LiveBranches

\* list_programs
ProgramsListed(a) ==
  CASE a = Admin -> Program
    [] a = "program_manager" -> Program \cap {scope[a].program}
    [] a = "region_manager" /\ scope[a].region # Nil ->
         {p \in Program : \E t \in LiveTeams :
            teams[t].region = scope[a].region /\ teams[t].program = p}
    [] OTHER -> {}

-----------------------------------------------------------------------------
(* Regions and branches *)

CreateRegion(g) ==
  /\ g \notin regions
  /\ regions' = regions \cup {g}
  /\ UNCHANGED <<branches, teams, scope>>

\* delete_region asks for branches only; teams and managers lose the region.
DeleteRegion(g) ==
  /\ g \in regions
  /\ \A b \in LiveBranches : branches[b] # g
  /\ regions' = regions \ {g}
  /\ teams' = [t \in LiveTeams |->
       IF teams[t].region = g THEN [teams[t] EXCEPT !.region = Nil]
       ELSE teams[t]]
  /\ scope' = [a \in Actors |->
       IF scope[a].region = g THEN [scope[a] EXCEPT !.region = Nil] ELSE scope[a]]
  /\ UNCHANGED branches

\* _force_region_scope
ForcedRegion(a, g) == IF a = "region_manager" THEN scope[a].region ELSE g

CreateBranch(a, b, g) ==
  /\ a \in {Admin, "region_manager"}
  /\ b \notin LiveBranches
  /\ g \in regions \cup {Nil}
  /\ a = "region_manager" => g \in {Nil, scope[a].region}
  /\ branches' = [c \in LiveBranches \cup {b} |->
       IF c = b THEN ForcedRegion(a, g) ELSE branches[c]]
  /\ UNCHANGED <<regions, teams, scope>>

\* update_branch: a region manager cannot move a branch out of the region.
UpdateBranch(a, b, g) ==
  /\ a \in {Admin, "region_manager"}
  /\ b \in LiveBranches
  /\ g \in regions \cup {Nil}
  /\ a = "region_manager" => branches[b] = scope[a].region /\ g \in {Nil, scope[a].region}
  /\ branches' = [branches EXCEPT ![b] = ForcedRegion(a, g)]
  /\ UNCHANGED <<regions, teams, scope>>

BranchEmpty(b) == \A t \in LiveTeams : teams[t].branch # b

\* delete_branch; the branch manager, if it is theirs, is left without one.
DeleteBranch(b) ==
  /\ b \in LiveBranches
  /\ BranchEmpty(b)
  /\ branches' = Restrict(branches, LiveBranches \ {b})
  /\ scope' = [a \in Actors |->
       IF scope[a].branch = b THEN [scope[a] EXCEPT !.branch = Nil] ELSE scope[a]]
  /\ UNCHANGED <<regions, teams>>

\* update_member gives a manager another scope, which must exist and be whole
\* (_validate_scope).
Rescope(a, p, g, b) ==
  /\ \/ /\ a = "program_manager"
        /\ scope' = [scope EXCEPT ![a].program = p]
     \/ /\ a = "region_manager" /\ g \in regions
        /\ scope' = [scope EXCEPT ![a].program = p, ![a].region = g]
     \/ /\ a = "branch_manager" /\ b \in LiveBranches \cup {Nil}
        /\ scope' = [scope EXCEPT ![a].branch = b]
  /\ UNCHANGED <<regions, branches, teams>>

-----------------------------------------------------------------------------
(* Teams *)

\* _validate_region_in_scope
RegionAllowed(a, g) ==
  \/ g = Nil
  \/ g \in regions /\ (a = "region_manager" => g = scope[a].region)

\* _validate_branch_in_scope; a branch manager's team goes into the own branch.
BranchAllowed(a, b) ==
  \/ b = Nil
  \/ /\ b \in LiveBranches
     /\ a = "region_manager" => branches[b] = scope[a].region
     /\ a = "branch_manager" => b = scope[a].branch

BranchFor(a, b) == IF a = "branch_manager" /\ b = Nil THEN scope[a].branch ELSE b

\* _validate_program_in_scope: only a program manager is held to the own one.
ProgramAllowed(a, p) ==
  IF a = "program_manager"
  THEN scope[a].program # Nil /\ p \in {Nil, scope[a].program}
  ELSE p \in Program \cup {Nil}

ProgramFor(a, p) == IF a = "program_manager" THEN scope[a].program ELSE p

CreateTeam(a, t, p, g, b) ==
  /\ t \notin LiveTeams
  /\ ProgramAllowed(a, p) /\ RegionAllowed(a, g) /\ BranchAllowed(a, b)
  /\ teams' = [u \in LiveTeams \cup {t} |->
       IF u = t THEN [program |-> ProgramFor(a, p), region |-> g, branch |-> BranchFor(a, b)]
       ELSE teams[u]]
  /\ UNCHANGED <<regions, branches, scope>>

\* update_team: each of the fields is validated only if it is sent.
UpdateTeam(a, t, fields, p, g, b) ==
  /\ TeamVisible(a, t)
  /\ "program" \in fields => ProgramAllowed(a, p)
  /\ "region" \in fields => RegionAllowed(a, g)
  /\ "branch" \in fields => BranchAllowed(a, b)
  /\ teams' = [teams EXCEPT ![t] =
       [program |-> IF "program" \in fields THEN ProgramFor(a, p) ELSE @.program,
        region  |-> IF "region" \in fields THEN g ELSE @.region,
        branch  |-> IF "branch" \in fields THEN BranchFor(a, b) ELSE @.branch]]
  /\ UNCHANGED <<regions, branches, scope>>

\* delete_team, of a team that never had a player.
DeleteTeam(t) ==
  /\ t \in LiveTeams
  /\ teams' = Restrict(teams, LiveTeams \ {t})
  /\ UNCHANGED <<regions, branches, scope>>

-----------------------------------------------------------------------------

OrgStructureNext ==
  \/ \E g \in Region : CreateRegion(g) \/ DeleteRegion(g)
  \/ \E b \in Branch : DeleteBranch(b)
  \/ \E t \in Team : DeleteTeam(t)
  \/ \E a \in Actors, b \in Branch, g \in Region \cup {Nil} :
       CreateBranch(a, b, g) \/ UpdateBranch(a, b, g)
  \/ \E a \in Managers, p \in Program, g \in Region, b \in Branch \cup {Nil} :
       Rescope(a, p, g, b)
  \/ \E a \in Actors, t \in Team, p \in Program \cup {Nil},
        g \in Region \cup {Nil}, b \in Branch \cup {Nil} :
       \/ CreateTeam(a, t, p, g, b)
       \/ \E fields \in SUBSET {"program", "region", "branch"} :
            UpdateTeam(a, t, fields, p, g, b)

OrgStructureSpec == OrgStructureInit /\ [][OrgStructureNext]_orgStructureVars

\* What is referred to exists.
OrgStructureTypeOK ==
  /\ \A b \in LiveBranches : branches[b] \in regions \cup {Nil}
  /\ \A t \in LiveTeams :
       /\ teams[t].program \in Program \cup {Nil}
       /\ teams[t].region \in regions \cup {Nil}
       /\ teams[t].branch \in LiveBranches \cup {Nil}
  /\ \A a \in Actors :
       scope[a].region \in regions \cup {Nil} /\ scope[a].branch \in LiveBranches \cup {Nil}

-----------------------------------------------------------------------------
(* Properties *)

\* The region or the branch of the manager was deleted under it.
Adrift(a) ==
  \/ a = "region_manager" /\ scope[a].region = Nil
  \/ a = "branch_manager" /\ scope[a].branch = Nil

\* Whatever a manager may open or change is in the manager's own list, by way
\* of the team's region or of its branch's (_ensure_team_visible, list_teams),
\* and every region listed opens.  A manager who is adrift is another matter:
\* no team is listed, yet those without a region open.
OpensWhatItLists ==
  \A a \in Actors : ~ Adrift(a) =>
    /\ \A t \in LiveTeams : TeamVisible(a, t) => t \in TeamsListed(a)
    /\ \A g \in RegionsListed(a) : RegionVisible(a, g)
=============================================================================
