---------------------------- MODULE CoachRoster ----------------------------
(***************************************************************************)
(* A coach's own teams, players and player metrics: the team and player    *)
(* endpoints, the chat tool that adds a player, and the extraction of      *)
(* skills from what the coach tells of a player (src/api/teams.py,         *)
(* src/api/players.py, src/services/onboarding_service.py).                *)
(*                                                                         *)
(* A request reads the coach's row, and with it the active team, when it   *)
(* opens; users.active_team_id is no foreign key.  An extraction waits for *)
(* the language model between the player it reads and the metrics it       *)
(* merges.                                                                 *)
(***************************************************************************)
EXTENDS Naturals, Sequences, FiniteSets

CONSTANTS
  Worker,      \* requests that may be open
  Skill,       \* PLAYER_METRIC_KEYS
  MaxTeam,     \* bound: teams created
  MaxPlayer    \* bound: players added

VARIABLES
  teamRows,    \* team_profile, by id: the coach's own, taken off the coach, or deleted
  atTeam,      \* users.active_team_id; 0 is none
  playerRows,  \* players with their metrics row, by id
  working      \* what each open request has read

coachRosterVars == <<teamRows, atTeam, playerRows, working>>

Nowhere == 0

\* A metrics row, or none yet.
Metrics == [row : BOOLEAN, scored : SUBSET Skill]
NoMetrics == [row |-> FALSE, scored |-> {}]

NewPlayer(t) == [team |-> t, active |-> TRUE, filled |-> FALSE, metrics |-> NoMetrics]

Away == [step |-> "away", at |-> Nowhere, of |-> 0, read |-> NoMetrics, scored |-> {}]

OwnTeams == {t \in DOMAIN teamRows : teamRows[t] = "own"}

\* The coach starts with nothing, or with a team of two players.
CoachRosterInit(settled) ==
  /\ teamRows = IF settled THEN <<"own">> ELSE <<>>
  /\ atTeam = IF settled THEN 1 ELSE Nowhere
  /\ playerRows = IF settled THEN <<NewPlayer(1), NewPlayer(1)>> ELSE <<>>
  /\ working = [r \in Worker |-> Away]

-----------------------------------------------------------------------------
(* Requests *)

Close(r) == working' = [working EXCEPT ![r] = Away]

\* A request that only reads, is refused, or fails: with the model, or with a
\* constraint of the database.
EndRequest(r) ==
  /\ working[r] # Away
  /\ Close(r)
  /\ UNCHANGED <<teamRows, atTeam, playerRows>>

\* get_current_user: the row of the coach as it is now.
OpenRequest(r) ==
  /\ working[r] = Away
  /\ working' = [working EXCEPT ![r] = [Away EXCEPT !.step = "open", !.at = atTeam]]
  /\ UNCHANGED <<teamRows, atTeam, playerRows>>

\* A page of the coach moves an active team that is not one of the coach's
\* onto one that is.
OpenPage ==
  /\ OwnTeams # {} /\ atTeam \notin OwnTeams
  /\ atTeam' \in OwnTeams
  /\ UNCHANGED <<teamRows, playerRows, working>>

-----------------------------------------------------------------------------
(* Teams *)

\* The first team becomes the active one: of a coach who had none on opening.
CreateTeam(r) ==
  /\ working[r].step = "open" /\ Len(teamRows) < MaxTeam
  /\ teamRows' = Append(teamRows, "own")
  /\ atTeam' = IF working[r].at = Nowhere THEN Len(teamRows') ELSE atTeam
  /\ Close(r)
  /\ UNCHANGED playerRows

\* The team is checked before the commit: it may be gone by then.
CheckTeam(r, t) ==
  /\ working[r].step = "open" /\ t \in OwnTeams
  /\ working' = [working EXCEPT ![r].step = "switch", ![r].of = t]
  /\ UNCHANGED <<teamRows, atTeam, playerRows>>

MakeActive(r) ==
  /\ working[r].step = "switch"
  /\ atTeam' = working[r].of
  /\ Close(r)
  /\ UNCHANGED <<teamRows, playerRows>>

\* A row that refers to the team, an inactive player's too, fails the deletion.
DeleteTeam(r, t) ==
  /\ working[r].step = "open" /\ t \in OwnTeams /\ OwnTeams # {t}
  /\ \A p \in DOMAIN playerRows : playerRows[p].team # t
  /\ teamRows' = [teamRows EXCEPT ![t] = "deleted"]
  /\ IF working[r].at = t THEN atTeam' \in OwnTeams \ {t} ELSE UNCHANGED atTeam
  /\ Close(r)
  /\ UNCHANGED playerRows

\* An administrator takes the coach off the team.
TakeOff(t) ==
  /\ t \in OwnTeams
  /\ teamRows' = [teamRows EXCEPT ![t] = "taken"]
  /\ UNCHANGED <<atTeam, playerRows, working>>

-----------------------------------------------------------------------------
(* Players *)

\* One player or as many as the file has rows, into the team that was active
\* on opening, the coach's or not; it must exist.
AddPlayers(r, n) ==
  LET t == working[r].at
  IN /\ working[r].step = "open" /\ t # Nowhere
     /\ Len(playerRows) + n <= MaxPlayer
     /\ teamRows[t] # "deleted"
     /\ playerRows' = playerRows \o [i \in 1..n |-> NewPlayer(t)]
     /\ Close(r)
     /\ UNCHANGED <<teamRows, atTeam>>

\* update_player and delete_player: a player is deactivated, and comes back.
Activate(r, p, yes) ==
  /\ working[r].step = "open" /\ p \in DOMAIN playerRows
  /\ playerRows' = [playerRows EXCEPT ![p].active = yes]
  /\ Close(r)
  /\ UNCHANGED <<teamRows, atTeam>>

\* The tool of a chat turn, perhaps called twice: the team is that of the
\* turn's start, the rows are committed with the turn.
AddByTool(r, n) == AddPlayers(r, n)

-----------------------------------------------------------------------------
(* Metrics *)

ReadMetrics(r, p, step, scored) ==
  working' = [working EXCEPT ![r] = [working[r] EXCEPT !.step = step, !.of = p,
                                       !.read = playerRows[p].metrics, !.scored = scored]]

\* Two requests that both insert the row: the second one fails.
Inserts(r) == ~ working[r].read.row
Blocked(r) == Inserts(r) /\ playerRows[working[r].of].metrics.row

\* save_player_metrics: what the coach enters replaces what was there.
EnterMetrics(r, p, scored) ==
  /\ working[r].step = "open" /\ p \in DOMAIN playerRows
  /\ ReadMetrics(r, p, "save", scored)
  /\ UNCHANGED <<teamRows, atTeam, playerRows>>

\* extract_player_skills: the player is one of the active team's; then
\* the model is asked.
Describe(r, p) ==
  /\ working[r].step = "open" /\ p \in DOMAIN playerRows
  /\ playerRows[p].team = working[r].at
  /\ working' = [working EXCEPT ![r].step = "asking", ![r].of = p]
  /\ UNCHANGED <<teamRows, atTeam, playerRows>>

\* The metrics are read when the model has answered; it may score nothing.
ModelScores(r, scored) ==
  /\ working[r].step = "asking"
  /\ ReadMetrics(r, working[r].of, "merge", scored)
  /\ UNCHANGED <<teamRows, atTeam, playerRows>>

Merged_New(r) == [row |-> TRUE, scored |-> working[r].scored]

\* Merged on top of what was read; no row for no scores.
Merged(r) ==
  LET scored == working[r].read.scored \cup working[r].scored
  IN [row |-> working[r].read.row \/ scored # {}, scored |-> scored]

Stored(r) ==
  IF working[r].step = "merge" THEN Merged(r)
  ELSE [row |-> TRUE, scored |-> working[r].scored]

Profiles_Saved(r) == working[r].step = "save"

\* Both count as profiling the player, whatever was scored.
Profiles(r) == working[r].step \in {"save", "merge"}

\* A column is written when its value is another than the one read: other skills, or
\* other scores of the same ones.
CommitMetrics(r, rescored) ==
  LET p == working[r].of
  IN /\ working[r].step \in {"save", "merge"}
     /\ rescored => working[r].scored # {}
     /\ ~ (Stored(r).row /\ Blocked(r))
     /\ playerRows' = [playerRows EXCEPT ![p].filled = @ \/ Profiles(r),
            ![p].metrics = IF rescored \/ Stored(r) # working[r].read THEN Stored(r) ELSE @]
     /\ Close(r)
     /\ UNCHANGED <<teamRows, atTeam>>

-----------------------------------------------------------------------------

TeamsNext ==
  \/ \E r \in Worker : OpenRequest(r) \/ EndRequest(r) \/ CreateTeam(r) \/ MakeActive(r)
  \/ \E r \in Worker : \E t \in OwnTeams : CheckTeam(r, t) \/ DeleteTeam(r, t)
  \/ \E t \in OwnTeams : TakeOff(t)
  \/ OpenPage

PlayersNext ==
  \/ \E r \in Worker, n \in 1..2 : AddPlayers(r, n) \/ AddByTool(r, n)
  \/ \E r \in Worker, p \in DOMAIN playerRows, yes \in BOOLEAN : Activate(r, p, yes)

MetricsNext ==
  \/ \E r \in Worker, rescored \in BOOLEAN : CommitMetrics(r, rescored)
  \/ \E r \in Worker, scored \in SUBSET Skill :
       ModelScores(r, scored) \/ \E p \in DOMAIN playerRows : EnterMetrics(r, p, scored)
  \/ \E r \in Worker, p \in DOMAIN playerRows : Describe(r, p)

CoachRosterTypeOK ==
  /\ teamRows \in Seq({"own", "taken", "deleted"})
  /\ atTeam \in DOMAIN teamRows \cup {Nowhere}
  /\ \A p \in DOMAIN playerRows :
       /\ playerRows[p].team \in DOMAIN teamRows
       /\ teamRows[playerRows[p].team] # "deleted"
       /\ playerRows[p].metrics \in Metrics
       /\ playerRows[p].metrics = NoMetrics \/ playerRows[p].filled

-----------------------------------------------------------------------------
(* The walkthrough of the roster *)

\* Of the team, whoever coaches it now.
Active(t) == {p \in DOMAIN playerRows : playerRows[p].team = t /\ playerRows[p].active}

\* players_profiling_status and the context of the chat that asks for the rest.
Profiled(t) == {p \in Active(t) : playerRows[p].filled}
Pending(t) == Active(t) \ Profiled(t)

-----------------------------------------------------------------------------
(* Properties *)

\* A score is lost to what the coach enters, or to a request that read the
\* metrics before the score was there ("values stay unless the chat overrides
\* them", extract_player_skills); and the walkthrough comes back to no player
\* who was profiled.
ScoresKept ==
  /\ \A t \in DOMAIN teamRows : Profiled(t) \cap Pending(t)' = {}
  /\ \A p \in DOMAIN playerRows :
     \A k \in playerRows[p].metrics.scored \ playerRows'[p].metrics.scored :
         \E r \in Worker :
           /\ working[r].of = p /\ working'[r] = Away
           /\ working[r].step = "save" \/ k \notin working[r].read.scored
=============================================================================
