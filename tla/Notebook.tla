------------------------------ MODULE Notebook ------------------------------
(***************************************************************************)
(* The notebook of a coach: entries with their player tags and attendance  *)
(* records, and the box scores imported into it, line by line              *)
(* (src/api/notebook.py, src/models/notebook.py, src/models/players.py).   *)
(*                                                                         *)
(* A box score names its game by date and opponent.  An import looks for   *)
(* the lines that are there, files a summary of the game and adds the      *)
(* missing lines, in one transaction.                                      *)
(***************************************************************************)
EXTENDS CoachRoster, Functions

CONSTANTS
  Game,        \* (game_date, opponent)
  MaxEntry     \* bound: entries written

VARIABLES
  entries,     \* notebook_entries with their tags and records, by id
  lines,       \* player_game_stats
  importing    \* the imports that have looked for their lines

notebookVars == <<entries, lines, importing>>

EntryKind == {"note", "attendance", "game_summary"}

Line == [player : Nat, game : Game, team : Nat, entry : Nat]

NoImport == [listed |-> <<>>, game |-> {}, found |-> {}]

NotebookInit == entries = <<>> /\ lines = {} /\ importing = [r \in Worker |-> NoImport]

-----------------------------------------------------------------------------
(* Entries *)

LiveEntries == {e \in DOMAIN entries : entries[e].live}

\* Tags are a set of players, whoever they belong to; records of attendance are
\* kept with an attendance entry only, and the same player twice fails.
CreateEntry(r, kind, tags, records) ==
  /\ working[r].step = "open" /\ working[r].at # Nowhere
  /\ Len(entries) < MaxEntry
  /\ entries' = Append(entries,
       [team |-> working[r].at, kind |-> kind, tags |-> tags, live |-> TRUE,
        records |-> IF kind = "attendance" THEN records ELSE {}])
  /\ Close(r)
  /\ UNCHANGED <<teamRows, atTeam, playerRows, lines, importing>>

\* Both are replaced when they are sent, and left alone otherwise.  The entry
\* is the coach's, of whatever team.
UpdateEntry(r, e, tags, records) ==
  /\ working[r].step = "open" /\ e \in LiveEntries
  /\ entries' = [entries EXCEPT
       ![e].tags = tags,
       ![e].records = IF entries[e].kind = "attendance" THEN records ELSE @]
  /\ Close(r)
  /\ UNCHANGED <<teamRows, atTeam, playerRows, lines, importing>>

\* The tags and records go with the entry.  The lines of a game stay, and name
\* the summary that is gone.
DeleteEntry(r, e) ==
  /\ working[r].step = "open" /\ e \in LiveEntries
  /\ entries' = [entries EXCEPT ![e] = [entries[e] EXCEPT !.live = FALSE, !.tags = {}, !.records = {}]]
  /\ Close(r)
  /\ UNCHANGED <<teamRows, atTeam, playerRows, lines, importing>>

\* list_entries and player_notes with a player: tagged in it.
NotesOn(t, p) == {e \in LiveEntries : entries[e].team = t /\ p \in entries[e].tags}

-----------------------------------------------------------------------------
(* Box scores *)

\* match_players: each name of the box score goes to the most similar active
\* player of the active team, several names perhaps to one, or to none.
Matches(t) == UNION {[1..n -> Active(t) \cup {0}] : n \in 1..2}

LinesOf(p, g) == {l \in lines : l.player = p /\ l.game = g}

\* The players to add: those listed without a line of the game, of whatever
\* team.  Two rows of the list for one of them are two inserts.
Missing(i) == {n \in DOMAIN i.listed : i.listed[n] \notin i.found \cup {0}}

LookForLines(r, listed, g) ==
  /\ working[r].step = "open" /\ working[r].at # Nowhere /\ Len(entries) < MaxEntry
  /\ importing[r] = NoImport
  /\ importing' = [importing EXCEPT ![r] =
       [listed |-> listed, game |-> {g},
        found |-> {p \in DOMAIN playerRows : LinesOf(p, g) # {}}]]
  /\ working' = [working EXCEPT ![r].step = "import"]
  /\ UNCHANGED <<teamRows, atTeam, playerRows, entries, lines>>

Added(r) ==
  {[player |-> importing[r].listed[n], game |-> g,
    team |-> working[r].at, entry |-> Len(entries) + 1] :
      n \in Missing(importing[r]), g \in importing[r].game}

\* The unique key (player, game) was free, and is for each row of the list.
Unique(r) ==
  /\ \A a \in Added(r) : LinesOf(a.player, a.game) = {}
  /\ Cardinality(Added(r)) = Cardinality(Missing(importing[r]))

\* A summary is filed also when every line was there.
CommitImport(r) ==
  /\ working[r].step = "import" /\ Unique(r) /\ Len(entries) < MaxEntry
  /\ entries' = Append(entries, [team |-> working[r].at, kind |-> "game_summary",
                                 tags |-> {}, records |-> {}, live |-> TRUE])
  /\ lines' = lines \cup Added(r)
  /\ importing' = [importing EXCEPT ![r] = NoImport]
  /\ Close(r)
  /\ UNCHANGED <<teamRows, atTeam, playerRows>>

\* The unique key was taken: summary and lines are rolled back.
FailImport(r) ==
  /\ working[r].step = "import"
  /\ importing' = [importing EXCEPT ![r] = NoImport]
  /\ Close(r)
  /\ UNCHANGED <<teamRows, atTeam, playerRows, entries, lines>>

\* delete_game_stat: a line that was read wrongly.
DeleteLine(r, l) ==
  /\ working[r].step = "open" /\ l \in lines
  /\ lines' = lines \ {l}
  /\ Close(r)
  /\ UNCHANGED <<teamRows, atTeam, playerRows, entries, importing>>

-----------------------------------------------------------------------------
(* Averages, of the active team *)

GamesOf(t, p) == Cardinality({l \in lines : l.team = t /\ l.player = p})
TeamGames(t) == Cardinality({l.game : l \in {k \in lines : k.team = t}})

-----------------------------------------------------------------------------

EntriesNext ==
  \/ \E r \in Worker, tags \in SUBSET DOMAIN playerRows, records \in {{}, DOMAIN playerRows} :
       \/ \E kind \in EntryKind \ {"game_summary"} : CreateEntry(r, kind, tags, records)
       \/ \E e \in LiveEntries : UpdateEntry(r, e, tags, records)
  \/ \E r \in Worker : \E e \in LiveEntries : DeleteEntry(r, e)

BoxScoresNext ==
  \/ \E r \in Worker, g \in Game : \E listed \in Matches(working[r].at) :
       LookForLines(r, listed, g)
  \/ \E r \in Worker : CommitImport(r) \/ FailImport(r)
  \/ \E r \in Worker, l \in lines : DeleteLine(r, l)

\* Requests open and end, and the active team changes, under the notebook.
RequestsNext ==
  /\ \E r \in Worker : OpenRequest(r) \/ (importing[r] = NoImport /\ EndRequest(r))
  /\ UNCHANGED notebookVars

SwitchesNext ==
  /\ \E r \in Worker :
       CreateTeam(r) \/ MakeActive(r) \/ \E t \in OwnTeams : CheckTeam(r, t)
  /\ UNCHANGED notebookVars

NotebookTypeOK ==
  /\ CoachRosterTypeOK
  /\ lines \subseteq Line
  /\ \A l, k \in lines : l.player = k.player /\ l.game = k.game => l = k
  /\ \A e \in DOMAIN entries : entries[e].records # {} => entries[e].kind = "attendance"

-----------------------------------------------------------------------------
(* Properties *)

\* An import that commits leaves every listed player with a line of the game,
\* but for lines the coach deleted since it looked for them; and adds none to
\* a player who had one (save_game_stats, "idempotent on (player_id, game_date,
\* opponent)").  No player is averaged over more games than the team played.
LinesFiled ==
  /\ \A r \in Worker : CommitImport(r) =>
       \A g \in importing[r].game, p \in Range(importing[r].listed) \ {0} :
         (p \in importing[r].found => LinesOf(p, g) # {}) =>
           \E l \in lines' : l.player = p /\ l.game = g
  /\ \A l \in lines \ lines' : lines' = lines \ {l}
  /\ \A t \in DOMAIN teamRows, p \in DOMAIN playerRows : GamesOf(t, p)' <= TeamGames(t)'

\* What was recorded of a player is kept.
RecordsKept == [][ScoresKept /\ LinesFiled]_<<coachRosterVars, notebookVars>>
=============================================================================
