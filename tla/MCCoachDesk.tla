------------------------------ MODULE MCCoachDesk ------------------------------
(***************************************************************************)
(* The side of the coach: parts that share no state with one another, side *)
(* by side; one is chosen at the start and moves, the others stand still.  *)
(***************************************************************************)
EXTENDS TrialPurge, Practice, ScoutingVideos, ScoutingLibrary, Chat, PushJobs,
        Notebook, AgentTools, WebResearch, ChatUploads, KnowledgeIngest,
        Roadmap, TLC

VARIABLE part

Part == {"purge", "calendar", "attendance", "videos", "library", "links", "chat",
         "push", "reminders", "teams", "metrics", "notebook", "boxscores",
         "tools", "research", "uploads", "ingest", "plays", "roadmap"}

DeskInit ==
  /\ part \in Part
  /\ TrialPurgeInit /\ PracticeInit /\ ScoutingVideosInit /\ ScoutingLibraryInit
  /\ ChatInit /\ PushInit /\ NotebookInit /\ AgentInit /\ ResearchInit
  /\ UploadsInit /\ IngestInit /\ RoadmapInit
  /\ CoachRosterInit(part \in {"metrics", "notebook", "boxscores"})
  \* What stands still has one initial state.
  /\ part # "chat" => activeTeam = NoTeam
  /\ part # "reminders" => \A c \in Coach : prefs[c].quiet = [start |-> 0, end |-> 0]
  /\ \A t \in Court :
       /\ part \notin {"plays", "roadmap"} => courtOf[t] = NoPlanner
       /\ part = "roadmap" => courtOf[t] # NoPlanner
  /\ part \notin {"push", "reminders"} => \A e \in Meeting : diary[e].hour = 0

-----------------------------------------------------------------------------
(* Components whose full product is too large, cut in two *)

\* The calendar without its sheets; the sheets of a few events, which may be
\* deleted meanwhile.
Sheets ==
  \/ AttendanceNext
  \/ \E t \in Squad, d \in 0..LastDay : CreateCoachEvent(t, d, d, {})
  \/ \E e \in Ids : DeleteThis(e)

\* Links to clips of one video, while all may be deleted; only the first clip is
\* listed twice, and never in a timeline.
OneVideo ==
  /\ \A c \in DOMAIN clips' : clips'[c].video = 1
  /\ \A t \in Tab : sharing'[t].clips # <<2, 2>>
  /\ \A s \in DOMAIN shares' : shares'[s].timeline => IsInjective(shares'[s].clips)

\* Overlapping cron runs without test pushes; one run at a time, and few rows,
\* while the coach changes what it reads.
NoTests == \A l \in pushLog' : l.kind # "test"
OneRun ==
  /\ Cardinality({r \in PushRun : jobs'[r] # Resting}) <= 1
  /\ Cardinality(pushLog') <= 1

\* Entries, while one line is filed.
OneLine == Cardinality(lines') <= 1

\* The metrics, and the notebook, of a roster that only changes by itself.
OpenOnly == \E r \in Worker : OpenRequest(r) \/ EndRequest(r)

\* One turn at a time beyond the router, tools in the first of two; what the process
\* remembers, in turns that sign up nobody; the team stays while two turns are in
\* flight, and whenever the process remembers something.
Remembering == kb' # ColdKb \/ \E q \in Topic : routes'[q] # Unrouted
OneAgent ==
  /\ \A h \in Helper : asks'[h] # NotAsked /\ asks'[h].ask > 1 =>
       asks'[h].round = 0 /\ asks'[h].mode = "fast"
  /\ Cardinality({h \in Helper : asks'[h].step \in {"thinking", "calling"}}) <= 1
  /\ kb' = ColdKb \/ \A q \in Topic : routes'[q] = Unrouted
  /\ kb' # ColdKb => signedUp' = {} /\ \A h \in Helper : asks'[h] # NotAsked => asks'[h].added = 0
  /\ Remembering \/ (\A h \in Helper : asks[h] # NotAsked) => UNCHANGED <<trainerOf, benched, handed>>

\* A run with its pages in hand is the only one.
OneReader ==
  \A s, t \in Seeker :
    s # t /\ seeks'[s].step \in {"triage", "fetch", "extract", "report"} => seeks'[t] = Unasked

\* Shares while nothing is edited; a roadmap while two items at most change, and the
\* teams, and the rows of the other coach, stay.
OneHand == handedOut' # {} => \A q \in Editor : edits'[q] = NotEditing
Plain == [field \in {"players", "actions"} |-> CHOOSE d \in Drawing : TRUE]
OneLook ==
  /\ Cardinality(pages') <= 1 /\ Cardinality(opened') <= 1
  /\ Cardinality(pages') + Cardinality(opened') + Cardinality(plays') <= 2
  /\ \A q \in Looker : Cardinality(meant'[q].ever \ meant'[q].always) <= 2
  /\ \A p \in plays' : p.content = Plain
  /\ \A q \in Looker : looks[q] # NotLooking => UNCHANGED courtVars
  /\ \A c \in Planner, t \in Court :
       (\E q \in Looker : looks[q] # NotLooking /\ looks[q].by # c) =>
         {p \in pages' : p.by = c} = {p \in pages : p.by = c}

-----------------------------------------------------------------------------

MovePurge == part = "purge" /\ TrialPurgeNext
MovePractice == (part = "calendar" /\ CalendarNext) \/ (part = "attendance" /\ Sheets)
MoveVideos == part = "videos" /\ ScoutingVideosNext
MoveLibrary ==
  \/ part = "library" /\ (ClipsNext \/ ListsNext)
  \/ part = "links" /\ (ClipsNext \/ LinksNext) /\ OneVideo
MoveChat == part = "chat" /\ ChatNext
MovePush ==
  \/ part = "push" /\ PushNext /\ NoTests
  \/ part = "reminders" /\ (PushNext \/ CoachNext) /\ OneRun

MoveRoster ==
  \/ part = "teams" /\ (TeamsNext \/ PlayersNext) /\ UNCHANGED notebookVars
  \/ part = "metrics" /\ (MetricsNext \/ PlayersNext \/ OpenOnly) /\ UNCHANGED notebookVars
  \/ part = "notebook" /\ (EntriesNext \/ BoxScoresNext \/ RequestsNext) /\ OneLine
  \/ part = "boxscores" /\ (BoxScoresNext \/ SwitchesNext \/ RequestsNext)

MoveTools == part = "tools" /\ AgentNext /\ OneAgent
MoveResearch == part = "research" /\ ResearchNext /\ OneReader
MoveUploads == part = "uploads" /\ UploadsNext
MoveIngest == part = "ingest" /\ IngestNext
MovePlays ==
  \/ part = "plays" /\ PlaybookNext /\ OneHand /\ UNCHANGED <<bench, pages, opened, looks, meant>>
  \/ part = "roadmap" /\ RoadmapNext /\ OneLook

DeskNext ==
  /\ MovePurge \/ UNCHANGED trialPurgeVars
  /\ MovePractice \/ UNCHANGED practiceVars
  /\ MoveVideos \/ UNCHANGED scoutingVideoVars
  /\ MoveLibrary \/ UNCHANGED scoutingLibraryVars
  /\ MoveChat \/ UNCHANGED chatVars
  /\ MovePush \/ UNCHANGED pushVars
  /\ MoveRoster \/ UNCHANGED <<coachRosterVars, notebookVars>>
  /\ MoveTools \/ UNCHANGED agentVars
  /\ MoveResearch \/ UNCHANGED researchVars
  /\ MoveUploads \/ UNCHANGED uploadVars
  /\ MoveIngest \/ UNCHANGED ingestVars
  /\ MovePlays \/ UNCHANGED roadmapVars
  /\ UNCHANGED part

deskVars ==
  <<part, trialPurgeVars, practiceVars, scoutingVideoVars, scoutingLibraryVars,
    chatVars, pushVars, coachRosterVars, notebookVars, agentVars, researchVars,
    uploadVars, ingestVars, roadmapVars>>

DeskSpec == DeskInit /\ [][DeskNext]_deskVars

\* One group for the requests of all parts, one for what they work on.
DeskSymmetry == Permutations(Call) \cup Permutations(File)

\* The type of what moves; what stands still is as it was at the start.
DeskTypeOK ==
  CASE part = "purge"     -> TrialPurgeTypeOK
    [] part = "videos"    -> ScoutingVideosTypeOK
    [] part = "chat"      -> ChatTypeOK
    [] part = "tools"     -> AgentTypeOK
    [] part = "research"  -> ResearchTypeOK
    [] part = "uploads"   -> UploadsTypeOK
    [] part = "ingest"    -> IngestTypeOK
    [] part = "plays"     -> PlaybookTypeOK
    [] part = "roadmap"   -> RoadmapTypeOK
    [] part \in {"calendar", "attendance"} -> PracticeTypeOK
    [] part \in {"library", "links"}       -> ScoutingLibraryTypeOK
    [] part \in {"push", "reminders"}      -> PushTypeOK
    [] part \in {"teams", "metrics", "notebook", "boxscores"} -> NotebookTypeOK

\* A turn sends its own message, tools show and promise what is the coach's and
\* saved, research answers the coach who asked, and plays and roadmap are the coach's
\* own (Chat, AgentTools, WebResearch, Playbook, Roadmap).
CoachesSeeTheirOwn ==
  PromptCarriesTurn /\ ToolsKeepPromises /\ AnswersAreOwn /\ PlaysAreTheirs /\ RoadmapIsHonest

\* Files are paid for, kept apart and whole (ScoutingVideos, ChatUploads, KnowledgeIngest).
FilesAreKept == QuotaCoversFiles /\ UploadsStayApart /\ RecordedIsWhole

\* Nothing is deleted early, or but what was asked for and what hangs on it
\* (TrialPurge, Practice).
DeletionsStayInBounds == PurgedAfterGrace /\ DeletesWhatWasAsked
=============================================================================
