----------------------------- MODULE AgentTools -----------------------------
(***************************************************************************)
(* What an agent does within a turn of a chat: the router that picks it,   *)
(* the loop in which the model calls tools, the tools, and the log of what *)
(* the model costs (src/crew/, the tool loops of services/chat_service.py).*)
(*                                                                         *)
(* All of a turn is one transaction.  An error of the database is answered *)
(* to the model as text, but may leave the transaction unusable: then what *)
(* follows fails and nothing of the turn is committed.  The organization   *)
(* may hand the coach's team to another coach at any time;                 *)
(* users.active_team_id follows only when the coach opens a page, and what *)
(* is shown of the team itself goes by that column.                        *)
(***************************************************************************)
EXTENDS Naturals, FiniteSets

CONSTANTS
  Helper,     \* turns that may be in flight
  Trainer,    \* coaches
  Topic,      \* messages the router's words do not decide
  MaxRound,   \* _TOOL_LOOP_MAX_ITERS
  MaxToolCall,\* bound: tool calls of a turn
  MaxAsk      \* bound: turns begun

ASSUME AgentToolsAssumption == MaxRound \in Nat \ {0} /\ MaxToolCall \in Nat /\ MaxAsk \in Nat

VARIABLES
  trainerOf,  \* team_profile.user_id of the one team of an organization
  benched,    \* the coaches whose active team it is
  handed,     \* history: those of them who opened no page since it changed hands
  signedUp,   \* players of the team added by a tool, by coach and turn
  routes,     \* _llm_classify._results
  kb,         \* the reranker of the knowledge base
  asks,       \* the turns in flight
  asked,      \* how many turns have begun
  ledger      \* of each turn that was saved: the calls not logged, the players tools promised

agentVars == <<trainerOf, benched, handed, signedUp, routes, kb, asks, asked, ledger>>

Unrouted == "unrouted"
Mode == {"fast", "full", "stream"}

\* Those a router can pick; the four specialists have the same tools.  The
\* guide has none and is only ever asked for by name.
RouterAgents == {"gm", "specialist"}
Agent == RouterAgents \cup {"guide"}

Tool == {"team", "knowledge", "player", "schedule", "research"}

\* _AGENT_TOOL_MAP
ToolsOf(agent) ==
  CASE agent = "gm"         -> {"team", "knowledge", "player", "schedule"}
    [] agent = "specialist" -> {"team", "knowledge", "research", "schedule"}
    [] OTHER                -> {}

Unstaffed == "nobody"
ColdKb == "unloaded"
NotAsked == [step |-> "unasked"]

AgentInit ==
  /\ trainerOf = Unstaffed /\ benched = {} /\ handed = {}
  /\ signedUp = {}
  /\ routes = [q \in Topic |-> Unrouted]
  /\ kb = ColdKb
  /\ asks = [h \in Helper |-> NotAsked]
  /\ asked = 0
  /\ ledger = {}

-----------------------------------------------------------------------------
(* The router *)

\* _build_team_context, get_team_profile: the profile of the active team, and in
\* the context its roster, whoever coaches the team now.
OfTheTeam(onTeam) == IF onTeam THEN {trainerOf} ELSE {}

\* send_message and stream_message, up to the router: the active team is the
\* one of the coach's row, and the context of the turn shows it.
BeginAsk(h, c, mode) ==
  /\ asks[h] = NotAsked
  /\ asked < MaxAsk
  /\ asked' = asked + 1
  /\ asks' = [asks EXCEPT ![h] =
       [step |-> "routing", ask |-> asked', coach |-> c, onTeam |-> c \in benched, mode |-> mode,
        agent |-> "gm", round |-> 0, calls |-> 0, broken |-> FALSE,
        added |-> 0, shown |-> {}, team |-> OfTheTeam(c \in benched), late |-> c \in handed]]
  /\ UNCHANGED <<trainerOf, benched, handed, signedUp, routes, kb, ledger>>

Routed(h, agent) == asks' = [asks EXCEPT ![h].step = "thinking", ![h].agent = agent]

\* The coach names an agent, or the words of the message decide.
PickByWords(h, agent) ==
  /\ asks[h].step = "routing"
  /\ Routed(h, agent)
  /\ UNCHANGED <<trainerOf, benched, handed, signedUp, routes, kb, asked, ledger>>

\* The classifier has been asked before: nothing is spent.
PickRemembered(h, q) ==
  /\ asks[h].step = "routing" /\ routes[q] # Unrouted
  /\ Routed(h, routes[q])
  /\ UNCHANGED <<trainerOf, benched, handed, signedUp, routes, kb, asked, ledger>>

\* The classifier's choice is kept for the life of the process, and so is the
\* default, "gm", of a classifier that did not answer, or not in JSON.  Its cost
\* is flushed at once.
Classify(h, q, agent) ==
  /\ asks[h].step = "routing" /\ routes[q] = Unrouted
  /\ routes' = [routes EXCEPT ![q] = agent]
  /\ Routed(h, agent)
  /\ UNCHANGED <<trainerOf, benched, handed, signedUp, kb, asked, ledger>>

-----------------------------------------------------------------------------
(* The tool loop *)

\* The model asks for tools, which the last round does not offer.
CallTools(h) ==
  LET t == asks[h]
  IN /\ t.step = "thinking"
     /\ ToolsOf(t.agent) # {} /\ t.calls < MaxToolCall
     /\ t.mode # "full" => t.round < MaxRound - 1
     /\ asks' = [asks EXCEPT ![h].step = "calling", ![h].round = @ + 1]
     /\ UNCHANGED <<trainerOf, benched, handed, signedUp, routes, kb, asked, ledger>>

\* execute_tool_call, _Bridge._run: a call of one of these tools by a turn that
\* was offered it, with what it leaves in the turn.  One response may hold
\* several calls.
Execute(h, tools, left) ==
  /\ tools \cap ToolsOf(asks[h].agent) # {}
  /\ \E more \in BOOLEAN :
       /\ more => asks[h].calls + 1 < MaxToolCall
       /\ asks' = [asks EXCEPT ![h] = [left EXCEPT !.calls = @ + 1,
                                        !.step = IF more THEN "calling" ELSE "thinking"]]
  /\ UNCHANGED <<trainerOf, benched, handed, signedUp, routes, asked, ledger>>

\* An unknown name, bad arguments, no active team, or an exception: the model
\* is told so.  One of the database may break the transaction.
ToolError(h, breaks) ==
  /\ asks[h].step = "calling"
  /\ Execute(h, Tool, [asks[h] EXCEPT !.broken = @ \/ breaks])
  /\ UNCHANGED kb

\* The transaction still answers.
Usable(h) == asks[h].step = "calling" /\ ~ asks[h].broken

\* The players of a coach on the team, the turn's own ones included.
ListedFor(h) ==
  IF asks[h].added > 0 THEN {asks[h].coach}
  ELSE {p[1].coach : p \in {r \in signedUp : r[1].coach = asks[h].coach}}

\* make_team_database_tool: players, games and uploads are the coach's; the
\* profile is the team's.
LookUpTeam(h) ==
  /\ Usable(h)
  /\ Execute(h, {"team"}, [asks[h] EXCEPT !.shown = @ \cup ListedFor(h)])
  /\ UNCHANGED kb

LookUpProfile(h) ==
  /\ Usable(h)
  /\ Execute(h, {"team"}, [asks[h] EXCEPT !.team = @ \cup OfTheTeam(asks[h].onTeam)])
  /\ UNCHANGED kb

\* Fault: the schedule of the active team, whoever coaches it now.
Scheduled_Any(h) == IF asks[h].onTeam THEN {trainerOf} ELSE {}

\* make_team_schedule_tool: the team must be the coach's at that moment.
Scheduled(h) ==
  IF asks[h].onTeam /\ trainerOf = asks[h].coach THEN {trainerOf} ELSE {}

LookUpSchedule(h) ==
  /\ Usable(h)
  /\ Execute(h, {"schedule"}, [asks[h] EXCEPT !.shown = @ \cup Scheduled(h)])
  /\ UNCHANGED kb

\* make_knowledge_base_tool: the collection is opened once; the reranker is
\* loaded once, or given up for the life of the process.
SearchKnowledge(h, reranker) ==
  /\ asks[h].step = "calling"
  /\ reranker \in (IF kb = ColdKb THEN {"unloaded", "loaded", "failed"} ELSE {kb})
  /\ kb' = reranker
  /\ Execute(h, {"knowledge"}, asks[h])

\* make_research_tool: its own calls of the model are flushed one by one.
Research(h) ==
  /\ asks[h].step = "calling"
  /\ Execute(h, {"research"}, asks[h])
  /\ UNCHANGED kb

\* make_add_player_tool: flushed, and the model is told "success".
AddPlayer(h) ==
  /\ Usable(h) /\ asks[h].onTeam
  /\ Execute(h, {"player"}, [asks[h] EXCEPT !.added = @ + 1])
  /\ UNCHANGED kb

-----------------------------------------------------------------------------
(* The end of a turn *)

\* The calls of the loop are logged when it ends with an answer, a crew's as
\* one sum.
Unlogged(t, outcome) == IF outcome = "answer" THEN 0 ELSE t.round

\* The rows of the turn are committed, unless its transaction is broken (500),
\* or it is streamed: its session was closed before the body was produced.
Commit(h, outcome) ==
  LET t == asks[h]
  IN
  /\ ~ t.broken
  /\ IF t.mode = "stream" THEN UNCHANGED <<signedUp, ledger>>
     ELSE
       /\ signedUp' = signedUp \cup ({[coach |-> t.coach, ask |-> t.ask]} \X (1..t.added))
       /\ ledger' = ledger \cup
            {[ask |-> t.ask, outcome |-> outcome, unlogged |-> Unlogged(t, outcome),
              added |-> t.added]}

\* The model answers with text: always in the last round.
AnswerAsk(h) ==
  /\ asks[h].step = "thinking"
  /\ Commit(h, "answer")
  /\ asks' = [asks EXCEPT ![h] = NotAsked]
  /\ UNCHANGED <<trainerOf, benched, handed, routes, kb, asked>>

\* The model fails: an apology is saved with what the tools did.  What the
\* loop has spent so far is only logged by a stream.
ApologizeForAsk(h) ==
  /\ asks[h].step = "thinking"
  /\ Commit(h, "apology")
  /\ asks' = [asks EXCEPT ![h] = NotAsked]
  /\ UNCHANGED <<trainerOf, benched, handed, routes, kb, asked>>

\* A broken transaction, at the flush that ends the turn, or a lost request.
AskLost(h) ==
  /\ asks[h] # NotAsked
  /\ asks' = [asks EXCEPT ![h] = NotAsked]
  /\ UNCHANGED <<trainerOf, benched, handed, signedUp, routes, kb, asked, ledger>>

\* The process stops: with it the turns in flight and what it remembered.
RestartAgents ==
  /\ kb # ColdKb \/ \E q \in Topic : routes[q] # Unrouted
  /\ routes' = [q \in Topic |-> Unrouted]
  /\ kb' = ColdKb
  /\ asks' = [h \in Helper |-> NotAsked]
  /\ UNCHANGED <<trainerOf, benched, handed, signedUp, asked, ledger>>

-----------------------------------------------------------------------------
(* The team changes hands *)

\* The organization assigns a coach, or takes the coach off.
HandOver(c) ==
  /\ c # trainerOf
  /\ trainerOf' = c
  /\ handed' = benched
  /\ asks' = [h \in Helper |-> IF asks[h] = NotAsked THEN NotAsked
                               ELSE [asks[h] EXCEPT !.late = asks[h].onTeam]]
  /\ UNCHANGED <<benched, signedUp, routes, kb, asked, ledger>>

\* _team_data of any page moves the coach to a team of theirs.
RefreshPage(c) ==
  /\ benched' = IF c = trainerOf THEN benched \cup {c} ELSE benched \ {c}
  /\ handed' = handed \ {c}
  /\ UNCHANGED <<trainerOf, signedUp, routes, kb, asks, asked, ledger>>

-----------------------------------------------------------------------------

AgentNext ==
  \/ \E h \in Helper :
       \/ \E c \in Trainer, mode \in Mode : BeginAsk(h, c, mode)
       \/ \E agent \in Agent : PickByWords(h, agent)
       \/ \E q \in Topic :
            \/ PickRemembered(h, q)
            \/ \E agent \in RouterAgents : Classify(h, q, agent)
       \/ CallTools(h)
       \/ \E breaks \in BOOLEAN : ToolError(h, breaks)
       \/ LookUpTeam(h) \/ LookUpProfile(h) \/ LookUpSchedule(h) \/ AddPlayer(h)
       \/ \E reranker \in {"unloaded", "loaded", "failed"} : SearchKnowledge(h, reranker)
       \/ Research(h)
       \/ AnswerAsk(h) \/ ApologizeForAsk(h) \/ AskLost(h)
  \/ RestartAgents
  \/ \E c \in Trainer \cup {Unstaffed} : HandOver(c)
  \/ \E c \in Trainer : RefreshPage(c)

-----------------------------------------------------------------------------
(* Properties *)

\* The type of the state.
AgentTypeOK ==
  /\ trainerOf \in Trainer \cup {Unstaffed}
  /\ benched \subseteq Trainer /\ handed \subseteq benched
  /\ signedUp \subseteq [coach : Trainer, ask : 1..MaxAsk] \X (1..MaxToolCall)
  /\ routes \in [Topic -> RouterAgents \cup {Unrouted}]
  /\ kb \in {ColdKb, "loaded", "failed"}
  /\ asks \in [Helper -> {NotAsked} \cup
       [step : {"routing", "thinking", "calling"}, ask : 1..MaxAsk, coach : Trainer, onTeam : BOOLEAN,
        mode : Mode, agent : Agent, round : 0..(MaxRound + MaxToolCall), calls : 0..MaxToolCall,
        broken : BOOLEAN, added : 0..MaxToolCall, shown : SUBSET Trainer,
        team : SUBSET (Trainer \cup {Unstaffed}), late : BOOLEAN]]
  /\ asked \in 0..MaxAsk

\* An answer that was saved has logged every call of the model it took, and
\* every player a tool said was added is there; no player is left of a turn
\* that was not saved.  What the model is shown of players, games, uploads and
\* schedules is the coach's, though the team may change hands meanwhile
\* (crew/tools.py, "every agent action MUST scope to the requesting coach").
\* What it is shown of the team itself is of the coach's team, unless the team
\* changed hands since the coach opened a page: neither get_team_profile
\* (crew/tools.py:198-214) nor the context of the turn (chat_service.py:136-143)
\* asks who coaches the team.
ToolsKeepPromises ==
  /\ \A e \in ledger : e.outcome = "answer" => e.unlogged = 0
  /\ \A e \in ledger : Cardinality({p \in signedUp : p[1].ask = e.ask}) = e.added
  /\ \A p \in signedUp : \E e \in ledger : e.ask = p[1].ask
  /\ \A h \in Helper : asks[h] # NotAsked =>
       /\ asks[h].shown \subseteq {asks[h].coach}
       /\ asks[h].late \/ asks[h].team \subseteq {asks[h].coach}
=============================================================================
