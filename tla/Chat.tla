--------------------------------- MODULE Chat ---------------------------------
(***************************************************************************)
(* One conversation of a coach with the agents (api/chat.py,               *)
(* services/chat_service.py), and what is remembered of it afterwards      *)
(* (services/memory_extractor.py).                                         *)
(*                                                                         *)
(* A turn is one transaction around a slow call: the coach's message is    *)
(* added, the recent messages are read for the prompt, the model answers,  *)
(* both messages are committed.  Both bear the time the transaction began. *)
(*                                                                         *)
(* The session of a streamed turn has been committed and closed by FastAPI *)
(* 0.115 (requirements.txt) when the body of the answer is produced: what  *)
(* the turn writes is never committed.                                     *)
(***************************************************************************)
EXTENDS Integers, Sequences, FiniteSets

CONSTANTS
  Sender,        \* chat requests that may be in flight
  ChatTeam,      \* the teams of the coach
  HistoryLimit,  \* _HISTORY_LIMIT
  MaxTurn        \* bound: turns begun

ASSUME ChatAssumption == HistoryLimit \in Nat \ {0} /\ MaxTurn \in Nat

VARIABLES
  conversations, \* the rows, in the order of their commits
  turns,         \* the turns in flight
  begun,         \* how many turns have begun: the clock of created_at
  memories,      \* what is remembered
  activeTeam     \* users.active_team_id

chatVars == <<conversations, turns, begun, memories, activeTeam>>

NoTeam == "no team"
Quiet == [step |-> "quiet"]

ChatInit ==
  /\ conversations = <<>>
  /\ turns = [s \in Sender |-> Quiet]
  /\ begun = 0
  /\ memories = {}
  /\ activeTeam \in ChatTeam \cup {NoTeam}

-----------------------------------------------------------------------------
(* A turn *)

\* chat, chat_upload and, as a stream, chat_stream: the team is the active one
\* when the request reads its user.
BeginTurn(s, stream) ==
  /\ turns[s] = Quiet
  /\ begun < MaxTurn
  /\ begun' = begun + 1
  /\ LET others == {o \in Sender : turns[o].step \in {"begun", "asked"}}
     IN turns' = [o \in Sender |->
          CASE o = s -> [step |-> "begun", stream |-> stream, at |-> begun', team |-> activeTeam,
                         raced |-> others # {}, prompt |-> {}]
            [] o \in others -> [turns[o] EXCEPT !.raced = TRUE]
            [] OTHER -> turns[o]]
  /\ UNCHANGED <<conversations, memories, activeTeam>>

\* The turn's own message, which is row 0 here until it is saved.
Own == 0

At(s, i) == IF i = Own THEN turns[s].at ELSE conversations[i].at

\* The rows the turn may see: all of the conversation without a team, those of
\* the team otherwise.
Loaded(s) ==
  {Own} \cup {i \in DOMAIN conversations : turns[s].team \in {NoTeam, conversations[i].team}}

\* The newest n of them by created_at; equal times come in any order.
Recent(s, rows, n) ==
  {w \in SUBSET rows :
     /\ Cardinality(w) = (IF Cardinality(rows) < n THEN Cardinality(rows) ELSE n)
     /\ \A i \in w, j \in rows \ w : At(s, i) >= At(s, j)}

\* Fault: the message of the turn, which follows, is left in the history.
Trimmed_Not(s, window) == {window}

\* history[:-1]: the newest goes, for it should be the turn's own.
Trimmed(s, window) ==
  {window \ {x} : x \in {i \in window : \A j \in window : At(s, i) >= At(s, j)}}

\* _load_history, _build_messages
AskModel(s) ==
  /\ turns[s].step = "begun"
  /\ \E window \in Recent(s, Loaded(s), HistoryLimit) :
       \E history \in Trimmed(s, window) :
         turns' = [turns EXCEPT ![s].step = "asked", ![s].prompt = history]
  /\ UNCHANGED <<conversations, begun, memories, activeTeam>>

\* The rows of a turn are saved with the request's transaction; those of a
\* streamed turn are not.
SaveTurn(s) ==
  conversations' = IF turns[s].stream THEN conversations
    ELSE conversations \o
      <<[role |-> "user", team |-> turns[s].team, at |-> turns[s].at],
        [role |-> "assistant", team |-> turns[s].team, at |-> turns[s].at]>>

\* The model has answered; the memory extraction is scheduled.
Answered(s) ==
  /\ turns[s].step = "asked"
  /\ SaveTurn(s)
  /\ turns' = [turns EXCEPT ![s].step = "remember", ![s].prompt = {}]
  /\ UNCHANGED <<begun, memories, activeTeam>>

\* APIError or another exception of the model: an apology is saved, nothing
\* will be remembered.
AnswerApologizes(s) ==
  /\ turns[s].step = "asked"
  /\ SaveTurn(s)
  /\ turns' = [turns EXCEPT ![s] = Quiet]
  /\ UNCHANGED <<begun, memories, activeTeam>>

\* The transaction is lost (an error of the database in a tool, whose exception
\* is caught, makes the next flush fail; the browser leaves a stream; a stop).
TurnLost(s) ==
  /\ turns[s].step \in {"begun", "asked"}
  /\ turns' = [turns EXCEPT ![s] = Quiet]
  /\ UNCHANGED <<conversations, begun, memories, activeTeam>>

-----------------------------------------------------------------------------
(* Memories *)

\* _scope_team_id: styles and preferences are the coach's, the rest is of the
\* team the turn was about.
ScopeTeam(personal, team) == IF personal THEN NoTeam ELSE team

\* schedule_memory_extraction, extract_and_store: a transaction of its own,
\* after the response.  What does not parse is asked for once more.
Remember(s, personal) ==
  /\ turns[s].step = "remember"
  /\ memories' = memories \cup
       {[team |-> ScopeTeam(personal, turns[s].team), personal |-> personal,
         about |-> turns[s].team]}
  /\ turns' = [turns EXCEPT ![s] = Quiet]
  /\ UNCHANGED <<conversations, begun, activeTeam>>

\* Nothing worth it, no JSON twice, or an error, which is swallowed.
RememberNothing(s) ==
  /\ turns[s].step = "remember"
  /\ turns' = [turns EXCEPT ![s] = Quiet]
  /\ UNCHANGED <<conversations, begun, memories, activeTeam>>

-----------------------------------------------------------------------------

\* set_active_team, or _team_data of any page.
SwitchTeam(t) ==
  /\ t # activeTeam
  /\ activeTeam' = t
  /\ UNCHANGED <<conversations, turns, begun, memories>>

-----------------------------------------------------------------------------

ChatNext ==
  \/ \E s \in Sender :
       \/ \E stream \in BOOLEAN : BeginTurn(s, stream)
       \/ AskModel(s)
       \/ Answered(s) \/ AnswerApologizes(s) \/ TurnLost(s)
       \/ RememberNothing(s) \/ \E personal \in BOOLEAN : Remember(s, personal)
  \/ \E t \in ChatTeam : SwitchTeam(t)

\* What is remembered of a team is remembered of the one the turn was about,
\* though the coach may have switched meanwhile.
ChatTypeOK ==
  /\ \A i \in DOMAIN conversations : conversations[i].at \in 1..begun
  /\ \A m \in memories : m.personal \/ m.team = m.about

-----------------------------------------------------------------------------
(* Properties *)

\* A turn that overlaps no other one of the conversation tells the model the
\* coach's message once: it is not in the history as well, and no message newer
\* than one in the history is missing there (send_message, "the user msg is
\* below as the current turn").
PromptCarriesTurn ==
  \A s \in Sender :
    turns[s].step = "asked" /\ ~ turns[s].raced =>
      /\ Own \notin turns[s].prompt
      /\ \A i \in turns[s].prompt, j \in Loaded(s) \ (turns[s].prompt \cup {Own}) :
           At(s, i) >= At(s, j)
=============================================================================
