------------------------------- MODULE Playbook -------------------------------
(***************************************************************************)
(* The plays a coach draws, edits in several tabs and shares               *)
(* (api/plays.py, models/plays.py).                                        *)
(***************************************************************************)
EXTENDS Naturals, Sequences, FiniteSets

CONSTANTS
  Editor,   \* requests that may be in flight
  Planner,  \* coaches
  Court,    \* teams
  Drawing,  \* what the players, or the actions, of a play may be
  MaxPlay,  \* bound: plays ever created
  MaxPass   \* bound: shares

VARIABLES
  courtOf,    \* team_profile.user_id
  courtNow,   \* users.active_team_id
  plays,      \* the table
  handedOut,  \* play_shares, with the teams that were the coach's then
  edits,      \* the updates in flight, with the play as read
  drawn       \* history of each play ever created: what its coach asked for last,
              \* and whether updates of it have overlapped

courtVars == <<courtOf, courtNow>>
playbookVars == <<courtOf, courtNow, plays, handedOut, edits, drawn>>

NotEditing == [id |-> 0]
NoCourt == "no court"
NoPlanner == "no planner"

PlaybookInit ==
  /\ courtOf \in [Court -> Planner \cup {NoPlanner}]
  /\ courtNow \in [Planner -> Court \cup {NoCourt}]
  /\ \A c \in Planner : courtNow[c] = NoCourt <=> \A t \in Court : courtOf[t] # c
  /\ plays = {} /\ handedOut = {}
  /\ edits = [r \in Editor |-> NotEditing]
  /\ drawn = <<>>

-----------------------------------------------------------------------------
(* Plays *)

Content == [players : Drawing, actions : Drawing]

CreatePlay(c, content) ==
  /\ Len(drawn) < MaxPlay
  /\ plays' = plays \cup
       {[id |-> Len(drawn) + 1, by |-> c, court |-> courtNow[c], content |-> content]}
  /\ drawn' = Append(drawn, [by |-> c, last |-> content, overlapped |-> FALSE])
  /\ UNCHANGED <<courtVars, handedOut, edits>>

\* Fault: a play is looked up by its id alone.
Editable_Any(c) == plays

\* "Play.id == play_id, Play.user_id == user.id"
Editable(c) == {p \in plays : p.by = c}

\* update_play: fields the request leaves out keep what was read.
UpdatePlayRead(r, c, p, content) ==
  /\ edits[r] = NotEditing
  /\ p \in Editable(c)
  /\ edits' = [edits EXCEPT ![r] = [id |-> p.id, by |-> c, read |-> p.content, new |-> content]]
  /\ UNCHANGED <<courtVars, plays, handedOut, drawn>>

EditOver(r) == edits' = [edits EXCEPT ![r] = NotEditing]

\* The flush writes the columns that differ from what was read.
Written(stored, edit) ==
  [field \in {"players", "actions"} |->
     IF edit.new[field] = edit.read[field] THEN stored[field] ELSE edit.new[field]]

UpdatePlayCommit(r) ==
  /\ edits[r] # NotEditing
  /\ \E p \in plays :
       /\ p.id = edits[r].id
       /\ plays' = (plays \ {p}) \cup {[p EXCEPT !.content = Written(@, edits[r])]}
       /\ drawn' = [drawn EXCEPT ![p.id] =
            [by |-> @.by, last |-> IF edits[r].by = p.by THEN edits[r].new ELSE @.last,
             overlapped |-> @.overlapped \/ p.content # edits[r].read]]
  /\ EditOver(r)
  /\ UNCHANGED <<courtVars, handedOut>>

\* The row is gone: the flush finds none, and the request fails.
UpdatePlayFails(r) ==
  /\ edits[r] # NotEditing
  /\ \A p \in plays : p.id # edits[r].id
  /\ EditOver(r)
  /\ UNCHANGED <<courtVars, plays, handedOut, drawn>>

DeletePlay(c, p) ==
  /\ p \in Editable(c)
  /\ plays' = plays \ {p}
  /\ UNCHANGED <<courtVars, handedOut, edits, drawn>>

\* share_play: the name of the active team, if it is the coach's own.
Stamp(c) ==
  IF courtNow[c] # NoCourt /\ courtOf[courtNow[c]] = c THEN courtNow[c] ELSE NoCourt

\* The snapshot is what the page sends, saved or not; a team it names stays where the
\* handler stamps none.
SharePlay(c, content, tn) ==
  LET share == [by |-> c, content |-> content,
                court |-> IF Stamp(c) = NoCourt THEN tn ELSE Stamp(c),
                tn |-> tn, own |-> {t \in Court : courtOf[t] = c}]
  IN /\ Cardinality(handedOut) < MaxPass /\ share \notin handedOut
     /\ handedOut' = handedOut \cup {share}
     /\ UNCHANGED <<courtVars, plays, edits, drawn>>

-----------------------------------------------------------------------------
(* Teams: a coach moves to one of theirs; an administrator gives one to    *)
(* another coach, which leaves active_team_id as it is.                    *)

GoTo(c, t) ==
  /\ courtOf[t] = c /\ courtNow[c] # t
  /\ courtNow' = [courtNow EXCEPT ![c] = t]
  /\ UNCHANGED <<courtOf, plays, handedOut, edits, drawn>>

GiveAway(t, c) ==
  /\ courtOf[t] # c
  /\ courtOf' = [courtOf EXCEPT ![t] = c]
  /\ UNCHANGED <<courtNow, plays, handedOut, edits, drawn>>

CourtsNext == \E c \in Planner, t \in Court : GoTo(c, t) \/ GiveAway(t, c)

PlaybookNext ==
  \/ \E c \in Planner :
       \/ \E content \in Content :
            \/ CreatePlay(c, content)
            \/ \E tn \in Court \cup {NoCourt} : SharePlay(c, content, tn)
       \/ \E p \in plays : DeletePlay(c, p)
       \/ \E r \in Editor, p \in plays, content \in Content : UpdatePlayRead(r, c, p, content)
  \/ \E r \in Editor : UpdatePlayCommit(r) \/ UpdatePlayFails(r)
  \/ CourtsNext

\* The type of the state.
PlaybookTypeOK ==
  /\ courtOf \in [Court -> Planner \cup {NoPlanner}]
  /\ courtNow \in [Planner -> Court \cup {NoCourt}]
  /\ plays \subseteq [id : 1..Len(drawn), by : Planner, court : Court \cup {NoCourt}, content : Content]
  /\ \A p, o \in plays : p.id = o.id => p = o
  /\ handedOut \subseteq [by : Planner, content : Content, court : Court \cup {NoCourt},
                          tn : Court \cup {NoCourt}, own : SUBSET Court]
  /\ \A r \in Editor : edits[r] = NotEditing \/ edits[r].id \in 1..Len(drawn)
  /\ drawn \in Seq([by : Planner, last : Content, overlapped : BOOLEAN])

-----------------------------------------------------------------------------
(* Properties *)

\* A play is what its own coach last saved, unless updates of it have overlapped,
\* which may leave the players of one with the actions of another; and the team a
\* share names was then the coach's own, or is the one the page sent (update_play,
\* share_play, "enforce user_id ownership").
PlaysAreTheirs ==
  /\ \A p \in plays :
       /\ p.by = drawn[p.id].by
       /\ drawn[p.id].overlapped \/ p.content = drawn[p.id].last
  /\ \A s \in handedOut : s.court \in s.own \cup {s.tn}
=============================================================================
