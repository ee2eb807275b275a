------------------------------ MODULE OrgMembers ------------------------------
(***************************************************************************)
(* The members of one organization: invites, memberships, and the coach    *)
(* and roster of one team (api/org.py, api/org_users.py, api/org_teams.py, *)
(* api/org_players.py, services/org_user_service.py).                      *)
(*                                                                         *)
(* The requests that check what another one may be changing are a read and *)
(* a commit; all others are one step.  A membership is a row of its own:   *)
(* removing a member keeps it, and (user, organization, role) is unique.   *)
(*                                                                         *)
(* Of the scope of a member only what a role cannot do without is kept: a  *)
(* program manager and a region manager need a program.  A transaction     *)
(* writes the columns that differ from what it has read, and no others.    *)
(***************************************************************************)
EXTENDS Integers, Sequences, FiniteSets

CONSTANTS
  Person,      \* people, each with the address they are invited at
  Visit,       \* requests that may be in flight
  Role,        \* the roles of this instance
  MaxInvite,   \* bound: invites issued
  MaxMember,   \* bound: membership rows
  MaxPlayer    \* bound: players on the team

\* The roles the code itself gives out.
ASSUME OrgMembersAssumption == {"org_admin", "coach"} \subseteq Role

VARIABLES
  members,     \* user_organizations, by id
  invites,     \* org_invites with the auth token they point to, by id
  team,        \* team_profile.user_id, and whose active team it is
  roster,      \* players of the team, by id: whose they are
  visit        \* the requests in flight, with what they have read

orgMemberVars == <<members, invites, team, roster, visit>>

NoOne == "no one"
Unread == "unread"
Away == [op |-> "away"]

\* A role that is none: update_member strips and lowers what it checks and
\* stores it as it was sent.
AsSent == "as sent"

NeedsProgram == {"program_manager", "region_manager"}

NewMember(p, role, from, raced) ==
  [person |-> p, role |-> role, status |-> "active", program |-> role \in NeedsProgram,
   from |-> from, link |-> FALSE, raced |-> raced]

\* The wizard leaves an organization with its first administrator.
OrgMembersInit ==
  /\ \E p \in Person : members = <<NewMember(p, "org_admin", 0, FALSE)>>
  /\ invites = <<>>
  /\ team = [coach |-> NoOne, active |-> {}]
  /\ roster = <<>>
  /\ visit = [r \in Visit |-> Away]

\* get_current_org_membership, require_role
Acts(p, role) ==
  \E m \in DOMAIN members :
    members[m].person = p /\ members[m].role = role /\ members[m].status = "active"

\* uq_user_org_role: removed rows count.
HasRow(p, role) ==
  \E m \in DOMAIN members : members[m].person = p /\ members[m].role = role

-----------------------------------------------------------------------------
(* Requests *)

Arrive(r, q) ==
  LET others == {s \in Visit \ {r} : visit[s] # Away}
  IN /\ visit[r] = Away
     /\ visit' = [s \in Visit |->
          CASE s = r        -> [q EXCEPT !.raced = others # {}]
            [] s \in others -> [visit[s] EXCEPT !.raced = TRUE]
            [] OTHER        -> Away]
     /\ UNCHANGED <<members, invites, team, roster>>

Leave(r) == visit' = [visit EXCEPT ![r] = Away]

\* A guard or a constraint fails: the transaction is undone.
Refuse(r) ==
  /\ visit[r] # Away
  /\ Leave(r)
  /\ UNCHANGED <<members, invites, team, roster>>

-----------------------------------------------------------------------------
(* Invites *)

\* ROLE_INVITES_TREE
InvitesTree == [
  org_admin       |-> {"org_admin", "program_manager", "region_manager", "coach", "viewer"},
  program_manager |-> {"region_manager", "coach", "viewer"},
  region_manager  |-> {"coach", "viewer"},
  coach           |-> {},
  viewer          |-> {}]

\* clamp_and_validate_inviter_authority: a program manager without a program
\* invites no one.  What passes names the program its role needs (_validate_scope).
MayInvite(role) ==
  \E m \in DOMAIN members :
    /\ members[m].status = "active" /\ members[m].role # AsSent
    /\ role \in InvitesTree[members[m].role]
    /\ members[m].role = "program_manager" => members[m].program

Pending(i) == invites[i].status = "pending" /\ invites[i].live

\* invite_user, invite_member.  A team is only for a coach, and must have none.
Invite(p, role, withTeam) ==
  /\ MayInvite(role)
  /\ withTeam => role = "coach" /\ team.coach = NoOne
  /\ \A i \in DOMAIN invites :
       ~ (invites[i].person = p /\ invites[i].role = role /\ invites[i].status = "pending")
  /\ Len(invites) < MaxInvite
  /\ invites' = Append(invites, [person |-> p, role |-> role, team |-> withTeam,
                                 status |-> "pending", live |-> TRUE])
  /\ UNCHANGED <<members, team, roster, visit>>

\* resend_invite: the old token is used up, a fresh one takes its place.
ResendInvite(i) ==
  /\ invites[i].status = "pending"
  /\ invites' = [invites EXCEPT ![i].live = TRUE]
  /\ UNCHANGED <<members, team, roster, visit>>

\* Seven days pass.
InviteExpires(i) ==
  /\ Pending(i)
  /\ invites' = [invites EXCEPT ![i].live = FALSE]
  /\ UNCHANGED <<members, team, roster, visit>>

CancelRead(r, i) ==
  /\ invites[i].status = "pending"
  /\ Arrive(r, [op |-> "cancel", invite |-> i, raced |-> FALSE])

\* Fault: only the token is used up, and sending it again revives the invite.
Burnt_Token(i, status) == [invites[i] EXCEPT !.live = FALSE]

\* The invite and its token are used up together.
Burnt(i, status) == [invites[i] EXCEPT !.status = status, !.live = FALSE]

CancelCommit(r) ==
  /\ visit[r].op = "cancel"
  /\ invites' = [invites EXCEPT ![visit[r].invite] = Burnt(visit[r].invite, "cancelled")]
  /\ Leave(r)
  /\ UNCHANGED <<members, team, roster>>

\* The link in the mail: it is the invited person who gets the membership.
AcceptRead(r, i) ==
  /\ Pending(i)
  /\ Arrive(r, [op |-> "accept", invite |-> i, raced |-> FALSE])

\* org_api_invite_accept copies the region and the branch of the invite, not
\* its program.  A person who already acts in the role gets no second row; the
\* row of a removed one is in the way, and the request fails.
AcceptCommit(r) ==
  LET i == visit[r].invite
      p == invites[i].person
      role == invites[i].role
  IN /\ visit[r].op = "accept"
     /\ \/ Acts(p, role) /\ UNCHANGED members
        \/ /\ ~ HasRow(p, role)
           /\ Len(members) < MaxMember
           /\ members' = Append(members,
                [NewMember(p, role, i, visit[r].raced) EXCEPT !.program = FALSE, !.link = TRUE])
     /\ invites' = [invites EXCEPT ![i] = Burnt(i, "accepted")]
     /\ Leave(r)
     /\ UNCHANGED <<team, roster>>

\* The code: anyone who has it, under an address of their own.
RedeemRead(r, i, p) ==
  /\ Pending(i)
  /\ Arrive(r, [op |-> "redeem", invite |-> i, person |-> p, coach |-> Unread,
                raced |-> FALSE])

\* The team is read when the member is on its way in.
RedeemTeamRead(r) ==
  /\ visit[r].op = "redeem"
  /\ invites[visit[r].invite].team
  /\ visit[r].coach = Unread
  /\ visit' = [visit EXCEPT ![r].coach = team.coach]
  /\ UNCHANGED <<members, invites, team, roster>>

\* Fault: the players that are on the team stay with no one.
HandOff_Not(p) == roster

\* The roster goes to the coach with the team.
HandOff(p) == [x \in DOMAIN roster |-> [roster[x] EXCEPT !.user = p, !.mark = "none"]]

\* org_api_invite_redeem: the code may be of a mail that was sent to another
\* address, which is overwritten.  A team that was seen to have a coach is
\* kept; one who came after that is overwritten.
RedeemCommit(r) ==
  LET i == visit[r].invite
      p == visit[r].person
      role == invites[i].role
  IN /\ visit[r].op = "redeem"
     /\ invites[i].team => visit[r].coach # Unread
     /\ ~ HasRow(p, role)
     /\ Len(members) < MaxMember
     /\ members' = Append(members, NewMember(p, role, i, visit[r].raced))
     /\ IF invites[i].team /\ visit[r].coach = NoOne
        THEN /\ team' = [team EXCEPT !.coach = p, !.active = @ \cup {p}]
             /\ roster' = HandOff(p)
        ELSE UNCHANGED <<team, roster>>
     /\ invites' = [invites EXCEPT ![i] = [Burnt(i, "accepted") EXCEPT !.person = p]]
     /\ Leave(r)

-----------------------------------------------------------------------------
(* Members *)

\* What the request will write of a membership.
Changes(x, role, program) ==
  (IF role # x.role THEN {"role"} ELSE {})
    \cup (IF program # x.program THEN {"program"} ELSE {})

\* update_member: role and scope together are those the body names or else the
\* ones read, and _validate_scope sees both.  An administrator cannot give up
\* the own role.
UpdateMemberRead(r, p, m, role, program) ==
  LET x == members[m]
  IN /\ Acts(p, "org_admin")
     /\ x.person = p /\ x.role = "org_admin" => role = "org_admin"
     /\ role \in NeedsProgram => program
     /\ Changes(x, role, program) # {}
     /\ Arrive(r, [op |-> "update", member |-> m, role |-> role, program |-> program,
                   writes |-> Changes(x, role, program), raced |-> FALSE])

\* Fault: the scope stays that of the old role.
Moved_Scope(m, q) ==
  [members[m] EXCEPT !.role = IF "role" \in q.writes THEN q.role ELSE @, !.link = FALSE]

\* A column that is not written keeps what it has now.
Moved(m, q) ==
  [members[m] EXCEPT !.role = IF "role" \in q.writes THEN q.role ELSE @,
                     !.program = IF "program" \in q.writes THEN q.program ELSE @,
                     !.link = FALSE]

UpdateMemberCommit(r) ==
  LET m == visit[r].member
      q == visit[r]
  IN /\ q.op = "update"
     /\ "role" \in q.writes /\ q.role # AsSent => ~ HasRow(members[m].person, q.role)
     /\ members' = [members EXCEPT ![m] = [Moved(m, q) EXCEPT !.raced = @ \/ q.raced]]
     /\ Leave(r)
     /\ UNCHANGED <<invites, team, roster>>

\* Fault: administrators may remove themselves.
Removable_Self(p, m) == members[m].status = "active"

Removable(p, m) == members[m].person # p /\ members[m].status = "active"

RemoveMemberRead(r, p, m) ==
  /\ Acts(p, "org_admin")
  /\ Removable(p, m)
  /\ Arrive(r, [op |-> "remove", member |-> m, raced |-> FALSE])

RemoveMemberCommit(r) ==
  /\ visit[r].op = "remove"
  /\ members' = [members EXCEPT ![visit[r].member].status = "removed",
                                ![visit[r].member].raced = @ \/ visit[r].raced]
  /\ Leave(r)
  /\ UNCHANGED <<invites, team, roster>>

-----------------------------------------------------------------------------
(* The team *)

\* The players there are when the coach is set by hand: their rows stay.
LeftBehind == [x \in DOMAIN roster |-> [roster[x] EXCEPT !.mark = "left"]]

\* assign_coach
AssignCoachRead(r, p) ==
  /\ team.coach # p
  /\ Arrive(r, [op |-> "assign", person |-> p, member |-> Acts(p, "coach"), raced |-> FALSE])

\* It makes the person a coach and leaves the players alone.
AssignCoachCommit(r) ==
  LET p == visit[r].person
  IN /\ visit[r].op = "assign"
     /\ IF visit[r].member THEN UNCHANGED members
        ELSE /\ ~ HasRow(p, "coach")
             /\ Len(members) < MaxMember
             /\ members' = Append(members, NewMember(p, "coach", 0, visit[r].raced))
     /\ team' = [team EXCEPT !.coach = p]
     /\ roster' = LeftBehind
     /\ Leave(r)
     /\ UNCHANGED invites

\* unassign_coach
UnassignCoachRead(r) ==
  /\ team.coach # NoOne
  /\ Arrive(r, [op |-> "unassign", raced |-> FALSE])

UnassignCoachCommit(r) ==
  /\ visit[r].op = "unassign"
  /\ team' = [team EXCEPT !.coach = NoOne]
  /\ roster' = LeftBehind
  /\ Leave(r)
  /\ UNCHANGED <<members, invites>>

\* create_player of org_players.py
CreatePlayerRead(r) ==
  /\ Len(roster) < MaxPlayer
  /\ Arrive(r, [op |-> "player", user |-> team.coach, raced |-> FALSE])

CreatePlayerCommit(r) ==
  /\ visit[r].op = "player"
  /\ Len(roster) < MaxPlayer
  /\ roster' = Append(roster, [user |-> visit[r].user, active |-> TRUE,
                               mark |-> IF visit[r].raced THEN "raced" ELSE "none"])
  /\ Leave(r)
  /\ UNCHANGED <<members, invites, team>>

\* delete_player keeps the row, which delete_team then counts.
DeletePlayer(x) ==
  /\ roster[x].active
  /\ roster' = [roster EXCEPT ![x].active = FALSE]
  /\ UNCHANGED <<members, invites, team, visit>>

-----------------------------------------------------------------------------

InvitesNext(roles, withTeam) ==
  \/ \E p \in Person, role \in roles : Invite(p, role, withTeam)
  \/ \E i \in DOMAIN invites :
       \/ ResendInvite(i)
       \/ InviteExpires(i)
       \/ \E r \in Visit :
            CancelRead(r, i) \/ AcceptRead(r, i) \/ \E p \in Person : RedeemRead(r, i, p)
  \/ \E r \in Visit :
       \/ CancelCommit(r) \/ AcceptCommit(r)
       \/ RedeemTeamRead(r) \/ RedeemCommit(r)
       \/ Refuse(r)

MembersNext(roles) ==
  \E r \in Visit :
    \/ \E p \in Person, m \in DOMAIN members :
         \/ RemoveMemberRead(r, p, m)
         \/ \E role \in roles \cup {AsSent}, program \in BOOLEAN :
              UpdateMemberRead(r, p, m, role, program)
    \/ UpdateMemberCommit(r)
    \/ RemoveMemberCommit(r)

RosterNext ==
  \/ \E r \in Visit :
       \/ \E p \in Person : AssignCoachRead(r, p)
       \/ UnassignCoachRead(r)
       \/ AssignCoachCommit(r) \/ UnassignCoachCommit(r)
       \/ CreatePlayerRead(r) \/ CreatePlayerCommit(r)
  \/ \E x \in DOMAIN roster : DeletePlayer(x)

OrgMembersNext ==
  (\E t \in BOOLEAN : InvitesNext(Role, t)) \/ MembersNext(Role) \/ RosterNext

OrgMembersSpec == OrgMembersInit /\ [][OrgMembersNext]_orgMemberVars

\* A manager is without the program needed by the link of an invite, which
\* drops it, or by updates that overlapped, where one wrote the role and the
\* other the scope.
OrgMembersTypeOK ==
  /\ \A m \in DOMAIN members :
       members[m].person \in Person /\ members[m].role \in Role \cup {AsSent}
  /\ \A m, n \in DOMAIN members :
       <<members[m].person, members[m].role>> = <<members[n].person, members[n].role>> =>
         m = n \/ members[m].role = AsSent
  /\ \A m \in DOMAIN members : members[m].role \in NeedsProgram =>
       members[m].program \/ members[m].link \/ members[m].raced
  /\ \A i \in DOMAIN invites : invites[i].team => invites[i].role = "coach"
  /\ team.coach \in Person \cup {NoOne}

-----------------------------------------------------------------------------
(* Properties *)

\* An organization does not lose its last administrator (update_member and
\* remove_member refuse to lock oneself out), save by requests that overlapped.
OrgKeepsAdmin ==
  \/ \E p \in Person : Acts(p, "org_admin")
  \/ \E m \in DOMAIN members : members[m].raced

\* Codes and links are for one use (org_api_invite_redeem): at most one member
\* comes from an invite, and none from one that is cancelled, save by requests
\* that overlapped another.
InvitesSingleUse ==
  \A i \in DOMAIN invites :
    LET came == {m \in DOMAIN members : members[m].from = i /\ ~members[m].raced}
    IN /\ Cardinality(came) <= 1
       /\ came # {} => invites[i].status = "accepted"

\* The players of a team are those of its coach, who would not see them
\* otherwise (org.py:754-761), whatever requests overlap and however often the
\* coach changes: all of them once a code is redeemed, and those added since the
\* coach was last set by hand.  Not so the players the team had by then, who
\* stay with the coach before (assign_coach), and a player that was added by a
\* request that overlapped another.
RosterFollowsCoach ==
  \A x \in DOMAIN roster : roster[x].mark = "none" => roster[x].user = team.coach

=============================================================================
