--------------------------- MODULE OrgMembersProofs ---------------------------
(***************************************************************************)
(* What invites, memberships and the roster of a team keep for any number  *)
(* of people, roles and requests that overlap.                             *)
(***************************************************************************)
EXTENDS OrgMembers, FiniteSetTheorems, TLAPS

-----------------------------------------------------------------------------
(* The types of the tables and of what a request has read *)

Member == [person: Person, role: Role \cup {AsSent}, status: {"active", "removed"},
           program: BOOLEAN, from: Nat, link: BOOLEAN, raced: BOOLEAN]

OrgInvite == [person: Person, role: Role, team: BOOLEAN,
              status: {"pending", "accepted", "cancelled"}, live: BOOLEAN]

Player == [user: Person \cup {NoOne}, active: BOOLEAN, mark: {"none", "raced", "left"}]

CoachRow == [coach: Person \cup {NoOne}, active: SUBSET Person]

Request ==
  {Away}
  \cup [op: {"cancel", "accept"}, invite: Nat, raced: BOOLEAN]
  \cup [op: {"redeem"}, invite: Nat, person: Person, coach: Person \cup {NoOne, Unread},
        raced: BOOLEAN]
  \cup [op: {"update"}, member: Nat, role: Role \cup {AsSent}, program: BOOLEAN,
        writes: SUBSET {"role", "program"}, raced: BOOLEAN]
  \cup [op: {"remove"}, member: Nat, raced: BOOLEAN]
  \cup [op: {"player"}, user: Person \cup {NoOne}, raced: BOOLEAN]
  \cup [op: {"assign"}, person: Person, member: BOOLEAN, raced: BOOLEAN]
  \cup [op: {"unassign"}, raced: BOOLEAN]

OnInvite == {"cancel", "accept", "redeem"}
OnMember == {"update", "remove"}

\* A request that takes the role of a member away.
TakesRole(q) == q.op = "remove" \/ (q.op = "update" /\ "role" \in q.writes)

\* What it leaves of the role and writes of the program is what it checked.
Fits(q) ==
  /\ q.role \in NeedsProgram => q.program
  /\ "role" \notin q.writes => members[q.member].role = q.role
  /\ "program" \notin q.writes => members[q.member].program = q.program

TablesTyped ==
  /\ members \in Seq(Member)
  /\ invites \in Seq(OrgInvite)
  /\ team \in CoachRow
  /\ roster \in Seq(Player)
  /\ visit \in [Visit -> Request]

\* What a row or a request points to is there.
NothingDangles ==
  /\ \A m \in DOMAIN members : members[m].from \in 0..Len(invites)
  /\ \A r \in Visit :
       /\ visit[r].op \in OnInvite => visit[r].invite \in DOMAIN invites
       /\ visit[r].op \in OnMember => visit[r].member \in DOMAIN members

-----------------------------------------------------------------------------
(* The inductive invariant.  What a request read is still true when it       *)
(* commits if no other was in flight meanwhile.                              *)

\* A request that overlapped none is alone.
UnracedAlone ==
  \A r, s \in Visit :
    visit[r].op # "away" /\ visit[s].op # "away" /\ r # s => visit[r].raced

\* It finds the invite as it read it.
InviteStillPending ==
  \A r \in Visit : visit[r].op \in OnInvite /\ ~visit[r].raced =>
    invites[visit[r].invite].status = "pending"

\* One member at most has come of an invite, which is used up, and no request
\* that read it before is left.
CameOnce ==
  \A m \in DOMAIN members : ~members[m].raced /\ members[m].from # 0 =>
    /\ invites[members[m].from].status = "accepted"
    /\ \A n \in DOMAIN members :
         ~members[n].raced /\ members[n].from = members[m].from => n = m
    /\ \A r \in Visit : visit[r].op \in OnInvite => visit[r].invite # members[m].from

\* Another administrator than the member whose role it takes stays.
OthersAdminister ==
  \A r \in Visit : TakesRole(visit[r]) /\ ~visit[r].raced =>
    \/ \E n \in DOMAIN members \ {visit[r].member} :
         members[n].role = "org_admin" /\ members[n].status = "active"
    \/ \E n \in DOMAIN members : members[n].raced

\* The columns an update does not write are as it read them.
UpdateFits ==
  \A r \in Visit : visit[r].op = "update" /\ ~visit[r].raced => Fits(visit[r])

\* The coach a player is added for is still the coach.
CoachStillCoach ==
  \A r \in Visit :
    visit[r].op = "player" /\ ~visit[r].raced => visit[r].user = team.coach

MembersInv ==
  /\ TablesTyped /\ OrgMembersTypeOK /\ NothingDangles
  /\ UnracedAlone /\ InviteStillPending /\ CameOnce
  /\ OthersAdminister /\ OrgKeepsAdmin /\ UpdateFits
  /\ CoachStillCoach /\ RosterFollowsCoach

-----------------------------------------------------------------------------
(* What the operators return *)

\* A request is known by its op.
LEMMA RequestShape ==
  ASSUME NEW q \in Request
  PROVE  /\ q.op \in OnInvite => q.invite \in Nat
         /\ q.op = "redeem" =>
              q.person \in Person /\ q.coach \in Person \cup {NoOne, Unread}
         /\ q.op \in OnMember => q.member \in Nat
         /\ q.op = "update" =>
              /\ q.role \in Role \cup {AsSent} /\ q.program \in BOOLEAN
              /\ q.writes \in SUBSET {"role", "program"}
         /\ q.op = "player" => q.user \in Person \cup {NoOne}
         /\ q.op = "assign" => q.person \in Person /\ q.member \in BOOLEAN
         /\ q.op # "away" => q.raced \in BOOLEAN
         /\ q.op = "away" <=> q = Away
<1>1. CASE q = Away
  BY <1>1 DEF Away, OnInvite, OnMember
<1>2. CASE q \in [op: {"cancel", "accept"}, invite: Nat, raced: BOOLEAN]
  BY <1>2 DEF Away, OnInvite, OnMember
<1>3. CASE q \in [op: {"redeem"}, invite: Nat, person: Person, coach: Person \cup {NoOne,
                Unread}, raced: BOOLEAN]
  BY <1>3 DEF Away, OnInvite, OnMember
<1>4. CASE q \in [op: {"update"}, member: Nat, role: Role \cup {AsSent}, program: BOOLEAN,
                writes: SUBSET {"role", "program"}, raced: BOOLEAN]
  BY <1>4 DEF Away, OnInvite, OnMember
<1>5. CASE q \in [op: {"remove"}, member: Nat, raced: BOOLEAN]
  BY <1>5 DEF Away, OnInvite, OnMember
<1>6. CASE q \in [op: {"player"}, user: Person \cup {NoOne}, raced: BOOLEAN]
  BY <1>6 DEF Away, OnInvite, OnMember
<1>7. CASE q \in [op: {"assign"}, person: Person, member: BOOLEAN, raced: BOOLEAN]
  BY <1>7 DEF Away, OnInvite, OnMember
<1>8. CASE q \in [op: {"unassign"}, raced: BOOLEAN]
  BY <1>8 DEF Away, OnInvite, OnMember
<1> QED
  BY <1>1, <1>2, <1>3, <1>4, <1>5, <1>6, <1>7, <1>8 DEF Request

\* Marking it leaves the rest of it alone.
LEMMA RacedShape ==
  ASSUME NEW q \in Request, q.op # "away", NEW b \in BOOLEAN
  PROVE  LET x == [q EXCEPT !.raced = b]
         IN  /\ x \in Request /\ x.op = q.op /\ x.raced = b
             /\ q.op \in OnInvite => x.invite = q.invite
             /\ q.op \in OnMember => x.member = q.member
             /\ q.op = "update" =>
                  x.role = q.role /\ x.program = q.program /\ x.writes = q.writes
             /\ q.op = "player" => x.user = q.user
<1> DEFINE x == [q EXCEPT !.raced = b]
<1>1. q # Away
  BY DEF Away
<1>2. CASE q \in [op: {"cancel", "accept"}, invite: Nat, raced: BOOLEAN]
  <2>1. x \in [op: {"cancel", "accept"}, invite: Nat, raced: BOOLEAN]
    BY <1>2
  <2>2. x.op = q.op /\ x.raced = b
    BY <1>2
  <2> QED
    BY <1>2, <2>1, <2>2 DEF OnInvite, OnMember, Request
<1>3. CASE q \in [op: {"redeem"}, invite: Nat, person: Person, coach: Person \cup {NoOne,
                Unread}, raced: BOOLEAN]
  <2>1. x \in [op: {"redeem"}, invite: Nat, person: Person, coach: Person \cup {NoOne, Unread},
              raced: BOOLEAN]
    BY <1>3
  <2>2. x.op = q.op /\ x.raced = b
    BY <1>3
  <2> QED
    BY <1>3, <2>1, <2>2 DEF OnInvite, OnMember, Request
<1>4. CASE q \in [op: {"update"}, member: Nat, role: Role \cup {AsSent}, program: BOOLEAN,
                writes: SUBSET {"role", "program"}, raced: BOOLEAN]
  <2>1. x \in [op: {"update"}, member: Nat, role: Role \cup {AsSent}, program: BOOLEAN,
              writes: SUBSET {"role", "program"}, raced: BOOLEAN]
    BY <1>4
  <2>2. x.op = q.op /\ x.raced = b
    BY <1>4
  <2> QED
    BY <1>4, <2>1, <2>2 DEF OnInvite, OnMember, Request
<1>5. CASE q \in [op: {"remove"}, member: Nat, raced: BOOLEAN]
  <2>1. x \in [op: {"remove"}, member: Nat, raced: BOOLEAN]
    BY <1>5
  <2>2. x.op = q.op /\ x.raced = b
    BY <1>5
  <2> QED
    BY <1>5, <2>1, <2>2 DEF OnInvite, OnMember, Request
<1>6. CASE q \in [op: {"player"}, user: Person \cup {NoOne}, raced: BOOLEAN]
  <2>1. x \in [op: {"player"}, user: Person \cup {NoOne}, raced: BOOLEAN]
    BY <1>6
  <2>2. x.op = q.op /\ x.raced = b
    BY <1>6
  <2> QED
    BY <1>6, <2>1, <2>2 DEF OnInvite, OnMember, Request
<1>7. CASE q \in [op: {"assign"}, person: Person, member: BOOLEAN, raced: BOOLEAN]
  <2>1. x \in [op: {"assign"}, person: Person, member: BOOLEAN, raced: BOOLEAN]
    BY <1>7
  <2>2. x.op = q.op /\ x.raced = b
    BY <1>7
  <2> QED
    BY <1>7, <2>1, <2>2 DEF OnInvite, OnMember, Request
<1>8. CASE q \in [op: {"unassign"}, raced: BOOLEAN]
  <2>1. x \in [op: {"unassign"}, raced: BOOLEAN]
    BY <1>8
  <2>2. x.op = q.op /\ x.raced = b
    BY <1>8
  <2> QED
    BY <1>8, <2>1, <2>2 DEF OnInvite, OnMember, Request
<1> QED
  BY <1>1, <1>2, <1>3, <1>4, <1>5, <1>6, <1>7, <1>8 DEF Request

\* A row is added at the end.
LEMMA RowAdded ==
  ASSUME NEW S, NEW s \in Seq(S), NEW x \in S
  PROVE  /\ Append(s, x) \in Seq(S)
         /\ DOMAIN Append(s, x) = DOMAIN s \cup {Len(s) + 1}
         /\ Len(s) + 1 \notin DOMAIN s
         /\ Len(Append(s, x)) = Len(s) + 1 /\ Len(s) \in Nat
         /\ DOMAIN s = 1..Len(s)
         /\ \A k \in DOMAIN s : Append(s, x)[k] = s[k]
         /\ Append(s, x)[Len(s) + 1] = x
OBVIOUS

\* A row is replaced.
LEMMA RowReplaced ==
  ASSUME NEW S, NEW s \in Seq(S), NEW k \in DOMAIN s, NEW x \in S
  PROVE  /\ [s EXCEPT ![k] = x] \in Seq(S)
         /\ DOMAIN [s EXCEPT ![k] = x] = DOMAIN s
         /\ Len([s EXCEPT ![k] = x]) = Len(s)
         /\ [s EXCEPT ![k] = x][k] = x
         /\ \A j \in DOMAIN s \ {k} : [s EXCEPT ![k] = x][j] = s[j]
OBVIOUS

\* Every row is changed.
LEMMA RowsChanged ==
  ASSUME NEW S, NEW s \in Seq(S), NEW t, t = [k \in DOMAIN s |-> t[k]],
         \A k \in DOMAIN s : t[k] \in S
  PROVE  t \in Seq(S) /\ DOMAIN t = DOMAIN s
<1>1. PICK n \in Nat : DOMAIN s = 1..n
  OBVIOUS
<1>2. t \in [1..n -> S]
  BY <1>1
<1> QED
  BY <1>1, <1>2

LEMMA NewMemberShape ==
  ASSUME NEW p \in Person, NEW role \in Role, NEW from \in Nat, NEW raced \in BOOLEAN
  PROVE  /\ NewMember(p, role, from, raced) \in Member
         /\ NewMember(p, role, from, raced).person = p
         /\ NewMember(p, role, from, raced).role = role
         /\ NewMember(p, role, from, raced).status = "active"
         /\ NewMember(p, role, from, raced).from = from
         /\ NewMember(p, role, from, raced).raced = raced
         /\ role \in NeedsProgram => NewMember(p, role, from, raced).program
<1>1. PICK b \in BOOLEAN : b <=> role \in NeedsProgram
  OBVIOUS
<1>2. b = (role \in NeedsProgram)
  BY <1>1, Zenon
<1>3. NewMember(p, role, from, raced) =
        [person |-> p, role |-> role, status |-> "active", program |-> b,
         from |-> from, link |-> FALSE, raced |-> raced]
  BY <1>2, Zenon DEF NewMember
<1>4. NewMember(p, role, from, raced) \in Member
  BY <1>3 DEF Member
<1> QED
  BY <1>1, <1>3, <1>4

-----------------------------------------------------------------------------
(* Requests that come and go *)

LEMMA MembersInitInv == OrgMembersInit => MembersInv
<1> SUFFICES ASSUME OrgMembersInit PROVE MembersInv
  OBVIOUS
<1>1. PICK p \in Person : members = <<NewMember(p, "org_admin", 0, FALSE)>>
  BY DEF OrgMembersInit
<1>2. PICK x \in Member : /\ members = <<x>> /\ x.person = p /\ x.role = "org_admin"
                          /\ x.status = "active" /\ x.from = 0 /\ x.raced = FALSE
  <2>1. "org_admin" \in Role /\ 0 \in Nat /\ FALSE \in BOOLEAN
    BY OrgMembersAssumption
  <2> QED
    <3>0. PICK f \in BOOLEAN : f = FALSE
      OBVIOUS
    <3> DEFINE y == NewMember(p, "org_admin", 0, f)
    <3>1. /\ y \in Member /\ y.person = p /\ y.role = "org_admin" /\ y.status = "active"
          /\ y.from = 0 /\ y.raced = FALSE
      BY <2>1, <3>0, NewMemberShape
    <3>2. members = <<y>>
      BY <1>1, <3>0
    <3> HIDE DEF y
    <3> QED
      BY <3>1, <3>2
<1>3. /\ members \in Seq(Member) /\ DOMAIN members = {1} /\ members[1] = x
      /\ invites = <<>> /\ roster = <<>>
      /\ team = [coach |-> NoOne, active |-> {}]
      /\ visit = [r \in Visit |-> Away] /\ "away" = Away.op
  <2>1. <<x>> \in Seq(Member) /\ DOMAIN <<x>> = {1} /\ <<x>>[1] = x
    OBVIOUS
  <2> QED
    BY <1>2, <2>1 DEF OrgMembersInit, Away
<1>4. x.person \in Person /\ x.role \in Role /\ x.role \notin NeedsProgram
  BY <1>2, OrgMembersAssumption DEF Member, NeedsProgram
<1>5. TablesTyped
  <2>1. Away \in Request
    BY DEF Request
  <2> QED
    BY <1>3, <2>1 DEF TablesTyped, CoachRow
<1>6. OrgMembersTypeOK
  BY <1>3, <1>4 DEF OrgMembersTypeOK
<1>7. NothingDangles /\ CameOnce
  BY <1>2, <1>3 DEF NothingDangles, CameOnce, OnInvite, OnMember
<1>8. /\ UnracedAlone /\ InviteStillPending /\ OthersAdminister /\ UpdateFits
      /\ CoachStillCoach
  BY <1>3 DEF UnracedAlone, InviteStillPending, OthersAdminister, TakesRole, UpdateFits,
     CoachStillCoach, OnInvite
<1>9. OrgKeepsAdmin /\ RosterFollowsCoach
  BY <1>2, <1>3 DEF OrgKeepsAdmin, RosterFollowsCoach, Acts
<1> QED
  BY <1>5, <1>6, <1>7, <1>8, <1>9 DEF MembersInv

\* Who arrives has read what is true, and overlaps whoever is there.
LEMMA ArriveInv ==
  ASSUME MembersInv, NEW r \in Visit, NEW q \in Request, q.op # "away", q.raced = FALSE,
         Arrive(r, q),
         q.op \in OnInvite =>
           /\ q.invite \in DOMAIN invites
           /\ invites[q.invite].status = "pending",
         q.op \in OnMember => q.member \in DOMAIN members,
         TakesRole(q) =>
           \E n \in DOMAIN members \ {q.member} :
             members[n].role = "org_admin" /\ members[n].status = "active",
         q.op = "update" => Fits(q),
         q.op = "player" => q.user = team.coach
  PROVE  MembersInv'
<1> DEFINE others == {s \in Visit \ {r} : visit[s] # Away}
<1>1. PICK b \in BOOLEAN : b <=> others # {}
  OBVIOUS
<1>2. b = (others # {})
  BY <1>1, Zenon
<1>3. /\ visit[r] = Away /\ UNCHANGED <<members, invites, team, roster>>
      /\ visit' = [s \in Visit |->
           CASE s = r        -> [q EXCEPT !.raced = b]
             [] s \in others -> [visit[s] EXCEPT !.raced = TRUE]
             [] OTHER        -> Away]
  BY <1>2, Zenon DEF Arrive
<1>4. PICK x \in Request : /\ x = [q EXCEPT !.raced = b] /\ x.op = q.op /\ x.raced = b
                           /\ x.op \in OnInvite => x.invite = q.invite
                           /\ x.op \in OnMember => x.member = q.member
                           /\ x.op = "update" =>
                                /\ x.role = q.role /\ x.program = q.program
                                /\ x.writes = q.writes
                           /\ x.op = "player" => x.user = q.user
  <2> DEFINE y == [q EXCEPT !.raced = b]
  <2>1. /\ y \in Request /\ y.op = q.op /\ y.raced = b
        /\ q.op \in OnInvite => y.invite = q.invite
        /\ q.op \in OnMember => y.member = q.member
        /\ q.op = "update" =>
             y.role = q.role /\ y.program = q.program /\ y.writes = q.writes
        /\ q.op = "player" => y.user = q.user
    BY RacedShape
  <2> HIDE DEF y
  <2> QED
    BY <2>1 DEF y
<1>5. visit'[r] = x
  BY <1>3, <1>4
<1>6. ASSUME NEW s \in Visit, s # r, visit'[s].op # "away"
      PROVE  /\ visit[s] # Away /\ visit'[s] = [visit[s] EXCEPT !.raced = TRUE]
             /\ visit'[s] \in Request /\ visit'[s].raced = TRUE
             /\ visit'[s].op = visit[s].op /\ visit[s].op # "away"
             /\ visit[s].op \in OnInvite => visit'[s].invite = visit[s].invite
             /\ visit[s].op \in OnMember => visit'[s].member = visit[s].member
  <2>1. s \in others /\ visit'[s] = [visit[s] EXCEPT !.raced = TRUE] /\ visit[s] # Away
    BY <1>3, <1>6 DEF Away
  <2>2. visit[s] \in Request
    BY DEF MembersInv, TablesTyped
  <2>3. visit[s].op # "away"
    BY <2>1, <2>2, RequestShape
  <2> QED
    BY ZenonT(60), <2>1, <2>2, <2>3, RacedShape
<1>7. \A s \in Visit : visit'[s] \in Request
  <2>1. ASSUME NEW s \in Visit, s # r, visit'[s].op = "away" PROVE visit'[s] \in Request
    <3>1. CASE s \in others
      <4>1. visit[s] # Away /\ visit[s] \in Request
        BY <3>1 DEF MembersInv, TablesTyped
      <4>2. [visit[s] EXCEPT !.raced = TRUE] \in Request
        BY <4>1, RequestShape, RacedShape
      <4> QED
        BY <1>3, <2>1, <3>1, <4>2
    <3>2. CASE s \notin others
      BY <1>3, <2>1, <3>2 DEF Request
    <3> QED
      BY <3>1, <3>2
  <2> QED
    BY <1>5, <1>6, <2>1
<1>8. DOMAIN visit' = Visit /\ visit' = [s \in Visit |-> visit'[s]]
  BY <1>3
<1> HIDE DEF others
<1>9. TablesTyped' /\ OrgMembersTypeOK' /\ OrgKeepsAdmin' /\ RosterFollowsCoach'
  BY ZenonT(60), <1>3, <1>7, <1>8
  DEF MembersInv, TablesTyped, OrgMembersTypeOK, OrgKeepsAdmin, RosterFollowsCoach, Acts
<1>10. NothingDangles'
  BY <1>3, <1>4, <1>5, <1>6 DEF MembersInv, NothingDangles, OnInvite, OnMember
<1>11. UnracedAlone'
  <2>1. ASSUME NEW s \in Visit, s # r, visit'[s].op # "away" PROVE x.raced = TRUE
    <3>1. others # {}
      BY <1>6, <2>1 DEF others
    <3> QED
      BY <1>1, <1>4, <3>1
  <2> QED
    BY <1>5, <1>6, <2>1 DEF UnracedAlone
<1>12. InviteStillPending' /\ OthersAdminister' /\ UpdateFits' /\ CoachStillCoach'
  <2>1. members' = members /\ invites' = invites /\ team' = team
    BY <1>3
  <2>2. \A s \in Visit : visit'[s].op # "away" /\ ~visit'[s].raced => s = r
    BY <1>6
  <2>3. /\ visit'[r].op = q.op
        /\ q.op \in OnInvite => visit'[r].invite = q.invite
        /\ q.op \in OnMember => visit'[r].member = q.member
        /\ q.op = "update" =>
             /\ visit'[r].role = q.role /\ visit'[r].program = q.program
             /\ visit'[r].writes = q.writes
        /\ q.op = "player" => visit'[r].user = q.user
    BY <1>4, <1>5
  <2>4. InviteStillPending'
    BY <2>1, <2>2, <2>3 DEF InviteStillPending, OnInvite
  <2>5. OthersAdminister'
    BY <2>1, <2>2, <2>3 DEF OthersAdminister, TakesRole, OnMember
  <2>6. UpdateFits'
    BY <2>1, <2>2, <2>3 DEF UpdateFits, Fits, OnMember
  <2>7. CoachStillCoach'
    BY <2>1, <2>2, <2>3 DEF CoachStillCoach
  <2> QED
    BY <2>4, <2>5, <2>6, <2>7
<1>13. CameOnce'
  <2>1. ASSUME NEW m \in DOMAIN members, ~members[m].raced, members[m].from # 0,
               NEW s \in Visit, visit'[s].op \in OnInvite
        PROVE  visit'[s].invite # members[m].from
    <3>1. /\ invites[members[m].from].status = "accepted"
          /\ \A v \in Visit : visit[v].op \in OnInvite => visit[v].invite # members[m].from
      BY <2>1 DEF MembersInv, CameOnce
    <3>2. CASE s = r
      BY ZenonT(60), <1>4, <1>5, <2>1, <3>1, <3>2
    <3>3. CASE s # r
      BY ZenonT(60), <1>6, <2>1, <3>1, <3>3 DEF OnInvite
    <3> QED
      BY <3>2, <3>3
  <2> QED
    BY <1>3, <2>1 DEF MembersInv, CameOnce
<1> QED
  BY <1>9, <1>10, <1>11, <1>12, <1>13 DEF MembersInv

\* Who is still there when another one leaves has overlapped it.
LEMMA LeaveInv ==
  ASSUME MembersInv, NEW r \in Visit, visit[r].op # "away", Leave(r),
         Len(members) <= Len(members'), Len(invites') = Len(invites),
         members' \in Seq(Member), invites' \in Seq(OrgInvite)
  PROVE  /\ visit' \in [Visit -> Request]
         /\ \A s \in Visit : visit'[s].op # "away" =>
              s # r /\ visit'[s] = visit[s] /\ visit[s].raced
         /\ UnracedAlone' /\ InviteStillPending' /\ OthersAdminister' /\ UpdateFits'
         /\ CoachStillCoach'
         /\ \A s \in Visit :
              /\ visit'[s].op \in OnInvite => visit'[s].invite \in DOMAIN invites'
              /\ visit'[s].op \in OnMember => visit'[s].member \in DOMAIN members'
<1>1. /\ visit' = [visit EXCEPT ![r] = Away] /\ Away.op = "away" /\ Away \in Request
      /\ visit \in [Visit -> Request]
  BY DEF Leave, Away, Request, MembersInv, TablesTyped
<1>2. visit' \in [Visit -> Request]
  BY <1>1
<1>3. \A s \in Visit : visit'[s].op # "away" => s # r /\ visit'[s] = visit[s] /\ visit[s].raced
  BY <1>1 DEF MembersInv, UnracedAlone
<1>4. /\ UnracedAlone' /\ InviteStillPending' /\ OthersAdminister' /\ UpdateFits'
      /\ CoachStillCoach'
  BY <1>3
  DEF UnracedAlone, InviteStillPending, OthersAdminister, TakesRole, UpdateFits, CoachStillCoach,
      OnInvite
<1>5. DOMAIN members \subseteq DOMAIN members' /\ DOMAIN invites' = DOMAIN invites
  <2>1. members \in Seq(Member) /\ invites \in Seq(OrgInvite)
    BY DEF MembersInv, TablesTyped
  <2> QED
    BY <2>1
<1>6. ASSUME NEW s \in Visit
      PROVE  /\ visit'[s].op \in OnInvite => visit'[s].invite \in DOMAIN invites'
             /\ visit'[s].op \in OnMember => visit'[s].member \in DOMAIN members'
  BY <1>3, <1>5 DEF MembersInv, NothingDangles, OnInvite, OnMember
<1> QED
  BY <1>2, <1>3, <1>4, <1>6

-----------------------------------------------------------------------------
(* What a commit does to the tables *)

\* Who is a member once, with the program the role needs, by the link or raced.
MemberTypes ==
  /\ \A m \in DOMAIN members :
       members[m].person \in Person /\ members[m].role \in Role \cup {AsSent}
  /\ \A m, n \in DOMAIN members :
       <<members[m].person, members[m].role>> = <<members[n].person, members[n].role>> =>
         m = n \/ members[m].role = AsSent
  /\ \A m \in DOMAIN members : members[m].role \in NeedsProgram =>
       members[m].program \/ members[m].link \/ members[m].raced

\* A commit leaves nothing in flight to rely on what it changed.
LEMMA CommitInv ==
  ASSUME MembersInv, NEW r \in Visit, visit[r].op # "away", Leave(r),
         members' \in Seq(Member), invites' \in Seq(OrgInvite), roster' \in Seq(Player),
         team' \in CoachRow,
         Len(members) <= Len(members'), Len(invites') = Len(invites),
         \A m \in DOMAIN members' : members'[m].from \in 0..Len(invites),
         MemberTypes', \A i \in DOMAIN invites' : invites'[i].team => invites'[i].role = "coach",
         CameOnce', OrgKeepsAdmin', RosterFollowsCoach'
  PROVE  MembersInv'
<1>1. /\ visit' \in [Visit -> Request]
      /\ UnracedAlone' /\ InviteStillPending' /\ OthersAdminister' /\ UpdateFits'
      /\ CoachStillCoach'
      /\ \A s \in Visit :
           /\ visit'[s].op \in OnInvite => visit'[s].invite \in DOMAIN invites'
           /\ visit'[s].op \in OnMember => visit'[s].member \in DOMAIN members'
  BY LeaveInv
<1>2. TablesTyped' /\ OrgMembersTypeOK' /\ NothingDangles'
  BY <1>1 DEF TablesTyped, CoachRow, OrgMembersTypeOK, NothingDangles, MemberTypes
<1> QED
  BY <1>1, <1>2 DEF MembersInv

\* What came of invites stays, or is marked as raced; the requests that change
\* an invite are those that read it.
LEMMA CameOnceKept ==
  ASSUME MembersInv,
         \A m \in DOMAIN members' : ~members'[m].raced /\ members'[m].from # 0 =>
           m \in DOMAIN members /\ ~members[m].raced /\ members[m].from = members'[m].from,
         \A i \in DOMAIN invites : invites'[i].status # invites[i].status =>
           \/ invites'[i].status = "accepted"
           \/ \E r \in Visit : visit[r].op \in OnInvite /\ visit[r].invite = i,
         \A s \in Visit : visit'[s].op \in OnInvite =>
           visit[s].op \in OnInvite /\ visit'[s].invite = visit[s].invite
  PROVE  CameOnce'
<1> SUFFICES ASSUME NEW m \in DOMAIN members', ~members'[m].raced, members'[m].from # 0
             PROVE  /\ invites'[members'[m].from].status = "accepted"
                    /\ \A n \in DOMAIN members' :
                         ~members'[n].raced /\ members'[n].from = members'[m].from => n = m
                    /\ \A r \in Visit : visit'[r].op \in OnInvite =>
                         visit'[r].invite # members'[m].from
  BY DEF CameOnce
<1>1. PICK i \in DOMAIN invites : i = members'[m].from
  <2>1. members[m].from \in 0..Len(invites) /\ invites \in Seq(OrgInvite)
    BY DEF MembersInv, NothingDangles, TablesTyped
  <2> QED
    BY <2>1
<1>2. /\ invites[i].status = "accepted"
      /\ \A n \in DOMAIN members : ~members[n].raced /\ members[n].from = i => n = m
      /\ \A r \in Visit : visit[r].op \in OnInvite => visit[r].invite # i
  BY <1>1 DEF MembersInv, CameOnce
<1>3. invites'[i].status = "accepted"
  BY <1>2
<1>4. ASSUME NEW n \in DOMAIN members', ~members'[n].raced, members'[n].from = i
      PROVE  n = m
  BY <1>1, <1>2, <1>4
<1>5. \A r \in Visit : visit'[r].op \in OnInvite => visit'[r].invite # i
  BY <1>2
<1> QED
  BY <1>1, <1>3, <1>4, <1>5

\* A member is added who was none in this role.
LEMMA MemberAdded ==
  ASSUME MembersInv, NEW x \in Member, members' = Append(members, x),
         ~HasRow(x.person, x.role), x.role \in NeedsProgram => x.program \/ x.link
  PROVE  /\ members' \in Seq(Member)
         /\ DOMAIN members' = DOMAIN members \cup {Len(members) + 1}
         /\ Len(members) + 1 \notin DOMAIN members
         /\ Len(members') = Len(members) + 1 /\ Len(members) \in Nat
         /\ \A m \in DOMAIN members : members'[m] = members[m]
         /\ members'[Len(members) + 1] = x
         /\ MemberTypes' /\ OrgKeepsAdmin'
<1>1. members \in Seq(Member)
  BY DEF MembersInv, TablesTyped
<1>2. PICK k : k = Len(members) + 1
  OBVIOUS
<1>3. /\ members' \in Seq(Member) /\ DOMAIN members' = DOMAIN members \cup {k}
      /\ k \notin DOMAIN members /\ Len(members') = k /\ Len(members) \in Nat
      /\ \A m \in DOMAIN members : members'[m] = members[m]
      /\ members'[k] = x
  BY <1>1, <1>2, RowAdded
<1>4. MemberTypes
  BY DEF MembersInv, OrgMembersTypeOK, MemberTypes
<1>5. \A m \in DOMAIN members : <<members[m].person, members[m].role>> # <<x.person, x.role>>
  BY DEF HasRow
<1>6. x.person \in Person /\ x.role \in Role \cup {AsSent}
  BY DEF Member
<1>7. MemberTypes'
  BY <1>3, <1>4, <1>5, <1>6 DEF MemberTypes
<1>8. OrgKeepsAdmin'
  <2>1. CASE \E p \in Person : Acts(p, "org_admin")
    <3>1. \E p \in Person : Acts(p, "org_admin")'
      BY <1>3, <2>1 DEF Acts
    <3> QED
      BY <3>1 DEF OrgKeepsAdmin
  <2>2. CASE \E m \in DOMAIN members : members[m].raced
    BY <1>3, <2>2 DEF OrgKeepsAdmin
  <2> QED
    BY <2>1, <2>2 DEF MembersInv, OrgKeepsAdmin
<1> QED
  BY <1>2, <1>3, <1>7, <1>8

\* An invite is used up.
LEMMA InviteBurnt ==
  ASSUME MembersInv, NEW i \in DOMAIN invites, NEW status \in {"accepted", "cancelled"}, NEW y,
         y = Burnt(i, status) \/ \E p \in Person : y = [Burnt(i, status) EXCEPT !.person = p],
         invites' = [invites EXCEPT ![i] = y]
  PROVE  /\ invites' \in Seq(OrgInvite) /\ DOMAIN invites' = DOMAIN invites
         /\ Len(invites') = Len(invites)
         /\ invites'[i].status = status
         /\ \A j \in DOMAIN invites \ {i} : invites'[j] = invites[j]
         /\ \A j \in DOMAIN invites' : invites'[j].team => invites'[j].role = "coach"
<1>1. invites \in Seq(OrgInvite) /\ invites[i] \in OrgInvite
  BY DEF MembersInv, TablesTyped
<1>2. Burnt(i, status) \in OrgInvite
  BY <1>1 DEF Burnt, OrgInvite
<1>3. /\ y \in OrgInvite /\ y.status = status
      /\ y.team = invites[i].team /\ y.role = invites[i].role
  <2>1. CASE y = Burnt(i, status)
    BY <1>1, <1>2, <2>1 DEF Burnt, OrgInvite
  <2>2. ASSUME NEW p \in Person, y = [Burnt(i, status) EXCEPT !.person = p] PROVE <1>3!:
    BY <1>1, <2>2 DEF Burnt, OrgInvite
  <2> QED
    BY <2>1, <2>2
<1>4. /\ invites' \in Seq(OrgInvite) /\ DOMAIN invites' = DOMAIN invites
      /\ Len(invites') = Len(invites) /\ invites'[i] = y
      /\ \A j \in DOMAIN invites \ {i} : invites'[j] = invites[j]
  BY <1>1, <1>2, <1>3, RowReplaced
<1>5. \A j \in DOMAIN invites' : invites'[j].team => invites'[j].role = "coach"
  BY <1>3, <1>4 DEF MembersInv, OrgMembersTypeOK
<1> QED
  BY <1>3, <1>4, <1>5

\* An invite is cancelled.
LEMMA CancelInv ==
  ASSUME MembersInv, NEW r \in Visit, CancelCommit(r)
  PROVE  MembersInv'
<1>1. /\ visit[r].op = "cancel" /\ visit[r].invite \in DOMAIN invites /\ Leave(r)
      /\ UNCHANGED <<members, team, roster>> /\ visit[r].op # "away"
  BY DEF CancelCommit, MembersInv, NothingDangles, OnInvite
<1>2. PICK i \in DOMAIN invites : i = visit[r].invite
  BY <1>1
<1>3. invites' = [invites EXCEPT ![i] = Burnt(i, "cancelled")]
  BY <1>2 DEF CancelCommit
<1>4. /\ invites' \in Seq(OrgInvite) /\ Len(invites') = Len(invites)
      /\ \A j \in DOMAIN invites \ {i} : invites'[j] = invites[j]
      /\ \A j \in DOMAIN invites' : invites'[j].team => invites'[j].role = "coach"
  BY <1>3, InviteBurnt
<1>5. CameOnce'
  <2>1. \A s \in Visit : visit'[s].op \in OnInvite =>
          visit[s].op \in OnInvite /\ visit'[s].invite = visit[s].invite
    BY SMTT(30), <1>1, <1>4, LeaveInv DEF OnInvite, MembersInv, TablesTyped
  <2>2. \A m \in DOMAIN members' : ~members'[m].raced /\ members'[m].from # 0 =>
          m \in DOMAIN members /\ ~members[m].raced /\ members[m].from = members'[m].from
    BY <1>1
  <2>3. \A j \in DOMAIN invites : invites'[j].status # invites[j].status =>
          \E s \in Visit : visit[s].op \in OnInvite /\ visit[s].invite = j
    BY <1>1, <1>2, <1>4 DEF OnInvite
  <2> QED
    BY <2>1, <2>2, <2>3, CameOnceKept
<1>6. OrgKeepsAdmin' /\ RosterFollowsCoach' /\ MemberTypes'
  BY <1>1
  DEF MembersInv, OrgKeepsAdmin, RosterFollowsCoach, Acts, OrgMembersTypeOK, MemberTypes
<1>7. /\ members' \in Seq(Member) /\ roster' \in Seq(Player) /\ Len(members) <= Len(members')
      /\ team' \in CoachRow
      /\ \A m \in DOMAIN members' : members'[m].from \in 0..Len(invites)
  BY <1>1 DEF MembersInv, TablesTyped, NothingDangles
<1> QED
  BY <1>1, <1>4, <1>5, <1>6, <1>7, CommitInv

\* A member comes of the invite that is used up with it.
LEMMA CameNow ==
  ASSUME MembersInv, NEW r \in Visit, visit[r].op \in {"accept", "redeem"}, Leave(r),
         NEW x \in Member, x.from = visit[r].invite, x.raced = visit[r].raced,
         members' = Append(members, x), ~HasRow(x.person, x.role),
         x.role \in NeedsProgram => x.program \/ x.link,
         invites' \in Seq(OrgInvite), Len(invites') = Len(invites),
         invites'[visit[r].invite].status = "accepted",
         \A j \in DOMAIN invites \ {visit[r].invite} : invites'[j] = invites[j]
  PROVE  CameOnce' /\ \A m \in DOMAIN members' : members'[m].from \in 0..Len(invites)
<1>1. PICK i \in DOMAIN invites : i = visit[r].invite
  BY DEF MembersInv, NothingDangles, OnInvite
<1>2. PICK k \in Nat :
        /\ DOMAIN members' = DOMAIN members \cup {k} /\ k \notin DOMAIN members
        /\ \A m \in DOMAIN members : members'[m] = members[m]
        /\ members'[k] = x /\ Len(members) <= Len(members') /\ members' \in Seq(Member)
  <2>1. Len(members) \in Nat /\ Len(members') = Len(members) + 1
    BY MemberAdded
  <2>2. Len(members) + 1 \in Nat /\ Len(members) <= Len(members')
    BY <2>1
  <2> QED
    BY <2>2, MemberAdded
<1>3. \A s \in Visit : visit'[s].op # "away" =>
        s # r /\ visit'[s] = visit[s] /\ visit[s].op # "away"
  BY <1>2, LeaveInv
<1>4. \A m \in DOMAIN members' : members'[m].from \in 0..Len(invites)
  <2>1. i \in 0..Len(invites)
    BY <1>1 DEF MembersInv, TablesTyped
  <2> QED
    BY <1>1, <1>2, <2>1 DEF MembersInv, NothingDangles
<1>5. CASE visit[r].raced
  <2>1. \A m \in DOMAIN members' : ~members'[m].raced /\ members'[m].from # 0 =>
          m \in DOMAIN members /\ ~members[m].raced /\ members[m].from = members'[m].from
    BY <1>2, <1>5
  <2>2. \A j \in DOMAIN invites : invites'[j].status # invites[j].status =>
          invites'[j].status = "accepted"
    OBVIOUS
  <2>3. \A s \in Visit : visit'[s].op \in OnInvite =>
          visit[s].op \in OnInvite /\ visit'[s].invite = visit[s].invite
    BY <1>3 DEF OnInvite
  <2>4. CameOnce'
    BY <2>1, <2>2, <2>3, CameOnceKept
  <2> QED
    BY <1>4, <2>4
<1>6. CASE ~visit[r].raced
  <2>1. \A s \in Visit : visit'[s].op = "away"
    BY <1>3, <1>6 DEF MembersInv, UnracedAlone
  <2>2. \A m \in DOMAIN members : ~members[m].raced /\ members[m].from # 0 => members[m].from # i
    <3>1. invites[i].status = "pending"
      BY <1>1, <1>6 DEF MembersInv, InviteStillPending, OnInvite
    <3> QED
      BY <3>1 DEF MembersInv, CameOnce
  <2>3. i # 0
    BY <1>1 DEF MembersInv, TablesTyped
  <2>4. ASSUME NEW m \in DOMAIN members', ~members'[m].raced, members'[m].from # 0
        PROVE  /\ invites'[members'[m].from].status = "accepted"
               /\ \A n \in DOMAIN members' :
                    ~members'[n].raced /\ members'[n].from = members'[m].from => n = m
    <3>1. CASE m = k
      BY <1>1, <1>2, <2>2, <2>3, <3>1
    <3>2. CASE m # k
      <4>1. m \in DOMAIN members /\ members'[m] = members[m] /\ members[m].from # i
        BY <1>2, <2>2, <2>4, <3>2
      <4>2. members[m].from \in DOMAIN invites
        BY <2>4, <4>1 DEF MembersInv, NothingDangles, TablesTyped
      <4>3. invites'[members[m].from].status = "accepted"
        BY <1>1, <2>4, <4>1, <4>2 DEF MembersInv, CameOnce
      <4>4. \A n \in DOMAIN members' :
              ~members'[n].raced /\ members'[n].from = members'[m].from => n = m
        BY <1>1, <1>2, <2>4, <4>1 DEF MembersInv, CameOnce
      <4> QED
        BY <4>1, <4>3, <4>4
    <3> QED
      BY <3>1, <3>2
  <2>5. CameOnce'
    BY <2>1, <2>4 DEF CameOnce, OnInvite
  <2> QED
    BY <1>4, <2>5
<1> QED
  BY <1>5, <1>6 DEF MembersInv, TablesTyped

\* The link of an invite is followed.
LEMMA AcceptInv ==
  ASSUME MembersInv, NEW r \in Visit, AcceptCommit(r)
  PROVE  MembersInv'
<1>1. /\ visit[r].op = "accept" /\ visit[r].invite \in DOMAIN invites /\ Leave(r)
      /\ UNCHANGED <<team, roster>> /\ visit[r].op # "away" /\ visit[r] \in Request
  BY DEF AcceptCommit, MembersInv, NothingDangles, OnInvite, TablesTyped
<1>2. PICK i \in DOMAIN invites : i = visit[r].invite
  BY <1>1
<1>3. invites' = [invites EXCEPT ![i] = Burnt(i, "accepted")]
  BY <1>2 DEF AcceptCommit
<1>4. /\ invites' \in Seq(OrgInvite) /\ Len(invites') = Len(invites)
      /\ invites'[i].status = "accepted"
      /\ \A j \in DOMAIN invites \ {i} : invites'[j] = invites[j]
      /\ \A j \in DOMAIN invites' : invites'[j].team => invites'[j].role = "coach"
  BY <1>3, InviteBurnt
<1>5. /\ members' \in Seq(Member) /\ Len(members) <= Len(members') /\ CameOnce'
      /\ \A m \in DOMAIN members' : members'[m].from \in 0..Len(invites)
      /\ MemberTypes' /\ OrgKeepsAdmin'
  <2>1. CASE UNCHANGED members
    <3>1. members' \in Seq(Member) /\ Len(members) <= Len(members')
      BY <2>1 DEF MembersInv, TablesTyped
    <3>2. \A s \in Visit : visit'[s].op \in OnInvite =>
            visit[s].op \in OnInvite /\ visit'[s].invite = visit[s].invite
      BY <1>1, <1>4, <3>1, LeaveInv DEF OnInvite
    <3>3. \A m \in DOMAIN members' : ~members'[m].raced /\ members'[m].from # 0 =>
            m \in DOMAIN members /\ ~members[m].raced /\ members[m].from = members'[m].from
      BY <2>1
    <3>4. \A j \in DOMAIN invites : invites'[j].status # invites[j].status =>
            invites'[j].status = "accepted"
      BY <1>4
    <3>5. CameOnce'
      BY <3>2, <3>3, <3>4, CameOnceKept
    <3>6. OrgKeepsAdmin' /\ MemberTypes'
      BY <2>1 DEF MembersInv, OrgKeepsAdmin, Acts, OrgMembersTypeOK, MemberTypes
    <3> QED
      BY <2>1, <3>1, <3>5, <3>6 DEF MembersInv, NothingDangles
  <2>2. CASE ~UNCHANGED members
    <3> DEFINE p == invites[i].person
               role == invites[i].role
               new == NewMember(p, role, i, visit[r].raced)
    <3>1. /\ members' = Append(members, [new EXCEPT !.program = FALSE, !.link = TRUE])
          /\ ~HasRow(p, role)
      BY <1>2, <2>2 DEF AcceptCommit
    <3>2. p \in Person /\ role \in Role /\ i \in Nat /\ visit[r].raced \in BOOLEAN
      <4>1. invites[i] \in OrgInvite
        BY DEF MembersInv, TablesTyped
      <4> QED
        BY <1>1, <4>1, RequestShape DEF OrgInvite, MembersInv, TablesTyped
    <3>3. /\ new \in Member /\ new.person = p /\ new.role = role
          /\ new.from = i /\ new.raced = visit[r].raced
      BY <3>2, NewMemberShape
    <3> HIDE DEF new
    <3>4. PICK x \in Member :
            /\ members' = Append(members, x) /\ x.person = p /\ x.role = role /\ x.link
            /\ x.from = visit[r].invite /\ x.raced = visit[r].raced
      <4> DEFINE y == [new EXCEPT !.program = FALSE, !.link = TRUE]
      <4>1. /\ y \in Member /\ y.person = p /\ y.role = role /\ y.link
            /\ y.from = i /\ y.raced = visit[r].raced
        BY <3>3 DEF Member
      <4> QED
        BY <1>2, <3>1, <4>1
    <3>5. ~HasRow(x.person, x.role) /\ (x.role \in NeedsProgram => x.program \/ x.link)
      BY <3>1, <3>4
    <3>6. /\ members' \in Seq(Member) /\ Len(members') = Len(members) + 1
          /\ Len(members) \in Nat /\ MemberTypes' /\ OrgKeepsAdmin'
      BY <3>4, <3>5, MemberAdded
    <3>7. CameOnce' /\ \A m \in DOMAIN members' : members'[m].from \in 0..Len(invites)
      BY <1>1, <1>2, <1>4, <3>4, <3>5, CameNow
    <3> QED
      BY <3>6, <3>7
  <2> QED
    BY <2>1, <2>2
<1>6. /\ roster' \in Seq(Player) /\ RosterFollowsCoach'
      /\ team' \in CoachRow
  BY <1>1 DEF MembersInv, TablesTyped, RosterFollowsCoach
<1> QED
  BY <1>1, <1>4, <1>5, <1>6, CommitInv

\* The code of an invite is entered; team and roster go to the new coach.
LEMMA RedeemInv ==
  ASSUME MembersInv, NEW r \in Visit, RedeemCommit(r)
  PROVE  MembersInv'
<1>1. /\ visit[r].op = "redeem" /\ visit[r].invite \in DOMAIN invites /\ Leave(r)
      /\ visit[r].op # "away" /\ visit[r] \in Request
  BY DEF RedeemCommit, MembersInv, NothingDangles, OnInvite, TablesTyped
<1>2. PICK i \in DOMAIN invites : i = visit[r].invite
  BY <1>1
<1>3. PICK p \in Person : p = visit[r].person
  BY <1>1, RequestShape
<1> DEFINE role == invites[i].role
           new == NewMember(p, role, i, visit[r].raced)
<1>4. /\ invites' = [invites EXCEPT ![i] = [Burnt(i, "accepted") EXCEPT !.person = p]]
      /\ members' = Append(members, new) /\ ~HasRow(p, role)
  BY <1>2, <1>3 DEF RedeemCommit
<1>5. /\ invites' \in Seq(OrgInvite) /\ Len(invites') = Len(invites)
      /\ invites'[i].status = "accepted"
      /\ \A j \in DOMAIN invites \ {i} : invites'[j] = invites[j]
      /\ \A j \in DOMAIN invites' : invites'[j].team => invites'[j].role = "coach"
  BY <1>4, InviteBurnt
<1>6. role \in Role /\ i \in Nat /\ visit[r].raced \in BOOLEAN
  <2>1. invites[i] \in OrgInvite
    BY DEF MembersInv, TablesTyped
  <2> QED
    BY <1>1, <2>1, RequestShape DEF OrgInvite, MembersInv, TablesTyped
<1>7. /\ new \in Member /\ new.person = p /\ new.role = role
      /\ new.from = i /\ new.raced = visit[r].raced
      /\ role \in NeedsProgram => new.program
  BY <1>6, NewMemberShape
<1> HIDE DEF new
<1>8. PICK x \in Member :
        /\ members' = Append(members, x) /\ x.person = p /\ x.role = role
        /\ x.role \in NeedsProgram => x.program \/ x.link
        /\ x.from = visit[r].invite /\ x.raced = visit[r].raced
  BY <1>2, <1>4, <1>7
<1>9. ~HasRow(x.person, x.role)
  BY <1>4, <1>8
<1>10. /\ members' \in Seq(Member) /\ Len(members) <= Len(members')
       /\ MemberTypes' /\ OrgKeepsAdmin'
  <2>1. /\ members' \in Seq(Member) /\ Len(members') = Len(members) + 1
        /\ Len(members) \in Nat /\ MemberTypes' /\ OrgKeepsAdmin'
    BY <1>8, <1>9, MemberAdded
  <2> QED
    BY <2>1
<1>11. CameOnce' /\ \A m \in DOMAIN members' : members'[m].from \in 0..Len(invites)
  BY <1>1, <1>2, <1>5, <1>8, <1>9, CameNow
<1>12. /\ roster' \in Seq(Player) /\ RosterFollowsCoach'
       /\ team' \in CoachRow
  <2>1. /\ roster \in Seq(Player)
        /\ team \in CoachRow
    BY DEF MembersInv, TablesTyped
  <2>2. CASE UNCHANGED <<team, roster>>
    BY <2>1, <2>2 DEF MembersInv, RosterFollowsCoach
  <2>3. CASE ~UNCHANGED <<team, roster>>
    <3>1. /\ team' = [team EXCEPT !.coach = p, !.active = team.active \cup {p}]
          /\ roster' = [y \in DOMAIN roster |-> [roster[y] EXCEPT !.user = p, !.mark = "none"]]
      BY <1>3, <2>3 DEF RedeemCommit, HandOff
    <3>2. \A z \in Player : /\ [z EXCEPT !.user = p, !.mark = "none"] \in Player
                             /\ [z EXCEPT !.user = p, !.mark = "none"].user = p
      BY DEF Player
    <3>3. roster' \in Seq(Player) /\ \A y \in DOMAIN roster' : roster'[y].user = p
      <4>1. \A y \in DOMAIN roster : roster[y] \in Player
        BY <2>1
      <4>2. \A y \in DOMAIN roster : roster'[y] = [roster[y] EXCEPT !.user = p, !.mark = "none"]
        BY <3>1
      <4>3. roster' = [y \in DOMAIN roster |-> roster'[y]]
        BY <3>1
      <4>4. \A y \in DOMAIN roster : roster'[y] \in Player /\ roster'[y].user = p
        BY ZenonT(60), <3>2, <4>1, <4>2
      <4> QED
        BY <2>1, <4>3, <4>4, RowsChanged
    <3>4. team' \in CoachRow /\ team'.coach = p
      <4>1. PICK S \in SUBSET Person : S = team.active \cup {p}
        BY <2>1 DEF CoachRow
      <4>2. team' = [team EXCEPT !.coach = p, !.active = S]
        BY <3>1, <4>1
      <4> QED
        BY <2>1, <4>2 DEF CoachRow
    <3> QED
      BY <3>3, <3>4 DEF RosterFollowsCoach
  <2> QED
    BY <2>2, <2>3
<1> QED
  BY <1>1, <1>5, <1>10, <1>11, <1>12, CommitInv

\* A member is changed or removed: another administrator was seen, the role
\* stays, or the member is marked.
LEMMA MemberChanged ==
  ASSUME MembersInv, NEW r \in Visit, visit[r].op \in OnMember, Leave(r),
         NEW m \in DOMAIN members, m = visit[r].member, NEW y \in Member,
         members' = [members EXCEPT ![m] = y], UNCHANGED <<invites, team, roster>>,
         y.person = members[m].person, y.from = members[m].from,
         y.raced <=> members[m].raced \/ visit[r].raced,
         y.role \in {members[m].role, AsSent} \/ ~HasRow(y.person, y.role),
         TakesRole(visit[r]) \/ (y.role = members[m].role /\ y.status = members[m].status),
         y.role \in NeedsProgram => y.program \/ y.link \/ y.raced
  PROVE  MembersInv'
<1>1. /\ members \in Seq(Member) /\ members' \in Seq(Member)
      /\ DOMAIN members' = DOMAIN members /\ Len(members') = Len(members)
      /\ Len(members) \in Nat
      /\ members'[m] = y /\ \A n \in DOMAIN members \ {m} : members'[n] = members[n]
  BY RowReplaced DEF MembersInv, TablesTyped
<1>2. visit[r].op # "away"
  BY DEF OnMember
<1>3. CameOnce'
  <2>1. \A s \in Visit : visit'[s].op \in OnInvite =>
          visit[s].op \in OnInvite /\ visit'[s].invite = visit[s].invite
    BY DEF Leave, MembersInv, TablesTyped, Away, OnInvite
  <2>2. \A n \in DOMAIN members' : ~members'[n].raced /\ members'[n].from # 0 =>
          n \in DOMAIN members /\ ~members[n].raced /\ members[n].from = members'[n].from
    BY <1>1
  <2> QED
    BY <2>1, <2>2, CameOnceKept
<1>4. MemberTypes'
  <2>1. MemberTypes
    BY DEF MembersInv, OrgMembersTypeOK, MemberTypes
  <2>2. \A n \in DOMAIN members \ {m} :
          <<members[n].person, members[n].role>> = <<y.person, y.role>> => y.role = AsSent
    <3>1. CASE y.role = members[m].role
      BY <2>1, <3>1 DEF MemberTypes
    <3>2. CASE ~HasRow(y.person, y.role)
      BY <3>2 DEF HasRow
    <3> QED
      BY <3>1, <3>2
  <2>3. y.person \in Person /\ y.role \in Role \cup {AsSent}
    BY DEF Member
  <2> QED
    BY <1>1, <2>1, <2>2, <2>3 DEF MemberTypes
<1>5. OrgKeepsAdmin'
  <2>1. CASE visit[r].raced
    BY <1>1, <2>1 DEF OrgKeepsAdmin
  <2>2. CASE \E n \in DOMAIN members : members[n].raced
    BY <1>1, <2>2 DEF OrgKeepsAdmin
  <2>3. ASSUME NEW n \in DOMAIN members \ {m}, members[n].role = "org_admin",
               members[n].status = "active"
        PROVE  OrgKeepsAdmin'
    <3>1. members[n].person \in Person
      BY DEF MembersInv, OrgMembersTypeOK
    <3>2. Acts(members[n].person, "org_admin")'
      BY <1>1, <2>3 DEF Acts
    <3> QED
      BY <1>1, <3>1, <3>2 DEF OrgKeepsAdmin
  <2>4. CASE y.role = members[m].role /\ y.status = members[m].status
    <3>1. ASSUME NEW p \in Person, Acts(p, "org_admin") PROVE Acts(p, "org_admin")'
      BY <1>1, <2>4, <3>1 DEF Acts
    <3> QED
      BY <1>1, <2>2, <3>1 DEF MembersInv, OrgKeepsAdmin
  <2> QED
    BY <2>1, <2>2, <2>3, <2>4 DEF MembersInv, OthersAdminister
<1>6. /\ invites' \in Seq(OrgInvite) /\ roster' \in Seq(Player) /\ Len(invites') = Len(invites)
      /\ team' \in CoachRow
      /\ Len(members) <= Len(members')
      /\ \A n \in DOMAIN members' : members'[n].from \in 0..Len(invites)
      /\ \A i \in DOMAIN invites' : invites'[i].team => invites'[i].role = "coach"
      /\ RosterFollowsCoach'
  BY <1>1 DEF MembersInv, TablesTyped, NothingDangles, OrgMembersTypeOK, RosterFollowsCoach
<1> QED
  BY <1>1, <1>2, <1>3, <1>4, <1>5, <1>6, CommitInv

LEMMA MemberCommitsInv ==
  ASSUME MembersInv, NEW r \in Visit, UpdateMemberCommit(r) \/ RemoveMemberCommit(r)
  PROVE  MembersInv'
<1>1. /\ visit[r].op \in OnMember /\ visit[r].member \in DOMAIN members /\ Leave(r)
      /\ visit[r] \in Request /\ visit[r].op # "away"
      /\ UNCHANGED <<invites, team, roster>>
  BY DEF UpdateMemberCommit, RemoveMemberCommit, OnMember, MembersInv, NothingDangles, TablesTyped
<1>2. PICK m \in DOMAIN members : m = visit[r].member
  BY <1>1
<1>3. PICK x \in Member : x = members[m]
  BY DEF MembersInv, TablesTyped
<1>4. visit[r].raced \in BOOLEAN /\ x.raced \in BOOLEAN
  BY <1>1, RequestShape DEF Member
<1>5. PICK b \in BOOLEAN : b <=> x.raced \/ visit[r].raced
  OBVIOUS
<1>6. b = (x.raced \/ visit[r].raced)
  BY <1>4, <1>5, Zenon
<1>7. CASE UpdateMemberCommit(r)
  <2> DEFINE q == visit[r]
             role == IF "role" \in q.writes THEN q.role ELSE x.role
             c == IF "program" \in q.writes THEN q.program ELSE x.program
             w == [x EXCEPT !.role = role, !.program = c, !.link = FALSE]
             y == [w EXCEPT !.raced = b]
  <2>1. q.op = "update" /\ q.role \in Role \cup {AsSent} /\ q.program \in BOOLEAN
    BY <1>1, <1>7, RequestShape DEF UpdateMemberCommit
  <2>2. role \in Role \cup {AsSent} /\ c \in BOOLEAN
    BY <2>1 DEF Member
  <2>3. ~b /\ role \in NeedsProgram => c
    <3>1. ~b => ~q.raced
      BY <1>5
    <3>2. ~q.raced => /\ q.role \in NeedsProgram => q.program
                      /\ "role" \notin q.writes => x.role = q.role
                      /\ "program" \notin q.writes => x.program = q.program
      BY <1>2, <1>3, <2>1 DEF MembersInv, UpdateFits, Fits
    <3> QED
      BY <3>1, <3>2
  <2>4. role \in {x.role, AsSent} \/ ~HasRow(x.person, role)
    BY <1>2, <1>3, <1>7 DEF UpdateMemberCommit
  <2>5. TakesRole(q) \/ role = x.role
    BY <2>1 DEF TakesRole
  <2>6. Moved(m, q) = w
    BY <1>3 DEF Moved
  <2> HIDE DEF role, c
  <2>7. /\ w \in Member /\ w.raced = x.raced /\ w.person = x.person /\ w.from = x.from
        /\ w.role = role /\ w.program = c /\ w.status = x.status
    BY <2>2 DEF Member
  <2> HIDE DEF w
  <2>8. /\ y \in Member /\ y.raced = b /\ y.person = x.person /\ y.from = x.from
        /\ y.role = role /\ y.program = c /\ y.status = x.status
    BY <2>7 DEF Member
  <2>9. members' = [members EXCEPT ![m] = y]
    <3>1. members' = [members EXCEPT ![m] = [w EXCEPT !.raced = w.raced \/ q.raced]]
      BY <1>2, <1>7, <2>6 DEF UpdateMemberCommit
    <3>2. b = (w.raced \/ q.raced)
      BY <1>6, <2>7
    <3> QED
      BY <3>1, <3>2
  <2> HIDE DEF y, q
  <2>10. PICK z \in Member : z = y
    BY <2>8
  <2>11. /\ members' = [members EXCEPT ![m] = z] /\ z.person = members[m].person
         /\ z.from = members[m].from /\ (z.raced <=> members[m].raced \/ visit[r].raced)
         /\ z.role \in {members[m].role, AsSent} \/ ~HasRow(z.person, z.role)
         /\ TakesRole(visit[r]) \/ (z.role = members[m].role /\ z.status = members[m].status)
         /\ z.role \in NeedsProgram => z.program \/ z.link \/ z.raced
    BY <1>3, <1>5, <2>3, <2>4, <2>5, <2>8, <2>9, <2>10 DEF q
  <2> QED
    BY <1>1, <1>2, <2>11, MemberChanged
<1>8. CASE RemoveMemberCommit(r)
  <2>1. PICK y \in Member : /\ y = [x EXCEPT !.status = "removed", !.raced = b]
                            /\ y.raced = b /\ y.person = x.person /\ y.from = x.from
                            /\ y.role = x.role /\ y.program = x.program /\ y.link = x.link
    <3> DEFINE w == [x EXCEPT !.status = "removed", !.raced = b]
    <3>1. /\ w \in Member /\ w.raced = b /\ w.person = x.person /\ w.from = x.from
          /\ w.role = x.role /\ w.program = x.program /\ w.link = x.link
      BY DEF Member
    <3> HIDE DEF w
    <3> QED
      BY <3>1 DEF w
  <2>2. members' = [members EXCEPT ![m] = y]
    <3>1. members' = [members EXCEPT ![m].status = "removed", ![m].raced = b]
      BY <1>2, <1>3, <1>6, <1>8, Zenon DEF RemoveMemberCommit
    <3> QED
      BY <1>3, <2>1, <3>1 DEF MembersInv, TablesTyped
  <2>3. y.role \in NeedsProgram => y.program \/ y.link \/ y.raced
    BY <1>3, <1>5, <2>1 DEF MembersInv, OrgMembersTypeOK
  <2>4. TakesRole(visit[r])
    BY <1>8 DEF TakesRole, RemoveMemberCommit
  <2> QED
    BY ZenonT(60), <1>1, <1>2, <1>3, <1>5, <2>1, <2>2, <2>3, <2>4, MemberChanged
<1> QED
  BY <1>7, <1>8

\* A player is added for whoever was the coach when the request came.
LEMMA PlayerInv ==
  ASSUME MembersInv, NEW r \in Visit, CreatePlayerCommit(r)
  PROVE  MembersInv'
<1>1. /\ visit[r].op = "player" /\ visit[r].op # "away" /\ Leave(r) /\ visit[r] \in Request
      /\ UNCHANGED <<members, invites, team>>
  BY DEF CreatePlayerCommit, MembersInv, TablesTyped
<1>2. PICK x \in Player : /\ roster' = Append(roster, x)
                          /\ x.user = visit[r].user
                          /\ x.mark = "none" => ~visit[r].raced
  <2>1. PICK u \in Person \cup {NoOne}, b \in BOOLEAN : u = visit[r].user /\ b = visit[r].raced
    BY <1>1, RequestShape
  <2> DEFINE w == [user |-> u, active |-> TRUE, mark |-> IF b THEN "raced" ELSE "none"]
  <2>2. w \in Player /\ w.user = u /\ (w.mark = "none" => ~b)
    BY DEF Player
  <2>3. roster' = Append(roster, w)
    BY <2>1 DEF CreatePlayerCommit
  <2> HIDE DEF w
  <2> QED
    BY <2>1, <2>2, <2>3
<1>3. roster \in Seq(Player)
  BY DEF MembersInv, TablesTyped
<1>4. /\ roster' \in Seq(Player) /\ DOMAIN roster' = DOMAIN roster \cup {Len(roster) + 1}
      /\ \A k \in DOMAIN roster : roster'[k] = roster[k]
      /\ roster'[Len(roster) + 1] = x
  BY <1>2, <1>3, RowAdded
<1>5. RosterFollowsCoach'
  <2>1. x.mark = "none" => x.user = team.coach
    BY <1>1, <1>2 DEF MembersInv, CoachStillCoach
  <2> QED
    BY <1>1, <1>4, <2>1 DEF MembersInv, RosterFollowsCoach
<1>6. CameOnce'
  <2>1. \A s \in Visit : visit'[s].op \in OnInvite =>
          visit[s].op \in OnInvite /\ visit'[s].invite = visit[s].invite
    BY <1>1 DEF Leave, MembersInv, TablesTyped, Away, OnInvite
  <2>2. \A n \in DOMAIN members' : ~members'[n].raced /\ members'[n].from # 0 =>
          n \in DOMAIN members /\ ~members[n].raced /\ members[n].from = members'[n].from
    BY <1>1
  <2> QED
    BY <1>1, <2>1, <2>2, CameOnceKept
<1>7. OrgKeepsAdmin' /\ MemberTypes'
  BY <1>1 DEF MembersInv, OrgKeepsAdmin, Acts, OrgMembersTypeOK, MemberTypes
<1>8. /\ members' \in Seq(Member) /\ invites' \in Seq(OrgInvite)
      /\ Len(members) <= Len(members') /\ Len(invites') = Len(invites)
      /\ team' \in CoachRow
      /\ \A n \in DOMAIN members' : members'[n].from \in 0..Len(invites)
      /\ \A i \in DOMAIN invites' : invites'[i].team => invites'[i].role = "coach"
  BY <1>1 DEF MembersInv, TablesTyped, NothingDangles, OrgMembersTypeOK
<1> QED
  BY <1>1, <1>4, <1>5, <1>6, <1>7, <1>8, CommitInv

\* A request reads, or ends without a commit.
LEMMA VisitsInv ==
  ASSUME MembersInv, NEW r \in Visit,
         \/ \E i \in DOMAIN invites :
              CancelRead(r, i) \/ AcceptRead(r, i) \/ \E p \in Person : RedeemRead(r, i, p)
         \/ \E p \in Person, m \in DOMAIN members :
              \/ RemoveMemberRead(r, p, m)
              \/ \E role \in Role \cup {AsSent}, program \in BOOLEAN :
                   UpdateMemberRead(r, p, m, role, program)
         \/ \E p \in Person : AssignCoachRead(r, p)
         \/ UnassignCoachRead(r)
         \/ CreatePlayerRead(r)
         \/ Refuse(r)
  PROVE  MembersInv'
<1>1. \A i \in DOMAIN invites : i \in Nat
  BY DEF MembersInv, TablesTyped
<1>2. \A m \in DOMAIN members : m \in Nat
  BY DEF MembersInv, TablesTyped
<1>3. ASSUME NEW i \in DOMAIN invites, CancelRead(r, i) \/ AcceptRead(r, i)
      PROVE  MembersInv'
  <2>1. PICK op \in {"cancel", "accept"} : Arrive(r, [op |-> op, invite |-> i, raced |-> FALSE])
    BY <1>3 DEF CancelRead, AcceptRead
  <2> DEFINE q == [op |-> op, invite |-> i, raced |-> FALSE]
  <2>2. q \in Request /\ q.op \in OnInvite /\ q.invite = i /\ q.raced = FALSE
    BY <1>1 DEF Request, OnInvite
  <2>3. invites[i].status = "pending"
    BY <1>3 DEF CancelRead, AcceptRead, Pending
  <2> HIDE DEF q
  <2>4. Arrive(r, q)
    BY <2>1 DEF q
  <2> QED
    BY <2>2, <2>3, <2>4, ArriveInv DEF OnInvite, OnMember, TakesRole
<1>4. ASSUME NEW i \in DOMAIN invites, NEW p \in Person, RedeemRead(r, i, p)
      PROVE  MembersInv'
  <2> DEFINE q == [op |-> "redeem", invite |-> i, person |-> p, coach |-> Unread, raced |-> FALSE]
  <2>1. q \in Request /\ q.op = "redeem" /\ q.invite = i /\ q.raced = FALSE
    BY <1>1 DEF Request
  <2>2. invites[i].status = "pending" /\ Arrive(r, q)
    BY <1>4 DEF RedeemRead, Pending
  <2> HIDE DEF q
  <2> QED
    BY <2>1, <2>2, ArriveInv DEF OnMember, TakesRole
<1>5. ASSUME NEW p \in Person, NEW m \in DOMAIN members, Acts(p, "org_admin"),
             ~(members[m].person = p /\ members[m].role = "org_admin")
      PROVE  \E n \in DOMAIN members \ {m} :
               members[n].role = "org_admin" /\ members[n].status = "active"
  BY <1>5 DEF Acts
<1>6. ASSUME NEW p \in Person, NEW m \in DOMAIN members, RemoveMemberRead(r, p, m)
      PROVE  MembersInv'
  <2> DEFINE q == [op |-> "remove", member |-> m, raced |-> FALSE]
  <2>1. q \in Request /\ q.op = "remove" /\ q.member = m /\ q.raced = FALSE
    BY <1>2 DEF Request
  <2>2. Arrive(r, q) /\ Acts(p, "org_admin") /\ members[m].person # p
    BY <1>6 DEF RemoveMemberRead, Removable
  <2> HIDE DEF q
  <2> QED
    BY <1>5, <2>1, <2>2, ArriveInv DEF OnInvite
<1>7. ASSUME NEW p \in Person, NEW m \in DOMAIN members, NEW role \in Role \cup {AsSent},
             NEW program \in BOOLEAN, UpdateMemberRead(r, p, m, role, program)
      PROVE  MembersInv'
  <2>1. PICK x \in Member : x = members[m]
    BY DEF MembersInv, TablesTyped
  <2>2. PICK W \in SUBSET {"role", "program"} : W = Changes(x, role, program)
    BY DEF Changes
  <2> DEFINE q == [op |-> "update", member |-> m, role |-> role, program |-> program,
                   writes |-> W, raced |-> FALSE]
  <2>3. /\ q \in Request /\ q.op = "update" /\ q.member = m /\ q.raced = FALSE
        /\ q.role = role /\ q.program = program /\ q.writes = W
    BY <1>2 DEF Request
  <2>4. /\ Arrive(r, q) /\ Acts(p, "org_admin") /\ (role \in NeedsProgram => program)
        /\ x.person = p /\ x.role = "org_admin" => role = "org_admin"
    BY <1>7, <2>1, <2>2 DEF UpdateMemberRead
  <2>5. /\ "role" \in W => role # x.role
        /\ "role" \notin W => x.role = role
        /\ "program" \notin W => x.program = program
    BY <2>2 DEF Changes
  <2> HIDE DEF q
  <2>6. Fits(q)
    BY <2>1, <2>3, <2>4, <2>5 DEF Fits
  <2>7. TakesRole(q) => \E n \in DOMAIN members \ {m} :
                          members[n].role = "org_admin" /\ members[n].status = "active"
    <3>1. TakesRole(q) => ~(members[m].person = p /\ members[m].role = "org_admin")
      BY <2>1, <2>3, <2>4, <2>5 DEF TakesRole
    <3> QED
      BY <1>5, <2>4, <3>1
  <2> QED
    BY <2>3, <2>4, <2>6, <2>7, ArriveInv DEF OnInvite
<1>8. CASE CreatePlayerRead(r)
  <2> DEFINE q == [op |-> "player", user |-> team.coach, raced |-> FALSE]
  <2>1. q \in Request /\ q.op = "player" /\ q.user = team.coach /\ q.raced = FALSE
    <3>1. team.coach \in Person \cup {NoOne}
      BY DEF MembersInv, OrgMembersTypeOK
    <3> QED
      BY <3>1 DEF Request
  <2>2. Arrive(r, q)
    BY <1>8 DEF CreatePlayerRead
  <2> HIDE DEF q
  <2> QED
    BY <2>1, <2>2, ArriveInv DEF OnInvite, OnMember, TakesRole
<1>10. ASSUME NEW p \in Person, AssignCoachRead(r, p) PROVE MembersInv'
  <2>1. PICK f \in BOOLEAN : f <=> Acts(p, "coach")
    OBVIOUS
  <2>2. f = Acts(p, "coach")
    BY <2>1, Zenon DEF Acts
  <2> DEFINE q == [op |-> "assign", person |-> p, member |-> f, raced |-> FALSE]
  <2>3. q \in Request /\ q.op = "assign" /\ q.raced = FALSE
    BY DEF Request
  <2>4. Arrive(r, q)
    BY <1>10, <2>2 DEF AssignCoachRead
  <2> HIDE DEF q
  <2> QED
    BY <2>3, <2>4, ArriveInv DEF OnInvite, OnMember, TakesRole
<1>11. CASE UnassignCoachRead(r)
  <2> DEFINE q == [op |-> "unassign", raced |-> FALSE]
  <2>1. q \in Request /\ q.op = "unassign" /\ q.raced = FALSE
    BY DEF Request
  <2>2. Arrive(r, q)
    BY <1>11 DEF UnassignCoachRead
  <2> HIDE DEF q
  <2> QED
    BY <2>1, <2>2, ArriveInv DEF OnInvite, OnMember, TakesRole
<1>9. CASE Refuse(r)
  <2>1. /\ Leave(r) /\ UNCHANGED <<members, invites, team, roster>> /\ visit[r] # Away
        /\ visit[r] \in Request
    BY <1>9 DEF Refuse, MembersInv, TablesTyped
  <2>2. visit[r].op # "away"
    BY <2>1, RequestShape
  <2>3. CameOnce'
    <3>1. \A s \in Visit : visit'[s].op \in OnInvite =>
            visit[s].op \in OnInvite /\ visit'[s].invite = visit[s].invite
      BY <2>1 DEF Leave, MembersInv, TablesTyped, Away, OnInvite
    <3>2. \A n \in DOMAIN members' : ~members'[n].raced /\ members'[n].from # 0 =>
            n \in DOMAIN members /\ ~members[n].raced /\ members[n].from = members'[n].from
      BY <2>1
    <3> QED
      BY <2>1, <3>1, <3>2, CameOnceKept
  <2>4. OrgKeepsAdmin' /\ MemberTypes' /\ RosterFollowsCoach'
    BY <2>1
    DEF MembersInv, OrgKeepsAdmin, Acts, OrgMembersTypeOK, MemberTypes, RosterFollowsCoach
  <2>5. /\ members' \in Seq(Member) /\ invites' \in Seq(OrgInvite) /\ roster' \in Seq(Player)
        /\ Len(members) <= Len(members') /\ Len(invites') = Len(invites)
        /\ team' \in CoachRow
        /\ \A n \in DOMAIN members' : members'[n].from \in 0..Len(invites)
        /\ \A i \in DOMAIN invites' : invites'[i].team => invites'[i].role = "coach"
    BY <2>1 DEF MembersInv, TablesTyped, NothingDangles, OrgMembersTypeOK
  <2> QED
    BY <2>1, <2>2, <2>3, <2>4, <2>5, CommitInv
<1> QED
  BY <1>3, <1>4, <1>6, <1>7, <1>8, <1>9, <1>10, <1>11

\* An invite is issued, sent again or expires: none is used up by it.
LEMMA InvitesInv ==
  ASSUME MembersInv,
         \/ \E p \in Person, role \in Role, t \in BOOLEAN : Invite(p, role, t)
         \/ \E i \in DOMAIN invites : ResendInvite(i) \/ InviteExpires(i)
  PROVE  MembersInv'
<1>1. UNCHANGED <<members, team, roster, visit>> /\ invites \in Seq(OrgInvite)
  BY DEF Invite, ResendInvite, InviteExpires, MembersInv, TablesTyped
<1>2. /\ invites' \in Seq(OrgInvite) /\ Len(invites) <= Len(invites')
      /\ DOMAIN invites \subseteq DOMAIN invites'
      /\ \A i \in DOMAIN invites : invites'[i].status = invites[i].status
      /\ \A i \in DOMAIN invites' : invites'[i].team => invites'[i].role = "coach"
  <2>1. ASSUME NEW p \in Person, NEW role \in Role, NEW t \in BOOLEAN, Invite(p, role, t)
        PROVE  <1>2!:
    <3> DEFINE x == [person |-> p, role |-> role, team |-> t, status |-> "pending",
                     live |-> TRUE]
    <3>1. x \in OrgInvite /\ (x.team => x.role = "coach")
      BY <2>1 DEF OrgInvite, Invite
    <3>2. invites' = Append(invites, x)
      BY <2>1 DEF Invite
    <3> HIDE DEF x
    <3>3. /\ invites' \in Seq(OrgInvite) /\ Len(invites') = Len(invites) + 1
          /\ Len(invites) \in Nat /\ DOMAIN invites' = DOMAIN invites \cup {Len(invites) + 1}
          /\ \A i \in DOMAIN invites : invites'[i] = invites[i]
          /\ invites'[Len(invites) + 1] = x
      BY <1>1, <3>1, <3>2, RowAdded
    <3> QED
      BY <3>1, <3>3 DEF MembersInv, OrgMembersTypeOK
  <2>2. ASSUME NEW i \in DOMAIN invites, ResendInvite(i) \/ InviteExpires(i)
        PROVE  <1>2!:
    <3>1. PICK b \in BOOLEAN : invites' = [invites EXCEPT ![i].live = b]
      BY <2>2 DEF ResendInvite, InviteExpires
    <3> DEFINE x == [invites[i] EXCEPT !.live = b]
    <3>2. /\ x \in OrgInvite /\ x.status = invites[i].status
          /\ x.team = invites[i].team /\ x.role = invites[i].role
      <4>1. invites[i] \in OrgInvite
        BY <1>1
      <4> QED
        BY <4>1 DEF OrgInvite
    <3>3. invites' = [invites EXCEPT ![i] = x]
      BY <1>1, <3>1
    <3> HIDE DEF x
    <3>4. /\ invites' \in Seq(OrgInvite) /\ DOMAIN invites' = DOMAIN invites
          /\ Len(invites') = Len(invites) /\ Len(invites) \in Nat
          /\ invites'[i] = x /\ \A j \in DOMAIN invites \ {i} : invites'[j] = invites[j]
      BY <1>1, <3>2, <3>3, RowReplaced
    <3> QED
      BY <3>2, <3>4 DEF MembersInv, OrgMembersTypeOK
  <2> QED
    BY <2>1, <2>2
<1>3. TablesTyped' /\ OrgMembersTypeOK'
  BY <1>1, <1>2 DEF MembersInv, TablesTyped, OrgMembersTypeOK
<1>4. NothingDangles'
  <2>1. \A m \in DOMAIN members' : members'[m].from \in 0..Len(invites')
    BY <1>1, <1>2 DEF MembersInv, NothingDangles
  <2> QED
    BY <1>1, <1>2, <2>1 DEF MembersInv, NothingDangles
<1>5. InviteStillPending'
  BY <1>1, <1>2 DEF MembersInv, NothingDangles, InviteStillPending
<1>6. CameOnce'
  <2>1. \A s \in Visit : visit'[s].op \in OnInvite =>
          visit[s].op \in OnInvite /\ visit'[s].invite = visit[s].invite
    BY <1>1
  <2>2. \A n \in DOMAIN members' : ~members'[n].raced /\ members'[n].from # 0 =>
          n \in DOMAIN members /\ ~members[n].raced /\ members[n].from = members'[n].from
    BY <1>1
  <2> QED
    BY <1>2, <2>1, <2>2, CameOnceKept
<1>7. UnracedAlone' /\ OthersAdminister' /\ UpdateFits' /\ CoachStillCoach'
  BY <1>1 DEF MembersInv, UnracedAlone, OthersAdminister, TakesRole, UpdateFits, Fits,
     CoachStillCoach
<1>8. OrgKeepsAdmin' /\ RosterFollowsCoach'
  BY <1>1 DEF MembersInv, OrgKeepsAdmin, RosterFollowsCoach, Acts
<1> QED
  BY <1>3, <1>4, <1>5, <1>6, <1>7, <1>8 DEF MembersInv

\* The team is read for a code that is being entered.
LEMMA TeamReadInv ==
  ASSUME MembersInv, NEW r \in Visit, RedeemTeamRead(r)
  PROVE  MembersInv'
<1>1. /\ visit[r].op = "redeem" /\ visit' = [visit EXCEPT ![r].coach = team.coach]
      /\ UNCHANGED <<members, invites, team, roster>> /\ visit[r] \in Request
  BY DEF RedeemTeamRead, MembersInv, TablesTyped
<1>2. visit[r] \in [op: {"redeem"}, invite: Nat, person: Person,
                    coach: Person \cup {NoOne, Unread}, raced: BOOLEAN]
  BY <1>1 DEF Request, Away
<1>3. PICK c \in Person \cup {NoOne} : c = team.coach
  BY DEF MembersInv, OrgMembersTypeOK
<1> DEFINE q == [visit[r] EXCEPT !.coach = c]
<1>4. /\ q \in [op: {"redeem"}, invite: Nat, person: Person,
                coach: Person \cup {NoOne, Unread}, raced: BOOLEAN]
      /\ q.op = "redeem" /\ q.invite = visit[r].invite /\ q.raced = visit[r].raced
  BY <1>2
<1>5. visit' = [visit EXCEPT ![r] = q] /\ q \in Request
  BY <1>1, <1>3, <1>4 DEF Request
<1> HIDE DEF q
<1>6. /\ visit' \in [Visit -> Request] /\ visit'[r] = q
      /\ \A s \in Visit : s # r => visit'[s] = visit[s]
  BY <1>5 DEF MembersInv, TablesTyped
<1>7. ASSUME NEW s \in Visit
      PROVE  /\ visit'[s].op = visit[s].op
             /\ visit[s].op \in OnInvite =>
                  visit'[s].invite = visit[s].invite /\ visit'[s].raced = visit[s].raced
             /\ visit[s].op \notin OnInvite => visit'[s] = visit[s]
             /\ visit[s].op # "away" => visit'[s].raced = visit[s].raced
  BY <1>1, <1>4, <1>6 DEF OnInvite
<1>8. TablesTyped' /\ OrgMembersTypeOK' /\ OrgKeepsAdmin' /\ RosterFollowsCoach'
  BY <1>1, <1>6
  DEF MembersInv, TablesTyped, OrgMembersTypeOK, OrgKeepsAdmin, RosterFollowsCoach, Acts
<1>9. NothingDangles' /\ UnracedAlone' /\ InviteStillPending'
  BY <1>1, <1>7
  DEF MembersInv, NothingDangles, UnracedAlone, InviteStillPending, OnInvite, OnMember
<1>10. CameOnce'
  <2>1. \A s \in Visit : visit'[s].op \in OnInvite =>
          visit[s].op \in OnInvite /\ visit'[s].invite = visit[s].invite
    BY <1>7
  <2>2. \A n \in DOMAIN members' : ~members'[n].raced /\ members'[n].from # 0 =>
          n \in DOMAIN members /\ ~members[n].raced /\ members[n].from = members'[n].from
    BY <1>1
  <2> QED
    BY <1>1, <2>1, <2>2, CameOnceKept
<1>11. OthersAdminister' /\ UpdateFits' /\ CoachStillCoach'
  <2>1. \A s \in Visit : visit'[s] = visit[s] \/ visit'[s].op = "redeem"
    BY <1>4, <1>6
  <2> QED
    BY <1>1, <2>1
    DEF MembersInv, OthersAdminister, TakesRole, UpdateFits, Fits, CoachStillCoach
<1> QED
  BY <1>8, <1>9, <1>10, <1>11 DEF MembersInv

\* A coach is set by hand: the players there are stay as they were.
LEMMA CoachSetInv ==
  ASSUME MembersInv, NEW r \in Visit, AssignCoachCommit(r) \/ UnassignCoachCommit(r)
  PROVE  MembersInv'
<1>1. /\ visit[r].op # "away" /\ visit[r] \in Request /\ Leave(r) /\ UNCHANGED invites
      /\ roster' = LeftBehind
  BY DEF AssignCoachCommit, UnassignCoachCommit, MembersInv, TablesTyped
<1>2. /\ team \in CoachRow /\ roster \in Seq(Player) /\ members \in Seq(Member)
      /\ invites \in Seq(OrgInvite)
  BY DEF MembersInv, TablesTyped
<1>3. team' \in CoachRow
  <2>1. PICK c \in Person \cup {NoOne} : team' = [team EXCEPT !.coach = c]
    BY <1>1, RequestShape DEF AssignCoachCommit, UnassignCoachCommit
  <2> QED
    BY <1>2, <2>1 DEF CoachRow
<1>4. roster' \in Seq(Player) /\ RosterFollowsCoach'
  <2>1. roster' = [x \in DOMAIN roster |-> [roster[x] EXCEPT !.mark = "left"]]
    BY <1>1 DEF LeftBehind
  <2>2. \A z \in Player : /\ [z EXCEPT !.mark = "left"] \in Player
                           /\ [z EXCEPT !.mark = "left"].mark = "left"
    BY DEF Player
  <2>3. roster' \in Seq(Player) /\ \A y \in DOMAIN roster' : roster'[y].mark = "left"
    <3>1. \A y \in DOMAIN roster : roster[y] \in Player
      BY <1>2
    <3>2. \A y \in DOMAIN roster : roster'[y] = [roster[y] EXCEPT !.mark = "left"]
      BY <2>1
    <3>3. roster' = [y \in DOMAIN roster |-> roster'[y]]
      BY <2>1
    <3>4. \A y \in DOMAIN roster : roster'[y] \in Player /\ roster'[y].mark = "left"
      BY <2>2, <3>1, <3>2
    <3> QED
      BY <1>2, <3>3, <3>4, RowsChanged
  <2> QED
    BY <2>3 DEF RosterFollowsCoach
<1>5. /\ members' \in Seq(Member) /\ Len(members) <= Len(members')
      /\ \A m \in DOMAIN members : m \in DOMAIN members' /\ members'[m] = members[m]
      /\ \A m \in DOMAIN members' \ DOMAIN members : members'[m].from = 0
      /\ MemberTypes' /\ OrgKeepsAdmin'
  <2>1. CASE UNCHANGED members
    BY <1>2, <2>1 DEF MembersInv, OrgMembersTypeOK, MemberTypes, OrgKeepsAdmin, Acts
  <2>2. CASE ~UNCHANGED members
    <3>1. PICK p \in Person, f \in BOOLEAN :
            members' = Append(members, NewMember(p, "coach", 0, f)) /\ ~HasRow(p, "coach")
      BY <1>1, <2>2, RequestShape DEF AssignCoachCommit, UnassignCoachCommit
    <3>2. "coach" \in Role /\ 0 \in Nat
      BY OrgMembersAssumption
    <3> DEFINE x == NewMember(p, "coach", 0, f)
    <3>3. /\ x \in Member /\ x.person = p /\ x.role = "coach" /\ x.from = 0
          /\ x.role \in NeedsProgram => x.program \/ x.link
      BY <3>2, NewMemberShape
    <3>4. members' = Append(members, x)
      BY <3>1
    <3> HIDE DEF x
    <3>5. ~HasRow(x.person, x.role)
      BY <3>1, <3>3
    <3>6. /\ members' \in Seq(Member)
          /\ DOMAIN members' = DOMAIN members \cup {Len(members) + 1}
          /\ Len(members') = Len(members) + 1 /\ Len(members) \in Nat
          /\ \A m \in DOMAIN members : members'[m] = members[m]
          /\ members'[Len(members) + 1] = x
          /\ MemberTypes' /\ OrgKeepsAdmin'
      BY <3>3, <3>4, <3>5, MemberAdded
    <3>7. Len(members) <= Len(members')
      BY <3>6
    <3> QED
      BY <3>3, <3>6, <3>7
  <2> QED
    BY <2>1, <2>2
<1>6. \A m \in DOMAIN members' : members'[m].from \in 0..Len(invites)
  BY <1>2, <1>5 DEF MembersInv, NothingDangles
<1>7. CameOnce'
  <2>1. \A s \in Visit : visit'[s].op \in OnInvite =>
          visit[s].op \in OnInvite /\ visit'[s].invite = visit[s].invite
    BY <1>1 DEF Leave, MembersInv, TablesTyped, Away, OnInvite
  <2>2. \A n \in DOMAIN members' : ~members'[n].raced /\ members'[n].from # 0 =>
          n \in DOMAIN members /\ ~members[n].raced /\ members[n].from = members'[n].from
    BY <1>5
  <2> QED
    BY <1>1, <2>1, <2>2, CameOnceKept
<1>8. invites' \in Seq(OrgInvite) /\ Len(invites') = Len(invites)
      /\ \A i \in DOMAIN invites' : invites'[i].team => invites'[i].role = "coach"
  BY <1>1, <1>2 DEF MembersInv, OrgMembersTypeOK
<1> QED
  BY <1>1, <1>3, <1>4, <1>5, <1>6, <1>7, <1>8, CommitInv

\* A player is deleted and stays whose it was.
LEMMA PlayerGoneInv ==
  ASSUME MembersInv, NEW x \in DOMAIN roster, DeletePlayer(x)
  PROVE  MembersInv'
<1>1. UNCHANGED <<members, invites, team, visit>> /\ roster \in Seq(Player)
  BY DEF DeletePlayer, MembersInv, TablesTyped
<1> DEFINE y == [roster[x] EXCEPT !.active = FALSE]
<1>2. y \in Player /\ y.user = roster[x].user /\ y.mark = roster[x].mark
  <2>1. roster[x] \in Player
    BY <1>1
  <2> QED
    BY <2>1 DEF Player
<1>3. roster' = [roster EXCEPT ![x] = y]
  BY DEF DeletePlayer
<1> HIDE DEF y
<1>4. /\ roster' \in Seq(Player) /\ DOMAIN roster' = DOMAIN roster
      /\ roster'[x] = y /\ \A k \in DOMAIN roster \ {x} : roster'[k] = roster[k]
  BY <1>1, <1>2, <1>3, RowReplaced
<1>5. RosterFollowsCoach'
  BY <1>1, <1>2, <1>4 DEF MembersInv, RosterFollowsCoach
<1>6. TablesTyped' /\ OrgMembersTypeOK' /\ NothingDangles'
  BY <1>1, <1>4 DEF MembersInv, TablesTyped, OrgMembersTypeOK, NothingDangles
<1>7. UnracedAlone' /\ InviteStillPending' /\ CameOnce' /\ OthersAdminister'
  BY <1>1 DEF MembersInv, UnracedAlone, InviteStillPending, CameOnce, OthersAdminister, TakesRole
<1>8. OrgKeepsAdmin' /\ UpdateFits' /\ CoachStillCoach'
  BY <1>1 DEF MembersInv, OrgKeepsAdmin, Acts, UpdateFits, Fits, CoachStillCoach
<1> QED
  BY <1>5, <1>6, <1>7, <1>8 DEF MembersInv

LEMMA MembersNextInv == MembersInv /\ [OrgMembersNext]_orgMemberVars => MembersInv'
<1> SUFFICES ASSUME MembersInv, [OrgMembersNext]_orgMemberVars PROVE MembersInv'
  OBVIOUS
<1>1. ASSUME NEW t \in BOOLEAN, InvitesNext(Role, t) PROVE MembersInv'
  BY <1>1, InvitesInv, VisitsInv, CancelInv, AcceptInv, TeamReadInv, RedeemInv DEF InvitesNext
<1>2. CASE MembersNext(Role)
  BY <1>2, VisitsInv, MemberCommitsInv DEF MembersNext
<1>3. CASE RosterNext
  BY <1>3, VisitsInv, CoachSetInv, PlayerInv, PlayerGoneInv DEF RosterNext
<1>4. CASE UNCHANGED orgMemberVars
  <2>1. UNCHANGED <<members, invites, team, roster, visit>>
    BY <1>4 DEF orgMemberVars
  <2>2. TablesTyped' /\ OrgMembersTypeOK' /\ NothingDangles'
    BY <2>1 DEF MembersInv, TablesTyped, OrgMembersTypeOK, NothingDangles
  <2>3. UnracedAlone' /\ InviteStillPending' /\ CameOnce' /\ OthersAdminister'
    BY <2>1 DEF MembersInv, UnracedAlone, InviteStillPending, CameOnce, OthersAdminister,
       TakesRole
  <2>4. OrgKeepsAdmin' /\ UpdateFits' /\ CoachStillCoach' /\ RosterFollowsCoach'
    BY <2>1 DEF MembersInv, OrgKeepsAdmin, Acts, UpdateFits, Fits, CoachStillCoach,
       RosterFollowsCoach
  <2> QED
    BY <2>2, <2>3, <2>4 DEF MembersInv
<1> QED
  BY <1>1, <1>2, <1>3, <1>4 DEF OrgMembersNext

LEMMA MembersInvAlways == OrgMembersSpec => []MembersInv
BY MembersInitInv, MembersNextInv, PTL DEF OrgMembersSpec

-----------------------------------------------------------------------------
(* What follows *)

\* A person has a role once, and only the link of an invite and updates that
\* overlapped leave a manager without the program the role needs.
THEOREM MembersTyped == OrgMembersSpec => []OrgMembersTypeOK
<1>1. MembersInv => OrgMembersTypeOK
  BY DEF MembersInv
<1> QED
  BY <1>1, MembersInvAlways, PTL

\* One member at most comes of an invite, and none of a cancelled one, save by
\* requests that overlapped.
THEOREM CodesForOneUse == OrgMembersSpec => []InvitesSingleUse
<1>1. ASSUME MembersInv PROVE InvitesSingleUse
  <2> SUFFICES ASSUME NEW i \in DOMAIN invites
               PROVE  LET came == {m \in DOMAIN members : members[m].from = i /\ ~members[m].raced}
                      IN /\ Cardinality(came) <= 1
                         /\ came # {} => invites[i].status = "accepted"
    BY DEF InvitesSingleUse
  <2> DEFINE came == {m \in DOMAIN members : members[m].from = i /\ ~members[m].raced}
  <2>1. i # 0
    BY <1>1 DEF MembersInv, TablesTyped
  <2>2. CASE came = {}
    <3>1. Cardinality({}) = 0
      BY FS_EmptySet
    <3> QED
      BY <2>2, <3>1
  <2>3. ASSUME NEW m \in came PROVE came = {m} /\ invites[i].status = "accepted"
    BY <1>1, <2>1, <2>3 DEF MembersInv, CameOnce
  <2>4. CASE came # {}
    <3>1. PICK m \in came : came = {m} /\ invites[i].status = "accepted"
      BY <2>3, <2>4
    <3>2. Cardinality({m}) = 1
      BY FS_Singleton
    <3>3. Cardinality(came) = 1
      BY <3>1, <3>2
    <3> QED
      BY <3>1, <3>3
  <2> QED
    BY <2>2, <2>4
<1> QED
  BY <1>1, MembersInvAlways, PTL

\* No organization loses its last administrator, save by requests that
\* overlapped.
THEOREM AdminsStay == OrgMembersSpec => []OrgKeepsAdmin
<1>1. MembersInv => OrgKeepsAdmin
  BY DEF MembersInv
<1> QED
  BY <1>1, MembersInvAlways, PTL

\* The players of a team are its coach's, whatever requests overlap: but those
\* it had when a coach was set by hand, until the next code is redeemed, and
\* those added by a request that overlapped another.
THEOREM RostersFollow == OrgMembersSpec => []RosterFollowsCoach
<1>1. MembersInv => RosterFollowsCoach
  BY DEF MembersInv
<1> QED
  BY <1>1, MembersInvAlways, PTL
=============================================================================
