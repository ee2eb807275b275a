------------------------------ MODULE MCWorkspace ------------------------------
(***************************************************************************)
(* The side of the organization: parts that share no state with one        *)
(* another, side by side; one is chosen at the start and moves, the others *)
(* stand still.  Among them the signing of documents, one request at a     *)
(* time ("serial") or overlapping ("chain").                               *)
(***************************************************************************)
EXTENDS MCDocumentSigning, OrgMembers, OrgReach, OrgPages, AdminOrgs, AdminDesk

VARIABLE part

Part == {"serial", "chain", "invites", "members", "roster", "structure", "pages",
         "making", "managing", "tasks", "lists"}

WorkspaceInit ==
  /\ part \in Part
  /\ Init /\ OrgMembersInit /\ OrgStructureInit /\ OrgPagesInit
  /\ AdminOrgsInit /\ AdminDeskInit
  \* What stands still has one initial state.
  /\ part # "pages" => held = {}
  /\ part \notin {"invites", "members", "roster"} =>
       members[1].person = CHOOSE p \in Person : TRUE
  /\ part # "structure" =>
       /\ scope["program_manager"].program = Nil
       /\ scope["region_manager"].program = Nil
       /\ scope["region_manager"].region = CHOOSE g \in Region : TRUE

-----------------------------------------------------------------------------
(* Components whose full product is too large, cut in two *)

\* Two invites; the members, who are at most two, and one invite without a team;
\* the team with its coaches and one invite.  Of one invite the link or else the
\* code is used.
Managing == Role \ {"coach"}
OneInvite(use) ==
  /\ Len(invites') <= 1
  /\ \A i \in DOMAIN invites' : invites'[i].status = "pending" => invites'[i].live
  /\ \A r \in Visit : visit'[r].op \notin {"cancel", "accept", "redeem"} \ {use}
TwoMembers == Len(members') <= 2

\* One page view or submission at a time.
OneRequest ==
  \A r, q \in SignRequest : signReq'[r] # Idle /\ signReq'[q] # Idle => r = q

\* Submissions of the three highest deliveries overlap; at most three are
\* committed.
InFlight == {signReq'[r].delivery : r \in {q \in SignRequest : signReq'[q] # Idle}}
OnThree == Len(signLog') <= 3 /\ \A d \in InFlight : d + 2 >= MaxDelivery

\* Organizations made, for one person at a time, with a short trail, those with
\* a subdomain with an invite; one organization managed, made by hand with any
\* status or by the wizard with a subdomain and an invite.
OnePerson ==
  /\ \A r, q \in Clerk :
       desks'[r].op = "wizard" /\ desks'[q].op = "wizard" => desks'[q].person = desks'[r].person
  /\ \A r \in Clerk :
       desks'[r].op = "wizard" => (desks'[r].invite <=> desks'[r].domain # NoSubdomain)
  /\ Len(trail') < MaxTrail
OneOrg ==
  /\ Len(organizations') <= 1
  /\ \A r \in Clerk :
       desks'[r].op = "wizard" => desks'[r].domain # NoSubdomain /\ desks'[r].invite
  /\ organizations' # <<>> => \A r \in Clerk : desks'[r].op \notin {"create", "wizard"}

\* A task is updated while it has one subtask or comment.
OneItem == Len(items') <= 1 \/ \A r \in Hand : hands'[r].op # "task"

-----------------------------------------------------------------------------

MoveSigning ==
  \/ part = "serial" /\ Next /\ OneRequest
  \/ part = "chain" /\ Next /\ OnThree
MoveMembers ==
  \/ part = "invites" /\ InvitesNext(Managing, FALSE)
  \/ part = "members" /\ (MembersNext(Managing) \/ InvitesNext(Managing, FALSE))
                        /\ OneInvite("accept") /\ TwoMembers
  \/ part = "roster" /\ (RosterNext \/ InvitesNext({"coach"}, TRUE)) /\ OneInvite("redeem")
MoveStructure == part = "structure" /\ OrgStructureNext
MovePages == part = "pages" /\ OrgPagesNext
MoveOrgs ==
  \/ part = "making" /\ (MakingNext \/ AccountsNext) /\ OnePerson
  \/ part = "managing" /\ AdminOrgsNext /\ OneOrg
MoveAdminDesk ==
  \/ part = "tasks" /\ TasksNext /\ OneItem
  \/ part = "lists" /\ MailingListsNext

WorkspaceNext ==
  /\ MoveSigning \/ UNCHANGED vars
  /\ MoveMembers \/ UNCHANGED orgMemberVars
  /\ MoveStructure \/ UNCHANGED orgStructureVars
  /\ MovePages \/ UNCHANGED orgPagesVars
  /\ MoveOrgs \/ UNCHANGED adminOrgVars
  /\ MoveAdminDesk \/ UNCHANGED deskTableVars
  /\ UNCHANGED part

workspaceVars ==
  <<part, vars, orgMemberVars, orgStructureVars, orgPagesVars, adminOrgVars, deskTableVars>>

WorkspaceSpec == WorkspaceInit /\ [][WorkspaceNext]_workspaceVars

\* One group for the requests of all parts, two for what they work on.
WorkspaceSymmetry == Permutations(Visit) \cup Permutations(Person) \cup Permutations(Club)

\* The type of what moves; what stands still is as it was at the start.
WorkspaceTypeOK ==
  CASE part \in {"serial", "chain"} -> TypeOK
    [] part = "structure" -> OrgStructureTypeOK
    [] part = "pages"     -> OrgPagesTypeOK
    [] part \in {"making", "managing"} -> AdminOrgsTypeOK
    [] part \in {"tasks", "lists"}     -> AdminDeskTypeOK
    [] part \in {"invites", "members", "roster"} -> OrgMembersTypeOK

\* An organization keeps an administrator, and what the system administrator
\* does is told, named and kept apart (OrgMembers, AdminOrgs, AdminDesk).
AdministrationHolds == OrgKeepsAdmin /\ TrailReplays /\ NamesApart /\ DeskAddsUp

\* As long as requests do not overlap, the counter of a campaign is the number
\* of its signed deliveries and the verifier accepts a chain that was signed by
\* ascending id, rows signed before there was a chain or not
\* (models/document_campaigns.py:8-9, audit_chain.py:12-13).
ExactWithoutOverlap == part = "serial" => TotalSignedIsExact /\ ChainVerifiesInIdOrder

\* Nor does the status of a delivery then go back (public_sign.py:120).
StatusMovesForward == [][part = "serial" => StatusForward]_workspaceVars
=============================================================================
