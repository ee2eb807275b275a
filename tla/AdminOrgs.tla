------------------------------ MODULE AdminOrgs ------------------------------
(***************************************************************************)
(* The organizations as the system administrator sees them: created by     *)
(* hand or by the wizard, changed, deleted softly, given administrators,   *)
(* and the trail of all that (api/admin_orgs.py, api/admin_org_wizard.py,  *)
(* services/org_wizard_service.py, services/org_audit_service.py).         *)
(*                                                                         *)
(* A request decides on what it has read and commits later.  The trail is  *)
(* of the same transaction: log_org_action swallows its errors, but one of *)
(* the database has undone the transaction by then.  Of the columns that   *)
(* an update sets, one stands for all.                                     *)
(***************************************************************************)
EXTENDS Integers, Sequences, FiniteSets, SequencesExt

CONSTANTS
  Clerk,      \* requests that may be in flight
  Slug,       \* slugs
  Subdomain,  \* subdomains
  Official,   \* people, each with the address of their account
  MaxOrg,     \* bound: organizations
  MaxTrail    \* bound: entries of the trail

NoSubdomain == "none"
NotAPerson == "nobody"

ASSUME AdminOrgsAssumption ==
  MaxOrg \in Nat /\ NoSubdomain \notin Subdomain /\ NotAPerson \notin Official

VARIABLES
  organizations, \* organizations, by id
  accounts,   \* users: deleting one keeps the row, and its address
  seats,      \* user_organizations with the role org_admin, by organization and person
  firstInvites, \* org_invites of the wizard, with their live token
  trail,      \* org_audit_logs
  desks       \* the requests in flight, with what they have read

adminOrgVars == <<organizations, accounts, seats, firstInvites, trail, desks>>

Free == [op |-> "free"]
Status == {"active", "suspended"}

AdminOrgsInit ==
  /\ organizations = <<>>
  /\ accounts = [p \in Official |-> "none"]
  /\ seats = [s \in (1..MaxOrg) \X Official |-> "none"]
  /\ firstInvites = {}
  /\ trail = <<>>
  /\ desks = [r \in Clerk |-> Free]

-----------------------------------------------------------------------------
(* Requests *)

TakeUp(r, q) ==
  /\ desks[r] = Free
  /\ desks' = [desks EXCEPT ![r] = q]
  /\ UNCHANGED <<organizations, accounts, seats, firstInvites, trail>>

Done(r) == desks' = [desks EXCEPT ![r] = Free]

\* A unique key is taken, or the row was changed: the transaction is undone.
Reject(r) ==
  /\ desks[r] # Free
  /\ Done(r)
  /\ UNCHANGED <<organizations, accounts, seats, firstInvites, trail>>

\* log_org_action, in the transaction of the action
Log(entry) == Len(trail) < MaxTrail /\ trail' = Append(trail, entry)

Entry(org, action, person, to) == [org |-> org, action |-> action, person |-> person, to |-> to]

-----------------------------------------------------------------------------
(* Creating *)

\* get_by_slug, check_subdomain_available: among what is not deleted.
LooksFree(slug, domain) ==
  \A o \in DOMAIN organizations :
    ~ organizations[o].deleted =>
      /\ organizations[o].slug # slug
      /\ domain # NoSubdomain => organizations[o].domain # domain

\* Fault: what was deleted gives its names back, and the check is trusted.
KeysFree_Checked(slug, domain) == TRUE

\* organizations.slug, uq_organizations_subdomain: deleted rows count.
KeysFree(slug, domain) ==
  \A o \in DOMAIN organizations :
    /\ organizations[o].slug # slug
    /\ domain # NoSubdomain => organizations[o].domain # domain

NewOrg(slug, domain, status) ==
  /\ Len(organizations) < MaxOrg
  /\ KeysFree(slug, domain)
  /\ organizations' = Append(organizations,
       [slug |-> slug, domain |-> domain, status |-> status, deleted |-> FALSE])

\* OrgCreateRequest has the status, "active" by default.
CreateOrgRead(r, slug, status) ==
  /\ LooksFree(slug, NoSubdomain)
  /\ TakeUp(r, [op |-> "create", slug |-> slug, status |-> status])

\* The entry tells the slug and the name, and not the status.
CreateOrgCommit(r) ==
  /\ desks[r].op = "create"
  /\ NewOrg(desks[r].slug, NoSubdomain, desks[r].status)
  /\ Log(Entry(Len(organizations) + 1, "create", NotAPerson, "untold"))
  /\ Done(r)
  /\ UNCHANGED <<accounts, seats, firstInvites>>

\* commit_wizard checks again what the preflight has shown, and looks for a live
\* account under the address of the first administrator.
WizardRead(r, slug, domain, p, invite) ==
  /\ LooksFree(slug, domain)
  /\ TakeUp(r, [op |-> "wizard", slug |-> slug, domain |-> domain, person |-> p,
                found |-> accounts[p] = "live", invite |-> invite])

\* Organization, account, membership, invite and entry are one transaction.  An
\* address that had no live account must have no row.  What the wizard makes is
\* active, whatever it is billed as.
WizardCommit(r) ==
  LET q == desks[r]
      o == Len(organizations) + 1
  IN /\ q.op = "wizard"
     /\ NewOrg(q.slug, q.domain, "active")
     /\ IF q.found THEN UNCHANGED accounts
        ELSE accounts[q.person] = "none" /\ accounts' = [accounts EXCEPT ![q.person] = "live"]
     /\ seats' = [seats EXCEPT ![<<o, q.person>>] = "active"]
     /\ firstInvites' = firstInvites \cup
          (IF q.invite THEN {[org |-> o, person |-> q.person]} ELSE {})
     /\ Log(Entry(o, IF q.invite THEN "wizard_invite" ELSE "wizard", q.person, "active"))
     /\ Done(r)

-----------------------------------------------------------------------------
(* Changing *)

\* admin_orgs_update asks not whether the organization is deleted.
UpdateOrgRead(r, o, status) ==
  TakeUp(r, [op |-> "update", org |-> o, status |-> status, seen |-> organizations[o].status])

\* Fault: the entry tells what the status was.
Told_From(q) == q.seen

\* changes["status"]["to"]
Told(q) == q.status

\* Nothing is written, nor told, when the row that was read says so already.
UpdateOrgCommit(r) ==
  LET q == desks[r]
  IN /\ q.op = "update"
     /\ IF q.status = q.seen THEN UNCHANGED <<organizations, trail>>
        ELSE /\ organizations' = [organizations EXCEPT ![q.org].status = q.status]
             /\ Log(Entry(q.org, "update", NotAPerson, Told(q)))
     /\ Done(r)
     /\ UNCHANGED <<accounts, seats, firstInvites>>

DeleteOrgRead(r, o) ==
  /\ ~ organizations[o].deleted
  /\ TakeUp(r, [op |-> "delete", org |-> o])

\* soft_delete: twice, if two requests have both read it undeleted.
DeleteOrgCommit(r) ==
  /\ desks[r].op = "delete"
  /\ organizations' = [organizations EXCEPT ![desks[r].org].deleted = TRUE]
  /\ Log(Entry(desks[r].org, "delete", NotAPerson, "deleted"))
  /\ Done(r)
  /\ UNCHANGED <<accounts, seats, firstInvites>>

\* admin_orgs_assign_admin returns a membership that is active as it is.
AssignAdminRead(r, o, p) ==
  /\ ~ organizations[o].deleted /\ accounts[p] = "live"
  /\ seats[o, p] # "active"
  /\ TakeUp(r, [op |-> "assign", org |-> o, person |-> p])

\* uq_user_org_role: whoever was revoked cannot be assigned again.
AssignAdminCommit(r) ==
  LET o == desks[r].org
      p == desks[r].person
  IN /\ desks[r].op = "assign"
     /\ seats[o, p] = "none"
     /\ seats' = [seats EXCEPT ![<<o, p>>] = "active"]
     /\ Log(Entry(o, "assign", p, "active"))
     /\ Done(r)
     /\ UNCHANGED <<organizations, accounts, firstInvites>>

\* admin_orgs_revoke_admin, of a deleted organization too, of the last one too.
RevokeAdminRead(r, o, p) ==
  /\ seats[o, p] = "active"
  /\ TakeUp(r, [op |-> "revoke", org |-> o, person |-> p])

RevokeAdminCommit(r) ==
  LET o == desks[r].org
      p == desks[r].person
  IN /\ desks[r].op = "revoke"
     /\ seats' = [seats EXCEPT ![<<o, p>>] = "removed"]
     /\ Log(Entry(o, "remove", p, "removed"))
     /\ Done(r)
     /\ UNCHANGED <<organizations, accounts, firstInvites>>

-----------------------------------------------------------------------------
(* Accounts, meanwhile *)

RegisterAccount(p) ==
  /\ accounts[p] = "none"
  /\ accounts' = [accounts EXCEPT ![p] = "live"]
  /\ UNCHANGED <<organizations, seats, firstInvites, trail, desks>>

\* delete_account keeps the row, and with it the address.
DeleteAccount(p) ==
  /\ accounts[p] = "live"
  /\ accounts' = [accounts EXCEPT ![p] = "deleted"]
  /\ UNCHANGED <<organizations, seats, firstInvites, trail, desks>>

-----------------------------------------------------------------------------

\* Organizations come and go.
MakingNext ==
  \E r \in Clerk :
    \/ \E slug \in Slug :
         \/ \E status \in Status : CreateOrgRead(r, slug, status)
         \/ \E d \in Subdomain \cup {NoSubdomain}, p \in Official, i \in BOOLEAN :
              WizardRead(r, slug, d, p, i)
    \/ \E o \in DOMAIN organizations : DeleteOrgRead(r, o)
    \/ CreateOrgCommit(r) \/ WizardCommit(r) \/ DeleteOrgCommit(r) \/ Reject(r)

\* They are changed.
ManagingNext ==
  \E r \in Clerk :
    \/ \E o \in DOMAIN organizations :
         \/ \E status \in Status : UpdateOrgRead(r, o, status)
         \/ \E p \in Official : AssignAdminRead(r, o, p) \/ RevokeAdminRead(r, o, p)
    \/ UpdateOrgCommit(r) \/ AssignAdminCommit(r) \/ RevokeAdminCommit(r) \/ Reject(r)

\* People come and go.
AccountsNext == \E p \in Official : RegisterAccount(p) \/ DeleteAccount(p)

AdminOrgsNext == MakingNext \/ ManagingNext \/ AccountsNext

AdminOrgsSpec == AdminOrgsInit /\ [][AdminOrgsNext]_adminOrgVars

-----------------------------------------------------------------------------
(* Properties *)

\* The type of the state; only people with a row have seats.
AdminOrgsTypeOK ==
  /\ \A o \in DOMAIN organizations :
       organizations[o] \in [slug : Slug, domain : Subdomain \cup {NoSubdomain},
                             status : Status, deleted : BOOLEAN]
  /\ accounts \in [Official -> {"none", "live", "deleted"}]
  /\ seats \in [(1..MaxOrg) \X Official -> {"none", "active", "removed"}]
  /\ \A s \in DOMAIN seats :
       seats[s] # "none" => s[1] \in DOMAIN organizations /\ accounts[s[2]] # "none"
  /\ \A r \in Clerk :
       desks[r].op \in {"free", "create", "wizard", "update", "delete", "assign", "revoke"}

\* What the trail tells last of an organization under these actions, and of a
\* person there.
LastTold(o, actions, default) ==
  LET its == {i \in DOMAIN trail : trail[i].org = o /\ trail[i].action \in actions}
  IN IF its = {} THEN default ELSE trail[Max(its)].to

SeatTold(o, p) ==
  LET its == {i \in DOMAIN trail : trail[i].org = o /\ trail[i].person = p}
  IN IF its = {} THEN "none"
     ELSE IF trail[Max(its)].action = "remove" THEN "removed" ELSE "active"

InvitesTold ==
  {[org |-> trail[i].org, person |-> trail[i].person] :
     i \in {j \in DOMAIN trail : trail[j].action = "wizard_invite"}}

Made == {"create", "wizard", "wizard_invite"}

\* The trail is the history: replayed, it gives the deletion and the
\* administrators of every organization and the invites of the wizard, though
\* requests tell what they have read before others committed
\* (org_audit_service, "immutable trail of state-changing actions").  It gives
\* the status as well, but for what was made by hand and not changed since:
\* admin_orgs_create takes a status from the request and does not tell it.
TrailReplays ==
  /\ \A o \in DOMAIN organizations :
       /\ LastTold(o, Made \cup {"update"}, "unmade") \in {organizations[o].status, "untold"}
       /\ organizations[o].deleted <=> LastTold(o, {"delete"}, "untold") = "deleted"
  /\ \A s \in DOMAIN seats : seats[s] = SeatTold(s[1], s[2])
  /\ firstInvites = InvitesTold

\* No two organizations, deleted ones included, share a slug or a subdomain,
\* whatever the checks of overlapping requests have found.
NamesApart ==
  \A o, u \in DOMAIN organizations :
    o # u => /\ organizations[o].slug # organizations[u].slug
             /\ organizations[o].domain # NoSubdomain =>
                  organizations[o].domain # organizations[u].domain
=============================================================================
