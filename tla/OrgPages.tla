------------------------------- MODULE OrgPages -------------------------------
(***************************************************************************)
(* One browser on the pages of an organization (api/org_pages.py, login    *)
(* and role switch in api/org.py): the cookie names a user and, once a     *)
(* role is picked, an organization and the role in it.  The memberships    *)
(* behind it change without the cookie.                                    *)
(*                                                                         *)
(* A page is shown or redirects to another one, which the browser follows. *)
(***************************************************************************)
EXTENDS FiniteSets

CONSTANTS Club     \* the organizations the user may be a member of

NoClub == "no_club"
NoRole == "no_role"

ASSUME OrgPagesAssumption == NoClub \notin Club

VARIABLES
  cookie,    \* org_user_id, active_org_id and active_role of the session
  held,      \* the active memberships of the user: <<organization, role>>
  deleted,   \* users.deleted_at is set
  browser    \* the page asked for, and what was asked for on the way there

orgPagesVars == <<cookie, held, deleted, browser>>

PageRole == {"manager", "coach"}
Membership == Club \X PageRole

Anonymous == [user |-> FALSE, club |-> NoClub, role |-> NoRole]
For(m) == [user |-> TRUE, club |-> m[1], role |-> m[2]]

\* Pages that redirect; a page that is shown is none of them.
Login == <<"login">>
RoleSelect == <<"role-select">>
Legacy == <<"legacy">>             \* /org/<anything else>
Tenant(c) == <<"tenant", c>>       \* /<slug>/<page>
Shown == <<"shown">>

Redirecting == {Login, RoleSelect, Legacy} \cup {Tenant(c) : c \in Club}

OrgPagesInit ==
  /\ cookie = Anonymous
  /\ held \in SUBSET Membership
  /\ deleted = FALSE
  /\ browser = [page |-> Shown, trail |-> {}]

-----------------------------------------------------------------------------
(* The pages: the next one, and the cookie that goes with it *)

\* org_login_page: a coach is shown the form.
LoginPage ==
  IF ~ cookie.user \/ cookie.role = "coach" THEN <<Shown, cookie>>
  ELSE IF cookie.club = NoClub THEN <<RoleSelect, cookie>>
  ELSE <<Tenant(cookie.club), cookie>>

\* Fault: the cookie keeps a user who is gone.
Forgotten_Kept == cookie

\* What is left of the cookie of a user who is gone.
Forgotten == [cookie EXCEPT !.user = FALSE]

\* org_role_select_page: the only membership is opened, but not picked.
RoleSelectPage ==
  IF ~ cookie.user THEN <<Login, cookie>>
  ELSE IF deleted \/ held = {} THEN <<Login, Forgotten>>
  ELSE IF Cardinality(held) = 1 THEN <<Tenant((CHOOSE m \in held : TRUE)[1]), cookie>>
  ELSE <<Shown, cookie>>

\* _require_active_org.  What is shown may be the page, the coach's home or
\* "not found".
TenantPage(c) ==
  IF ~ cookie.user THEN <<Login, cookie>>
  ELSE IF cookie.club = NoClub THEN <<RoleSelect, cookie>>
  ELSE IF deleted THEN <<Login, Forgotten>>
  ELSE IF <<cookie.club, cookie.role>> \notin held THEN <<RoleSelect, cookie>>
  ELSE <<Shown, cookie>>

\* org_legacy_redirect: an archived organization is found like any other.
LegacyPage ==
  IF ~ cookie.user THEN <<Login, cookie>>
  ELSE IF cookie.club = NoClub THEN <<RoleSelect, cookie>>
  ELSE <<Tenant(cookie.club), cookie>>

Answer(page) ==
  CASE page = Login      -> LoginPage
    [] page = RoleSelect -> RoleSelectPage
    [] page = Legacy     -> LegacyPage
    [] OTHER             -> TenantPage(page[2])

-----------------------------------------------------------------------------
(* The browser *)

Settled == browser.page = Shown

Ask(page) == browser' = [page |-> page, trail |-> {}]

Open(page) ==
  /\ Settled
  /\ Ask(page)
  /\ UNCHANGED <<cookie, held, deleted>>

Follow ==
  /\ ~ Settled
  /\ browser' = [page |-> Answer(browser.page)[1],
                 trail |-> IF Answer(browser.page)[1] = Shown THEN {}
                           ELSE browser.trail \cup {<<browser.page, cookie>>}]
  /\ cookie' = Answer(browser.page)[2]
  /\ UNCHANGED <<held, deleted>>

\* org_login: the only membership is picked at once.
LogIn ==
  /\ Settled /\ ~ deleted /\ held # {}
  /\ IF Cardinality(held) = 1
     THEN \E m \in held : cookie' = For(m) /\ Ask(Tenant(m[1]))
     ELSE cookie' = [Anonymous EXCEPT !.user = TRUE] /\ Ask(RoleSelect)
  /\ UNCHANGED <<held, deleted>>

\* org_switch_role, and the code of an invite (org_api_invite_redeem).
SwitchRole(m) ==
  /\ Settled /\ ~ deleted
  /\ m \in held
  /\ cookie.user
  /\ cookie' = For(m)
  /\ Ask(Tenant(m[1]))
  /\ UNCHANGED <<held, deleted>>

\* org_logout, and any call of the API by a user who is gone.
LogOut ==
  /\ Settled
  /\ cookie' = Anonymous
  /\ Ask(Login)
  /\ UNCHANGED <<held, deleted>>

-----------------------------------------------------------------------------
(* Other people.  A redirect under way starts afresh. *)

Afresh == browser' = [browser EXCEPT !.trail = {}]

JoinedBy(m) ==
  /\ m \notin held
  /\ held' = held \cup {m}
  /\ Afresh
  /\ UNCHANGED <<cookie, deleted>>

\* remove_member
RemovedFrom(m) ==
  /\ m \in held
  /\ held' = held \ {m}
  /\ Afresh
  /\ UNCHANGED <<cookie, deleted>>

\* update_member
MovedTo(m, role) ==
  /\ m \in held /\ <<m[1], role>> \notin held
  /\ held' = (held \ {m}) \cup {<<m[1], role>>}
  /\ Afresh
  /\ UNCHANGED <<cookie, deleted>>

UserDeleted ==
  /\ ~ deleted
  /\ deleted' = TRUE
  /\ Afresh
  /\ UNCHANGED <<cookie, held>>

-----------------------------------------------------------------------------

OrgPagesNext ==
  \/ \E page \in Redirecting : Open(page)
  \/ Follow
  \/ LogIn \/ LogOut
  \/ \E m \in Membership :
       \/ SwitchRole(m) \/ JoinedBy(m) \/ RemovedFrom(m)
       \/ \E role \in PageRole : MovedTo(m, role)
  \/ UserDeleted

OrgPagesSpec == OrgPagesInit /\ [][OrgPagesNext]_orgPagesVars

\* An organization is in the cookie with a role, or not at all.
OrgPagesTypeOK ==
  /\ held \subseteq Membership
  /\ (cookie.club = NoClub) <=> (cookie.role = NoRole)
  /\ browser.page \in Redirecting \cup {Shown}

-----------------------------------------------------------------------------
(* Properties *)

Looping == <<browser.page, cookie>> \in browser.trail

\* "Single-membership user — fast-path to their dashboard" (org_pages.py:342):
\* no page is asked for again on the way to one that is shown.
RedirectsSettle == ~ Looping

\* The redirects only loop for a user whose one membership is not the one in
\* the cookie; whoever is gone, has no membership, or has several, lands on a
\* page.
OnlyMovedUsersLoop ==
  Looping =>
    /\ Cardinality(held) = 1 /\ ~ deleted
    /\ <<cookie.club, cookie.role>> \notin held
=============================================================================
