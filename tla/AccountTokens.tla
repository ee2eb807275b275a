---------------------------- MODULE AccountTokens ----------------------------
(***************************************************************************)
(* The tokens of one account: sessions that are refreshed by rotation, and *)
(* links sent by e-mail (api/auth.py, api/email_auth.py, api/oauth.py,     *)
(* services/auth_service.py, repositories/auth_repo.py).                   *)
(*                                                                         *)
(* Every handler reads and commits (get_db).  The handlers that end        *)
(* sessions have a step between: their UPDATE of the users row locks it,   *)
(* and the UPDATE that revokes the refresh tokens touches the rows it      *)
(* finds then, not those committed before the handler itself commits.      *)
(*                                                                         *)
(* There is no clock: a token that has a lifetime may expire at any time.  *)
(***************************************************************************)
EXTENDS Integers, Sequences

CONSTANTS
  Request,     \* requests of the account that may be in flight
  MaxRefresh,  \* bound: refresh tokens issued
  MaxMail      \* bound: links sent

ASSUME AccountAssumption ==
  MaxRefresh \in Nat /\ MaxMail \in Nat

VARIABLES
  user,         \* users: active, email_verified, and how often the password changed
  refresh,      \* refresh_tokens, by id; live: neither revoked nor expired
  mail,         \* auth_tokens, by id; usable: neither used nor expired
  access,       \* some access token has not expired
  req,          \* the requests in flight, with what they have read
  ended,        \* history: the logins that were logged out
  uses          \* history: for each link, how often it was used unraced

vars == <<user, refresh, mail, access, req, ended, uses>>

Idle == [op |-> "idle"]

Purpose == {"verify_email", "reset_password"}

\* A refresh token belongs to the login it descends from and to the password
\* that was current there.  History: it is raced if a request it comes from
\* overlapped another one.
NewRefresh(login, password, raced) ==
  [login |-> login, password |-> password, raced |-> raced, live |-> TRUE]

NewMail(purpose) == [purpose |-> purpose, usable |-> TRUE]

\* register: the first session does not wait for the verification, and the
\* mail may fail.
Init ==
  /\ user = [active |-> TRUE, verified |-> FALSE, password |-> 0]
  /\ refresh = <<NewRefresh(1, 0, FALSE)>>
  /\ mail \in {<<>>, <<NewMail("verify_email")>>}
  /\ access = TRUE
  /\ req = [r \in Request |-> Idle]
  /\ ended = {}
  /\ uses = [i \in DOMAIN mail |-> 0]

Live == {t \in DOMAIN refresh : refresh[t].live}

-----------------------------------------------------------------------------
(* Requests *)

\* A request begins; from now on it overlaps those in flight, and they it.
Begin(r, q) ==
  LET others == {s \in Request \ {r} : req[s] # Idle}
  IN /\ req[r] = Idle
     /\ req' = [s \in Request |->
          CASE s = r         -> [q EXCEPT !.raced = others # {}]
            [] s \in others  -> [req[s] EXCEPT !.raced = TRUE]
            [] OTHER         -> Idle]
     /\ UNCHANGED <<user, refresh, mail, access, ended, uses>>

End(r) == req' = [req EXCEPT ![r] = Idle]

\* Another request has updated the users row and not committed yet.
UserLocked == \E r \in Request : req[r].op = "revoke"

\* issue_token_pair
Issue(rows, login, password, raced) ==
  /\ Len(rows) < MaxRefresh
  /\ refresh' = Append(rows, NewRefresh(login, password, raced))
  /\ access' = TRUE

-----------------------------------------------------------------------------
(* Sessions: login, refresh, logout *)

\* authenticate with the right password; a wrong one changes nothing, since
\* the audit row of the failure is rolled back with the request.
LoginRead(r) ==
  /\ user.active /\ user.verified
  /\ Begin(r, [op |-> "login", password |-> user.password, raced |-> FALSE])

\* A provider vouches for the address: no password, no verification.
OAuthLoginRead(r) ==
  /\ user.active
  /\ Begin(r, [op |-> "login", password |-> user.password, raced |-> FALSE])

\* mark_logged_in waits for whoever holds the users row.
LoginCommit(r) ==
  /\ req[r].op = "login"
  /\ ~UserLocked
  /\ Issue(refresh, Len(refresh) + 1, req[r].password, req[r].raced)
  /\ End(r)
  /\ UNCHANGED <<user, mail, ended, uses>>

\* rotate_refresh
RefreshRead(r, t) ==
  /\ refresh[t].live
  /\ user.active
  /\ Begin(r, [op |-> "refresh", token |-> t, raced |-> FALSE])

\* Fault: revoked rows are deleted.
RevokeRows_Deleted(S) == [t \in DOMAIN refresh \ S |-> refresh[t]]

RevokeRows(S) ==
  [t \in DOMAIN refresh |->
     IF t \in S THEN [refresh[t] EXCEPT !.live = FALSE] ELSE refresh[t]]

\* Fault: the old token is kept.
Rotated_Kept(t) == refresh

Rotated(t) == RevokeRows({t})

\* The UPDATE skips a token revoked meanwhile, and nobody looks at its count.
RefreshCommit(r) ==
  /\ req[r].op = "refresh"
  /\ LET t == req[r].token
         old == refresh[t]
     IN Issue(Rotated(t), old.login, old.password, old.raced \/ req[r].raced)
  /\ End(r)
  /\ UNCHANGED <<user, mail, ended, uses>>

\* revoke_refresh of a token that is live; logout is silent about any other.
LogoutRead(r, t) ==
  /\ refresh[t].live
  /\ Begin(r, [op |-> "logout", token |-> t, raced |-> FALSE])

LogoutCommit(r) ==
  /\ req[r].op = "logout"
  /\ refresh' = RevokeRows({req[r].token})
  /\ ended' = ended \cup {refresh[req[r].token].login}
  /\ End(r)
  /\ UNCHANGED <<user, mail, access, uses>>

-----------------------------------------------------------------------------
(* Links: resend-verification, forgot-password, verify-email *)

\* Nothing depends on when this handler has read: one step.
SendLink(purpose) ==
  /\ user.active
  /\ purpose = "verify_email" => ~user.verified
  /\ Len(mail) < MaxMail
  /\ mail' = Append(mail, NewMail(purpose))
  /\ uses' = Append(uses, 0)
  /\ UNCHANGED <<user, refresh, access, req, ended>>

\* get_unused_by_hash
Usable(i, purpose) == mail[i].purpose = purpose /\ mail[i].usable

\* Fault: the link stays usable.
MarkUsed_Not(row) == row

MarkUsed(row) == [row EXCEPT !.usable = FALSE]

\* History: the uses by requests that overlapped no other are counted.
UseLink(r, i) ==
  /\ mail' = [mail EXCEPT ![i] = MarkUsed(@)]
  /\ uses' = [uses EXCEPT ![i] = IF req[r].raced THEN @ ELSE @ + 1]

VerifyEmailRead(r, i) ==
  /\ Usable(i, "verify_email")
  /\ Begin(r, [op |-> "verify", link |-> i, raced |-> FALSE])

VerifyEmailCommit(r) ==
  /\ req[r].op = "verify"
  /\ ~UserLocked
  /\ user' = [user EXCEPT !.verified = TRUE]
  /\ UseLink(r, req[r].link)
  /\ End(r)
  /\ UNCHANGED <<refresh, access, ended>>

-----------------------------------------------------------------------------
(* What ends every session: reset-password, change-password, delete-account *)

ResetPasswordRead(r, i) ==
  /\ Usable(i, "reset_password")
  /\ Begin(r, [op |-> "reset_password", link |-> i, raced |-> FALSE])

\* get_current_user: an access token is good until it expires.
CurrentUser == user.active /\ access

\* The current password is asked for.
ChangePasswordRead(r) ==
  /\ CurrentUser
  /\ Begin(r, [op |-> "change_password", raced |-> FALSE])

\* The password is asked for only if the body has one.
DeleteAccountRead(r) ==
  /\ CurrentUser
  /\ Begin(r, [op |-> "delete_account", raced |-> FALSE])

\* Fault: the session that asks is spared.
RevokeAllForUser_Spared == {t \in Live : t # Len(refresh)}

\* The rows revoke_all_for_user finds.
RevokeAllForUser == Live

\* The users row is updated and the live tokens are looked for.
UserUpdate(r) ==
  /\ req[r].op \in {"reset_password", "change_password", "delete_account"}
  /\ ~UserLocked
  /\ req' = [req EXCEPT ![r] =
       [op |-> "revoke", handler |-> req[r], revoke |-> RevokeAllForUser,
        raced |-> req[r].raced]]
  /\ UNCHANGED <<user, refresh, mail, access, ended, uses>>

Handler(r) == IF req[r].op = "revoke" THEN req[r].handler.op ELSE "none"

ResetPasswordCommit(r) ==
  /\ Handler(r) = "reset_password"
  /\ user' = [user EXCEPT !.password = @ + 1]
  /\ refresh' = RevokeRows(req[r].revoke)
  /\ UseLink(r, req[r].handler.link)
  /\ End(r)
  /\ UNCHANGED <<access, ended>>

\* The device that asked gets a new pair.
ChangePasswordCommit(r) ==
  /\ Handler(r) = "change_password"
  /\ user' = [user EXCEPT !.password = @ + 1]
  /\ Issue(RevokeRows(req[r].revoke), Len(refresh) + 1, user.password + 1, req[r].raced)
  /\ End(r)
  /\ UNCHANGED <<mail, ended, uses>>

DeleteAccountCommit(r) ==
  /\ Handler(r) = "delete_account"
  /\ user' = [user EXCEPT !.active = FALSE]
  /\ refresh' = RevokeRows(req[r].revoke)
  /\ End(r)
  /\ UNCHANGED <<mail, access, ended, uses>>

-----------------------------------------------------------------------------

\* get_db rolls back.
Abort(r) ==
  /\ req[r] # Idle
  /\ End(r)
  /\ UNCHANGED <<user, refresh, mail, access, ended, uses>>

\* The lifetime of a refresh token, of a link or of every access token ends.
Expire ==
  /\ \/ /\ \E t \in Live : refresh' = RevokeRows({t})
        /\ UNCHANGED <<mail, access>>
     \/ /\ \E i \in DOMAIN mail : mail' = [mail EXCEPT ![i].usable = FALSE]
        /\ UNCHANGED <<refresh, access>>
     \/ /\ access' = FALSE
        /\ UNCHANGED <<refresh, mail>>
  /\ UNCHANGED <<user, req, ended, uses>>

RequestRead(r) ==
  \/ LoginRead(r)
  \/ OAuthLoginRead(r)
  \/ \E t \in DOMAIN refresh : RefreshRead(r, t) \/ LogoutRead(r, t)
  \/ \E i \in DOMAIN mail : VerifyEmailRead(r, i) \/ ResetPasswordRead(r, i)
  \/ ChangePasswordRead(r)
  \/ DeleteAccountRead(r)

RequestCommit(r) ==
  \/ LoginCommit(r)
  \/ RefreshCommit(r)
  \/ LogoutCommit(r)
  \/ VerifyEmailCommit(r)
  \/ ResetPasswordCommit(r)
  \/ ChangePasswordCommit(r)
  \/ DeleteAccountCommit(r)

Next ==
  \/ \E r \in Request : RequestRead(r) \/ UserUpdate(r) \/ RequestCommit(r) \/ Abort(r)
  \/ \E purpose \in Purpose : SendLink(purpose)
  \/ Expire

Spec == Init /\ [][Next]_vars

-----------------------------------------------------------------------------
(* Properties *)

RefreshRow == [login: Nat, password: Nat, raced: BOOLEAN, live: BOOLEAN]

MailRow == [purpose: Purpose, usable: BOOLEAN]

ReadRequest ==
  [op: {"login"}, password: Nat, raced: BOOLEAN]
  \cup [op: {"refresh", "logout"}, token: Nat, raced: BOOLEAN]
  \cup [op: {"verify", "reset_password"}, link: Nat, raced: BOOLEAN]
  \cup [op: {"change_password", "delete_account"}, raced: BOOLEAN]

RevokeRequest ==
  [op: {"revoke"}, handler: ReadRequest, revoke: SUBSET Nat, raced: BOOLEAN]

TypeOK ==
  /\ user \in [active: BOOLEAN, verified: BOOLEAN, password: Nat]
  /\ refresh \in Seq(RefreshRow)
  /\ mail \in Seq(MailRow)
  /\ access \in BOOLEAN
  /\ DOMAIN req = Request
  /\ \A r \in Request : \/ req[r] \in {Idle} \cup ReadRequest
                         \/ req[r] \in RevokeRequest
  /\ ended \subseteq DOMAIN refresh
  /\ uses \in [DOMAIN mail -> Nat]

\* Ending sessions ends them: a refresh token that still works belongs to the
\* current password, an account that exists and a login nobody logged out
\* (email_auth.py:125-127, api/auth.py:230-231), unless a request it comes
\* from overlapped another one.
SessionsCurrent ==
  \A t \in Live : ~refresh[t].raced =>
    /\ user.active
    /\ refresh[t].password = user.password
    /\ refresh[t].login \notin ended

\* Two tokens of one login that both work are both due to overlapping
\* requests: a rotation that ran alone leaves exactly its own.
OneLiveUnlessRaced ==
  \A t, u \in Live :
    t # u /\ refresh[t].login = refresh[u].login
      => refresh[t].raced /\ refresh[u].raced

\* A link sent by e-mail is single-use (models/auth.py:6) as far as requests
\* that overlapped no other are concerned.
LinksSingleUse == \A i \in DOMAIN mail : uses[i] <= 1

\* The old token is revoked before the new one is issued, so that it cannot be
\* used twice (auth_service.py:153-155): a login has one live token.
OneLivePerLogin ==
  \A t, u \in Live : refresh[t].login = refresh[u].login => t = u
=============================================================================
