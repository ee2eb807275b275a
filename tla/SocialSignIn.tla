----------------------------- MODULE SocialSignIn -----------------------------
(***************************************************************************)
(* Signing in with an account of a provider: the identity there is linked  *)
(* to a user here, found by the link or by the address the provider tells, *)
(* or made (api/oauth.py, SocialAccountRepository).  The round trip with   *)
(* the provider comes before, and its sessions are of AccountTokens.       *)
(***************************************************************************)
EXTENDS FiniteSets

CONSTANTS
  SignIn,    \* callbacks that may be in flight
  Identity,  \* (provider, provider_user_id)
  Address    \* addresses; each has at most one row of users, deleted or not

\* No address is the mark of an identity without a link.
Unlinked == "unlinked"
ASSUME SocialAssumption == Unlinked \notin Address

VARIABLES
  userAt,    \* users.email: no row, a live one, a deleted one
  linkOf,    \* social_accounts.user_id, by the address of the user
  callback,  \* the callbacks in flight, with what they have read
  entered    \* history: the last sign-in of each identity, and to whom

socialVars == <<userAt, linkOf, callback, entered>>

NoCallback == [op |-> "none"]
NeverIn == [user |-> Unlinked, asRead |-> TRUE]

SocialInit ==
  /\ userAt \in [Address -> {"none", "live"}]
  /\ linkOf = [i \in Identity |-> Unlinked]
  /\ callback = [r \in SignIn |-> NoCallback]
  /\ entered = [i \in Identity |-> NeverIn]

-----------------------------------------------------------------------------

\* What _handle_oauth_login finds: a link to a live user; else, a live user at
\* the address told; else, no one.
LiveUsers == {a \in Address : userAt[a] = "live"}

\* Fault: the address told goes before the link.
Found_Address(i, a) ==
  IF a \in LiveUsers THEN [op |-> "link", user |-> a]
  ELSE IF linkOf[i] \in LiveUsers THEN [op |-> "enter", user |-> linkOf[i]]
  ELSE [op |-> "make", user |-> a]

Found(i, a) ==
  IF linkOf[i] \in LiveUsers THEN [op |-> "enter", user |-> linkOf[i]]
  ELSE IF a \in LiveUsers THEN [op |-> "link", user |-> a]
  ELSE [op |-> "make", user |-> a]

CallbackRead(r, i, a) ==
  /\ callback[r] = NoCallback
  /\ callback' = [callback EXCEPT ![r] =
       [op |-> Found(i, a).op, user |-> Found(i, a).user, identity |-> i, link |-> linkOf[i]]]
  /\ UNCHANGED <<userAt, linkOf, entered>>

CallbackOver(r) == callback' = [callback EXCEPT ![r] = NoCallback]

Enters(i, user, asRead) == entered' = [entered EXCEPT ![i] = [user |-> user, asRead |-> asRead]]

\* The user may have been deleted since: the session is issued all the same.
EnterCommit(r) ==
  LET q == callback[r]
  IN /\ q.op = "enter"
     /\ Enters(q.identity, q.user, linkOf[q.identity] = q.link)
     /\ CallbackOver(r)
     /\ UNCHANGED <<userAt, linkOf>>

\* A user is made where there is no row, not even a deleted one.  An identity
\* that had no link gets a row of its own, unless another callback was first; a
\* link to a deleted user is moved.
LinkCommit(r) ==
  LET q == callback[r]
  IN /\ q.op \in {"link", "make"}
     /\ q.op = "make" => userAt[q.user] = "none"
     /\ q.link = Unlinked => linkOf[q.identity] = Unlinked
     /\ userAt' = IF q.op = "make" THEN [userAt EXCEPT ![q.user] = "live"] ELSE userAt
     /\ linkOf' = [linkOf EXCEPT ![q.identity] = q.user]
     /\ Enters(q.identity, q.user, linkOf[q.identity] = q.link)
     /\ CallbackOver(r)

\* A unique key is taken: the transaction is undone.
CallbackFails(r) ==
  /\ callback[r] # NoCallback
  /\ CallbackOver(r)
  /\ UNCHANGED <<userAt, linkOf, entered>>

\* register_user, delete_account: the row, with its address, stays.
UserComes(a) ==
  /\ userAt[a] = "none"
  /\ userAt' = [userAt EXCEPT ![a] = "live"]
  /\ UNCHANGED <<linkOf, callback, entered>>

UserGoes(a) ==
  /\ userAt[a] = "live"
  /\ userAt' = [userAt EXCEPT ![a] = "deleted"]
  /\ UNCHANGED <<linkOf, callback, entered>>

SocialNext ==
  \/ \E r \in SignIn :
       \/ \E i \in Identity, a \in Address : CallbackRead(r, i, a)
       \/ EnterCommit(r) \/ LinkCommit(r) \/ CallbackFails(r)
  \/ \E a \in Address : UserComes(a) \/ UserGoes(a)

\* The type of the state; a link leads to a row.
SocialTypeOK ==
  /\ userAt \in [Address -> {"none", "live", "deleted"}]
  /\ linkOf \in [Identity -> Address \cup {Unlinked}]
  /\ \A i \in Identity : linkOf[i] # Unlinked => userAt[linkOf[i]] # "none"
  /\ \A r \in SignIn : callback[r].op \in {"none", "enter", "link", "make"}

-----------------------------------------------------------------------------
(* Properties *)

\* An identity keeps its user as long as that one lives, whatever address the
\* provider tells, and signs in to no other: unless a callback that overlapped
\* has moved the link since it was read (_handle_oauth_login, "linked-to-a-now-
\* deleted-user case").
IdentityKept ==
  \A i \in Identity :
    /\ linkOf'[i] # linkOf[i] /\ linkOf[i] # Unlinked =>
         userAt[linkOf[i]] = "deleted" \/ ~ entered'[i].asRead
    /\ entered'[i] # entered[i] /\ entered'[i].asRead => entered'[i].user = linkOf'[i]
=============================================================================
