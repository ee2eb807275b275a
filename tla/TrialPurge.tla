------------------------------ MODULE TrialPurge ------------------------------
(***************************************************************************)
(* The trial of an account, the deletion of its content when the grace     *)
(* period is over, and the move to a club (auth/purge_service.py,          *)
(* get_current_user in api/deps/auth.py, org_api_invite_redeem).           *)
(*                                                                         *)
(* Every authenticated request reads the account first.  What it finds     *)
(* expired it marks so in a transaction of its own; what it finds due it   *)
(* purges in the request's.  Another request may commit in between.        *)
(***************************************************************************)
EXTENDS Integers, FiniteSets

CONSTANTS
  Call,        \* requests that may be in flight
  TrialEnds,   \* the day the trial ends
  Grace,       \* days from the end seen to the purge
  MaxDay       \* bound: days counted

ASSUME TrialAssumption == {TrialEnds, Grace, MaxDay} \subseteq Nat

VARIABLES
  account,     \* the users row: plan, when its content is due, whether in a club
  rows,        \* the kinds of rows the account has
  visiting,    \* the requests in flight, with the account as they read it
  day,
  marked       \* history: the day the account was first marked expired

trialPurgeVars == <<account, rows, visiting, day, marked>>

Never == MaxDay + Grace + 1
Out == [step |-> "out"]

\* What refers to a team is deleted before it ("earlier": conversations,
\* players...), after it ("later": uploads, onboarding events, feedback) or
\* never ("kept": usage logs).
Kind == {"team", "earlier", "later", "kept"}
Purged == {"team", "earlier", "later"}

\* A new account (register, OAuth).
TrialPurgeInit ==
  /\ account = [plan |-> "trial", ends |-> TrialEnds, due |-> Never, club |-> FALSE]
  /\ rows = {}
  /\ visiting = [r \in Call |-> Out]
  /\ day = 0
  /\ marked = Never

DayPasses ==
  /\ day < MaxDay
  /\ day' = day + 1
  /\ UNCHANGED <<account, rows, visiting, marked>>

\* A row that refers to a team needs one.
AddRow(k) ==
  /\ k = "team" \/ "team" \in rows
  /\ rows' = rows \cup {k}
  /\ UNCHANGED <<account, visiting, day, marked>>

-----------------------------------------------------------------------------
(* A request of the account *)

Arrives(r, op) ==
  /\ visiting[r] = Out
  /\ visiting' = [visiting EXCEPT ![r] = [step |-> op, seen |-> account]]
  /\ UNCHANGED <<account, rows, day, marked>>

Depart(r) == visiting' = [visiting EXCEPT ![r] = Out]

\* maybe_flip_expired
Expirable(seen) == ~ seen.club /\ seen.plan = "trial" /\ day > seen.ends

\* Fault: a club member with an expired plan is due as well.
ShouldPurge_Plan(seen) == seen.plan = "expired" /\ day >= seen.due

ShouldPurge(seen) == ~ seen.club /\ seen.plan = "expired" /\ day >= seen.due

\* flip_to_expired_and_schedule_purge: committed at once, by the id alone; a
\* date that is set is kept.  The request goes on with the plan it has set and
\* the date it read.
FlipToExpired(r) ==
  /\ visiting[r].step = "read"
  /\ Expirable(visiting[r].seen)
  /\ account' = [account EXCEPT
       !.plan = "expired", !.due = IF @ = Never THEN day + Grace ELSE @]
  /\ visiting' = [visiting EXCEPT ![r].step = "flipped", ![r].seen.plan = "expired"]
  /\ marked' = IF marked = Never THEN day ELSE marked
  /\ UNCHANGED <<rows, day>>

Ready(r) ==
  \/ visiting[r].step = "flipped"
  \/ visiting[r].step = "read" /\ ~ Expirable(visiting[r].seen)

\* The request writes the plan it has set once more, or is refused with
\* everything it did (require_active_subscription).
Serve(r) ==
  /\ Ready(r)
  /\ ~ ShouldPurge(visiting[r].seen)
  /\ account' = IF visiting[r].step = "flipped" THEN [account EXCEPT !.plan = "expired"]
                ELSE account
  /\ Depart(r)
  /\ UNCHANGED <<rows, day, marked>>

ServeRefused(r) ==
  /\ Ready(r)
  /\ visiting[r].seen.plan = "expired" /\ ~ visiting[r].seen.club
  /\ ~ ShouldPurge(visiting[r].seen)
  /\ Depart(r)
  /\ UNCHANGED <<account, rows, day, marked>>

\* A row that is deleted later, or never, still refers to the team.
TeamReferred == "team" \in rows /\ rows \cap {"later", "kept"} # {}

\* purge_user_data: the exception of one DELETE is caught, but the transaction
\* is lost, and the request with it.
PurgeUserData(r) ==
  /\ Ready(r)
  /\ ShouldPurge(visiting[r].seen)
  /\ IF TeamReferred
     THEN UNCHANGED <<account, rows>>
     ELSE /\ rows' = rows \ Purged
          /\ account' = [account EXCEPT !.due = Never]
  /\ Depart(r)
  /\ UNCHANGED <<day, marked>>

\* org_api_invite_redeem, of an account that exists.  Only the fields that
\* differ from what was read are written.
JoinClub(r) ==
  /\ visiting[r].step = "redeem"
  /\ account' = [plan |-> IF visiting[r].seen.plan = "club" THEN account.plan ELSE "club",
                 ends |-> Never,
                 due  |-> IF visiting[r].seen.due = Never THEN account.due ELSE Never,
                 club |-> TRUE]
  /\ Depart(r)
  /\ UNCHANGED <<rows, day, marked>>

-----------------------------------------------------------------------------

TrialPurgeNext ==
  \/ DayPasses
  \/ \E k \in Kind : AddRow(k)
  \/ \E r \in Call :
       \/ Arrives(r, "read") \/ Arrives(r, "redeem")
       \/ FlipToExpired(r) \/ Serve(r) \/ ServeRefused(r)
       \/ PurgeUserData(r)
       \/ JoinClub(r)

TrialPurgeSpec == TrialPurgeInit /\ [][TrialPurgeNext]_trialPurgeVars

TrialPurgeTypeOK ==
  /\ account.plan \in {"trial", "expired", "club"}
  /\ account.ends \in {TrialEnds, Never}
  /\ account.due \in 0..Never
  /\ rows \subseteq Kind
  /\ day \in 0..MaxDay

-----------------------------------------------------------------------------
(* Properties *)

\* Content is deleted only when the grace period has passed since the account
\* was first marked expired, whatever requests mark it meanwhile ("data_purge_at
\* = NOW + 30 days", "re-checking doesn't push the purge further out",
\* flip_to_expired_and_schedule_purge), and that of an account in a club only by a
\* request that found it due before it joined ("Club members are exempt": not from
\* that one).
PurgedAfterGrace ==
  [][/\ ~ (rows \subseteq rows') =>
          /\ marked + Grace <= day
          /\ account.club => \E r \in Call :
               visiting[r] # Out /\ ~ visiting[r].seen.club /\ visiting[r].seen.due <= day
     /\ account'.due # account.due => Never \in {account.due, account'.due}]_trialPurgeVars
=============================================================================
