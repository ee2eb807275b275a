--------------------------- MODULE MCAccountTokens ---------------------------
(***************************************************************************)
(* The entrance: sessions and links of an account, the letters that carry  *)
(* the links, the sign-in with a provider and the limit of requests, side  *)
(* by side; one is chosen at the start and moves, the others stand still.  *)
(***************************************************************************)
EXTENDS AccountTokens, MailDispatch, SocialSignIn, RateLimit, TLC

VARIABLE part

Part == {"sessions", "letters", "social", "limits"}

EntranceInit ==
  /\ part \in Part
  /\ Init /\ MailInit /\ SocialInit /\ RateInit
  \* What stands still has one initial state.
  /\ part # "sessions" => mail = <<>>
  /\ part # "social" => \A a \in Address : userAt[a] = "none"

EntranceNext ==
  /\ (part = "sessions" /\ Next) \/ UNCHANGED vars
  /\ (part = "letters" /\ MailNext) \/ UNCHANGED mailVars
  /\ (part = "social" /\ SocialNext) \/ UNCHANGED socialVars
  /\ (part = "limits" /\ RateNext) \/ UNCHANGED rateVars
  /\ UNCHANGED part

EntranceSpec ==
  EntranceInit /\ [][EntranceNext]_<<part, vars, mailVars, socialVars, rateVars>>

\* One group for the requests of all parts.
EntranceSymmetry == Permutations(Request)

\* The type of what moves; what stands still is as it was at the start.
EntranceTypeOK ==
  CASE part = "sessions" -> TypeOK
    [] part = "letters"  -> MailTypeOK
    [] part = "social"   -> SocialTypeOK
    [] part = "limits"   -> RateTypeOK

\* Letters are accounted for, and no client is let in beyond the cap (MailDispatch,
\* RateLimit).
EntranceHolds == MailIsAccountedFor /\ WithinCap

\* An identity keeps its user (SocialSignIn).
IdentitiesKept == [][IdentityKept]_socialVars
=============================================================================
