--------------------------- MODULE SigningPromise ---------------------------
(***************************************************************************)
(* What the signing flow promises to the organization that sent a document *)
(* (the module docstrings of api/public_sign.py and signing_session.py): a *)
(* recipient confirms with a code that was sent to the phone on record,    *)
(* and only then signs, unless the template asks for no signature.         *)
(***************************************************************************)

CONSTANTS
  Document,       \* the deliveries
  NeedsCode,      \* those that must be confirmed first
  AlreadySigned   \* those signed before

VARIABLES
  confirmed,  \* deliveries whose code was entered
  signed      \* deliveries signed

promised == <<confirmed, signed>>

PromiseInit == confirmed = {} /\ signed = AlreadySigned

Confirm(d) ==
  /\ confirmed' = confirmed \cup {d}
  /\ signed' = signed

Sign(d) ==
  /\ d \in NeedsCode => d \in confirmed
  /\ signed' = signed \cup {d}
  /\ confirmed' = confirmed

PromiseNext == \E d \in Document : Confirm(d) \/ Sign(d)

PromiseSpec == PromiseInit /\ [][PromiseNext]_promised
=============================================================================
