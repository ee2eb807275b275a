----------------------------- MODULE AuditChain -----------------------------
(***************************************************************************)
(* The hash chain over the signed deliveries of an organization            *)
(* (services/audit_chain.py), as operators over the columns of             *)
(* document_deliveries they read.  SHA-256 is modelled as an injection: a  *)
(* digest is the pair of what was hashed.                                  *)
(***************************************************************************)
EXTENDS DocumentDeliveries, FiniteSetsExt

CONSTANT Lookback    \* how many signed rows get_last_org_hash fetches (50)

ASSUME LookbackAssumption == Lookback \in Nat

GENESIS_HASH == [genesis |-> TRUE]

\* audit_data of a row that was never signed, and of one signed before the
\* chain existed: no prev_hash, no self_hash.
NoAudit == [chained |-> FALSE]

\* The fields of the row and of its audit blob the digest covers.
CanonicalPayload(d, form, final, method) ==
  [delivery |-> d, form |-> form, final |-> final, method |-> method]

ComputeSelfHash(prev, payload) == [prev |-> prev, payload |-> payload]

\* Fault: the query forgets the organization.
SignedOf_AnyOrg(org, status) == {d \in Delivery : status[d] = "SIGNED"}

SignedOf(org, status) ==
  {d \in Delivery : OrgOf[d] = org /\ status[d] = "SIGNED"}

ChainRows(org, status, audit) ==
  {d \in SignedOf(org, status) : audit[d].chained}

LastOf(rows) == Max(rows)

\* The self_hash of the signed row with the highest id, among the Lookback
\* highest, that has one; d itself is skipped.
GetLastOrgHash(d, status, audit) ==
  LET signed == SignedOf(OrgOf[d], status)
      fetched == {e \in signed :
                    Cardinality({f \in signed : f > e}) < Lookback}
      linked == {e \in fetched \ {d} : audit[e].chained}
  IN IF linked = {} THEN GENESIS_HASH ELSE audit[LastOf(linked)].self_hash

BuildSignedAudit(d, form, final, method, prev) ==
  [chained |-> TRUE, form |-> form, prev_hash |-> prev,
   self_hash |-> ComputeSelfHash(prev, CanonicalPayload(d, form, final, method))]

\* verify_org_chain walks the chain rows by ascending id.
Broken(org, status, audit, final, method) ==
  {d \in ChainRows(org, status, audit) :
     audit[d].self_hash #
       ComputeSelfHash(audit[d].prev_hash,
                       CanonicalPayload(d, audit[d].form, final[d], method[d]))}

MissingPrev(org, status, audit) ==
  LET rows == ChainRows(org, status, audit)
      before(d) == {e \in rows : e < d}
  IN {d \in rows : before(d) # {}
                    /\ audit[d].prev_hash # audit[Max(before(d))].self_hash}

VerifyOrgChain(org, status, audit, final, method) ==
  Broken(org, status, audit, final, method) = {} /\ MissingPrev(org, status, audit) = {}
=============================================================================
