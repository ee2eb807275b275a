--------------------------- MODULE DocumentSigning ---------------------------
(***************************************************************************)
(* The public signing flow: the signing page, the codes and the session    *)
(* they open (OtpVerification), the submission, and the chain of signed    *)
(* deliveries it extends (AuditChain).  api/public_sign.py.                *)
(*                                                                         *)
(* The submission handler reads the delivery and its campaign, renders and *)
(* uploads the PDF, reads the last hash of the organization and commits:   *)
(* three actions, between which other requests run.  What it writes are    *)
(* the columns it assigned, where they differ from what it read: always,   *)
(* except for the signature method.                                        *)
(***************************************************************************)
EXTENDS OtpVerification, AuditChain, Sequences

CONSTANTS
  RequiresSignature,  \* the campaigns whose template requires a signature
  PreChain,           \* deliveries signed before the chain was introduced
  SignRequest,        \* page views and submissions that may be in flight
  Form,               \* contents a recipient may submit
  MethodOf,           \* the signature method each names, or NoMethod
  NoMethod,           \* no method: SignatureSubmit.signature_method is optional
  NoFinal             \* the final document of a delivery never signed

ASSUME SigningAssumption ==
  PreChain \subseteq Delivery /\ NoFinal \notin Form

VARIABLES
  status,       \* document_status of each delivery
  audit,        \* audit_data of each delivery
  final,        \* final_pdf_url and signed_at
  method,       \* signature_method
  totalSigned,  \* total_signed of each campaign
  signReq,      \* the requests in flight, with what they have read
  signLog       \* history: the deliveries signed, in commit order

signVars == <<status, audit, final, method, totalSigned, signReq, signLog>>
vars == <<otpVars, signVars>>

DocumentStatus == {"NOT_OPENED", "OPENED", "SIGNED"}

Init ==
  /\ OtpInit
  /\ status = [d \in Delivery |-> IF d \in PreChain THEN "SIGNED" ELSE "NOT_OPENED"]
  /\ audit = [d \in Delivery |-> NoAudit]
  /\ final = [d \in Delivery |-> NoFinal]
  /\ method = [d \in Delivery |-> NoMethod]
  /\ totalSigned = [c \in Campaign |-> Cardinality({d \in PreChain : CampaignOf[d] = c})]
  /\ signReq = [r \in SignRequest |-> Idle]
  /\ signLog = <<>>

-----------------------------------------------------------------------------
(* GET /sign/{token} *)

\* Fault: every view of the page counts as the first.
FirstView_Any(d) == TRUE

FirstView(d) == status[d] = "NOT_OPENED"

\* The first view of a delivery; later ones change nothing.
SigningPageRead(r, d) ==
  /\ signReq[r] = Idle
  /\ Live(d)
  /\ FirstView(d)
  /\ signReq' = [signReq EXCEPT ![r] = [op |-> "open", delivery |-> d]]
  /\ UNCHANGED <<otpVars, status, audit, final, method, totalSigned, signLog>>

SigningPageCommit(r) ==
  /\ signReq[r].op = "open"
  /\ status' = [status EXCEPT ![signReq[r].delivery] = "OPENED"]
  /\ signReq' = [signReq EXCEPT ![r] = Idle]
  /\ UNCHANGED <<otpVars, audit, final, method, totalSigned, signLog>>

-----------------------------------------------------------------------------
(* POST /sign/{token}/submit *)

\* Fault: any dated cookie will do.
HasSession_AnyDelivery(d) == \E s \in session : s.expires > now

\* signing_session.verify: the cookie is bound to one delivery and dated.
HasSession(d) == \E s \in session : s.delivery = d /\ s.expires > now

Signable(d) == status[d] # "SIGNED"

SubmitRead(r, d, form) ==
  /\ signReq[r] = Idle
  /\ Live(d)
  /\ Signable(d)
  /\ CampaignOf[d] \in RequiresSignature => HasSession(d) /\ MethodOf[form] # NoMethod
  /\ signReq' = [signReq EXCEPT ![r] =
       [op |-> "render", delivery |-> d, form |-> form, method |-> method[d],
        total |-> totalSigned[CampaignOf[d]]]]
  /\ UNCHANGED <<otpVars, status, audit, final, method, totalSigned, signLog>>

\* generate_final has returned; build_signed_audit reads the chain.
SubmitReadChain(r) ==
  /\ signReq[r].op = "render"
  /\ LET q == signReq[r]
     IN signReq' = [signReq EXCEPT ![r] =
          [op |-> "sign", delivery |-> q.delivery, form |-> q.form,
           method |-> q.method, total |-> q.total, prev |-> GetLastOrgHash(q.delivery, status, audit)]]
  /\ UNCHANGED <<otpVars, status, audit, final, method, totalSigned, signLog>>

\* Fault: the audit is built before the row is updated.
SignedAudit_OldRow(q) ==
  BuildSignedAudit(q.delivery, q.form, final[q.delivery], q.method, q.prev)

SignedAudit(q) == BuildSignedAudit(q.delivery, q.form, q.form, MethodOf[q.form], q.prev)

\* Fault: the increment is forgotten.
NewTotal_Same(q) == q.total

\* Fault: the counter is counted down.
NewTotal_Down(q) == q.total - 1

NewTotal(q) == q.total + 1

SubmitCommit(r) ==
  /\ signReq[r].op = "sign"
  /\ LET q == signReq[r]
         d == q.delivery
     IN /\ status' = [status EXCEPT ![d] = "SIGNED"]
        /\ final' = [final EXCEPT ![d] = q.form]
        /\ method' = [method EXCEPT ![d] =
             IF MethodOf[q.form] = q.method THEN @ ELSE MethodOf[q.form]]
        /\ audit' = [audit EXCEPT ![d] = SignedAudit(q)]
        /\ totalSigned' = [totalSigned EXCEPT ![CampaignOf[d]] = NewTotal(q)]
        /\ signLog' = Append(signLog, d)
  /\ signReq' = [signReq EXCEPT ![r] = Idle]
  /\ UNCHANGED otpVars

-----------------------------------------------------------------------------

AbortSign(r) ==
  /\ signReq[r] # Idle
  /\ signReq' = [signReq EXCEPT ![r] = Idle]
  /\ UNCHANGED <<otpVars, status, audit, final, method, totalSigned, signLog>>

SignStep(r) ==
  \/ \E d \in Delivery : SigningPageRead(r, d)
  \/ SigningPageCommit(r)
  \/ \E d \in Delivery, form \in Form : SubmitRead(r, d, form)
  \/ SubmitReadChain(r)
  \/ SubmitCommit(r)
  \/ AbortSign(r)

Next ==
  \/ OtpNext /\ UNCHANGED signVars
  \/ \E r \in SignRequest : SignStep(r)

Spec == Init /\ [][Next]_vars

-----------------------------------------------------------------------------
(* Properties *)

OpenRequest == [op: {"open"}, delivery: Delivery]

Method == {MethodOf[f] : f \in Form} \cup {NoMethod}

RenderRequest ==
  [op: {"render"}, delivery: Delivery, form: Form, method: Method, total: Nat]

\* A request that is about to sign also carries the hash it read.
IsSignRequest(q) ==
  /\ DOMAIN q = {"op", "delivery", "form", "method", "total", "prev"}
  /\ q.op = "sign"
  /\ q.delivery \in Delivery /\ q.form \in Form /\ q.method \in Method /\ q.total \in Nat

TypeOK ==
  /\ OtpTypeOK
  /\ status \in [Delivery -> DocumentStatus]
  /\ DOMAIN audit = Delivery
  /\ final \in [Delivery -> Form \cup {NoFinal}]
  /\ method \in [Delivery -> Method]
  /\ totalSigned \in [Campaign -> Nat]
  /\ DOMAIN signReq = SignRequest
  /\ \A r \in SignRequest :
       \/ signReq[r] \in {Idle} \cup OpenRequest \cup RenderRequest
       \/ IsSignRequest(signReq[r])
  /\ signLog \in Seq(Delivery)

\* A delivery whose template requires a signature is signed only if one of the
\* codes sent for that very delivery was entered correctly: the only link
\* between the two requests is a cookie.
SignatureNeedsVerifiedCode ==
  \A d \in Delivery \ PreChain :
    (status[d] = "SIGNED" /\ CampaignOf[d] \in RequiresSignature)
      => \E i \in DOMAIN otp : otp[i].delivery = d /\ otp[i].verified

\* The flow implements SigningPromise: whatever its requests read and write, to
\* the outside each step confirms one delivery, signs one that may be signed,
\* or does nothing.  A signature counts when it is committed (signLog): the
\* status may be taken back by a page view that overlaps it.
Confirmed == {d \in Delivery : \E i \in DOMAIN otp : otp[i].delivery = d /\ otp[i].verified}
Signed == PreChain \cup {signLog[i] : i \in DOMAIN signLog}

Promise == INSTANCE SigningPromise WITH
  Document <- Delivery,
  NeedsCode <- {d \in Delivery : CampaignOf[d] \in RequiresSignature},
  AlreadySigned <- PreChain,
  confirmed <- Confirmed,
  signed <- Signed

KeepsPromise == Promise!PromiseSpec

\* The method the last submission of a delivery named.
NamedMethod(d) == IF audit[d].chained THEN MethodOf[audit[d].form] ELSE NoMethod

SignedAgain(d) == \E i, j \in DOMAIN signLog : i # j /\ signLog[i] = d /\ signLog[j] = d

\* Every chain row recomputes with the method its last submission named, which
\* is the method stored unless the delivery was signed more than once: of
\* submissions that overlap, one leaves another's method under its own hash,
\* and verify_org_chain then reports the row in broken_at.
ChainRowsRecompute ==
  \A d \in Delivery :
    /\ Broken(OrgOf[d], status, audit, final,
              [e \in Delivery |-> NamedMethod(e)]) = {}
    /\ \A e \in Broken(OrgOf[d], status, audit, final, method) : SignedAgain(e)

\* A link never leaves the organization ("each tenant has their own chain",
\* audit_chain.py:17) and never points at the row itself.
LinksStayInOrg ==
  \A d \in Delivery :
    (status[d] = "SIGNED" /\ audit[d].chained) =>
      \/ audit[d].prev_hash = GENESIS_HASH
      \/ /\ OrgOf[audit[d].prev_hash.payload.delivery] = OrgOf[d]
         /\ audit[d].prev_hash.payload.delivery # d

\* The lifecycle of a delivery only moves forward: the page view flips
\* NOT_OPENED and nothing else (public_sign.py:120).
StatusForward ==
  \A d \in Delivery :
    /\ status[d] = "SIGNED" => status'[d] = "SIGNED"
    /\ status[d] = "OPENED" => status'[d] # "NOT_OPENED"

\* A delivery is signed at most once: resubmission is refused
\* (test_public_sign_flow.py:366).
SignedOnce ==
  \A i, j \in DOMAIN signLog : signLog[i] = signLog[j] => i = j

\* The campaign's counter is the number of its signed deliveries, so that
\* the dashboard never has to count rows (models/document_campaigns.py:8-9).
TotalSignedIsExact ==
  \A c \in Campaign :
    totalSigned[c] =
      Cardinality({d \in Delivery : CampaignOf[d] = c /\ status[d] = "SIGNED"})

\* Without tampering the verifier finds every organization's chain valid
\* (audit_chain.py:12-13).
ChainVerifies ==
  \A d \in Delivery : VerifyOrgChain(OrgOf[d], status, audit, final, method)

\* The chain is valid as long as deliveries are signed by ascending id.
SignedInIdOrder == \A i, j \in DOMAIN signLog : i < j => signLog[i] < signLog[j]
ChainVerifiesInIdOrder == SignedInIdOrder => ChainVerifies
=============================================================================
