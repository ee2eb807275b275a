------------------------ MODULE DocumentSigningProofs ------------------------
(***************************************************************************)
(* What the signing flow keeps for any deliveries, organizations,          *)
(* campaigns, limits and number of concurrent requests.                    *)
(***************************************************************************)
EXTENDS DocumentSigning, FiniteSetTheorems, WellFoundedInduction, TLAPS

-----------------------------------------------------------------------------
(* The table of codes, of OtpSpec on its own: any number of deliveries,     *)
(* concurrent requests and codes, and any of the limits.                     *)

\* A code in flight is drawn but not in the table yet, and no other request
\* carries it.
IssueInFlight ==
  \A r \in OtpRequest : otpReq[r].op = "issue" =>
    /\ otpReq[r].id \in (1..drawn) \ DOMAIN otp
    /\ otpReq[r].created <= now
    /\ \A s \in OtpRequest \ {r} :
         otpReq[s].op = "issue" => otpReq[s].id # otpReq[r].id

\* A verification in flight read a row that is still there, with an attempt
\* left and for the delivery it answers for.
VerifyInFlight ==
  \A r \in OtpRequest : otpReq[r].op = "verify" =>
    /\ otpReq[r].id \in DOMAIN otp
    /\ otpReq[r].attempts < OtpMaxAttempts
    /\ otp[otpReq[r].id].delivery = otpReq[r].delivery

RowsFromThePast == \A i \in DOMAIN otp : otp[i].created <= now

OtpInv ==
  /\ OtpTypeOK
  /\ AttemptsWithinMax
  /\ IssueInFlight
  /\ VerifyInFlight
  /\ RowsFromThePast
  /\ SessionFollowsVerifiedCode

\* The initial state satisfies the invariant: no row, no request, no cookie.
LEMMA OtpInitInv == OtpInit => OtpInv
BY OtpAssumption DEF OtpInit, OtpInv, OtpTypeOK, AttemptsWithinMax, IssueInFlight,
   VerifyInFlight, RowsFromThePast, SessionFollowsVerifiedCode, Idle

\* Reading for an issue draws a fresh number and touches no row.
LEMMA RequestOtpReadInv ==
  ASSUME OtpInv, NEW r \in OtpRequest, NEW d \in Delivery, RequestOtpRead(r, d)
  PROVE  OtpInv'
<1> USE OtpAssumption DEF OtpInv, OtpTypeOK, RequestOtpRead, NextOtp, Idle
<1>1. drawn + 1 \in OtpId /\ drawn \in Nat
  BY DEF OtpId
<1>2. otpReq'[r] \in IssueRequest
  BY <1>1 DEF IssueRequest
<1>3. OtpTypeOK'
  BY <1>1, <1>2 DEF OtpId
<1>4. AttemptsWithinMax' /\ RowsFromThePast' /\ SessionFollowsVerifiedCode'
  BY DEF AttemptsWithinMax, RowsFromThePast, SessionFollowsVerifiedCode
<1>5. IssueInFlight'
  BY <1>1 DEF IssueInFlight
<1>6. VerifyInFlight'
  BY DEF VerifyInFlight
<1> QED
  BY <1>3, <1>4, <1>5, <1>6

\* Inserting the drawn code adds one fresh row with no attempt on it.
LEMMA RequestOtpCommitInv ==
  ASSUME OtpInv, NEW r \in OtpRequest, RequestOtpCommit(r)
  PROVE  OtpInv'
<1> USE OtpAssumption DEF OtpInv, OtpTypeOK, RequestOtpCommit
<1> DEFINE q == otpReq[r]
<1>1. q \in IssueRequest
  BY DEF Idle, VerifyRequest
<1>2. q.id \in (1..drawn) \ DOMAIN otp /\ q.created <= now
  BY DEF IssueInFlight
<1>3. /\ DOMAIN otp' = DOMAIN otp \cup {q.id}
      /\ \A i \in DOMAIN otp : otp'[i] = otp[i]
      /\ otp'[q.id] = [delivery |-> q.delivery, attempts |-> 0, verified |-> FALSE,
                       created |-> q.created, expires |-> q.created + OtpTtl]
  BY <1>2
<1>4. otp'[q.id] \in OtpRow
  BY <1>1, <1>3 DEF IssueRequest, OtpRow
<1>5. OtpTypeOK'
  <2>1. otp' \in [DOMAIN otp' -> OtpRow]
    BY <1>2, <1>3, <1>4
  <2>2. DOMAIN otp' \subseteq 1..drawn
    BY <1>2, <1>3
  <2> QED
    BY <2>1, <2>2
<1>6. AttemptsWithinMax'
  BY <1>2, <1>3, <1>4 DEF AttemptsWithinMax
<1>7. RowsFromThePast'
  BY <1>2, <1>3, <1>4 DEF RowsFromThePast
<1>8. SessionFollowsVerifiedCode'
  <2> SUFFICES ASSUME NEW s \in session
               PROVE  \E i \in DOMAIN otp' :
                        /\ otp'[i].delivery = s.delivery
                        /\ otp'[i].verified
                        /\ s.expires >= otp'[i].created + SessionTtl
    BY DEF SessionFollowsVerifiedCode
  <2>1. PICK i \in DOMAIN otp : /\ otp[i].delivery = s.delivery
                               /\ otp[i].verified
                               /\ s.expires >= otp[i].created + SessionTtl
    BY DEF SessionFollowsVerifiedCode
  <2>2. i \in DOMAIN otp' /\ otp'[i] = otp[i]
    BY <1>3
  <2> QED
    BY <2>1, <2>2
<1>9. IssueInFlight'
  <2> SUFFICES ASSUME NEW s \in OtpRequest, otpReq'[s].op = "issue"
               PROVE  /\ otpReq'[s].id \in (1..drawn) \ DOMAIN otp'
                      /\ otpReq'[s].created <= now
                      /\ \A t \in OtpRequest \ {s} :
                           otpReq'[t].op = "issue" => otpReq'[t].id # otpReq'[s].id
    BY DEF IssueInFlight
  <2>1. s # r /\ otpReq'[s] = otpReq[s]
    BY DEF Idle
  <2>2. otpReq[s].id # q.id
    BY <2>1 DEF IssueInFlight
  <2> QED
    BY <1>3, <2>1, <2>2 DEF IssueInFlight, Idle
<1>10. VerifyInFlight'
  BY <1>3 DEF VerifyInFlight, Idle
<1> QED
  BY <1>5, <1>6, <1>7, <1>8, <1>9, <1>10

\* Reading for a verification only happens with an attempt left.
LEMMA VerifyOtpReadInv ==
  ASSUME OtpInv, NEW r \in OtpRequest, NEW d \in Delivery,
         NEW correct \in BOOLEAN, NEW challenged \in BOOLEAN,
         VerifyOtpRead(r, d, correct, challenged)
  PROVE  OtpInv'
<1> USE OtpAssumption DEF OtpInv, OtpTypeOK, Idle
<1>1. PICK i \in DOMAIN otp :
        /\ otp[i].delivery = d
        /\ otp[i].attempts < OtpMaxAttempts
        /\ otpReq' = [otpReq EXCEPT ![r] =
             [op |-> "verify", id |-> i, delivery |-> d,
              attempts |-> otp[i].attempts,
              correct |-> correct]]
  BY DEF VerifyOtpRead, AttemptsLeft, IsLatestUnverified, UnverifiedOtps
<1>2. UNCHANGED <<now, otp, drawn, session>>
  BY DEF VerifyOtpRead
<1>3. otpReq'[r] \in VerifyRequest
  <2>1. i \in OtpId /\ otp[i] \in OtpRow
    BY DEF OtpId
  <2> QED
    BY <1>1, <2>1 DEF VerifyRequest, OtpRow
<1>4. OtpTypeOK'
  BY <1>1, <1>2, <1>3
<1>5. AttemptsWithinMax' /\ RowsFromThePast' /\ SessionFollowsVerifiedCode'
  BY <1>2 DEF AttemptsWithinMax, RowsFromThePast, SessionFollowsVerifiedCode
<1>6. IssueInFlight'
  BY <1>1, <1>2 DEF IssueInFlight
<1>7. VerifyInFlight'
  BY <1>1, <1>2 DEF VerifyInFlight
<1> QED
  BY <1>4, <1>5, <1>6, <1>7

\* A wrong code writes one more attempt than the request read, which is still
\* within the maximum, whatever others wrote in between.
LEMMA VerifyOtpRejectInv ==
  ASSUME OtpInv, NEW r \in OtpRequest, VerifyOtpReject(r)
  PROVE  OtpInv'
<1> USE OtpAssumption DEF OtpInv, OtpTypeOK, VerifyOtpReject
<1> DEFINE q == otpReq[r]
<1>1. q \in VerifyRequest
  BY DEF Idle, IssueRequest
<1>2. q.id \in DOMAIN otp /\ q.attempts < OtpMaxAttempts
  BY DEF VerifyInFlight
<1>3. otp[q.id] \in OtpRow /\ q.attempts \in Nat
  BY <1>1, <1>2 DEF VerifyRequest
<1>4. /\ otp' \in [DOMAIN otp -> OtpRow]
      /\ \A i \in DOMAIN otp :
           /\ otp'[i].delivery = otp[i].delivery
           /\ otp'[i].verified = otp[i].verified
           /\ otp'[i].created = otp[i].created
           /\ otp'[i].attempts = IF i = q.id THEN q.attempts + 1 ELSE otp[i].attempts
  BY <1>2, <1>3 DEF RejectedRow, OtpRow
<1>5. DOMAIN otp' = DOMAIN otp
  BY <1>4
<1>6. OtpTypeOK'
  BY <1>4, <1>5
<1>7. AttemptsWithinMax'
  BY <1>2, <1>3, <1>4, <1>5 DEF AttemptsWithinMax
<1>8. RowsFromThePast' /\ SessionFollowsVerifiedCode'
  BY <1>4, <1>5 DEF RowsFromThePast, SessionFollowsVerifiedCode
<1>9. IssueInFlight' /\ VerifyInFlight'
  BY <1>4, <1>5 DEF IssueInFlight, VerifyInFlight, Idle
<1> QED
  BY <1>6, <1>7, <1>8, <1>9

\* What acceptance writes into a row: the counter and the mark.
LEMMA AcceptedRowFields ==
  ASSUME NEW row \in OtpRow, NEW q, q.attempts \in Nat
  PROVE  /\ AcceptedRow(row, q) \in OtpRow
         /\ AcceptedRow(row, q).verified
         /\ AcceptedRow(row, q).delivery = row.delivery
         /\ AcceptedRow(row, q).created = row.created
         /\ AcceptedRow(row, q).attempts = q.attempts + 1
<1> DEFINE marked == [row EXCEPT !.attempts = q.attempts + 1]
<1>1. marked \in OtpRow /\ marked.attempts = q.attempts + 1
      /\ marked.delivery = row.delivery /\ marked.created = row.created
  BY DEF OtpRow
<1>2. AcceptedRow(row, q) = [marked EXCEPT !.verified = TRUE]
  BY DEF AcceptedRow, OtpRow
<1> HIDE DEF marked
<1> QED
  BY <1>1, <1>2 DEF OtpRow

\* The right code marks the row and opens a session dated from now, after the
\* row was created.
LEMMA VerifyOtpAcceptInv ==
  ASSUME OtpInv, NEW r \in OtpRequest, VerifyOtpAccept(r)
  PROVE  OtpInv'
<1> USE OtpAssumption DEF OtpInv, OtpTypeOK, VerifyOtpAccept
<1> DEFINE q == otpReq[r]
           s == [delivery |-> q.delivery, expires |-> now + SessionTtl]
<1>1. q \in VerifyRequest
  BY DEF Idle, IssueRequest
<1>2. /\ q.id \in DOMAIN otp /\ q.attempts < OtpMaxAttempts
      /\ otp[q.id].delivery = q.delivery
  BY DEF VerifyInFlight
<1>3. otp[q.id] \in OtpRow /\ q.attempts \in Nat /\ q.delivery \in Delivery
  BY <1>1, <1>2 DEF VerifyRequest
<1>4. /\ otp' \in [DOMAIN otp -> OtpRow]
      /\ \A i \in DOMAIN otp :
           /\ otp'[i].delivery = otp[i].delivery
           /\ i = q.id \/ otp[i].verified => otp'[i].verified
           /\ otp'[i].created = otp[i].created
           /\ otp'[i].attempts = IF i = q.id THEN q.attempts + 1 ELSE otp[i].attempts
  <2>1. otp' = [otp EXCEPT ![q.id] = AcceptedRow(otp[q.id], q)]
    OBVIOUS
  <2>2. otp'[q.id] = AcceptedRow(otp[q.id], q)
        /\ \A i \in DOMAIN otp : i # q.id => otp'[i] = otp[i]
    BY <1>2, <2>1
  <2>3. /\ AcceptedRow(otp[q.id], q) \in OtpRow
        /\ AcceptedRow(otp[q.id], q).verified
        /\ AcceptedRow(otp[q.id], q).delivery = otp[q.id].delivery
        /\ AcceptedRow(otp[q.id], q).created = otp[q.id].created
        /\ AcceptedRow(otp[q.id], q).attempts = q.attempts + 1
    BY <1>3, AcceptedRowFields
  <2> QED
    BY <1>2, <2>1, <2>2, <2>3
<1>5. DOMAIN otp' = DOMAIN otp /\ session' = session \cup {s}
  BY <1>4
<1>6. OtpTypeOK'
  BY <1>3, <1>4, <1>5 DEF SigningSession
<1>7. AttemptsWithinMax'
  BY <1>2, <1>3, <1>4, <1>5 DEF AttemptsWithinMax
<1>8. RowsFromThePast'
  BY <1>4, <1>5 DEF RowsFromThePast
<1>9. SessionFollowsVerifiedCode'
  <2>1. s.expires >= otp'[q.id].created + SessionTtl
    <3>1. otp[q.id].created \in Nat /\ otp[q.id].created <= now
      BY <1>2, <1>3 DEF RowsFromThePast, OtpRow
    <3>2. otp'[q.id].created = otp[q.id].created
      BY <1>2, <1>4
    <3> QED
      BY <3>1, <3>2
  <2> QED
    BY <1>2, <1>4, <1>5, <2>1 DEF SessionFollowsVerifiedCode
<1>10. IssueInFlight' /\ VerifyInFlight'
  BY <1>4, <1>5 DEF IssueInFlight, VerifyInFlight, Idle
<1> QED
  BY <1>6, <1>7, <1>8, <1>9, <1>10

\* Rolling back or letting time pass disturbs nothing.
LEMMA AbortAndTickInv ==
  ASSUME OtpInv, Tick \/ \E r \in OtpRequest : AbortOtp(r)
  PROVE  OtpInv'
<1> USE OtpAssumption DEF OtpInv, OtpTypeOK, AttemptsWithinMax, RowsFromThePast,
        SessionFollowsVerifiedCode, IssueInFlight, VerifyInFlight
<1>1. CASE Tick
  <2>1. OtpTypeOK' /\ AttemptsWithinMax' /\ SessionFollowsVerifiedCode' /\ VerifyInFlight'
    BY <1>1 DEF Tick
  <2>2. RowsFromThePast'
    BY <1>1 DEF Tick, OtpRow
  <2>3. ASSUME NEW r \in OtpRequest, otpReq[r].op = "issue"
        PROVE  otpReq[r].created <= now'
    <3>1. otpReq[r] \in IssueRequest
      BY <2>3 DEF Idle, VerifyRequest
    <3> QED
      BY <1>1, <2>3, <3>1 DEF Tick, IssueRequest
  <2>4. IssueInFlight'
    BY <1>1, <2>3 DEF Tick
  <2> QED
    BY <2>1, <2>2, <2>4
<1>2. ASSUME NEW r \in OtpRequest, AbortOtp(r)
      PROVE  OtpInv'
  BY <1>2 DEF AbortOtp, Idle
<1> QED
  BY <1>1, <1>2

\* The invariant is inductive.
LEMMA OtpNextInv == OtpInv /\ [OtpNext]_otpVars => OtpInv'
<1> SUFFICES ASSUME OtpInv, [OtpNext]_otpVars PROVE OtpInv'
  OBVIOUS
<1>1. CASE UNCHANGED otpVars
  BY <1>1 DEF otpVars, OtpInv, OtpTypeOK, AttemptsWithinMax, RowsFromThePast,
     SessionFollowsVerifiedCode, IssueInFlight, VerifyInFlight
<1>2. CASE Tick
  BY <1>2, AbortAndTickInv
<1>3. ASSUME NEW r \in OtpRequest, OtpStep(r) PROVE OtpInv'
  BY <1>3, RequestOtpReadInv, RequestOtpCommitInv, VerifyOtpReadInv,
     VerifyOtpRejectInv, VerifyOtpAcceptInv, AbortAndTickInv DEF OtpStep
<1> QED
  BY <1>1, <1>2, <1>3 DEF OtpNext

-----------------------------------------------------------------------------

\* The code table keeps its shape: rows are numbered within what was drawn.
THEOREM OtpTypeCorrect == OtpSpec => []OtpTypeOK
<1>1. OtpInv => OtpTypeOK
  BY DEF OtpInv
<1> QED
  BY <1>1, OtpInitInv, OtpNextInv, PTL DEF OtpSpec

\* However many verifications interleave, no row ever counts more than
\* max_attempts attempts.
THEOREM AttemptsStayWithinMax == OtpSpec => []AttemptsWithinMax
<1>1. OtpInv => AttemptsWithinMax
  BY DEF OtpInv
<1> QED
  BY <1>1, OtpInitInv, OtpNextInv, PTL DEF OtpSpec

\* Every cookie goes back to a code of its own delivery.
THEOREM SessionsFollowCodes == OtpSpec => []SessionFollowsVerifiedCode
<1>1. OtpInv => SessionFollowsVerifiedCode
  BY DEF OtpInv
<1> QED
  BY <1>1, OtpInitInv, OtpNextInv, PTL DEF OtpSpec

\* A step never removes a row, moves it to another delivery or takes its
\* verification back: an insert uses a number no row has, and a rejection
\* writes only the counter.
LEMMA RowsStay ==
  ASSUME OtpInv, [OtpNext]_otpVars, NEW i \in DOMAIN otp
  PROVE  /\ i \in DOMAIN otp'
         /\ otp'[i].delivery = otp[i].delivery
         /\ otp[i].verified => otp'[i].verified
<1> USE DEF OtpInv, OtpTypeOK
<1>1. CASE UNCHANGED otp
  BY <1>1
<1>2. ASSUME NEW r \in OtpRequest, RequestOtpCommit(r)
      PROVE  i \in DOMAIN otp' /\ otp'[i] = otp[i]
  BY <1>2 DEF RequestOtpCommit, IssueInFlight
<1>3. ASSUME NEW r \in OtpRequest, VerifyOtpReject(r)
      PROVE  /\ i \in DOMAIN otp'
             /\ otp'[i].delivery = otp[i].delivery
             /\ otp[i].verified => otp'[i].verified
  <2>1. otp[i] \in OtpRow /\ otpReq[r].id \in DOMAIN otp
    BY <1>3 DEF VerifyOtpReject, VerifyInFlight
  <2> QED
    BY <1>3, <2>1 DEF VerifyOtpReject, RejectedRow, OtpRow
<1>4. ASSUME NEW r \in OtpRequest, VerifyOtpAccept(r)
      PROVE  /\ i \in DOMAIN otp'
             /\ otp'[i].delivery = otp[i].delivery
             /\ otp[i].verified => otp'[i].verified
  <2>1. otp[i] \in OtpRow /\ otpReq[r].id \in DOMAIN otp
    BY <1>4 DEF VerifyOtpAccept, VerifyInFlight
  <2>2. otpReq[r] \in VerifyRequest /\ otpReq[r].attempts \in Nat
    BY <1>4 DEF VerifyOtpAccept, VerifyRequest, IssueRequest, Idle
  <2>3. CASE i = otpReq[r].id
    <3>1. otp' = [otp EXCEPT ![i] = AcceptedRow(otp[i], otpReq[r])]
      BY <1>4, <2>3 DEF VerifyOtpAccept
    <3>2. /\ AcceptedRow(otp[i], otpReq[r]).verified
          /\ AcceptedRow(otp[i], otpReq[r]).delivery = otp[i].delivery
      BY <2>1, <2>2, AcceptedRowFields
    <3> QED
      BY <3>1, <3>2
  <2>4. CASE i # otpReq[r].id
    BY <1>4, <2>4 DEF VerifyOtpAccept
  <2> QED
    BY <2>3, <2>4
<1>5. \/ UNCHANGED otp
      \/ \E r \in OtpRequest :
           RequestOtpCommit(r) \/ VerifyOtpReject(r) \/ VerifyOtpAccept(r)
  BY DEF otpVars, OtpNext, OtpStep, Tick, RequestOtpRead, VerifyOtpRead, AbortOtp
<1> QED
  BY <1>1, <1>2, <1>3, <1>4, <1>5

\* A verified code stays verified.
THEOREM VerifiedStaysVerified == OtpSpec => VerifiedForGood
<1>1. OtpInv /\ [OtpNext]_otpVars
        => [\A i \in DOMAIN otp : otp[i].verified => otp'[i].verified]_otpVars
  BY RowsStay
<1> QED
  BY <1>1, OtpInitInv, OtpNextInv, PTL DEF OtpSpec, VerifiedForGood

-----------------------------------------------------------------------------
(* The hourly limit.  It is checked against committed rows only, so what counts *)
(* is the recent rows of a delivery together with the codes about to be         *)
(* inserted for it: a request adds to the second only while the first is below  *)
(* the limit, and its commit moves one from the second to the first.            *)

IssuesFor(d) == {r \in OtpRequest : otpReq[r].op = "issue" /\ otpReq[r].delivery = d}

RecentAndComing ==
  \A d \in Delivery :
    Cardinality(RecentOtps(d)) + Cardinality(IssuesFor(d))
      <= OtpMaxRequestsPerHour - 1 + Cardinality(OtpRequest)

\* Both sets are finite: rows are numbered, and so are the requests.
LEMMA CountsAreNatural ==
  ASSUME OtpTypeOK, NEW d
  PROVE  /\ IsFiniteSet(RecentOtps(d)) /\ Cardinality(RecentOtps(d)) \in Nat
         /\ IsFiniteSet(IssuesFor(d)) /\ Cardinality(IssuesFor(d)) \in Nat
         /\ Cardinality(OtpRequest) \in Nat
         /\ Cardinality(IssuesFor(d)) <= Cardinality(OtpRequest)
<1>1. drawn \in Nat /\ RecentOtps(d) \in SUBSET (1..drawn)
  BY OtpAssumption DEF OtpTypeOK, RecentOtps
<1>2. IsFiniteSet(RecentOtps(d))
  <2>1. IsFiniteSet(1..drawn)
    BY <1>1, FS_Interval, drawn \in Int
  <2> QED
    BY <1>1, <2>1, FS_Subset
<1>3. IssuesFor(d) \in SUBSET OtpRequest
  BY DEF IssuesFor
<1>4. IsFiniteSet(IssuesFor(d)) /\ Cardinality(IssuesFor(d)) <= Cardinality(OtpRequest)
  BY <1>3, OtpLimitAssumption, FS_Subset
<1> QED
  BY <1>2, <1>4, OtpLimitAssumption, FS_CardinalityType

\* Fewer recent rows and fewer codes to come keep the bound.
LEMMA FewerKeepBound ==
  ASSUME OtpTypeOK, NEW d \in Delivery, RecentAndComing,
         RecentOtps(d)' \subseteq RecentOtps(d), IssuesFor(d)' \subseteq IssuesFor(d)
  PROVE  Cardinality(RecentOtps(d)') + Cardinality(IssuesFor(d)')
           <= OtpMaxRequestsPerHour - 1 + Cardinality(OtpRequest)
<1> DEFINE A == RecentOtps(d)   A1 == RecentOtps(d)'
           B == IssuesFor(d)    B1 == IssuesFor(d)'
<1>1. /\ IsFiniteSet(A) /\ IsFiniteSet(B)
      /\ Cardinality(A) \in Nat /\ Cardinality(B) \in Nat /\ Cardinality(OtpRequest) \in Nat
  BY CountsAreNatural
<1>2. A1 \in SUBSET A /\ B1 \in SUBSET B
  OBVIOUS
<1>3. Cardinality(A) + Cardinality(B) <= OtpMaxRequestsPerHour - 1 + Cardinality(OtpRequest)
  BY DEF RecentAndComing
<1> HIDE DEF A, A1, B, B1
<1>4. Cardinality(A1) <= Cardinality(A) /\ Cardinality(B1) <= Cardinality(B)
  BY <1>1, <1>2, FS_Subset
<1>5. Cardinality(A1) \in Nat /\ Cardinality(B1) \in Nat
  BY <1>1, <1>2, FS_Subset, FS_CardinalityType
<1>6. Cardinality(A1) + Cardinality(B1)
        <= OtpMaxRequestsPerHour - 1 + Cardinality(OtpRequest)
  BY <1>1, <1>3, <1>4, <1>5, OtpAssumption
<1> QED
  BY <1>6 DEF A1, B1

\* A request that draws a code has found fewer recent rows than the limit, and
\* no more codes can be coming than there are requests.
LEMMA ReadKeepsBound ==
  ASSUME OtpInv, OtpTypeOK', RecentAndComing,
         NEW r \in OtpRequest, NEW e \in Delivery, RequestOtpRead(r, e)
  PROVE  RecentAndComing'
<1> SUFFICES ASSUME NEW d \in Delivery
             PROVE  Cardinality(RecentOtps(d)') + Cardinality(IssuesFor(d)')
                      <= OtpMaxRequestsPerHour - 1 + Cardinality(OtpRequest)
  BY DEF RecentAndComing
<1>1. RecentOtps(d)' = RecentOtps(d)
  BY DEF RequestOtpRead, RecentOtps
<1>2. CASE d = e
  <2>1. Cardinality(RecentOtps(d)) < OtpMaxRequestsPerHour
    BY <1>2 DEF RequestOtpRead, IssueAllowed
  <2>2. /\ Cardinality(RecentOtps(d)) \in Nat
        /\ Cardinality(OtpRequest) \in Nat
    BY CountsAreNatural DEF OtpInv
  <2>3. /\ Cardinality(IssuesFor(d)') <= Cardinality(OtpRequest)
        /\ Cardinality(IssuesFor(d)') \in Nat
    <3>1. IssuesFor(d)' \in SUBSET OtpRequest
      BY DEF IssuesFor
    <3> HIDE DEF IssuesFor
    <3> QED
      BY <3>1, OtpLimitAssumption, FS_Subset, FS_CardinalityType
  <2> QED
    BY <1>1, <2>1, <2>2, <2>3, OtpAssumption
<1>3. CASE d # e
  <2>1. IssuesFor(d)' \subseteq IssuesFor(d)
    BY <1>3 DEF RequestOtpRead, IssuesFor, OtpInv, OtpTypeOK
  <2> QED
    BY <1>1, <2>1, FewerKeepBound DEF OtpInv
<1> QED
  BY <1>2, <1>3

\* A commit turns a code that was coming into a recent row, or into one that is
\* no longer recent.
LEMMA CommitKeepsBound ==
  ASSUME OtpInv, RecentAndComing, NEW r \in OtpRequest, RequestOtpCommit(r)
  PROVE  RecentAndComing'
<1> SUFFICES ASSUME NEW d \in Delivery
             PROVE  Cardinality(RecentOtps(d)') + Cardinality(IssuesFor(d)')
                      <= OtpMaxRequestsPerHour - 1 + Cardinality(OtpRequest)
  BY DEF RecentAndComing
<1> DEFINE q == otpReq[r]
<1>1. /\ q.op = "issue" /\ q.id \notin DOMAIN otp
      /\ otpReq' = [otpReq EXCEPT ![r] = Idle] /\ now' = now
      /\ DOMAIN otp' = DOMAIN otp \cup {q.id}
      /\ \A i \in DOMAIN otp : otp'[i] = otp[i]
      /\ otp'[q.id].delivery = q.delivery
  BY DEF RequestOtpCommit, OtpInv, IssueInFlight
<1>2. IssuesFor(d)' = IssuesFor(d) \ {r}
  BY <1>1 DEF IssuesFor, Idle, OtpInv, OtpTypeOK
<1>3. CASE d = q.delivery
  <2>1. r \in IssuesFor(d)
    BY <1>1, <1>3 DEF IssuesFor
  <2>2. RecentOtps(d)' \in SUBSET (RecentOtps(d) \cup {q.id})
    BY <1>1 DEF RecentOtps
  <2> DEFINE A == RecentOtps(d)   A1 == RecentOtps(d)'
             B == IssuesFor(d)    B1 == IssuesFor(d)'
  <2>3. /\ IsFiniteSet(A) /\ IsFiniteSet(B)
        /\ Cardinality(A) \in Nat /\ Cardinality(B) \in Nat
        /\ Cardinality(OtpRequest) \in Nat
        /\ Cardinality(A) + Cardinality(B)
             <= OtpMaxRequestsPerHour - 1 + Cardinality(OtpRequest)
    BY CountsAreNatural DEF OtpInv, RecentAndComing
  <2>4. A1 \in SUBSET (A \cup {q.id}) /\ B1 = B \ {r} /\ r \in B
    BY <1>2, <2>1, <2>2
  <2> HIDE DEF A, A1, B, B1, q
  <2>5. Cardinality(B1) = Cardinality(B) - 1
    BY <2>3, <2>4, FS_RemoveElement
  <2>6. /\ Cardinality(A1) <= Cardinality(A \cup {q.id}) /\ Cardinality(A1) \in Nat
        /\ Cardinality(A \cup {q.id}) \in {Cardinality(A), Cardinality(A) + 1}
    BY <2>3, <2>4, FS_AddElement, FS_Subset, FS_CardinalityType
  <2>7. Cardinality(A1) + Cardinality(B1)
          <= OtpMaxRequestsPerHour - 1 + Cardinality(OtpRequest)
    BY <2>3, <2>5, <2>6, OtpAssumption
  <2> QED
    BY <2>7 DEF A1, B1
<1>4. CASE d # q.delivery
  <2>1. RecentOtps(d)' \subseteq RecentOtps(d)
    BY <1>1, <1>4 DEF RecentOtps
  <2> QED
    BY <1>2, <2>1, FewerKeepBound DEF OtpInv
<1> QED
  BY <1>3, <1>4

\* Every other step leaves the rows with their delivery and date, and takes
\* requests from those that will insert one, or time from those that are recent.
LEMMA OthersKeepBound ==
  ASSUME OtpInv, RecentAndComing,
         \/ UNCHANGED otpVars
         \/ Tick
         \/ \E r \in OtpRequest :
              \/ \E d \in Delivery, correct, challenged \in BOOLEAN :
                   VerifyOtpRead(r, d, correct, challenged)
              \/ VerifyOtpReject(r) \/ VerifyOtpAccept(r) \/ AbortOtp(r)
  PROVE  RecentAndComing'
<1> SUFFICES ASSUME NEW d \in Delivery
             PROVE  /\ RecentOtps(d)' \subseteq RecentOtps(d)
                    /\ IssuesFor(d)' \subseteq IssuesFor(d)
  BY FewerKeepBound DEF OtpInv, RecentAndComing
<1> USE OtpAssumption DEF OtpInv, OtpTypeOK
<1>1. CASE UNCHANGED otpVars
  BY <1>1 DEF otpVars, RecentOtps, IssuesFor
<1>2. CASE Tick
  <2>1. \A i \in DOMAIN otp : otp[i].created \in Nat
    BY DEF OtpRow
  <2> QED
    BY <1>2, <2>1 DEF Tick, RecentOtps, IssuesFor
<1>3. ASSUME NEW r \in OtpRequest,
             (\E e \in Delivery, correct, challenged \in BOOLEAN :
                VerifyOtpRead(r, e, correct, challenged)) \/ AbortOtp(r)
      PROVE  /\ RecentOtps(d)' \subseteq RecentOtps(d)
             /\ IssuesFor(d)' \subseteq IssuesFor(d)
  BY <1>3 DEF VerifyOtpRead, AbortOtp, RecentOtps, IssuesFor, Idle
<1>4. ASSUME NEW r \in OtpRequest, VerifyOtpReject(r) \/ VerifyOtpAccept(r)
      PROVE  /\ RecentOtps(d)' \subseteq RecentOtps(d)
             /\ IssuesFor(d)' \subseteq IssuesFor(d)
  <2>1. IssuesFor(d)' \subseteq IssuesFor(d) /\ now' = now
    BY <1>4 DEF VerifyOtpReject, VerifyOtpAccept, IssuesFor, Idle
  <2>2. /\ DOMAIN otp' = DOMAIN otp
        /\ \A i \in DOMAIN otp : otp'[i].delivery = otp[i].delivery
                                 /\ otp'[i].created = otp[i].created
    <3>1. otpReq[r] \in VerifyRequest /\ otpReq[r].attempts \in Nat
      BY <1>4 DEF VerifyOtpReject, VerifyOtpAccept, VerifyRequest, IssueRequest, Idle
    <3>2. otpReq[r].id \in DOMAIN otp /\ otp[otpReq[r].id] \in OtpRow
      BY <1>4 DEF VerifyOtpReject, VerifyOtpAccept, VerifyInFlight
    <3>3. CASE VerifyOtpReject(r)
      BY <3>2, <3>3 DEF VerifyOtpReject, RejectedRow, OtpRow
    <3>4. CASE VerifyOtpAccept(r)
      <4>1. otp' = [otp EXCEPT ![otpReq[r].id] = AcceptedRow(otp[otpReq[r].id], otpReq[r])]
        BY <3>4 DEF VerifyOtpAccept
      <4> QED
        BY <3>1, <3>2, <4>1, AcceptedRowFields
    <3> QED
      BY <1>4, <3>3, <3>4
  <2> QED
    BY <2>1, <2>2 DEF RecentOtps
<1> QED
  BY <1>1, <1>2, <1>3, <1>4

\* The bound together with the invariant is inductive.
LEMMA OtpLimitStep ==
  OtpInv /\ RecentAndComing /\ [OtpNext]_otpVars => OtpInv' /\ RecentAndComing'
<1> SUFFICES ASSUME OtpInv, RecentAndComing, [OtpNext]_otpVars
             PROVE  OtpInv' /\ RecentAndComing'
  OBVIOUS
<1>1. OtpInv' /\ OtpTypeOK'
  BY OtpNextInv DEF OtpInv
<1>2. CASE UNCHANGED otpVars \/ Tick
  BY <1>1, <1>2, OthersKeepBound
<1>3. ASSUME NEW r \in OtpRequest, OtpStep(r) PROVE RecentAndComing'
  BY <1>1, <1>3, ReadKeepsBound, CommitKeepsBound, OthersKeepBound DEF OtpStep
<1> QED
  BY <1>1, <1>2, <1>3 DEF OtpNext

\* No row and no request: the bound is the limit itself.
LEMMA OtpLimitInit == OtpInit => RecentAndComing
<1> SUFFICES ASSUME OtpInit, NEW d \in Delivery
             PROVE  Cardinality(RecentOtps(d)) + Cardinality(IssuesFor(d))
                      <= OtpMaxRequestsPerHour - 1 + Cardinality(OtpRequest)
  BY DEF RecentAndComing
<1>1. RecentOtps(d) = {} /\ IssuesFor(d) = {}
  BY DEF OtpInit, RecentOtps, IssuesFor, Idle
<1> QED
  BY <1>1, OtpAssumption, OtpLimitAssumption, FS_EmptySet, FS_CardinalityType

\* However many requests for a code overlap, those issued for a delivery within
\* an hour overshoot the limit by fewer than the requests there are.
THEOREM IssueOvershootStaysBounded == OtpSpec => []IssueOvershootBounded
<1>1. OtpInv /\ RecentAndComing => IssueOvershootBounded
  <2> SUFFICES ASSUME OtpInv, RecentAndComing, NEW d \in Delivery
               PROVE  Cardinality(RecentOtps(d))
                        <= OtpMaxRequestsPerHour - 1 + Cardinality(OtpRequest)
    BY DEF IssueOvershootBounded
  <2> QED
    BY CountsAreNatural, OtpAssumption DEF OtpInv, RecentAndComing
<1> QED
  BY <1>1, OtpInitInv, OtpLimitInit, OtpLimitStep, PTL DEF OtpSpec

-----------------------------------------------------------------------------
(* The flow of a delivery, codes included.                                   *)

\* A set of naturals has a least element, by well-foundedness of <.
LEMMA LeastNatural ==
  ASSUME NEW S \in SUBSET Nat, S # {}
  PROVE  \E x \in S : \A y \in S : x <= y
<1> DEFINE R == {ss \in Nat \X Nat : ss[1] < ss[2]}
<1>1. IsWellFoundedOn(R, Nat)
  BY NatLessThanWellFounded DEF OpToRel
<1>2. \A x, y \in Nat : <<y, x>> \in R <=> y < x
  OBVIOUS
<1> HIDE DEF R
<1>3. PICK x \in S : \A y \in S : ~(<<y, x>> \in R)
  BY <1>1, WFMin
<1>4. ASSUME NEW y \in S PROVE x <= y
  <2>1. x \in Nat /\ y \in Nat
    OBVIOUS
  <2>2. ~(y < x)
    BY <1>2, <1>3, <2>1
  <2> QED
    BY <2>1, <2>2
<1> QED
  BY <1>4

\* A bounded non-empty set of ids has a highest member.
LEMMA MaxIsMember ==
  ASSUME NEW n \in Nat, NEW S \in SUBSET (0..n), S # {}
  PROVE  Max(S) \in S /\ \A y \in S : y <= Max(S)
<1> DEFINE T == {n - x : x \in S}
<1>1. PICK m \in T : \A y \in T : m <= y
  <2>1. T \in SUBSET Nat
    OBVIOUS
  <2>2. T # {}
    OBVIOUS
  <2> HIDE DEF T
  <2> QED
    BY <2>1, <2>2, LeastNatural
<1>2. PICK x \in S : m = n - x
  BY <1>1
<1>3. \A y \in S : x >= y
  BY <1>1, <1>2
<1> QED
  BY <1>3 DEF Max

\* get_last_org_hash returns the genesis hash or the self_hash of a chain row
\* of the same organization, never of the row itself.
LEMMA LastOrgHashIsALink ==
  ASSUME NEW d \in Delivery, NEW s, NEW a
  PROVE  \/ GetLastOrgHash(d, s, a) = GENESIS_HASH
         \/ \E e \in Delivery \ {d} :
              /\ OrgOf[e] = OrgOf[d]
              /\ a[e].chained
              /\ GetLastOrgHash(d, s, a) = a[e].self_hash
<1> DEFINE signed == SignedOf(OrgOf[d], s)
           fetched == {e \in signed : Cardinality({f \in signed : f > e}) < Lookback}
           linked == {e \in fetched \ {d} : a[e].chained}
<1>1. CASE linked = {}
  BY <1>1 DEF GetLastOrgHash
<1>2. CASE linked # {}
  <2> DEFINE top == Max(linked)
  <2>1. signed \subseteq {f \in Delivery : OrgOf[f] = OrgOf[d]}
    BY DEF SignedOf
  <2>2. GetLastOrgHash(d, s, a) = a[top].self_hash
    BY <1>2 DEF GetLastOrgHash, LastOf
  <2> HIDE DEF signed
  <2>3. \A f \in linked : f \in signed /\ f # d /\ a[f].chained
    OBVIOUS
  <2> HIDE DEF linked, fetched
  <2>4. linked \in SUBSET (0..MaxDelivery) /\ MaxDelivery \in Nat
    <3>1. linked \subseteq Delivery
      BY <2>1, <2>3
    <3>2. Delivery \subseteq 1..MaxDelivery /\ MaxDelivery \in Nat
      BY DeliveryAssumption
    <3> QED
      BY <3>1, <3>2
  <2>5. top \in linked
    BY <1>2, <2>4, MaxIsMember
  <2>6. top \in Delivery \ {d} /\ OrgOf[top] = OrgOf[d] /\ a[top].chained
    BY <2>1, <2>3, <2>5
  <2> HIDE DEF top
  <2> QED
    BY <2>2, <2>6, Zenon
<1> QED
  BY <1>1, <1>2

-----------------------------------------------------------------------------
(* The inductive invariant.  The status of a row is not enough: a submission *)
(* in flight has passed the session check already, a late page view may take *)
(* SIGNED back while the audit stays, so the facts are about what requests   *)
(* carry and about every row that has an audit, signed or not.               *)

HasCode(d) == \E i \in DOMAIN otp : otp[i].delivery = d /\ otp[i].verified

IsLink(h, d) ==
  \/ h = GENESIS_HASH
  \/ OrgOf[h.payload.delivery] = OrgOf[d] /\ h.payload.delivery # d

AuditedRow(d) ==
  /\ audit[d].self_hash =
       ComputeSelfHash(audit[d].prev_hash,
                       CanonicalPayload(d, audit[d].form, final[d],
                                        MethodOf[audit[d].form]))
  /\ IsLink(audit[d].prev_hash, d)

RowsConsistent == \A d \in Delivery : audit[d].chained => AuditedRow(d)

Logged == {signLog[i] : i \in DOMAIN signLog}

\* The method stored is the one named by the first submission that is committed,
\* and what was read before is none.
MethodsNamed ==
  /\ \A d \in Delivery :
       audit[d].chained => method[d] = MethodOf[audit[d].form] \/ SignedAgain(d)
  /\ \A d \in Delivery \ Logged : method[d] = NoMethod
  /\ \A r \in SignRequest : signReq[r].op \in {"render", "sign"} =>
       signReq[r].delivery \in Logged \/ signReq[r].method = NoMethod

Gated(d) == CampaignOf[d] \in RequiresSignature => HasCode(d)

SubmissionsGated ==
  \A r \in SignRequest :
    signReq[r].op \in {"render", "sign"} => Gated(signReq[r].delivery)

SubmissionsLink ==
  \A r \in SignRequest :
    signReq[r].op = "sign" => IsLink(signReq[r].prev, signReq[r].delivery)

SignedGated ==
  \A d \in Delivery \ PreChain : status[d] = "SIGNED" => Gated(d)

SignPartOK ==
  /\ status \in [Delivery -> DocumentStatus]
  /\ DOMAIN audit = Delivery
  /\ final \in [Delivery -> Form \cup {NoFinal}]
  /\ method \in [Delivery -> Method]
  /\ totalSigned \in [Campaign -> Nat]
  /\ DOMAIN signReq = SignRequest
  /\ \A r \in SignRequest :
       \/ signReq[r] \in {Idle} \cup OpenRequest \cup RenderRequest
       \/ IsSignRequest(signReq[r])
  /\ signLog \in Seq(Delivery)

SigningInv ==
  /\ OtpInv
  /\ SignPartOK
  /\ RowsConsistent
  /\ MethodsNamed
  /\ SubmissionsGated
  /\ SubmissionsLink
  /\ SignedGated

\* Initially only the pre-chain rows are signed and no row has a link.
LEMMA SigningInitInv == Init => SigningInv
<1> SUFFICES ASSUME Init PROVE SigningInv
  OBVIOUS
<1>1. OtpInv
  BY OtpInitInv DEF Init
<1>2. SignPartOK
  <2>1. \A c : Cardinality({d \in PreChain : CampaignOf[d] = c}) \in Nat
    <3> TAKE c
    <3>1. IsFiniteSet(1..MaxDelivery)
      BY DeliveryAssumption, FS_Interval
    <3>2. {d \in PreChain : CampaignOf[d] = c} \in SUBSET (1..MaxDelivery)
      BY DeliveryAssumption, SigningAssumption
    <3> QED
      BY <3>1, <3>2, FS_Subset, FS_CardinalityType
  <2>2. totalSigned \in [Campaign -> Nat]
    BY <2>1 DEF Init
  <2> QED
    BY <2>2 DEF Init, SignPartOK, DocumentStatus, Method, Idle
<1>3. RowsConsistent /\ MethodsNamed
  BY DEF Init, RowsConsistent, MethodsNamed, NoAudit, Idle
<1>4. SubmissionsGated /\ SubmissionsLink
  BY DEF Init, SubmissionsGated, SubmissionsLink, Idle
<1>5. SignedGated
  BY DEF Init, SignedGated
<1> QED
  BY <1>1, <1>2, <1>3, <1>4, <1>5 DEF SigningInv

\* A code once entered correctly opens its delivery for good.
LEMMA GatedStays ==
  ASSUME OtpInv, [OtpNext]_otpVars, NEW d, Gated(d)
  PROVE  Gated(d)'
BY RowsStay DEF Gated, HasCode

\* A request that signs nothing, and says of a method only what is stored.
LEMMA MethodsKept ==
  ASSUME MethodsNamed, UNCHANGED <<audit, method, signLog>>,
         \A r \in SignRequest :
           \/ signReq'[r] = signReq[r]
           \/ signReq'[r].op \notin {"render", "sign"}
           \/ /\ signReq'[r].delivery \in Delivery
              /\ signReq'[r].method = method[signReq'[r].delivery]
           \/ /\ signReq[r].op = "render"
              /\ signReq'[r].delivery = signReq[r].delivery
              /\ signReq'[r].method = signReq[r].method
  PROVE  MethodsNamed'
<1>1. Logged' = Logged /\ \A d : SignedAgain(d)' <=> SignedAgain(d)
  BY DEF Logged, SignedAgain
<1> QED
  BY <1>1 DEF MethodsNamed

\* A step of the code endpoints keeps the whole invariant.
LEMMA OtpStepInv ==
  ASSUME SigningInv, OtpNext, UNCHANGED signVars
  PROVE  SigningInv'
<1> USE DEF SigningInv
<1>1. OtpInv'
  BY OtpNextInv
<1>2. SignPartOK' /\ RowsConsistent' /\ SubmissionsLink'
  BY DEF signVars, SignPartOK, RowsConsistent, AuditedRow, SubmissionsLink
<1>3. MethodsNamed'
  BY MethodsKept DEF signVars
<1>4. SubmissionsGated' /\ SignedGated'
  <2>1. \A d \in Delivery : Gated(d) => Gated(d)'
    BY GatedStays
  <2>2. \A r \in SignRequest :
          signReq[r].op \in {"render", "sign"} => signReq[r].delivery \in Delivery
    BY DEF SignPartOK, RenderRequest, OpenRequest, IsSignRequest, Idle
  <2> QED
    BY <2>1, <2>2 DEF signVars, SubmissionsGated, SignedGated
<1> QED
  BY <1>1, <1>2, <1>3, <1>4

\* What every step of the signing endpoints leaves alone.
LEMMA GatesFixed ==
  ASSUME UNCHANGED otpVars, OtpInv
  PROVE  OtpInv' /\ \A d : Gated(d)' <=> Gated(d)
<1>1. OtpInv'
  BY OtpNextInv
<1> QED
  BY <1>1 DEF otpVars, Gated, HasCode

\* The two steps of a page view write at most OPENED.
LEMMA SigningPageInv ==
  ASSUME SigningInv, NEW r \in SignRequest,
         (\E d \in Delivery : SigningPageRead(r, d)) \/ SigningPageCommit(r)
  PROVE  SigningInv'
<1> USE DEF SigningInv
<1>1. UNCHANGED <<otpVars, audit, final, method, totalSigned, signLog>>
  BY DEF SigningPageRead, SigningPageCommit
<1>2. OtpInv' /\ \A d : Gated(d)' <=> Gated(d)
  BY <1>1, GatesFixed
<1>3. /\ DOMAIN signReq' = SignRequest
      /\ signReq'[r] \in {Idle} \cup OpenRequest
      /\ \A t \in SignRequest \ {r} : signReq'[t] = signReq[t]
  BY DEF SigningPageRead, SigningPageCommit, SignPartOK, OpenRequest
<1>4. /\ status' \in [Delivery -> DocumentStatus]
      /\ \A d \in Delivery : status'[d] = "SIGNED" => status[d] = "SIGNED"
  <2>1. CASE SigningPageCommit(r)
    <3>1. signReq[r] \in OpenRequest
      BY <2>1 DEF SigningPageCommit, SignPartOK, IsSignRequest, RenderRequest, Idle
    <3> QED
      BY <2>1, <3>1 DEF SigningPageCommit, SignPartOK, OpenRequest, DocumentStatus
  <2>2. CASE UNCHANGED status
    BY <2>2 DEF SignPartOK
  <2> QED
    BY <2>1, <2>2 DEF SigningPageRead
<1>5. SignPartOK'
  BY <1>1, <1>3, <1>4 DEF SignPartOK, IsSignRequest
<1>6. RowsConsistent'
  BY <1>1 DEF RowsConsistent, AuditedRow
<1>7. MethodsNamed'
  BY <1>1, <1>3, MethodsKept DEF Idle, OpenRequest
<1>8. SubmissionsGated' /\ SubmissionsLink'
  BY <1>2, <1>3 DEF SubmissionsGated, SubmissionsLink, Idle, OpenRequest
<1>9. SignedGated'
  BY <1>2, <1>4 DEF SignedGated
<1> QED
  BY <1>2, <1>5, <1>6, <1>7, <1>8, <1>9

\* A submission is let through only with a cookie for its delivery, and such a
\* cookie stands for a verified code.
LEMMA SubmitReadInv ==
  ASSUME SigningInv, NEW r \in SignRequest,
         NEW d \in Delivery, NEW form \in Form, SubmitRead(r, d, form)
  PROVE  SigningInv'
<1> USE DEF SigningInv
<1>1. UNCHANGED <<otpVars, status, audit, final, method, totalSigned, signLog>>
  BY DEF SubmitRead
<1>2. OtpInv' /\ \A e : Gated(e)' <=> Gated(e)
  BY <1>1, GatesFixed
<1>3. Gated(d)
  <2>1. SUFFICES ASSUME CampaignOf[d] \in RequiresSignature PROVE HasCode(d)
    BY DEF Gated
  <2>2. PICK s \in session : s.delivery = d
    BY <2>1 DEF SubmitRead, HasSession
  <2> QED
    BY <2>2 DEF OtpInv, SessionFollowsVerifiedCode, HasCode
<1>4. totalSigned[CampaignOf[d]] \in Nat /\ method[d] \in Method
  BY DEF SignPartOK, Campaign
<1>5. /\ DOMAIN signReq' = SignRequest
      /\ signReq'[r] \in RenderRequest
      /\ signReq'[r].delivery = d /\ signReq'[r].method = method[d]
      /\ \A t \in SignRequest \ {r} : signReq'[t] = signReq[t]
  BY <1>4 DEF SubmitRead, SignPartOK, RenderRequest
<1>6. SignPartOK'
  BY <1>1, <1>5 DEF SignPartOK, IsSignRequest
<1>7. RowsConsistent'
  BY <1>1 DEF RowsConsistent, AuditedRow
<1>8. SubmissionsGated' /\ SubmissionsLink'
  BY <1>2, <1>3, <1>5 DEF SubmissionsGated, SubmissionsLink, RenderRequest
<1>9. SignedGated'
  BY <1>1, <1>2 DEF SignedGated
<1>10. MethodsNamed'
  BY <1>1, <1>5, MethodsKept
<1> QED
  BY <1>2, <1>6, <1>7, <1>8, <1>9, <1>10

\* The hash a submission reads is a link of its organization's chain.
LEMMA SubmitReadChainInv ==
  ASSUME SigningInv, NEW r \in SignRequest, SubmitReadChain(r)
  PROVE  SigningInv'
<1> USE DEF SigningInv
<1> DEFINE d == signReq[r].delivery
           prev == GetLastOrgHash(d, status, audit)
<1>1. UNCHANGED <<otpVars, status, audit, final, method, totalSigned, signLog>>
  BY DEF SubmitReadChain
<1>2. OtpInv' /\ \A e : Gated(e)' <=> Gated(e)
  BY <1>1, GatesFixed
<1>3. signReq[r] \in RenderRequest
  BY DEF SubmitReadChain, SignPartOK, OpenRequest, IsSignRequest, Idle
<1>4. IsLink(prev, d)
  <2>1. d \in Delivery
    BY <1>3 DEF RenderRequest
  <2>2. CASE prev = GENESIS_HASH
    BY <2>2 DEF IsLink
  <2>3. CASE \E e \in Delivery \ {d} :
               /\ OrgOf[e] = OrgOf[d]
               /\ audit[e].chained
               /\ prev = audit[e].self_hash
    <3> HIDE DEF prev, d
    <3>1. PICK e \in Delivery \ {d} :
            OrgOf[e] = OrgOf[d] /\ audit[e].chained /\ prev = audit[e].self_hash
      BY <2>3
    <3>2. prev.payload.delivery = e
      <4>1. audit[e].self_hash =
              ComputeSelfHash(audit[e].prev_hash,
                              CanonicalPayload(e, audit[e].form, final[e],
                                               MethodOf[audit[e].form]))
        BY <3>1 DEF RowsConsistent, AuditedRow
      <4>2. audit[e].self_hash.payload.delivery = e
        BY <4>1 DEF ComputeSelfHash, CanonicalPayload
      <4> QED
        BY <3>1, <4>2
    <3> QED
      BY <3>1, <3>2 DEF IsLink
  <2> HIDE DEF d
  <2> QED
    BY <2>1, <2>2, <2>3, LastOrgHashIsALink
<1>5. /\ DOMAIN signReq' = SignRequest
      /\ IsSignRequest(signReq'[r])
      /\ signReq'[r].delivery = d /\ signReq'[r].prev = prev
      /\ signReq'[r].method = signReq[r].method
      /\ \A t \in SignRequest \ {r} : signReq'[t] = signReq[t]
  <2> HIDE DEF prev
  <2>1. signReq' = [signReq EXCEPT ![r] =
          [op |-> "sign", delivery |-> d, form |-> signReq[r].form,
           method |-> signReq[r].method, total |-> signReq[r].total, prev |-> prev]]
    BY DEF SubmitReadChain, prev
  <2> QED
    BY <1>3, <2>1 DEF SignPartOK, RenderRequest, IsSignRequest
<1> HIDE DEF prev
<1>6. SignPartOK'
  BY <1>1, <1>5 DEF SignPartOK, IsSignRequest
<1>7. RowsConsistent'
  BY <1>1 DEF RowsConsistent, AuditedRow
<1>8. SubmissionsGated' /\ SubmissionsLink'
  <2>1. Gated(d)
    BY <1>3 DEF SubmissionsGated, RenderRequest
  <2> QED
    BY <1>2, <1>4, <1>5, <2>1 DEF SubmissionsGated, SubmissionsLink
<1>9. SignedGated'
  BY <1>1, <1>2 DEF SignedGated
<1>10. MethodsNamed'
  BY <1>1, <1>3, <1>5, MethodsKept DEF RenderRequest
<1> QED
  BY <1>2, <1>6, <1>7, <1>8, <1>9, <1>10

\* The commit writes the row, its digest and its link together.
LEMMA SubmitCommitInv ==
  ASSUME SigningInv, NEW r \in SignRequest, SubmitCommit(r)
  PROVE  SigningInv'
<1> USE DEF SigningInv
<1> DEFINE q == signReq[r]
           d == q.delivery
<1>1. /\ UNCHANGED otpVars
      /\ status' = [status EXCEPT ![d] = "SIGNED"]
      /\ final' = [final EXCEPT ![d] = q.form]
      /\ method' = [method EXCEPT ![d] =
           IF MethodOf[q.form] = q.method THEN @ ELSE MethodOf[q.form]]
      /\ audit' = [audit EXCEPT ![d] = SignedAudit(q)]
      /\ totalSigned' = [totalSigned EXCEPT ![CampaignOf[d]] = NewTotal(q)]
      /\ signLog' = Append(signLog, d)
      /\ signReq' = [signReq EXCEPT ![r] = Idle]
  BY DEF SubmitCommit
<1>2. OtpInv' /\ \A e : Gated(e)' <=> Gated(e)
  BY <1>1, GatesFixed
<1>3. IsSignRequest(q)
  BY DEF SubmitCommit, SignPartOK, OpenRequest, RenderRequest, Idle
<1>4. d \in Delivery /\ q.form \in Form /\ q.total \in Nat /\ q.op = "sign" /\ q.method \in Method
  BY <1>3 DEF IsSignRequest
<1> HIDE DEF d
<1>5. SignPartOK'
  <2>1. /\ status' \in [Delivery -> DocumentStatus]
        /\ DOMAIN audit' = Delivery
        /\ final' \in [Delivery -> Form \cup {NoFinal}]
        /\ method' \in [Delivery -> Method]
        /\ signLog' \in Seq(Delivery)
    BY <1>1, <1>4 DEF SignPartOK, DocumentStatus, Method
  <2>2. totalSigned' \in [Campaign -> Nat]
    <3>1. NewTotal(q) \in Nat
      BY <1>4 DEF NewTotal
    <3> QED
      BY <1>1, <3>1 DEF SignPartOK
  <2>3. /\ DOMAIN signReq' = SignRequest
        /\ \A t \in SignRequest :
             \/ signReq'[t] \in {Idle} \cup OpenRequest \cup RenderRequest
             \/ IsSignRequest(signReq'[t])
    BY <1>1 DEF SignPartOK
  <2> QED
    BY <2>1, <2>2, <2>3 DEF SignPartOK, IsSignRequest
<1>6. RowsConsistent'
  <2>1. SUFFICES ASSUME NEW e \in Delivery, audit'[e].chained PROVE AuditedRow(e)'
    BY DEF RowsConsistent
  <2>2. CASE e = d
    <3>1. audit'[e] = SignedAudit(q) /\ final'[e] = q.form
      BY <1>1, <1>4, <2>2 DEF SignPartOK
    <3>2. IsLink(q.prev, d)
      BY <1>4 DEF SubmissionsLink, d
    <3> HIDE DEF q
    <3>3. /\ audit'[e].form = q.form
          /\ audit'[e].prev_hash = q.prev
          /\ audit'[e].self_hash =
               ComputeSelfHash(q.prev,
                 CanonicalPayload(q.delivery, q.form, q.form, MethodOf[q.form]))
      BY <3>1 DEF SignedAudit, BuildSignedAudit
    <3> QED
      BY <2>2, <3>1, <3>2, <3>3 DEF AuditedRow, d
  <2>3. CASE e # d
    <3>1. audit'[e] = audit[e] /\ final'[e] = final[e]
      BY <1>1, <2>3 DEF SignPartOK
    <3> QED
      BY <2>1, <3>1 DEF RowsConsistent, AuditedRow
  <2> QED
    BY <2>2, <2>3
<1>7. SubmissionsGated' /\ SubmissionsLink'
  <2>1. /\ signReq'[r].op = "idle"
        /\ \A t \in SignRequest \ {r} : signReq'[t] = signReq[t]
    BY <1>1 DEF SignPartOK, Idle
  <2> QED
    BY <1>2, <2>1 DEF SubmissionsGated, SubmissionsLink
<1>8. SignedGated'
  <2>1. Gated(d)
    BY <1>4 DEF SubmissionsGated, d
  <2>2. \A e \in Delivery \ {d} : status'[e] = status[e]
    BY <1>1 DEF SignPartOK
  <2> QED
    BY <1>2, <2>1, <2>2 DEF SignedGated
<1>9. MethodsNamed'
  <2> PICK x \in Delivery : x = d
    BY <1>4
  <2>1. /\ Logged' = Logged \cup {x}
        /\ \A e : SignedAgain(e) => SignedAgain(e)'
        /\ x \in Logged => SignedAgain(x)'
    <3>1. /\ Len(signLog) \in Nat /\ DOMAIN signLog = 1..Len(signLog)
          /\ DOMAIN signLog' = 1..(Len(signLog) + 1)
          /\ signLog'[Len(signLog) + 1] = x
          /\ \A i \in 1..Len(signLog) : signLog'[i] = signLog[i]
      BY <1>1, <1>4 DEF SignPartOK
    <3>2. DOMAIN signLog' = DOMAIN signLog \cup {Len(signLog) + 1}
      BY <3>1
    <3>3. Logged' = Logged \cup {x}
      BY <3>1, <3>2 DEF Logged
    <3>4. \A e : SignedAgain(e) => SignedAgain(e)'
      BY <3>1 DEF SignedAgain
    <3>5. ASSUME x \in Logged PROVE SignedAgain(x)'
      <4>1. PICK i \in 1..Len(signLog) : signLog[i] = x
        BY <3>1, <3>5 DEF Logged
      <4>2. /\ i \in DOMAIN signLog' /\ Len(signLog) + 1 \in DOMAIN signLog'
            /\ i # Len(signLog) + 1 /\ signLog'[i] = x
        BY <3>1, <4>1
      <4> QED
        BY <3>1, <4>2 DEF SignedAgain
    <3> QED
      BY <3>3, <3>4, <3>5
  <2>2. /\ signReq'[r].op = "idle"
        /\ \A t \in SignRequest \ {r} : signReq'[t] = signReq[t]
        /\ \A e \in Delivery \ {x} : audit'[e] = audit[e] /\ method'[e] = method[e]
        /\ audit'[x] = SignedAudit(q)
        /\ method'[x] = IF MethodOf[q.form] = q.method THEN method[x] ELSE MethodOf[q.form]
    BY <1>1, <1>4 DEF SignPartOK, Idle
  <2>3. audit'[x].form = q.form
    BY <2>2 DEF SignedAudit, BuildSignedAudit
  <2>4. x \in Logged \/ (q.method = NoMethod /\ method[x] = NoMethod)
    BY <1>4 DEF MethodsNamed, d
  <2>5. method'[x] = MethodOf[audit'[x].form] \/ SignedAgain(x)'
    BY <2>1, <2>2, <2>3, <2>4
  <2> HIDE DEF q
  <2> QED
    BY <2>1, <2>2, <2>5 DEF MethodsNamed
<1> QED
  BY <1>2, <1>5, <1>6, <1>7, <1>8, <1>9

\* A request that dies leaves the rows as they were.
LEMMA AbortSignInv ==
  ASSUME SigningInv, NEW r \in SignRequest, AbortSign(r)
  PROVE  SigningInv'
<1> USE DEF SigningInv
<1>1. UNCHANGED <<otpVars, status, audit, final, method, totalSigned, signLog>>
  BY DEF AbortSign
<1>2. OtpInv' /\ \A d : Gated(d)' <=> Gated(d)
  BY <1>1, GatesFixed
<1>3. /\ DOMAIN signReq' = SignRequest
      /\ signReq'[r] = Idle
      /\ \A t \in SignRequest \ {r} : signReq'[t] = signReq[t]
  BY DEF AbortSign, SignPartOK
<1>4. SignPartOK'
  BY <1>1, <1>3 DEF SignPartOK, IsSignRequest
<1>5. RowsConsistent'
  BY <1>1 DEF RowsConsistent, AuditedRow
<1>6. SubmissionsGated' /\ SubmissionsLink'
  BY <1>2, <1>3 DEF SubmissionsGated, SubmissionsLink, Idle
<1>7. SignedGated'
  BY <1>1, <1>2 DEF SignedGated
<1>8. MethodsNamed'
  BY <1>1, <1>3, MethodsKept DEF Idle
<1> QED
  BY <1>2, <1>4, <1>5, <1>6, <1>7, <1>8

\* SigningInv is inductive.
LEMMA SigningNextInv ==
  ASSUME SigningInv, [Next]_vars
  PROVE  SigningInv'
<1>1. CASE OtpNext /\ UNCHANGED signVars
  BY <1>1, OtpStepInv
<1>2. ASSUME NEW r \in SignRequest, SignStep(r) PROVE SigningInv'
  <2>1. CASE (\E d \in Delivery : SigningPageRead(r, d)) \/ SigningPageCommit(r)
    BY <2>1, SigningPageInv
  <2>2. CASE \E d \in Delivery, form \in Form : SubmitRead(r, d, form)
    BY <2>2, SubmitReadInv
  <2>3. CASE SubmitReadChain(r)
    BY <2>3, SubmitReadChainInv
  <2>4. CASE SubmitCommit(r)
    BY <2>4, SubmitCommitInv
  <2>5. CASE AbortSign(r)
    BY <2>5, AbortSignInv
  <2> QED
    BY <1>2, <2>1, <2>2, <2>3, <2>4, <2>5 DEF SignStep
<1>3. CASE UNCHANGED vars
  <2>1. UNCHANGED otpVars /\ UNCHANGED signVars
    BY <1>3 DEF vars
  <2>2. OtpInv' /\ \A d : Gated(d)' <=> Gated(d)
    BY <2>1, GatesFixed DEF SigningInv
  <2> QED
    BY <2>1, <2>2 DEF SigningInv, signVars, SignPartOK, RowsConsistent, AuditedRow,
                      MethodsNamed, Logged, SignedAgain,
                      SubmissionsGated, SubmissionsLink, SignedGated
<1> QED
  BY <1>1, <1>2, <1>3 DEF Next

\* Every reachable state satisfies the invariant.
LEMMA SigningAlways == Spec => []SigningInv
<1>1. Init => SigningInv
  BY SigningInitInv
<1>2. SigningInv /\ [Next]_vars => SigningInv'
  BY SigningNextInv
<1> QED
  BY <1>1, <1>2, PTL DEF Spec

\* The states of the flow are well-typed, the submissions in flight included.
THEOREM TypeCorrect == Spec => []TypeOK
<1>1. SigningInv => TypeOK
  BY DEF SigningInv, OtpInv, SignPartOK, TypeOK
<1> QED
  BY <1>1, SigningAlways, PTL

\* No delivery that needs a signature is signed without a verified code of its
\* own, whatever page views, submissions, codes and crashes interleave.
THEOREM SignaturesNeedVerifiedCodes == Spec => []SignatureNeedsVerifiedCode
<1>1. SigningInv => SignatureNeedsVerifiedCode
  BY DEF SigningInv, SignedGated, Gated, HasCode, SignatureNeedsVerifiedCode
<1> QED
  BY <1>1, SigningAlways, PTL

\* Every row of every chain recomputes with the method its last submission
\* named, even when submissions of one delivery overwrite each other; a row the
\* verifier finds broken was signed more than once.
THEOREM ChainRowsAlwaysRecompute == Spec => []ChainRowsRecompute
<1>1. SigningInv => ChainRowsRecompute
  <2> SUFFICES ASSUME SigningInv, NEW d \in Delivery,
                      NEW e \in ChainRows(OrgOf[d], status, audit)
               PROVE  /\ audit[e].self_hash =
                           ComputeSelfHash(audit[e].prev_hash,
                             CanonicalPayload(e, audit[e].form, final[e], NamedMethod(e)))
                      /\ method[e] = NamedMethod(e) \/ SignedAgain(e)
    <3>1. \A org : ChainRows(org, status, audit) \subseteq Delivery
      BY DEF ChainRows, SignedOf
    <3> QED
      BY <3>1 DEF ChainRowsRecompute, Broken
  <2>1. e \in Delivery /\ audit[e].chained
    BY DEF ChainRows, SignedOf
  <2>2. NamedMethod(e) = MethodOf[audit[e].form]
    BY <2>1 DEF NamedMethod
  <2>3. AuditedRow(e) /\ (method[e] = MethodOf[audit[e].form] \/ SignedAgain(e))
    BY <2>1 DEF SigningInv, RowsConsistent, MethodsNamed
  <2> QED
    BY <2>2, <2>3 DEF AuditedRow
<1> QED
  BY <1>1, SigningAlways, PTL

\* The chain of an organization never refers to a row of another one or to
\* itself, so no two tenants can break each other's verification.
THEOREM LinksAlwaysStayInOrg == Spec => []LinksStayInOrg
<1>1. SigningInv => LinksStayInOrg
  BY DEF SigningInv, RowsConsistent, AuditedRow, IsLink, LinksStayInOrg
<1> QED
  BY <1>1, SigningAlways, PTL

-----------------------------------------------------------------------------
(* The flow implements SigningPromise. *)

\* A step of the code endpoints confirms at most one delivery: an insert brings
\* an unverified row, a rejection changes no verification.
LEMMA OtpStepConfirms ==
  ASSUME OtpInv, OtpNext
  PROVE  \/ Confirmed' = Confirmed
         \/ \E d \in Delivery : Confirmed' = Confirmed \cup {d}
<1> USE DEF OtpInv, OtpTypeOK
<1>1. CASE UNCHANGED otp
  BY <1>1 DEF Confirmed
<1>2. ASSUME NEW r \in OtpRequest, RequestOtpCommit(r)
      PROVE  Confirmed' = Confirmed
  <2> DEFINE q == otpReq[r]
  <2>1. q.id \notin DOMAIN otp
    BY <1>2 DEF RequestOtpCommit, IssueInFlight
  <2>2. /\ DOMAIN otp' = DOMAIN otp \cup {q.id}
        /\ \A i \in DOMAIN otp : otp'[i] = otp[i]
        /\ ~otp'[q.id].verified
    BY <1>2, <2>1 DEF RequestOtpCommit
  <2> HIDE DEF q
  <2> QED
    BY <2>1, <2>2 DEF Confirmed
<1>3. ASSUME NEW r \in OtpRequest, VerifyOtpReject(r)
      PROVE  Confirmed' = Confirmed
  <2>1. otpReq[r].id \in DOMAIN otp
    BY <1>3 DEF VerifyOtpReject, VerifyInFlight
  <2>2. /\ DOMAIN otp' = DOMAIN otp
        /\ \A i \in DOMAIN otp : /\ otp'[i].delivery = otp[i].delivery
                                 /\ otp'[i].verified = otp[i].verified
    BY <1>3, <2>1 DEF VerifyOtpReject, RejectedRow, OtpRow
  <2> QED
    BY <2>2 DEF Confirmed
<1>4. ASSUME NEW r \in OtpRequest, VerifyOtpAccept(r)
      PROVE  \E d \in Delivery : Confirmed' = Confirmed \cup {d}
  <2> DEFINE q == otpReq[r]
             n == q.id
             d == q.delivery
  <2>1. n \in DOMAIN otp /\ otp[n] \in OtpRow /\ otp[n].delivery = d
    BY <1>4 DEF VerifyOtpAccept, VerifyInFlight
  <2>2. q.attempts \in Nat /\ d \in Delivery
    BY <1>4 DEF VerifyOtpAccept, VerifyRequest, IssueRequest, Idle
  <2>3. otp' = [otp EXCEPT ![n] = AcceptedRow(otp[n], q)]
    BY <1>4 DEF VerifyOtpAccept
  <2>4. /\ AcceptedRow(otp[n], q).verified
        /\ AcceptedRow(otp[n], q).delivery = d
    BY <2>1, <2>2, AcceptedRowFields
  <2> HIDE DEF q, n, d
  <2>5. /\ DOMAIN otp' = DOMAIN otp
        /\ otp'[n].verified /\ otp'[n].delivery = d
        /\ \A i \in DOMAIN otp \ {n} : otp'[i] = otp[i]
    BY <2>1, <2>3, <2>4
  <2>6. Confirmed' = Confirmed \cup {d}
    BY <2>1, <2>2, <2>5 DEF Confirmed
  <2> QED
    BY <2>2, <2>6
<1>5. \/ UNCHANGED otp
      \/ \E r \in OtpRequest :
           RequestOtpCommit(r) \/ VerifyOtpReject(r) \/ VerifyOtpAccept(r)
  BY DEF OtpNext, OtpStep, Tick, RequestOtpRead, VerifyOtpRead, AbortOtp
<1> QED
  BY <1>1, <1>2, <1>3, <1>4, <1>5

\* A commit of a submission signs the delivery it read, which had a code then.
LEMMA SubmitCommitSigns ==
  ASSUME SigningInv, NEW r \in SignRequest, SubmitCommit(r)
  PROVE  \E d \in Delivery : Promise!Sign(d)
<1> DEFINE d == signReq[r].delivery
<1>1. d \in Delivery
  BY DEF SigningInv, SubmitCommit, SignPartOK, IsSignRequest, OpenRequest,
         RenderRequest, Idle
<1>2. Gated(d)
  BY DEF SigningInv, SubmitCommit, SubmissionsGated
<1>3. UNCHANGED otpVars /\ signLog' = Append(signLog, d)
  BY DEF SubmitCommit
<1>4. signLog \in Seq(Delivery)
  BY DEF SigningInv, SignPartOK
<1> HIDE DEF d
<1>5. Confirmed' = Confirmed
  BY <1>3 DEF otpVars, Confirmed
<1>6. Signed' = Signed \cup {d}
  <2>1. /\ Len(signLog) \in Nat
        /\ DOMAIN signLog = 1..Len(signLog)
        /\ DOMAIN signLog' = 1..(Len(signLog) + 1)
        /\ signLog'[Len(signLog) + 1] = d
        /\ \A i \in 1..Len(signLog) : signLog'[i] = signLog[i]
    BY <1>1, <1>3, <1>4
  <2>2. DOMAIN signLog' = DOMAIN signLog \cup {Len(signLog) + 1}
    BY <2>1
  <2> QED
    BY <2>1, <2>2 DEF Signed
<1>7. CampaignOf[d] \in RequiresSignature => d \in Confirmed
  BY <1>1, <1>2 DEF Gated, HasCode, Confirmed
<1> QED
  BY <1>1, <1>5, <1>6, <1>7 DEF Promise!Sign

\* Every step of the flow is a step of the promise or leaves it alone.
LEMMA StepKeepsPromise ==
  ASSUME SigningInv, [Next]_vars
  PROVE  [Promise!PromiseNext]_(Promise!promised)
<1> USE DEF Promise!PromiseNext, Promise!promised
<1>1. CASE OtpNext /\ UNCHANGED signVars
  <2>1. Signed' = Signed
    BY <1>1 DEF signVars, Signed
  <2> QED
    BY <1>1, <2>1, OtpStepConfirms DEF SigningInv, Promise!Confirm
<1>2. ASSUME NEW r \in SignRequest, SignStep(r), ~SubmitCommit(r)
      PROVE  UNCHANGED <<Confirmed, Signed>>
  <2>1. UNCHANGED <<otp, signLog>>
    BY <1>2 DEF SignStep, SigningPageRead, SigningPageCommit, SubmitRead,
                SubmitReadChain, AbortSign, otpVars
  <2> QED
    BY <2>1 DEF Confirmed, Signed
<1>3. ASSUME NEW r \in SignRequest, SubmitCommit(r)
      PROVE  Promise!PromiseNext
  BY <1>3, SubmitCommitSigns
<1>4. CASE UNCHANGED vars
  BY <1>4 DEF vars, otpVars, signVars, Confirmed, Signed
<1> QED
  BY <1>1, <1>2, <1>3, <1>4 DEF Next

\* The flow keeps the promise made to the sender of a document: deliveries are
\* confirmed and signed one at a time, and none that needs a code is signed
\* before it is confirmed.
THEOREM FlowKeepsPromise == Spec => KeepsPromise
<1>1. Init => Promise!PromiseInit
  BY DEF Init, OtpInit, Promise!PromiseInit, Confirmed, Signed
<1>2. SigningInv /\ [Next]_vars => [Promise!PromiseNext]_(Promise!promised)
  BY StepKeepsPromise
<1> QED
  BY <1>1, <1>2, SigningAlways, PTL DEF Spec, KeepsPromise, Promise!PromiseSpec

-----------------------------------------------------------------------------
(* The codes of the flow.  The signing requests leave them alone, so whatever *)
(* holds of the code endpoints by themselves holds in the flow.               *)

LEMMA FlowObeysOtpSpec == Spec => OtpSpec
<1>1. Init => OtpInit
  BY DEF Init
<1>2. [Next]_vars => [OtpNext]_otpVars
  BY DEF Next, vars, SignStep, SigningPageRead, SigningPageCommit, SubmitRead,
         SubmitReadChain, SubmitCommit, AbortSign
<1> QED
  BY <1>1, <1>2, PTL DEF Spec, OtpSpec

\* What is proved of the codes, with page views and submissions interleaved:
\* the limits on attempts and on codes per hour, the origin of every cookie,
\* and that a verified code stays verified.
THEOREM CodesKeptInFlow ==
  Spec => /\ [](AttemptsWithinMax /\ IssueOvershootBounded /\ SessionFollowsVerifiedCode)
          /\ VerifiedForGood
BY FlowObeysOtpSpec, AttemptsStayWithinMax, IssueOvershootStaysBounded,
   SessionsFollowCodes, VerifiedStaysVerified, PTL

-----------------------------------------------------------------------------
(* Page views and submissions that do not overlap.  Then what a request has  *)
(* read is still so when it commits.                                         *)

OneAtATime ==
  \A r, q \in SignRequest : signReq[r] # Idle /\ signReq[q] # Idle => r = q

SerialSpec == Init /\ [][Next /\ OneAtATime']_vars

\* A hash is read among the last Lookback signed rows, so that an organization
\* must have fewer rows from before the chain.
FewPreChain ==
  \A org \in {OrgOf[d] : d \in Delivery} :
    Cardinality({d \in PreChain : OrgOf[d] = org}) < Lookback

SignedCount(c) == Cardinality({d \in Delivery : CampaignOf[d] = c /\ status[d] = "SIGNED"})

\* The request in flight carries what the tables hold.
ReadsCurrent ==
  \A r \in SignRequest :
    /\ signReq[r].op = "open" => status[signReq[r].delivery] = "NOT_OPENED"
    /\ signReq[r].op \in {"render", "sign"} =>
         /\ status[signReq[r].delivery] # "SIGNED"
         /\ signReq[r].total = totalSigned[CampaignOf[signReq[r].delivery]]
    /\ signReq[r].op = "sign" =>
         signReq[r].prev = GetLastOrgHash(signReq[r].delivery, status, audit)

SignedAreLogged ==
  \A d \in Delivery :
    /\ audit[d].chained <=> d \in Logged
    /\ status[d] = "SIGNED" <=> d \in PreChain \cup Logged

LinkedInIdOrder ==
  SignedInIdOrder => \A d \in Delivery : MissingPrev(OrgOf[d], status, audit) = {}

SerialInv ==
  /\ OneAtATime
  /\ ReadsCurrent
  /\ SignedAreLogged
  /\ Logged \cap PreChain = {}
  /\ TotalSignedIsExact
  /\ FewPreChain => LinkedInIdOrder

LEMMA SerialInitInv == Init => SerialInv
<1> SUFFICES ASSUME Init PROVE SerialInv
  OBVIOUS
<1>1. Logged = {}
  BY DEF Init, Logged
<1>2. OneAtATime /\ ReadsCurrent
  BY DEF Init, OneAtATime, ReadsCurrent, Idle
<1>3. SignedAreLogged /\ Logged \cap PreChain = {}
  BY <1>1, SigningAssumption DEF Init, SignedAreLogged, NoAudit
<1>4. TotalSignedIsExact
  <2>1. \A c : {d \in PreChain : CampaignOf[d] = c}
                 = {d \in Delivery : CampaignOf[d] = c /\ status[d] = "SIGNED"}
    BY SigningAssumption DEF Init
  <2> QED
    BY <2>1 DEF Init, TotalSignedIsExact
<1>5. LinkedInIdOrder
  <2>1. \A org : ChainRows(org, status, audit) = {}
    BY DEF Init, NoAudit, ChainRows, SignedOf
  <2> QED
    BY <2>1 DEF LinkedInIdOrder, MissingPrev
<1> QED
  BY <1>2, <1>3, <1>4, <1>5 DEF SerialInv

\* Which rows are signed and what their audit says decides the counter and the
\* chain; the rest of the status does not.
LEMMA SameSignedSameFacts ==
  ASSUME SerialInv, UNCHANGED <<audit, totalSigned, signLog>>,
         \A d \in Delivery : status'[d] = "SIGNED" <=> status[d] = "SIGNED"
  PROVE  /\ SignedAreLogged'
         /\ (Logged \cap PreChain)' = {}
         /\ TotalSignedIsExact'
         /\ FewPreChain => LinkedInIdOrder'
<1>1. Logged' = Logged
  BY DEF Logged
<1>2. SignedAreLogged' /\ (Logged \cap PreChain)' = {}
  BY <1>1 DEF SerialInv, SignedAreLogged
<1>3. TotalSignedIsExact'
  <2>1. \A c : {d \in Delivery : CampaignOf[d] = c /\ status'[d] = "SIGNED"}
                 = {d \in Delivery : CampaignOf[d] = c /\ status[d] = "SIGNED"}
    OBVIOUS
  <2> QED
    BY <2>1 DEF SerialInv, TotalSignedIsExact
<1>4. \A org : ChainRows(org, status', audit') = ChainRows(org, status, audit)
  BY DEF ChainRows, SignedOf
<1>5. FewPreChain => LinkedInIdOrder'
  <2>1. ASSUME NEW org
        PROVE  MissingPrev(org, status', audit') = MissingPrev(org, status, audit)
    <3>1. audit' = audit
      OBVIOUS
    <3>2. ChainRows(org, status', audit') = ChainRows(org, status, audit)
      BY <1>4
    <3> QED
      BY <3>1, <3>2, Zenon DEF MissingPrev
  <2>2. SignedInIdOrder' <=> SignedInIdOrder
    BY DEF SignedInIdOrder
  <2> QED
    BY <2>1, <2>2 DEF SerialInv, LinkedInIdOrder
<1> QED
  BY <1>2, <1>3, <1>5

\* Steps that sign nothing: views, reads, failures and the code endpoints.
LEMMA SerialReadInv ==
  ASSUME SigningInv, SerialInv, OneAtATime', NEW r \in SignRequest,
         \/ \E d \in Delivery : SigningPageRead(r, d)
         \/ SigningPageCommit(r)
         \/ \E d \in Delivery, form \in Form : SubmitRead(r, d, form)
         \/ SubmitReadChain(r)
         \/ AbortSign(r)
  PROVE  SerialInv' /\ StatusForward
<1> USE DEF SigningInv, SignPartOK
<1>1. UNCHANGED <<audit, totalSigned, signLog>>
  BY DEF SigningPageRead, SigningPageCommit, SubmitRead, SubmitReadChain, AbortSign
<1>2. \A q \in SignRequest \ {r} : signReq'[q] = signReq[q]
  BY DEF SigningPageRead, SigningPageCommit, SubmitRead, SubmitReadChain, AbortSign
<1>3. CASE SigningPageCommit(r)
  <2> DEFINE d == signReq[r].delivery
  <2>1. d \in Delivery /\ status[d] = "NOT_OPENED"
    BY <1>3 DEF SigningPageCommit, SerialInv, ReadsCurrent, OpenRequest, RenderRequest,
                IsSignRequest, Idle
  <2>2. status' = [status EXCEPT ![d] = "OPENED"]
    BY <1>3 DEF SigningPageCommit
  <2>3. StatusForward /\ \A e \in Delivery : status'[e] = "SIGNED" <=> status[e] = "SIGNED"
    BY <2>1, <2>2 DEF StatusForward
  <2>4. \A q \in SignRequest : signReq'[q] = Idle
    BY <1>2, <1>3 DEF SigningPageCommit, SerialInv, OneAtATime, Idle
  <2>5. ReadsCurrent'
    BY <2>4 DEF ReadsCurrent, Idle
  <2> QED
    BY <1>1, <2>3, <2>5, SameSignedSameFacts DEF SerialInv
<1>4. CASE ~SigningPageCommit(r)
  <2>1. UNCHANGED status
    BY <1>4 DEF SigningPageRead, SubmitRead, SubmitReadChain, AbortSign
  <2>2. /\ signReq'[r].op = "open" => status[signReq'[r].delivery] = "NOT_OPENED"
        /\ signReq'[r].op \in {"render", "sign"} =>
             /\ status[signReq'[r].delivery] # "SIGNED"
             /\ signReq'[r].total = totalSigned[CampaignOf[signReq'[r].delivery]]
        /\ signReq'[r].op = "sign" =>
             signReq'[r].prev = GetLastOrgHash(signReq'[r].delivery, status, audit)
    BY <1>4 DEF SigningPageRead, SubmitRead, SubmitReadChain, AbortSign, FirstView,
                Signable, SerialInv, ReadsCurrent, Idle
  <2>3. ReadsCurrent'
    BY <1>1, <1>2, <2>1, <2>2 DEF SerialInv, ReadsCurrent
  <2>4. StatusForward
    BY <2>1 DEF StatusForward
  <2> QED
    BY <1>1, <2>1, <2>3, <2>4, SameSignedSameFacts DEF SerialInv
<1> QED
  BY <1>3, <1>4

\* Ids are numbers.
LEMMA DeliveryIsInt == Delivery \subseteq Int
BY DeliveryAssumption

\* Any set of deliveries is finite and has its greatest id.
LEMMA SomeDeliveries ==
  ASSUME NEW S \in SUBSET Delivery
  PROVE  /\ IsFiniteSet(S) /\ Cardinality(S) \in Nat
         /\ S # {} => Max(S) \in S /\ \A e \in S : e <= Max(S)
<1>1. S \in SUBSET (0..MaxDelivery) /\ MaxDelivery \in Nat
  BY DeliveryAssumption
<1>2. IsFiniteSet(0..MaxDelivery)
  BY <1>1, FS_Interval, 0 \in Int, MaxDelivery \in Int
<1>3. IsFiniteSet(S)
  BY <1>1, <1>2, FS_Subset
<1> QED
  BY <1>1, <1>3, FS_CardinalityType, MaxIsMember

\* If fewer than Lookback rows were signed with a higher id than the last link,
\* the last link is what is found.
LEMMA LastRowIsFound ==
  ASSUME NEW d \in Delivery, NEW s, NEW a,
         ChainRows(OrgOf[d], s, a) # {}, d \notin ChainRows(OrgOf[d], s, a),
         Cardinality({f \in SignedOf(OrgOf[d], s) : f > Max(ChainRows(OrgOf[d], s, a))}) < Lookback
  PROVE  GetLastOrgHash(d, s, a) = a[Max(ChainRows(OrgOf[d], s, a))].self_hash
<1> DEFINE signed == SignedOf(OrgOf[d], s)
           rows == ChainRows(OrgOf[d], s, a)
           fetched == {e \in signed : Cardinality({f \in signed : f > e}) < Lookback}
           linked == {e \in fetched \ {d} : a[e].chained}
           m == Max(rows)
<1>1. rows \in SUBSET Delivery /\ linked \in SUBSET rows
  BY DEF SignedOf, ChainRows
<1>2. m \in rows /\ \A e \in rows : e <= m
  BY <1>1, SomeDeliveries
<1>3. m \in signed /\ a[m].chained /\ m # d
  BY <1>2 DEF ChainRows
<1>4. Cardinality({f \in signed : f > m}) < Lookback
  OBVIOUS
<1> HIDE DEF m
<1>5. m \in linked
  BY <1>3, <1>4
<1>6. Max(linked) \in linked /\ \A e \in linked : e <= Max(linked)
  BY <1>1, <1>5, SomeDeliveries
<1>7. Max(linked) = m
  <2> HIDE DEF rows, linked
  <2>1. Max(linked) <= m /\ m <= Max(linked)
    BY <1>1, <1>2, <1>5, <1>6
  <2>2. m \in Delivery /\ Max(linked) \in Delivery
    BY <1>1, <1>2, <1>6
  <2>3. m \in Int /\ Max(linked) \in Int
    BY <2>2, DeliveryIsInt
  <2> QED
    BY <2>1, <2>3
<1>8. GetLastOrgHash(d, s, a)
        = IF linked = {} THEN GENESIS_HASH ELSE a[Max(linked)].self_hash
  BY Zenon DEF GetLastOrgHash, LastOf
<1> HIDE DEF linked
<1> QED
  BY <1>5, <1>7, <1>8 DEF m

\* The signature that is committed is the last entry of the log, and every
\* other entry stays.
LEMMA SubmitCommitLogs ==
  ASSUME SigningInv, SerialInv, NEW r \in SignRequest, SubmitCommit(r)
  PROVE  LET d == signReq[r].delivery
         IN /\ d \in Delivery /\ d \notin PreChain \cup Logged
            /\ Logged' = Logged \cup {d} /\ Logged \subseteq Delivery
            /\ SignedInIdOrder' => SignedInIdOrder /\ \A e \in Logged : e < d
<1> DEFINE d == signReq[r].delivery
<1>1. d \in Delivery
  BY DEF SigningInv, SubmitCommit, SignPartOK, IsSignRequest, OpenRequest,
         RenderRequest, Idle
<1>2. status[d] # "SIGNED"
  BY DEF SerialInv, ReadsCurrent, SubmitCommit
<1>3. signLog' = Append(signLog, d) /\ signLog \in Seq(Delivery)
  BY DEF SubmitCommit, SigningInv, SignPartOK
<1> HIDE DEF d
<1>4. d \notin PreChain \cup Logged
  BY <1>1, <1>2 DEF SerialInv, SignedAreLogged
<1>5. /\ Len(signLog) \in Nat
      /\ DOMAIN signLog = 1..Len(signLog)
      /\ DOMAIN signLog' = 1..(Len(signLog) + 1)
      /\ signLog'[Len(signLog) + 1] = d
      /\ \A i \in 1..Len(signLog) : signLog'[i] = signLog[i] /\ signLog[i] \in Delivery
  BY <1>1, <1>3
<1>6. Logged' = Logged \cup {d} /\ Logged \subseteq Delivery
  <2>1. DOMAIN signLog' = DOMAIN signLog \cup {Len(signLog) + 1}
    BY <1>5
  <2> QED
    BY <1>5, <2>1 DEF Logged
<1>7. ASSUME SignedInIdOrder' PROVE SignedInIdOrder /\ \A e \in Logged : e < d
  <2>1. SignedInIdOrder
    BY <1>5, <1>7 DEF SignedInIdOrder
  <2>2. ASSUME NEW i \in 1..Len(signLog) PROVE signLog[i] < d
    <3>1. i \in DOMAIN signLog' /\ Len(signLog) + 1 \in DOMAIN signLog' /\ i < Len(signLog) + 1
      BY <1>5, <2>2
    <3>2. signLog'[i] < signLog'[Len(signLog) + 1]
      BY <1>7, <3>1 DEF SignedInIdOrder
    <3> QED
      BY <1>5, <2>2, <3>2
  <2> QED
    BY <1>5, <2>1, <2>2 DEF Logged
<1> QED
  BY <1>1, <1>4, <1>6, <1>7 DEF d

\* The chain of each organization gets its next link when a signature with the
\* highest id so far is committed.
LEMMA SubmitCommitExtends ==
  ASSUME SigningInv, SerialInv, NEW r \in SignRequest, SubmitCommit(r),
         FewPreChain, SignedInIdOrder', NEW org \in {OrgOf[e] : e \in Delivery}
  PROVE  MissingPrev(org, status', audit') = {}
<1> DEFINE q == signReq[r]
           d == q.delivery
           rows == ChainRows(org, status, audit)
           rows1 == ChainRows(org, status', audit')
           before(e) == {f \in rows : f < e}
           before1(e) == {f \in rows1 : f < e}
<1>1. /\ d \in Delivery /\ d \notin PreChain \cup Logged /\ Logged \subseteq Delivery
      /\ \A e \in Logged : e < d
      /\ SignedInIdOrder
  BY SubmitCommitLogs
<1>2. MissingPrev(org, status, audit) = {}
  BY <1>1 DEF SerialInv, LinkedInIdOrder
<1>3. /\ status' = [status EXCEPT ![d] = "SIGNED"]
      /\ audit' = [audit EXCEPT ![d] = SignedAudit(q)]
      /\ DOMAIN audit = Delivery /\ status \in [Delivery -> DocumentStatus]
  BY DEF SubmitCommit, SigningInv, SignPartOK
<1>4. SignedAudit(q).chained /\ SignedAudit(q).prev_hash = q.prev
  BY DEF SignedAudit, BuildSignedAudit
<1>5. q.prev = GetLastOrgHash(d, status, audit)
  BY DEF SubmitCommit, SerialInv, ReadsCurrent
<1> HIDE DEF d, q
<1>6. rows \in SUBSET Logged /\ rows \in SUBSET Delivery
  BY <1>1 DEF SerialInv, SignedAreLogged, ChainRows, SignedOf
<1>7. /\ audit'[d].chained /\ audit'[d].prev_hash = q.prev
      /\ status'[d] = "SIGNED"
      /\ \A e \in Delivery \ {d} : audit'[e] = audit[e] /\ status'[e] = status[e]
  BY <1>1, <1>3, <1>4
<1>8. rows1 = IF org = OrgOf[d] THEN rows \cup {d} ELSE rows
  BY <1>1, <1>7 DEF ChainRows, SignedOf, SerialInv, SignedAreLogged
<1>9. SUFFICES ASSUME NEW e \in rows1, before1(e) # {}
               PROVE  audit'[e].prev_hash = audit'[Max(before1(e))].self_hash
  BY DEF MissingPrev
<1>10. /\ before1(e) = before(e) /\ before(e) \in SUBSET Delivery /\ d \notin before(e)
       /\ Max(before(e)) \in before(e)
       /\ audit'[Max(before(e))] = audit[Max(before(e))]
  <2>1. d \in Int /\ \A f \in rows : f < d /\ f \in Int
    BY <1>1, <1>6, DeliveryIsInt
  <2>2. before1(e) = before(e)
    <3>1. e \in rows1 /\ ~(d < e)
      <4> HIDE DEF rows, rows1
      <4> QED
        BY <1>8, <2>1
    <3> HIDE DEF rows, rows1
    <3> QED
      BY <1>8, <2>1, <3>1
  <2>3. before(e) \in SUBSET Delivery /\ d \notin before(e)
    BY <1>1, <1>6
  <2>4. Max(before(e)) \in before(e)
    BY <1>9, <2>2, <2>3, SomeDeliveries
  <2> QED
    BY <1>7, <2>2, <2>3, <2>4
<1>11. CASE e # d
  <2>1. e \in rows /\ e \in Delivery /\ audit'[e] = audit[e]
    BY <1>6, <1>7, <1>8, <1>9, <1>11
  <2>2. audit[e].prev_hash = audit[Max(before(e))].self_hash
    BY <1>2, <1>9, <1>10, <2>1 DEF MissingPrev
  <2> QED
    BY <1>10, <2>1, <2>2
<1>12. CASE e = d
  <2>1. org = OrgOf[d] /\ d \notin rows
    BY <1>1, <1>6, <1>8, <1>12
  <2>2. before(e) = rows
    BY <1>1, <1>6, <1>12
  <2> DEFINE m == Max(rows)
  <2>3. m \in rows /\ \A f \in rows : f <= m
    BY <1>6, <1>9, <1>10, <2>2, SomeDeliveries
  <2>4. Cardinality({f \in SignedOf(org, status) : f > m}) < Lookback
    <3> DEFINE above == {f \in SignedOf(org, status) : f > m}
               old == {f \in PreChain : OrgOf[f] = org}
    <3>1. above \in SUBSET old
      <4>1. ASSUME NEW f \in above PROVE f \in PreChain
        <5>1. f \in Delivery /\ f > m /\ f \in Int /\ m \in Int
          BY <1>6, <2>3, DeliveryIsInt DEF SignedOf
        <5>2. f \in Logged => f \in rows
          BY DEF SerialInv, SignedAreLogged, ChainRows, SignedOf
        <5>3. f \notin Logged
          BY <2>3, <5>1, <5>2
        <5> QED
          BY <5>3 DEF SerialInv, SignedAreLogged, SignedOf
      <4> QED
        BY <4>1 DEF SignedOf
    <3>2. old \in SUBSET Delivery
      BY SigningAssumption
    <3>3. Cardinality(old) < Lookback
      BY DEF FewPreChain
    <3> HIDE DEF above, old
    <3>4. IsFiniteSet(old) /\ Cardinality(old) \in Nat
      BY <3>2, SomeDeliveries
    <3>5. Cardinality(above) <= Cardinality(old) /\ Cardinality(above) \in Nat
      BY <3>1, <3>4, FS_Subset, FS_CardinalityType
    <3>6. Cardinality(above) < Lookback
      BY <3>3, <3>4, <3>5, LookbackAssumption
    <3> QED
      BY <3>6 DEF above
  <2>5. q.prev = audit[m].self_hash
    <3>1. org = OrgOf[d] /\ rows # {}
      BY <1>9, <1>10, <2>1, <2>2
    <3>2. /\ ChainRows(OrgOf[d], status, audit) = rows
          /\ SignedOf(OrgOf[d], status) = SignedOf(org, status)
      BY <3>1, Zenon
    <3>3. Cardinality({f \in SignedOf(OrgOf[d], status) :
                          f > Max(ChainRows(OrgOf[d], status, audit))}) < Lookback
      BY <2>4, <3>2, Zenon
    <3>4. q.prev = audit[Max(ChainRows(OrgOf[d], status, audit))].self_hash
      BY <1>1, <1>5, <2>1, <3>1, <3>2, <3>3, LastRowIsFound
    <3> QED
      BY <3>2, <3>4, Zenon
  <2> QED
    BY <1>7, <1>10, <1>12, <2>2, <2>5
<1> QED
  BY <1>11, <1>12

\* Signing one delivery while no other request is under way counts it and
\* nothing else.
LEMMA SerialCommitInv ==
  ASSUME SigningInv, SerialInv, OneAtATime', NEW r \in SignRequest, SubmitCommit(r)
  PROVE  SerialInv' /\ StatusForward
<1> DEFINE q == signReq[r]
           d == q.delivery
<1>1. /\ d \in Delivery /\ d \notin PreChain \cup Logged
      /\ Logged' = Logged \cup {d} /\ Logged \subseteq Delivery
  BY SubmitCommitLogs
<1>2. /\ status' = [status EXCEPT ![d] = "SIGNED"]
      /\ audit' = [audit EXCEPT ![d] = SignedAudit(q)]
      /\ totalSigned' = [totalSigned EXCEPT ![CampaignOf[d]] = NewTotal(q)]
      /\ signReq' = [signReq EXCEPT ![r] = Idle]
      /\ DOMAIN audit = Delivery /\ status \in [Delivery -> DocumentStatus]
      /\ totalSigned \in [Campaign -> Nat] /\ DOMAIN signReq = SignRequest
  BY DEF SubmitCommit, SigningInv, SignPartOK
<1>3. /\ q.total = totalSigned[CampaignOf[d]] /\ status[d] # "SIGNED"
      /\ SignedAudit(q).chained
  BY DEF SubmitCommit, SerialInv, ReadsCurrent, SignedAudit, BuildSignedAudit
<1>4. ReadsCurrent'
  <2>1. \A t \in SignRequest : signReq'[t] = Idle
    BY <1>2 DEF SubmitCommit, SerialInv, OneAtATime, Idle
  <2> QED
    BY <2>1 DEF ReadsCurrent, Idle
<1> HIDE DEF d, q
<1>5. SignedAreLogged' /\ (Logged \cap PreChain)' = {}
  BY <1>1, <1>2, <1>3 DEF SerialInv, SignedAreLogged
<1>6. TotalSignedIsExact'
  <2> SUFFICES ASSUME NEW c \in Campaign PROVE totalSigned'[c] = SignedCount(c)'
    BY DEF TotalSignedIsExact, SignedCount
  <2> DEFINE rows == {e \in Delivery : CampaignOf[e] = c /\ status[e] = "SIGNED"}
             rows1 == {e \in Delivery : CampaignOf[e] = c /\ status'[e] = "SIGNED"}
  <2>1. totalSigned[c] = Cardinality(rows)
    BY DEF SerialInv, TotalSignedIsExact
  <2>2. IsFiniteSet(rows) /\ Cardinality(rows) \in Nat
    <3>1. rows \in SUBSET Delivery
      OBVIOUS
    <3> QED
      BY <3>1, SomeDeliveries
  <2>3. rows1 = IF c = CampaignOf[d] THEN rows \cup {d} ELSE rows
    BY <1>1, <1>2
  <2>4. d \notin rows
    BY <1>3
  <2>5. SignedCount(c)' = Cardinality(rows1)
    BY DEF SignedCount
  <2> HIDE DEF rows, rows1
  <2>6. CASE c = CampaignOf[d]
    <3>1. totalSigned'[c] = totalSigned[c] + 1
      BY <1>2, <1>3, <2>6 DEF NewTotal
    <3>2. Cardinality(rows1) = Cardinality(rows) + 1
      BY <2>2, <2>3, <2>4, <2>6, FS_AddElement
    <3> QED
      BY <2>1, <2>5, <3>1, <3>2
  <2>7. CASE c # CampaignOf[d]
    BY <1>2, <2>1, <2>3, <2>5, <2>7
  <2> QED
    BY <2>6, <2>7
<1>7. FewPreChain => LinkedInIdOrder'
  BY SubmitCommitExtends DEF LinkedInIdOrder
<1>8. StatusForward
  BY <1>1, <1>2 DEF StatusForward, DocumentStatus
<1> QED
  BY <1>4, <1>5, <1>6, <1>7, <1>8 DEF SerialInv

\* The code endpoints and stuttering leave the tables of the signatures alone.
LEMMA SerialStillInv ==
  ASSUME SerialInv, UNCHANGED signVars
  PROVE  SerialInv' /\ StatusForward
<1>1. UNCHANGED <<status, audit, totalSigned, signReq, signLog>>
  BY DEF signVars
<1>2. OneAtATime' /\ ReadsCurrent' /\ StatusForward
  BY <1>1 DEF SerialInv, OneAtATime, ReadsCurrent, StatusForward
<1> QED
  BY <1>1, <1>2, SameSignedSameFacts DEF SerialInv

LEMMA SerialNextInv ==
  ASSUME SigningInv, SerialInv, [Next /\ OneAtATime']_vars
  PROVE  SerialInv' /\ StatusForward
<1>1. CASE UNCHANGED signVars
  BY <1>1, SerialStillInv
<1>2. ASSUME NEW r \in SignRequest, SignStep(r), OneAtATime'
      PROVE  SerialInv' /\ StatusForward
  BY <1>2, SerialReadInv, SerialCommitInv DEF SignStep
<1> QED
  BY <1>1, <1>2 DEF Next, vars

LEMMA SerialAlways == SerialSpec => [](SigningInv /\ SerialInv) /\ [][StatusForward]_vars
<1>1. SigningInv /\ SerialInv /\ [Next /\ OneAtATime']_vars
        => SigningInv' /\ SerialInv' /\ [StatusForward]_vars
  BY SigningNextInv, SerialNextInv
<1> QED
  BY <1>1, SigningInitInv, SerialInitInv, PTL DEF SerialSpec

\* As long as requests do not overlap, the counter of every campaign is the
\* number of its signed deliveries.
THEOREM CounterExactWithoutOverlap == SerialSpec => []TotalSignedIsExact
<1>1. SerialInv => TotalSignedIsExact
  BY DEF SerialInv
<1> QED
  BY <1>1, SerialAlways, PTL

\* Nor does the status of a delivery then go back.
THEOREM StatusForwardWithoutOverlap == SerialSpec => [][StatusForward]_vars
BY SerialAlways, PTL

\* And the verifier accepts the chain of every organization if its deliveries
\* were signed by ascending id and fewer of them than the lookback were signed
\* before there was a chain.
THEOREM ChainVerifiesWithoutOverlap ==
  ASSUME FewPreChain
  PROVE  SerialSpec => []ChainVerifiesInIdOrder
<1>1. SigningInv /\ SerialInv => ChainVerifiesInIdOrder
  <2> SUFFICES ASSUME SigningInv, SerialInv, SignedInIdOrder, NEW d \in Delivery
               PROVE  VerifyOrgChain(OrgOf[d], status, audit, final, method)
    BY DEF ChainVerifiesInIdOrder, ChainVerifies
  <2>1. Broken(OrgOf[d], status, audit, final, method) = {}
    <3>1. \A e \in Delivery : ~SignedAgain(e)
      <4>1. signLog \in Seq(Delivery) /\ DOMAIN signLog = 1..Len(signLog)
        BY DEF SigningInv, SignPartOK
      <4>2. \A i, j \in DOMAIN signLog : i # j => i < j \/ j < i
        BY <4>1
      <4>3. \A e \in Delivery : ~(e < e)
        BY DeliveryIsInt
      <4> QED
        BY <4>2, <4>3 DEF SignedAgain, SignedInIdOrder
    <3>2. \A e \in Delivery : audit[e].chained =>
            AuditedRow(e) /\ method[e] = MethodOf[audit[e].form]
      BY <3>1 DEF SigningInv, RowsConsistent, MethodsNamed
    <3> QED
      BY <3>2 DEF AuditedRow, Broken, ChainRows, SignedOf
  <2>2. MissingPrev(OrgOf[d], status, audit) = {}
    BY FewPreChain DEF SerialInv, LinkedInIdOrder
  <2> QED
    BY <2>1, <2>2 DEF VerifyOrgChain
<1> QED
  BY <1>1, SerialAlways, PTL
=============================================================================
