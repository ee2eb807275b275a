--------------------------- MODULE OtpVerification ---------------------------
(***************************************************************************)
(* One-time codes of the public signing flow: POST /sign/{token}/otp/...   *)
(* (api/public_sign.py), the otp_attempts table and the signing-session    *)
(* cookie (services/signing_session.py).                                   *)
(*                                                                         *)
(* Every request runs in a transaction of its own (core/database.py,       *)
(* get_db): it reads committed rows, decides, and its writes become        *)
(* visible when it commits.  A handler is therefore two actions, the read  *)
(* with all of its guards and the commit, and the requests of all workers  *)
(* interleave between them.  A request that raises or whose process dies   *)
(* leaves no trace (AbortOtp).                                             *)
(***************************************************************************)
EXTENDS DocumentDeliveries

CONSTANTS
  OtpRequest,               \* requests to the two endpoints that may be in flight
  OtpTtl,                   \* OTP_TTL_MINUTES
  OtpMaxAttempts,           \* otp_attempts.max_attempts (3)
  OtpMaxRequestsPerHour,    \* OTP_MAX_REQUESTS_PER_HOUR (3)
  AttemptsBeforeChallenge,  \* ATTEMPTS_BEFORE_CHALLENGE (2)
  Hour,                     \* the window of count_recent
  SessionTtl,               \* lifetime of the signing-session cookie
  MaxOtp,                   \* bound: codes drawn in a behaviour
  MaxTime                   \* bound: the clock

ASSUME OtpAssumption ==
  {OtpTtl, OtpMaxAttempts, OtpMaxRequestsPerHour, AttemptsBeforeChallenge,
   Hour, SessionTtl, MaxOtp, MaxTime} \subseteq Nat

\* A server has finitely many requests in flight, and the limit lets codes be
\* asked for at all.
ASSUME OtpLimitAssumption == IsFiniteSet(OtpRequest) /\ OtpMaxRequestsPerHour > 0

VARIABLES
  now,        \* the clock
  otp,        \* otp_attempts: committed rows, by order of transaction start
  drawn,      \* how many codes were ever drawn; the last one's row number
  otpReq,     \* the requests in flight, with what they have read
  session     \* the signing-session cookies issued

otpVars == <<now, otp, drawn, otpReq, session>>

OtpId == 1..MaxOtp

OtpRow == [delivery: Delivery, attempts: Nat, verified: BOOLEAN,
           created: Nat, expires: Nat]

Idle == [op |-> "idle"]

IssueRequest == [op: {"issue"}, id: OtpId, delivery: Delivery, created: Nat]

VerifyRequest == [op: {"verify"}, id: OtpId, delivery: Delivery, attempts: Nat,
                  correct: BOOLEAN]

SigningSession == [delivery: Delivery, expires: Nat]

OtpInit ==
  /\ now = 0
  /\ otp = [i \in {} |-> 0]
  /\ drawn = 0
  /\ otpReq = [r \in OtpRequest |-> Idle]
  /\ session = {}

-----------------------------------------------------------------------------
(* What the handlers read. *)

\* delivery.expires_at < now answers "not found" on every endpoint.
Live(d) == now <= ExpiresAt[d]

\* count_recent: the codes issued for a delivery within the last hour.
RecentOtps(d) ==
  {i \in DOMAIN otp : otp[i].delivery = d /\ otp[i].created + Hour >= now}

\* Fault: an off-by-one in the hourly limit.
IssueAllowed_OffByOne(d) == Cardinality(RecentOtps(d)) <= OtpMaxRequestsPerHour

IssueAllowed(d) == Cardinality(RecentOtps(d)) < OtpMaxRequestsPerHour

NextOtp == drawn + 1

\* Fault: the lookup forgets which delivery the code was sent for.
UnverifiedOtps_AnyDelivery(d) == {i \in DOMAIN otp : ~otp[i].verified}

\* latest_unverified: created_at is the start of the inserting transaction,
\* so the latest row is the one that was drawn last, not committed last.
UnverifiedOtps(d) ==
  {i \in DOMAIN otp : otp[i].delivery = d /\ ~otp[i].verified}

IsLatestUnverified(i, d) ==
  /\ i \in UnverifiedOtps(d)
  /\ \A j \in UnverifiedOtps(d) : j <= i

\* Fault: one attempt too many.
AttemptsLeft_OffByOne(i) == otp[i].attempts <= OtpMaxAttempts

AttemptsLeft(i) == otp[i].attempts < OtpMaxAttempts

\* After AttemptsBeforeChallenge failures a challenge must be solved as well.
ChallengePassed(i, challenged) ==
  otp[i].attempts >= AttemptsBeforeChallenge => challenged

\* Fault: the whole row is written back as it was read.
RejectedRow_WholeRow(row, q) ==
  [row EXCEPT !.attempts = q.attempts + 1, !.verified = FALSE]

\* The ORM writes the columns assigned, with the values computed from the row
\* as read.
RejectedRow(row, q) == [row EXCEPT !.attempts = q.attempts + 1]
AcceptedRow(row, q) == [row EXCEPT !.attempts = q.attempts + 1, !.verified = TRUE]

-----------------------------------------------------------------------------
(* POST /sign/{token}/otp/request *)

\* A request past the hourly limit answers 429 and changes nothing here.
RequestOtpRead(r, d) ==
  /\ otpReq[r] = Idle
  /\ Live(d)
  /\ IssueAllowed(d)
  /\ drawn < MaxOtp
  /\ drawn' = drawn + 1
  /\ otpReq' = [otpReq EXCEPT ![r] =
       [op |-> "issue", id |-> NextOtp, delivery |-> d, created |-> now]]
  /\ UNCHANGED <<now, otp, session>>

\* The row and its SMS; the send itself never fails the request.
RequestOtpCommit(r) ==
  /\ otpReq[r].op = "issue"
  /\ LET q == otpReq[r]
         row == [delivery |-> q.delivery, attempts |-> 0, verified |-> FALSE,
                 created |-> q.created, expires |-> q.created + OtpTtl]
     IN otp' = [i \in DOMAIN otp \cup {q.id} |->
                  IF i = q.id THEN row ELSE otp[i]]
  /\ otpReq' = [otpReq EXCEPT ![r] = Idle]
  /\ UNCHANGED <<now, drawn, session>>

-----------------------------------------------------------------------------
(* POST /sign/{token}/otp/verify *)

\* The guards of verify_otp up to `otp.attempts += 1`.  The submitted code is
\* right or wrong, and carries a solved challenge or not.
VerifyOtpRead(r, d, correct, challenged) ==
  /\ otpReq[r] = Idle
  /\ Live(d)
  /\ \E i \in DOMAIN otp :
       /\ IsLatestUnverified(i, d)
       /\ now <= otp[i].expires
       /\ AttemptsLeft(i)
       /\ ChallengePassed(i, challenged)
       /\ otpReq' = [otpReq EXCEPT ![r] =
            [op |-> "verify", id |-> i, delivery |-> d,
             attempts |-> otp[i].attempts, correct |-> correct]]
  /\ UNCHANGED <<now, otp, drawn, session>>

VerifyOtpReject(r) ==
  /\ otpReq[r].op = "verify"
  /\ ~otpReq[r].correct
  /\ LET q == otpReq[r]
     IN otp' = [otp EXCEPT ![q.id] = RejectedRow(@, q)]
  /\ otpReq' = [otpReq EXCEPT ![r] = Idle]
  /\ UNCHANGED <<now, drawn, session>>

VerifyOtpAccept(r) ==
  /\ otpReq[r].op = "verify"
  /\ otpReq[r].correct
  /\ LET q == otpReq[r]
     IN /\ otp' = [otp EXCEPT ![q.id] = AcceptedRow(@, q)]
        /\ session' = session \cup
             {[delivery |-> q.delivery, expires |-> now + SessionTtl]}
  /\ otpReq' = [otpReq EXCEPT ![r] = Idle]
  /\ UNCHANGED <<now, drawn>>

-----------------------------------------------------------------------------

\* get_db rolls the transaction back, or the worker process dies.
AbortOtp(r) ==
  /\ otpReq[r] # Idle
  /\ otpReq' = [otpReq EXCEPT ![r] = Idle]
  /\ UNCHANGED <<now, otp, drawn, session>>

Tick ==
  /\ now < MaxTime
  /\ now' = now + 1
  /\ UNCHANGED <<otp, drawn, otpReq, session>>

OtpStep(r) ==
  \/ \E d \in Delivery : RequestOtpRead(r, d)
  \/ RequestOtpCommit(r)
  \/ \E d \in Delivery, correct, challenged \in BOOLEAN :
       VerifyOtpRead(r, d, correct, challenged)
  \/ VerifyOtpReject(r)
  \/ VerifyOtpAccept(r)
  \/ AbortOtp(r)

OtpNext == Tick \/ \E r \in OtpRequest : OtpStep(r)

OtpSpec == OtpInit /\ [][OtpNext]_otpVars

-----------------------------------------------------------------------------
(* Properties *)

OtpTypeOK ==
  /\ now \in Nat
  /\ drawn \in 0..MaxOtp
  /\ DOMAIN otp \subseteq 1..drawn
  /\ otp \in [DOMAIN otp -> OtpRow]
  /\ otpReq \in [OtpRequest -> {Idle} \cup IssueRequest \cup VerifyRequest]
  /\ session \subseteq SigningSession

\* The attempt counter stays within max_attempts although concurrent
\* verifications each write the value they computed from an older read.
AttemptsWithinMax ==
  \A i \in DOMAIN otp : otp[i].attempts <= OtpMaxAttempts

\* A signing-session cookie exists only for a delivery one of whose codes was
\* entered correctly, and its lifetime is counted from after that code was
\* drawn, never from an earlier code of the same delivery.
SessionFollowsVerifiedCode ==
  \A s \in session : \E i \in DOMAIN otp :
    /\ otp[i].delivery = s.delivery
    /\ otp[i].verified
    /\ s.expires >= otp[i].created + SessionTtl

\* A code that was used stays used: a slower request that answers "invalid"
\* for the same row must not hand it back to latest_unverified.
VerifiedForGood ==
  [][\A i \in DOMAIN otp : otp[i].verified => otp'[i].verified]_otpVars

\* count_recent and the insert are not atomic, so the hourly limit can be
\* overshot, but by no more than the other requests in flight.
IssueOvershootBounded ==
  \A d \in Delivery :
    Cardinality(RecentOtps(d)) <= OtpMaxRequestsPerHour - 1 + Cardinality(OtpRequest)
=============================================================================
