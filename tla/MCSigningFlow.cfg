CONSTANTS
  Delivery = {1, 2}
  MaxDelivery = 5
  OrgOf <- MCTwoOrgs
  CampaignOf <- MCCampaignOf
  ExpiresAt <- MCExpiresAt
  RequiresSignature = {"c1", "c2"}
  PreChain = {}
  Lookback = 2
  Form = {f1}
  NoFinal = NoFinal
  MethodOf <- MCMethodOf
  NoMethod = NoMethod
  SignRequest = {s1}
  OtpRequest = {r1, r2}
  OtpTtl = 0
  OtpMaxAttempts = 2
  OtpMaxRequestsPerHour = 1
  AttemptsBeforeChallenge = 1
  Hour = 2
  SessionTtl = 1
  MaxOtp = 3
  MaxTime = 1
SPECIFICATION Spec
CHECK_DEADLOCK FALSE
SYMMETRY MCSymmetry
INVARIANTS
  TypeOK
  AttemptsWithinMax
  IssueOvershootBounded
  SessionFollowsVerifiedCode
  SignatureNeedsVerifiedCode
PROPERTIES
  VerifiedForGood
  KeepsPromise
