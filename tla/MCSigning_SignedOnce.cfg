CONSTANTS
  Delivery = {1, 2}
  MaxDelivery = 5
  OrgOf <- MCOneOrg
  CampaignOf <- MCOneCampaign
  ExpiresAt <- MCExpiresAt
  RequiresSignature = {}
  PreChain = {}
  Lookback = 2
  Form = {f1}
  NoFinal = NoFinal
  MethodOf <- MCMethodOf
  NoMethod = NoMethod
  SignRequest = {s1, s2}
  OtpRequest = {}
  OtpTtl = 1
  OtpMaxAttempts = 2
  OtpMaxRequestsPerHour = 2
  AttemptsBeforeChallenge = 1
  Hour = 2
  SessionTtl = 1
  MaxOtp = 0
  MaxTime = 0
SPECIFICATION Spec
CHECK_DEADLOCK FALSE
INVARIANT SignedOnce
