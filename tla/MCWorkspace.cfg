CONSTANTS
  Delivery = {1, 2, 3, 4, 5}
  MaxDelivery = 5
  OrgOf <- MCTwoOrgs
  CampaignOf <- MCCampaignOf
  ExpiresAt <- MCExpiresAt
  RequiresSignature = {}
  PreChain = {1}
  Lookback = 2
  Form = {f1, f2}
  NoFinal = NoFinal
  MethodOf <- MCMethodOf
  NoMethod = NoMethod
  SignRequest = {r1, r2}
  OtpRequest = {}
  OtpTtl = 1
  OtpMaxAttempts = 2
  OtpMaxRequestsPerHour = 2
  AttemptsBeforeChallenge = 1
  Hour = 2
  SessionTtl = 1
  MaxOtp = 0
  MaxTime = 0
  Person = {p1, p2}
  Visit = {r1, r2}
  Role = {"org_admin", "program_manager", "coach"}
  MaxInvite = 2
  MaxMember = 3
  MaxPlayer = 1
  Region = {g1, g2}
  Branch = {b1}
  Team = {t1}
  Program = {q1, q2}
  Club = {x1, x2}
  Clerk = {r1, r2}
  Slug = {s1, s2}
  Subdomain = {g1}
  Official = {x1, x2}
  MaxOrg = 2
  MaxTrail = 4
  Hand = {r1, r2}
  ListName = {x1, x2}
  Reader = {u1}
  MaxTask = 1
  MaxItem = 2
SPECIFICATION WorkspaceSpec
SYMMETRY WorkspaceSymmetry
CHECK_DEADLOCK FALSE
INVARIANTS
  WorkspaceTypeOK
  ChainRowsRecompute
  LinksStayInOrg
  ExactWithoutOverlap
  AdministrationHolds
  InvitesSingleUse
  RosterFollowsCoach
  ScopesAgree
  OnlyMovedUsersLoop
PROPERTY StatusMovesForward
