\* Three requests on one wallet, one at a time, with faults; and the other
\* services, each with its own workloads (MCWorkloads).
CONSTANTS
  Users = {u1}
  Requests = {r1, r2, r3}
  Amounts = {0, 1, 2}
  MaxOpening = 2
  LowThreshold = 1
  PoolSize = 2
  MaxInFlight = 1
  Faults = TRUE
  Payments = {p1}
  Members = {a, b}
  Calls = {r1, r2, r3}
  Workloads <- MCWorkloads
  MaxKeys = 1
  Seeds = {a}
  Passwords = {1, 2}
  MaxSessions = 1
  AccessTTL = 1
  RefreshTTL = 1
  AdminRefreshTTL = 2
  MaxSecrets = 2
  Horizon = 2
  Products = {product}
  Limits = {1}
  Prices = {0, 1, 2}
  RuleBook <- MCRuleBook
  BaseCosts = {4}
  MaxTries = 2
  Nodes = {node}
  MaxDeliver = 2
  Buffer = 1
  MaxFailures = 2
  MaxHalfOpenRequests = 2
  Limit = 2
  Window = 3
  LastUnit = 4
  MaxAttempts = 3
  InitialDelay = 10
  MaxDelay = 30
  Factor = 20
SPECIFICATION MCServicesSpec
INVARIANTS ServicesTypeOK CreditedOnce CompletedIsCredited PriceByRule
  SessionsBounded RotatedOnce StaleClaimsBounded DeletedLosesAccess
  EnabledSecretConfirmed PasswordKept
  SubAccountsOfApproved BoughtOnce AnswersTrue TasksTrue EntriesFaithful
  ProbesBounded WindowLimit
PROPERTY ImplementsAtomicWallet
SYMMETRY RequestSymmetry
CHECK_DEADLOCK FALSE
