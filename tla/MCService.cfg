SPECIFICATION ServiceSpec
CONSTANTS
  Subjects = {"lockouts", "keys", "signatures", "limiter", "gate", "forge", "pulls", "intel"}
  p1 = p1  p2 = p2
  x1 = x1  x2 = x2
  k1 = k1  k2 = k2
  Procs = {p1, p2}
  Requesters = {p1, p2}
  Addresses = {x1, x2}
  Credentials <- Presented
  Tokens <- Tokens1
  GroupRoles <- Groups1
  DefaultRole = 0
  AnonymousRole = 1
  RequireTenant = TRUE
  MinRole = 1
  Threshold = 1
  Window = 1
  Cooldown = 3
  MaxKeys = 1
  RefreshEvery = 1
  JwksTTL = 2
  MinRefetch = 1
  SigningKeys = {k1, k2}
  MaxDoorTime = 3
  MaxCalls = 2
  MaxOutages = 1
  Senders = {"s1", "s2"}
  ReportOf <- Reports
  Skew <- Skews
  Signing <- Signings
  AcceptV1 = TRUE
  Handlers = {p1, p2}
  SignatureWindow = 2
  SweepEvery = 1
  Retries = 1
  MaxPostTime = 4
  MaxDeliveries = 2
  MaxLosses = 1
  Clients = {"x", "y"}
  Rate = 1
  PerRequest = 2
  Burst = 4
  BucketTTL = 4
  MaxClients = 1
  MaxLimiterTime = 6
  MaxRequests = 6
  Replicas = {"r1"}
  Messages = {"m1", "m2"}
  StampedIn = {"m1"}
  Settings <- WaysToGate
  RunnerSkew = 0
  MaxGateTime = 2
  MaxLapses = 1
  Commenters = {p1, p2}
  CommentedPaths = {"path"}
  Bodies = {"a", "b"}
  PageSize = 1
  MaxCommentPages = 2
  FixRequests = {"q1", "q2"}
  FilesOf <- Fixes
  MaxChat = 2
  MaxReposts = 2
  MaxForgeFaults = 2
  Collectors = {p1, p2}
  Schedule <- Feeds
  ConnectorOf <- FeedConnector
  KindsOf <- FeedKinds
  ItemsOf <- FeedItems
  Tolerant = {"k8s"}
  Terse = {"eks", "k8s"}
  Unscoped = {"az"}
  OfAccount = {"net", "eks"}
  Quiet = {"lb", "pid"}
  MaxPasses = 2
  MaxMoves = 1
  MaxFailures = 1
  Engines = {"e1", "e2"}
  Vulns = {"cve"}
  Severities = {20}
  Levels = {0, 50}
  Lift <- Lifts
  KevFloor = 95
  IntelTTL = 1
  HoldoutWindow = 1
  MaxIntelTime = 2
  MaxNews = 1
  MaxAsks = 4
  MaxFeedsDown = 1
INVARIANTS
  CountsOnce
  BudgetsHold
  CleanMeansLooked
  FixIsWhole
  CommentsHold
PROPERTIES
  RetractedWereGone
  SealsEndInVerdicts
  DoorIsKept
SYMMETRY Alike
CHECK_DEADLOCK FALSE
