SPECIFICATION RegistersSpec
CONSTANTS
  Subjects = {"audit", "board", "history", "verdicts"}
  AuditReplicas = {p, q}
  QueueDepth = 1
  MaxRecords = 2
  MaxAuditTime = 2
  MaxAuditFaults = 2
  Handlers = {h1, h2}
  BoardPaths = {"x", "y"}
  Visible = {"x"}
  Expiries = {0, 2}
  Never = 0
  MaxRequests = 3
  MaxBoardTime = 2
  MaxBoardFaults = 1
  PathIds = {"x"}
  SampleEvery = 2
  MaxPoints = 2
  MaxPasses = 4
  MaxHistoryTime = 5
  MaxHistoryFaults = 1
  Reporters = {r1, r2}
  LivePaths = {"x"}
  NoPath = "-"
  Findings <- MCFindings
  Slack = 1
  MaxReports = 3
  MaxReport = 1
  MaxVerdictFaults = 1
SYMMETRY RegisterSymmetry
INVARIANTS
  TrailIsTrustworthy
  BoardHolds
  HistoryHolds
  LogHoldsTheVerdicts
PROPERTIES
  NothingVanishes
CHECK_DEADLOCK FALSE
