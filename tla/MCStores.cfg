SPECIFICATION StoresSpec
CONSTANTS
  Subjects = {"memory", "age", "pipeline"}
  Nodes <- MCNodes
  Edges <- MCEdges
  From <- MCFrom
  To <- MCTo
  Invalid = {"x"}
  Origins = {"snap", "snap2", "partial", "legacy"}
  Snapshots = {"snap", "snap2"}
  Shapes <- MCShapes
  PendingEdgeTTL = 0
  SweepPendingEvery = 1
  MaxTime = 3
  MaxRemovals = 2
  LegacySource = "legacy"
  Batches = {"full", "short", "wide", "feed"}
  Size <- MCSize
  ShapeOf <- MCShapeOf
  TTLs = {0, 1}
INVARIANTS
  EverythingInPlace
  ListedStands
PROPERTIES
  WritesKeepTheirWord
  AgeStepsAsMemory
  RetractedByItsAsserter
CHECK_DEADLOCK FALSE
