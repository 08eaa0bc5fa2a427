SPECIFICATION AnalysisSpec
CONSTANTS
  s = s
  a = a
  b = b
  c = c
  j = j
  Nodes = {s, a, b, c, j}
  MaxCost = 2
  Workers = {w1, w2}
  NoNode = nonode
  Snapshots <- SmallSnapshots
  Distances = {0, 1, 2}
  MaxItems = 7
  Networks <- SmallNetworks
  Src = s
  Dst = j
  MaxK = 4
  DrawKeys = {1, 2, 3}
  Levels = 2
  Trials = 2
  Stamps = 3
  Worlds <- SmallWorlds
  Elements = {"a", "b"}
  FullSnapshotEvery = 2
  MaxLag = 1
  MaxTime = 3
  MaxWrites = 2
  MaxRemovals = 2
  MaxFaults = 1
  Commits = {p, q}
  PathKeys = {r}
  MaxScore = 3
INVARIANTS
  ExposuresAreExact
  LikeliestRoutesInOrder
  TrialsAreSound
PROPERTIES
  NoPhantoms
  NothingSlipsThrough
  Heals
  LedgerIsFair
  SearchEnds
  KeepsTheQueue
CHECK_DEADLOCK FALSE
