SPECIFICATION CheckLiveSpec
CONSTANTS
  Replicas = {r1, r2}
  Nobody = nobody
  Paths = {p}
  Commits = {c}
  CommitsOn <- OneCommit
  Prunes = TRUE
  ForceRescanEvery = 1
  MaxWrites = 1
  MaxFaults = 1
PROPERTIES
  SaidOnce
  VerdictSettles
  ServedCatchesUp
