SPECIFICATION Spec
CONSTANTS
  b1 = b1
  b2 = b2
  r1 = r1
  r2 = r2
  s1 = s1
  NoScope = NoScope
  Replicas <- MCReplicas
  Batches <- OneBatch
  Size <- OneSize
  Scopes = {s1}
  ScopeOf <- OneScopeOf
  Malformed = {}
  MaxDeliver = 2
  MaxFaults = 1
CHECK_DEADLOCK FALSE
INVARIANTS
  ExhaustedAreRetained
