SPECIFICATION Spec
CONSTANTS
  b1 = b1
  b2 = b2
  r1 = r1
  r2 = r2
  s1 = s1
  NoScope = NoScope
  Replicas <- MCReplicas
  Batches <- MCBatches
  Size <- MCSize
  Scopes = {s1}
  ScopeOf <- MCScopeOf
  Malformed <- MCMalformed
  MaxDeliver = 2
  MaxFaults = 2
SYMMETRY MCSymmetry
CHECK_DEADLOCK FALSE
INVARIANTS
  BusTellsTheTruth
PROPERTIES
  ImplementsContract
