SPECIFICATION CollectorsSpec
CONSTANTS
  Subjects = {"ports", "plan", "identities", "kube", "doors"}
  MaxPort = 4
  FirewallRules <- SmallRules
  MaxRules = 3
  Ports = {1, 2}
  Sources = {"d"}
  Universes <- SmallEstates
  MaxEdits = 2
  AllActions <- Actions
  Techniques <- Ways
  Targets <- TwoRoles
  IdentityStatements <- Policies
  BoundaryStatements <- Boundaries
  TrustStatements <- Trusts
  MaxIdentity = 2
  MaxBoundary = 1
  ScpDenies <- OrgDenies
  MaxAsks = 2
  MaxBlips = 1
  Clusters = {"east", ""}
  Estates <- SmallClusters
  AdminNames = {"cluster-admin", "perspectivegraph:cluster-admin"}
  UserArns = {"u1"}
  MaxObjects = 6
  SettingsOf <- SmallSettings
INVARIANTS
  FirstRuleDecides
  OpeningsAreAccountedFor
  AnswersAreReality
  RoutesAreReal
  DoorsAreToldApart
PROPERTIES
  ScoresAreSound
CHECK_DEADLOCK FALSE
