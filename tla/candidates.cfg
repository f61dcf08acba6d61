SPECIFICATION LiveSpec
CONSTANTS
  alice = alice  bob = bob  shared = shared  fact = fact  k1 = k1
  f1 = f1  x = x  y = y
  Absent = Absent  Keep = Keep  Null = Null  DefinitionType = DefinitionType
  Profiles = {alice, bob}
  Namespaces = {shared}
  Owner <- MCOwner
  Types = {fact}
  Identities = {k1}
  Fields = {f1}
  Values = {x, y}
  Required = {f1}
  CreatePayloads <- MCPayloads
  UpdatePayloads <- MCPayloads
  UpdateModes = {"patch"}
  Inventories = {}
  Windows <- MCWindow
  RevisionHints = {}
  LookAhead = FALSE
  Policies <- MCNoPolicies
  InitialPolicy <- MCRequire
  Grantable = {}
  InitialGrants <- MCInitialGrants
  Retentions = {}
  Ttl = 2
  ExpiryLimits = {1}
  Ids = {1, 2, 3}
  PurgeIds = {1}
  CandidateIds = {1}
  MaxTime = 1
  Inventoried <- MCInventoried
  SemanticTypes = {fact}
  MaxAttempts = 1
  Batch = 2
  MaxClaims = 2
  MaxRequeues = 1
INVARIANTS
  CandidatesIntact
  ConsolidatedOnce
PROPERTIES
  
  JobsSettle
CHECK_DEADLOCK FALSE
