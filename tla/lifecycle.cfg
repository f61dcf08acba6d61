SPECIFICATION Spec
CONSTANTS
  alice = alice  bob = bob  shared = shared  fact = fact  k1 = k1
  f1 = f1  f2 = f2  x = x  y = y
  Absent = Absent  Keep = Keep  Null = Null  DefinitionType = DefinitionType
  Profiles = {alice, bob}
  Namespaces = {shared}
  Owner <- MCOwner
  Types = {fact}
  Identities = {k1}
  Fields = {f1, f2}
  Values = {x, y}
  Required = {f1}
  CreatePayloads <- MCOneCreate
  UpdatePayloads <- MCOneUpdate
  UpdateModes = {"patch"}
  Inventories = {}
  Windows <- MCWindows
  RevisionHints = {}
  LookAhead = FALSE
  Policies <- MCFixedPolicies
  InitialPolicy <- MCInitialPolicy
  Grantable = {}
  InitialGrants <- MCInitialGrants
  Retentions = {1}
  Ttl = 1
  ExpiryLimits = {1}
  Ids = {1, 2, 3}
  PurgeIds = {1, 2}
  CandidateIds = {}
  MaxTime = 1
INVARIANTS
  PurgeErases
  HistoryApproved
  
PROPERTIES
  ImplementsVersionedRecords
CHECK_DEADLOCK FALSE
