SPECIFICATION Spec
CONSTANTS
  alice = alice  bob = bob  shared = shared  fact = fact  k1 = k1
  f1 = f1  f2 = f2  x = x  y = y
  Absent = Absent  Keep = Keep  Null = Null  DefinitionType = DefinitionType
  Profiles = {alice, bob}
  Namespaces = {shared}
  Owner <- MCOwner
  Types = {fact}
  Identities = {k1}
  Fields = {f1, f2}
  Values = {x, y}
  Required = {f1}
  CreatePayloads <- MCOneCreate
  UpdatePayloads <- MCUpdatePayloads
  UpdateModes = {"patch"}
  Inventories = {}
  Windows <- MCAlways
  RevisionHints = {2}
  LookAhead = TRUE
  Policies <- MCPolicies
  InitialPolicy <- MCInitialPolicy
  Grantable <- MCGrantable
  InitialGrants <- MCInitialGrants
  Retentions = {}
  Ttl = 1
  ExpiryLimits = {}
  Ids = {1, 2, 3}
  PurgeIds = {}
  CandidateIds = {}
  MaxTime = 1
INVARIANT OmittedFieldsPreserved
CHECK_DEADLOCK FALSE
