SPECIFICATION Spec
CONSTANTS
  alice = alice  bob = bob  shared = shared  k1 = k1  x = x  y = y
  Absent = Absent  Keep = Keep  ByIdentity = ByIdentity  None = None
  Profiles = {alice, bob}
  Shared = shared
  Identities = {k1}
  Words = {x, y}
  Founders = {alice}
  Named = {shared}
  Policy <- MCPolicy
  CreatePatches <- MCCreates
  UpdatePatches <- MCUpdates
  UpdateModes = {"patch"}
  Inventories = {shared}
  Grantable <- MCDeciders
  Windows <- MCClosing
  Retentions = {1}
  TTL = 1
  MaxTime = 1
  MaxRequests = 3
  MaxRecords = 2
  MaxCandidates = 1
  MaxPurges = 1
INVARIANTS
  ChangesReviewed
  OneRequestEach
  WindowHonoured
PROPERTIES
  ImplementsVersionedRecords
CHECK_DEADLOCK FALSE
