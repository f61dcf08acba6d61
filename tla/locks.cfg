SPECIFICATION Spec
SYMMETRY Symmetry
CONSTANTS
  Sessions = {s1, s2}
  Creates = {1, 2, 3, 4}
  Mutations = {5, 6}
  Deletes = {6}
  Undecided = {3, 4}
  AutoApplied = {2, 5}
  Due = {1}
  IdentityOf <- SameIdentity
  Target <- FirstRecord
INVARIANTS
  OnlyScansDeadlock
  TablesAgree
PROPERTIES
  ClosedStaysClosed
CHECK_DEADLOCK FALSE
