SPECIFICATION LiveSpec
CONSTANTS
  alpha = alpha  r1 = r1  r2 = r2  x = x  y = y  Null = Null
  Profiles = {alpha}
  Runs = {r1, r2}
  Contents = {x, y}
  Written = {x}
  Rejected = {2}
  MaxFacts = 2
  MaxEdits = 1
  MaxStops = 1
  BatchSize = 2
INVARIANTS
  NothingLost
PROPERTIES
  EverythingImported
CHECK_DEADLOCK FALSE
