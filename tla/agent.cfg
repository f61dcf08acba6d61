SPECIFICATION LiveSpec
CONSTANTS
  q1 = q1  q2 = q2  r1 = r1  r2 = r2  h1 = h1  h2 = h2  i1 = i1  i2 = i2
  c1 = c1  c2 = c2  Junk = Junk  Null = Null
  Queries = {q1, q2}
  Records = {r1, r2}
  Answers <- MCAnswers
  MaxSessions = 2
  MaxQueued = 1
  Handlers = {h1, h2}
  Requests = {i1, i2}
  Candidates = {c1, c2}
  PerTurn = 2
  MaxExtractors = 2
  MaxTurns = 2
INVARIANTS
  RecallIsRecent
  FailuresIsolated
  PeopleDecide
PROPERTIES
  CommandsReply
CHECK_DEADLOCK FALSE
