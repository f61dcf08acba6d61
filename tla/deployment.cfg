SPECIFICATION LiveSpec
CONSTANTS
  alpha = alpha  beta = beta  own = own  ra = ra  rb = rb  root = root
  pw1 = pw1  pw2 = pw2  Null = Null
  p1 = p1  p2 = p2  m1 = m1  m2 = m2  m3 = m3  edited = edited
  s1 = s1  r1 = r1  r2 = r2  automatic = automatic  Required = required
  Profiles = {alpha, beta}
  Roles = {own, ra, rb, root}
  Passwords = {pw1, pw2}
  Answers <- MCAnswers
  Careful <- MCCareful
  Clusters <- MCClusters
  Privileged = {root}
  MaxEdits = 1
  MaxFailures = 1
  Processes = {p1, p2}
  Releases <- MCReleases
  Checksums = {m1, m2, m3, edited}
  MaxVersion = 3
  Backfills = {2, 3}
  Slugs = {s1}
  RuntimeRoles = {r1, r2}
  Policies = {required, automatic}
INVARIANTS
  SettingsHold
  PolicyOfOneBootstrap
PROPERTIES
  HistoryInOrder
  RerunsSucceed
CHECK_DEADLOCK FALSE
