SPECIFICATION ReadsSpec
CONSTANTS
  Null = Null
  Ids <- Three
  Values <- Decimals
  Filters <- AtMostNine
  Limits = {1, 2}
  MaxChanges = 1
  Distances <- Some
  MaxDistance = 1
  TextLimit = 2
  Scale = 238266
INVARIANTS
  NoneMissed
  PagesAgree
  RankingSound
CHECK_DEADLOCK FALSE
