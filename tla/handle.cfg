\* The event loop and two matching threads on one handle, queries that fail.
CONSTANTS
  u1 = u1
  u2 = u2
  t1 = t1
  t2 = t2
  Uids <- Two
  Scores <- Band
  DbMayFail = TRUE
  Matching <- TwoTiers
  Loop = Loop
  Nobody = Nobody
  Nothing = Nothing
  Unasked = Unasked
  Accounts <- OneLoser
  BRONZE_SCORE = 1000
  SILVER_SCORE = 3000
  IntMax = 2047
  UMod = 65536
  MaxCalls = 3
CHECK_DEADLOCK FALSE
SPECIFICATION FairHandleSpec
INVARIANT HandleTypeOK
INVARIANT SelectTellsTruth
PROPERTY TornNeedsUpdate
PROPERTY AddPlacesByScore
PROPERTY CallsComeBack
