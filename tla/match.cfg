\* Three players who ask once, threads the scheduler runs, queries that fail.
CONSTANTS
  u1 = u1
  u2 = u2
  u3 = u3
  c1 = c1
  c2 = c2
  Uids <- Three
  Conns <- OneConn
  NoConn = NoConn
  NoRoom = NoRoom
  None = None
  Scores <- Band
  DbMayFail = TRUE
  BOARD_ROW = 1
  BOARD_COL = 1
  FIVE = 2
  MaxRooms = 1
  MaxResults = 1
  BRONZE_SCORE = 1000
  SILVER_SCORE = 3000
  MaxStarts = 1
SPECIFICATION FairMatcherSpec
INVARIANT MatcherTypeOK
INVARIANT SeatsWereAskedFor
INVARIANT WaitersNotLost
PROPERTY AwakeThreadPops
PROPERTY HeldPlayersReleased
