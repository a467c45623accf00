\* The window between Size and Wait.
CONSTANTS
  u1 = u1
  u2 = u2
  u3 = u3
  c1 = c1
  c2 = c2
  Uids <- Two
  Conns <- OneConn
  NoConn = NoConn
  NoRoom = NoRoom
  None = None
  Scores <- Band
  DbMayFail = FALSE
  BOARD_ROW = 1
  BOARD_COL = 1
  FIVE = 2
  MaxRooms = 1
  MaxResults = 1
  BRONZE_SCORE = 1000
  SILVER_SCORE = 3000
  MaxStarts = 1
SPECIFICATION MatcherSpec
SYMMETRY Permuted
INVARIANT BlockedOnlyWhenShort
