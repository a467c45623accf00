\* Two players, one login each, and three connections.
CONSTANTS
  u1 = u1
  u2 = u2
  c1 = c1
  c2 = c2
  c3 = c3
  c4 = c4
  c5 = c5
  Uids <- Two
  Conns <- Three
  NoConn = NoConn
  Nobody = Nobody
  NoRoom = NoRoom
  Scores <- Band
  DbMayFail = FALSE
  BOARD_ROW = 1
  BOARD_COL = 1
  FIVE = 2
  MaxRooms = 1
  MaxResults = 1
  MaxSids = 2
  MaxCalls = 3
CHECK_DEADLOCK FALSE
SPECIFICATION ServerSpec
SYMMETRY Permuted
INVARIANT GhostsAreMissedCloses
INVARIANT PermanentWhileConnected
PROPERTY ImplementsRooms
PROPERTY ImplementsSessions
CONSTRAINT OneCancelPending
