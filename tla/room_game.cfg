\* One room, a 3 by 3 board on which three stones in a row win, also again.
CONSTANTS
  u1 = u1
  u2 = u2
  u3 = u3
  conn = conn
  Uids <- Two
  Conns <- OneConn
  NoConn = NoConn
  NoRoom = NoRoom
  Scores <- Band
  DbMayFail = FALSE
  BOARD_ROW = 3
  BOARD_COL = 3
  FIVE = 3
  MaxRooms = 1
  MaxResults = 2
SYMMETRY Permuted
SPECIFICATION RmSpec
INVARIANT FiveEndsTheGame
INVARIANT AccountsBalance
