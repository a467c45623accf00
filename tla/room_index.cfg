\* Three players who meet in up to two rooms, on a board too small to win;
\* games that are won again, queries that fail.
CONSTANTS
  u1 = u1
  u2 = u2
  u3 = u3
  conn = conn
  Uids <- Three
  Conns <- OneConn
  NoConn = NoConn
  NoRoom = NoRoom
  Scores <- Band
  DbMayFail = TRUE
  BOARD_ROW = 1
  BOARD_COL = 1
  FIVE = 2
  MaxRooms = 2
  MaxResults = 2
SYMMETRY Permuted
SPECIFICATION RmSpec
INVARIANT RmTypeOK
INVARIANT RoomIndexSound
INVARIANT OverMeansRecorded
INVARIANT NothingCountsTwice
