\* One room, two players with three pages, three cells; two in a row win.
CONSTANTS
  u1 = u1
  u2 = u2
  c1 = c1
  c2 = c2
  c3 = c3
  Uids <- Two
  Conns <- Three
  Owner <- Owners
  NoConn = NoConn
  Nobody = Nobody
  NoCell = NoCell
  NoRoom = NoRoom
  Scores <- Band
  DbMayFail = FALSE
  BOARD_ROW = 1
  BOARD_COL = 3
  FIVE = 2
  MaxRooms = 1
  MaxResults = 1
CHECK_DEADLOCK FALSE
SPECIFICATION FairGpSpec
INVARIANT TurnsAlternate
INVARIANT PagesAgree
INVARIANT EndIsTold
PROPERTY SomebodysTurn
