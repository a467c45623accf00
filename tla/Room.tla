-------------------------------- MODULE Room --------------------------------
(***************************************************************************)
(* Class Room (src/room.hpp) as a value: a room is a record, and the       *)
(* operators here compute what its methods return and the room they leave  *)
(* behind.  Module RoomManager keeps the rooms and runs these methods.     *)
(***************************************************************************)
EXTENDS Integers, FiniteSets

CONSTANTS BOARD_ROW, BOARD_COL,  \* the board, 15 by 15 in the code
          FIVE                   \* stones in a row that win, 5 in the code

ASSUME BoardAssumption ==
  /\ BOARD_ROW \in Nat \ {0}
  /\ BOARD_COL \in Nat \ {0}
  /\ FIVE \in Nat \ {0}

Cells == (0 .. BOARD_ROW - 1) \X (0 .. BOARD_COL - 1)

WHITE_CHESS == "o"
BLACK_CHESS == "*"
NoChess     == "."

Stones == {WHITE_CHESS, BLACK_CHESS, NoChess}

(* Constructor, followed by SetWhiteUid and SetBlackUid, each of which     *)
(* counts one player.                                                      *)
NewRoom(white, black) ==
  [white |-> white, black |-> black, status |-> "GAME_START", playerCnt |-> 2,
   board |-> [c \in Cells |-> NoChess]]

Rooms(uids) ==
  [white : uids, black : uids, status : {"GAME_START", "GAME_OVER"},
   playerCnt : 1..2, board : [Cells -> Stones]]

Players(room) == {room.white, room.black}

Opponent(room, uid) == IF uid = room.white THEN room.black ELSE room.white

-----------------------------------------------------------------------------
(* The cell k steps from c in direction d.                                 *)
Step(c, d, k) == <<c[1] + k * d[1], c[2] + k * d[2]>>

Opposite(d) == <<-d[1], -d[2]>>

MaxRun == IF BOARD_ROW > BOARD_COL THEN BOARD_ROW ELSE BOARD_COL

(* Number of stones of this color met by one pass of the loop of           *)
(* __fiveChess, walking from c in direction d until it meets the edge or   *)
(* another content.                                                        *)
Run(board, c, d, color) ==
  Cardinality({n \in 1 .. MaxRun :
                 \A k \in 1 .. n : /\ Step(c, d, k) \in Cells
                                   /\ board[Step(c, d, k)] = color})

fiveChess(board, c, d, color) ==
  1 + Run(board, c, d, color) + Run(board, c, Opposite(d), color) >= FIVE

(* Variant for the mutation runs: one of the four calls is missing.        *)
ThreeDirections == {<<0, 1>>, <<1, 0>>, <<-1, 1>>}

(* The four calls of __win: the row, the column and the two diagonals.     *)
Directions == {<<0, 1>>, <<1, 0>>, <<-1, 1>>, <<-1, -1>>}

win(board, c, color) == \E d \in Directions : fiveChess(board, c, d, color)

(* The code colours a move by who asked: white's own stones, and black for *)
(* everybody else.                                                         *)
ColorOf(room, uid) == IF uid = room.white THEN WHITE_CHESS ELSE BLACK_CHESS

OwnerOf(room, color) == IF color = WHITE_CHESS THEN room.white ELSE room.black

-----------------------------------------------------------------------------
(* What the rules of the game ask for, independently of any scanning: FIVE *)
(* stones of this color next to each other on a line of the board.         *)
FiveInARow(board, color) ==
  \E c \in Cells, d \in {<<0, 1>>, <<1, 0>>, <<1, 1>>, <<1, -1>>} :
    \A k \in 0 .. FIVE - 1 : /\ Step(c, d, k) \in Cells
                             /\ board[Step(c, d, k)] = color

=============================================================================
