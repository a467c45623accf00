---------------------------- MODULE RoomManager -----------------------------
(***************************************************************************)
(* Class RoomManager (src/room.hpp) with the rooms it owns: creating a     *)
(* room for two matched players, finding it again by player, playing in    *)
(* it, leaving it, and destroying it.                                      *)
(*                                                                         *)
(* Rooms are created by the matching threads and used by the thread of the *)
(* server's event loop, under _mtx.  The event loop is the only thread     *)
(* that reads a room's game or removes a room, so each of its calls is one *)
(* step here; the two InHall tests of CreateRoomForTwoUser are separate    *)
(* critical sections, and module Matcher takes them apart.                 *)
(***************************************************************************)
EXTENDS OnlineUser, UserTable, Room

CONSTANTS MaxRooms,   \* bound: rooms created
          MaxResults, \* bound: results one room may record
          NoRoom      \* what _rooms holds for a rid that is not in it

ASSUME RoomManagerAssumption ==
  /\ MaxRooms \in Nat
  /\ MaxResults \in Nat \ {0}
  /\ NoRoom \notin Rooms(Uids)

Rids  == 1 .. MaxRooms
NoRid == 0     \* a null room_ptr, where a room is looked up

VARIABLES nextRid,  \* _nextRid
          rooms,    \* _rooms: rid -> room
          users,    \* _users: uid -> rid, NoRid where absent
          results   \* history: how often a room wrote a result to the table

roomVars == <<nextRid, rooms, users, results>>
rmVars == <<onlineVars, table, roomVars>>

Live(rid) == rooms[rid] # NoRoom

RoomTypeOK ==
  /\ nextRid \in 1 .. MaxRooms + 1
  /\ rooms \in [Rids -> Rooms(Uids) \cup {NoRoom}]
  /\ users \in [Uids -> Rids \cup {NoRid}]
  /\ results \in [Rids -> Nat]

RoomInit ==
  /\ nextRid = 1
  /\ rooms = [r \in Rids |-> NoRoom]
  /\ users = [u \in Uids |-> NoRid]
  /\ results = [r \in Rids |-> 0]

-----------------------------------------------------------------------------
(* The critical section that ends CreateRoomForTwoUser.  insert leaves an  *)
(* entry of _users that is already there as it is.                         *)
InsertRoom(uid1, uid2) ==
  /\ nextRid \in Rids
  /\ rooms' = [rooms EXCEPT ![nextRid] = NewRoom(uid1, uid2)]
  /\ users' = [u \in Uids |-> IF u \in {uid1, uid2} /\ users[u] = NoRid
                              THEN nextRid ELSE users[u]]
  /\ nextRid' = nextRid + 1
  /\ UNCHANGED results

CreateRoom(uid1, uid2) ==
  /\ InsertRoom(uid1, uid2)
  /\ UNCHANGED <<onlineVars, table>>

(* CreateRoomForTwoUser when nobody leaves between its tests and its end.  *)
CreateRoomForTwoUser(uid1, uid2) ==
  /\ InHall(uid1)
  /\ InHall(uid2)
  /\ CreateRoom(uid1, uid2)

GetRoomByUid(uid) ==
  IF users[uid] # NoRid /\ Live(users[uid]) THEN users[uid] ELSE NoRid

-----------------------------------------------------------------------------
(* Variant for the mutation runs: after a Lose that failed both are asked. *)
RecordRetried(rid, winner) ==
  LET loser == Opponent(rooms[rid], winner)
      won   == Win(table, winner)
  IN  /\ results' = [results EXCEPT ![rid] = @ + 1]
      /\ \E lost \in QueryResults :
           table' = IF lost THEN Lose(won, loser) ELSE Lose(Win(won, winner), loser)
      /\ \A u \in Uids : table'[u].score \in Scores   \* bound

(* A room found a winner: Win(winner), then Lose(loser), whose return      *)
(* values nobody looks at.                                                 *)
Record(rid, winner) ==
  LET loser == Opponent(rooms[rid], winner)
  IN  /\ results' = [results EXCEPT ![rid] = @ + 1]
      /\ \E won, lost \in QueryResults :
           LET t == IF won THEN Win(table, winner) ELSE table
           IN  table' = IF lost THEN Lose(t, loser) ELSE t
      /\ \A u \in Uids : table'[u].score \in Scores   \* bound

(* Variant for the mutation runs: _status stays as it is.                  *)
StillRunning(room) == room

Over(room) == [room EXCEPT !.status = "GAME_OVER"]

(* HandleChess, before it looks at the board: white is not connected, or   *)
(* else black is not, and the other one has won.                           *)
WinnerByAbsence(room) ==
  IF ~InRoom(room.white) THEN {room.black}
  ELSE IF ~InRoom(room.black) THEN {room.white} ELSE {}

HandleRequestAbsent(rid) ==
  /\ results[rid] < MaxResults                        \* bound
  /\ \E winner \in WinnerByAbsence(rooms[rid]) : Record(rid, winner)
  /\ rooms' = [rooms EXCEPT ![rid] = Over(@)]

(* A stone on a free cell; __win looks only at the lines through it.  (On  *)
(* a taken cell the request is refused and nothing changes.)               *)
HandleRequestPut(rid, uid, cell) ==
  LET room   == rooms[rid]
      color  == ColorOf(room, uid)
      placed == [room EXCEPT !.board[cell] = color]
  IN  /\ WinnerByAbsence(room) = {}
      /\ room.board[cell] = NoChess
      /\ \/ /\ win(placed.board, cell, color)
            /\ results[rid] < MaxResults              \* bound
            /\ Record(rid, OwnerOf(room, color))
            /\ rooms' = [rooms EXCEPT ![rid] = Over(placed)]
         \/ /\ ~win(placed.board, cell, color)
            /\ rooms' = [rooms EXCEPT ![rid] = placed]
            /\ UNCHANGED <<table, results>>

(* Room::HandleRequest for a put_chess of this player in the room he is    *)
(* in.  The status of the room is not consulted.                           *)
HandleRequest(uid, cell) ==
  LET rid == GetRoomByUid(uid)
  IN  /\ rid # NoRid
      /\ \/ HandleRequestAbsent(rid)
         \/ HandleRequestPut(rid, uid, cell)
      /\ UNCHANGED <<onlineVars, nextRid, users>>

-----------------------------------------------------------------------------
(* Variants for the mutation runs: the room stays in _rooms; the black     *)
(* player stays in _users.                                                 *)
DestroyRoomUnlisted(rid) ==
  /\ users' = [u \in Uids |-> IF u \in Players(rooms[rid]) THEN NoRid
                              ELSE users[u]]
  /\ rooms' = [rooms EXCEPT ![rid].playerCnt = @ - 1]

DestroyRoomHalf(rid) ==
  /\ users' = [users EXCEPT ![rooms[rid].white] = NoRid]
  /\ rooms' = [rooms EXCEPT ![rid] = NoRoom]

(* Both entries of _users go, whatever room they name by now.              *)
DestroyRoom(rid) ==
  /\ users' = [u \in Uids |-> IF u \in Players(rooms[rid]) THEN NoRid
                              ELSE users[u]]
  /\ rooms' = [rooms EXCEPT ![rid] = NoRoom]

(* What HandleExitRoom leaves behind.                                      *)
Exited(room) == [Over(room) EXCEPT !.playerCnt = @ - 1]

(* HandleExitRoom, then DestroyRoom when nobody is counted any more.       *)
RemoveUser(uid) ==
  LET rid  == GetRoomByUid(uid)
      room == rooms[rid]
  IN  \/ /\ rid = NoRid
         /\ UNCHANGED <<table, roomVars>>
      \/ /\ rid # NoRid
         /\ \/ /\ room.status = "GAME_START"
               /\ Record(rid, Opponent(room, uid))
            \/ /\ room.status # "GAME_START"
               /\ UNCHANGED <<table, results>>
         /\ \/ /\ room.playerCnt = 1
               /\ DestroyRoom(rid)
            \/ /\ room.playerCnt # 1
               /\ rooms' = [rooms EXCEPT ![rid] = Exited(@)]
               /\ UNCHANGED users
         /\ UNCHANGED nextRid

-----------------------------------------------------------------------------
(* The component by itself: what the server calls on it, in any order.  A  *)
(* player may have left the hall by the time his room is created, since    *)
(* CreateRoomForTwoUser has released the lock of the registry by then.     *)

Hall(uid, conn) ==
  /\ \/ EnterHall(uid, conn)
     \/ InHall(uid) /\ ExitHall(uid)
  /\ UNCHANGED <<table, roomVars>>

(* WsOpenRoom registers the player; without a room it does not survive.    *)
OpenRoom(uid, conn) ==
  /\ GetRoomByUid(uid) # NoRid
  /\ EnterRoom(uid, conn)
  /\ UNCHANGED <<table, roomVars>>

(* WsCloseRoom takes the player off the room's connections and out of the  *)
(* room, also when the connection that closes is not the registered one.   *)
CloseRoom(uid) ==
  /\ ExitRoom(uid)
  /\ RemoveUser(uid)

RmInit == OnlineInit /\ TableInit /\ RoomInit

RmNext ==
  \/ \E u \in Uids, c \in Conns : Hall(u, c) \/ OpenRoom(u, c)
  \/ \E u, v \in Uids : CreateRoom(u, v)
  \/ \E u \in Uids, c \in Cells : HandleRequest(u, c)
  \/ \E u \in Uids : CloseRoom(u)

RmSpec == RmInit /\ [][RmNext]_rmVars

-----------------------------------------------------------------------------
(* Every variable keeps its type; in particular a room that exists counts  *)
(* one or two players, never none.                                         *)
RmTypeOK == OnlineTypeOK /\ TableTypeOK /\ RoomTypeOK

(* The index _users is sound: a player it lists is listed with a room that *)
(* exists and that he plays in.  The erase of both players in DestroyRoom  *)
(* and the insert that keeps old entries have to agree for this: no room   *)
(* may be destroyed under the name of a player listed with it.             *)
RoomIndexSound ==
  \A u \in Uids : users[u] # NoRid =>
    Live(users[u]) /\ u \in Players(rooms[users[u]])

(* A rid is given out once: no room exists under a rid not yet allocated.  *)
RidsAreFresh == \A r \in Rids : r >= nextRid => ~Live(r) /\ results[r] = 0

(* __win looks only along the four lines through the last stone, and       *)
(* nothing else ever looks at the board: still no five in a row goes       *)
(* unnoticed, the game is over on every board that has one.                *)
FiveEndsTheGame ==
  \A r \in Rids : Live(r) =>
    \A color \in {WHITE_CHESS, BLACK_CHESS} :
      FiveInARow(rooms[r].board, color) => rooms[r].status = "GAME_OVER"

(* HandleRequest and HandleExitRoom both end games and both write the      *)
(* table: a room is over exactly when a result of it has been written.     *)
OverMeansRecorded ==
  \A r \in Rids : Live(r) =>
    (rooms[r].status = "GAME_OVER" <=> results[r] > 0)

(* The table as a ledger of all results: games played and won, and points. *)
AnyOf(S) == CHOOSE x \in S : TRUE

Total(f) == LET sum[S \in SUBSET DOMAIN f] ==
                  IF S = {} THEN 0 ELSE f[AnyOf(S)] + sum[S \ {AnyOf(S)}]
            IN  sum[DOMAIN f]

PlayedIn(t) == Total([u \in Uids |-> t[u].pkCnt])
WonIn(t)    == Total([u \in Uids |-> t[u].winCnt])
PointsIn(t) == Total([u \in Uids |-> t[u].score])
Games       == Total(results)

(* While no query fails, Win and Lose go together and to both players of a *)
(* room: over all players two games are counted per result, one of them    *)
(* won, and points only change hands.                                      *)
AccountsBalance ==
  ~DbMayFail => /\ PlayedIn(table) = 2 * Games
                /\ WonIn(table) = Games
                /\ PointsIn(table) = 1000 * Cardinality(Uids)

(* Whichever of the two queries fails, and however often a finished game   *)
(* is won again: a score is worth the games counted in its row, and no     *)
(* result counts for more than one game won and one game lost.             *)
NothingCountsTwice ==
  /\ \A u \in Uids :
       table[u].score = 1000 + 60 * table[u].winCnt - 30 * table[u].pkCnt
  /\ WonIn(table) <= Games
  /\ PlayedIn(table) - WonIn(table) <= Games

=============================================================================
