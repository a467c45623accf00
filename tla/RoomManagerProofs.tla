------------------------- MODULE RoomManagerProofs --------------------------
(***************************************************************************)
(* Proofs about module RoomManager, for any players, any board and any     *)
(* number of rooms: its types, the soundness of the two maps by which      *)
(* rooms are found, and that five in a row end a game.  The modules of     *)
(* proofs about compositions reuse the lemmas of the single operations.    *)
(***************************************************************************)
EXTENDS RoomManager, Induction

(* The inductive invariant.  The parts need each other: an entry of _users *)
(* is sound because rids are fresh and because the players of a destroyed  *)
(* room all lose theirs.                                                   *)
RmInv == RmTypeOK /\ RoomIndexSound /\ RidsAreFresh /\ OverMeansRecorded

(* What GetRoomByUid returns is a room, and one the player plays in.       *)
LEMMA FoundRoom ==
  ASSUME RmInv, NEW u \in Uids, GetRoomByUid(u) # NoRid
  PROVE  /\ GetRoomByUid(u) \in Rids
         /\ Live(GetRoomByUid(u))
         /\ rooms[GetRoomByUid(u)] \in Rooms(Uids)
         /\ u \in Players(rooms[GetRoomByUid(u)])
         /\ GetRoomByUid(u) = users[u]
  BY DEF RmInv, RmTypeOK, RoomTypeOK, RoomIndexSound, GetRoomByUid, Live

-----------------------------------------------------------------------------
(* Win and Lose keep the types of the table when the scores stay within    *)
(* the bound, as Record demands.                                           *)
LEMMA RecordTypes ==
  ASSUME RmInv, NEW rid \in Rids, Live(rid),
         NEW winner \in Players(rooms[rid]), Record(rid, winner)
  PROVE  /\ TableTypeOK'
         /\ results' = [results EXCEPT ![rid] = @ + 1]
         /\ results' \in [Rids -> Nat]
         /\ results'[rid] > 0
<1>1. rooms[rid] \in Rooms(Uids)
  BY DEF RmInv, RmTypeOK, RoomTypeOK, Live
<1>2. winner \in Uids /\ Opponent(rooms[rid], winner) \in Uids
  BY <1>1 DEF Players, Opponent, Rooms
<1>3. /\ results' = [results EXCEPT ![rid] = @ + 1]
      /\ results \in [Rids -> Nat]
  BY DEF Record, RmInv, RmTypeOK, RoomTypeOK
<1>4. results' \in [Rids -> Nat] /\ results'[rid] > 0
  BY <1>3
<1> DEFINE Loose == [score : Int, pkCnt : Nat, winCnt : Nat]
<1>5. table \in [Uids -> Loose]
  BY UserTableAssumption DEF RmInv, RmTypeOK, TableTypeOK, Row
<1>6. ASSUME NEW t \in [Uids -> Loose], NEW u \in Uids
      PROVE  Win(t, u) \in [Uids -> Loose] /\ Lose(t, u) \in [Uids -> Loose]
  BY <1>6 DEF Win, Lose
<1>7. table' \in [Uids -> Loose]
  <2> HIDE DEF Loose
  <2>1. PICK won, lost \in QueryResults :
          LET t == IF won THEN Win(table, winner) ELSE table
          IN  table' = IF lost THEN Lose(t, Opponent(rooms[rid], winner)) ELSE t
    BY DEF Record
  <2> DEFINE t == IF won THEN Win(table, winner) ELSE table
  <2>2. t \in [Uids -> Loose]
    BY <1>2, <1>5, <1>6
  <2>3. table' = IF lost THEN Lose(t, Opponent(rooms[rid], winner)) ELSE t
    BY <2>1
  <2> HIDE DEF t
  <2> QED
    BY <1>2, <1>6, <2>2, <2>3
<1>8. \A u \in Uids : table'[u].score \in Scores
  BY DEF Record
<1>9. TableTypeOK'
  BY <1>7, <1>8 DEF TableTypeOK, Row
<1> QED
  BY <1>3, <1>4, <1>9

-----------------------------------------------------------------------------
(* The initial state.                                                      *)
LEMMA RmInitInv == RmInit => RmInv
  BY UserTableAssumption, RoomManagerAssumption
  DEF RmInit, OnlineInit, TableInit, RoomInit, RmInv, RmTypeOK, OnlineTypeOK,
      TableTypeOK, RoomTypeOK, Registry, Row, NewUser, RoomIndexSound,
      RidsAreFresh, OverMeansRecorded, Live, Rids, NoRid

(* Operations that only touch the registry of connections.                 *)
LEMMA RegistryStep ==
  ASSUME RmInv, OnlineTypeOK', UNCHANGED <<table, roomVars>>
  PROVE  RmInv'
  BY DEF RmInv, RmTypeOK, TableTypeOK, RoomTypeOK, RoomIndexSound,
         RidsAreFresh, OverMeansRecorded, Live, roomVars

(* The registries keep their types.                                        *)
LEMMA RegistryTypes ==
  ASSUME RmInv, NEW u \in Uids
  PROVE  /\ ExitHall(u) => OnlineTypeOK'
         /\ ExitRoom(u) => OnlineTypeOK'
         /\ \A c \in Conns : EnterHall(u, c) \/ EnterRoom(u, c) => OnlineTypeOK'
  BY DEF RmInv, RmTypeOK, OnlineTypeOK, Registry, ExitHall, ExitRoom, EnterHall,
         EnterRoom, Inserted, Erased

(* Creating a room for two players.                                        *)
LEMMA InsertRoomInv ==
  ASSUME RmInv, NEW u \in Uids, NEW v \in Uids, InsertRoom(u, v),
         UNCHANGED <<onlineVars, table>>
  PROVE  RmInv'
<1>1. /\ nextRid \in Rids
      /\ nextRid' = nextRid + 1
      /\ results' = results
      /\ rooms' = [rooms EXCEPT ![nextRid] = NewRoom(u, v)]
      /\ users' = [x \in Uids |-> IF x \in {u, v} /\ users[x] = NoRid
                                  THEN nextRid ELSE users[x]]
  BY DEF InsertRoom
<1>2. NewRoom(u, v) \in Rooms(Uids)
  BY DEF NewRoom, Rooms, Stones
<1>3. /\ NewRoom(u, v).status = "GAME_START"
      /\ Players(NewRoom(u, v)) = {u, v}
  BY DEF NewRoom, Players
<1>4. NewRoom(u, v) # NoRoom /\ Rids \subseteq Nat
  BY <1>2, RoomManagerAssumption DEF Rids
<1>5. /\ ~Live(nextRid)
      /\ results[nextRid] = 0
  BY <1>1, <1>4 DEF RmInv, RidsAreFresh
<1> HIDE DEF NewRoom, Players
<1>6. RmTypeOK'
  <2>1. RoomTypeOK'
    BY <1>1, <1>2, RoomManagerAssumption
    DEF RmInv, RmTypeOK, RoomTypeOK, Rids, NoRid
  <2> QED
    BY <2>1 DEF RmInv, RmTypeOK, OnlineTypeOK, TableTypeOK, onlineVars
<1>7. rooms \in [Rids -> Rooms(Uids) \cup {NoRoom}] /\ users \in [Uids -> Rids \cup {NoRid}]
  BY DEF RmInv, RmTypeOK, RoomTypeOK
<1>8. RoomIndexSound'
  BY <1>1, <1>3, <1>4, <1>5, <1>7 DEF RmInv, RoomIndexSound, Live
<1>9. RidsAreFresh'
  BY <1>1, <1>4, <1>7 DEF RmInv, RidsAreFresh, Live
<1>10. OverMeansRecorded'
  BY <1>1, <1>3, <1>4, <1>5, <1>7 DEF RmInv, OverMeansRecorded, Live
<1> QED
  BY <1>6, <1>8, <1>9, <1>10 DEF RmInv

-----------------------------------------------------------------------------
(* A room that changes without a result, and one that gets a result: the   *)
(* players and the rest of the manager stay as they are.                   *)
LEMMA RoomChangeInv ==
  ASSUME RmInv, NEW rid \in Rids, Live(rid), NEW room \in Rooms(Uids),
         Players(room) = Players(rooms[rid]),
         rooms' = [rooms EXCEPT ![rid] = room],
         OnlineTypeOK', UNCHANGED <<nextRid, users>>,
         \/ room.status = rooms[rid].status /\ UNCHANGED <<table, results>>
         \/ /\ room.status = "GAME_OVER"
            /\ TableTypeOK'
            /\ results' \in [Rids -> Nat]
            /\ results' = [results EXCEPT ![rid] = @ + 1]
            /\ results'[rid] > 0
  PROVE  RmInv'
<1> USE RoomManagerAssumption
<1>1. /\ rooms \in [Rids -> Rooms(Uids) \cup {NoRoom}]
      /\ users \in [Uids -> Rids \cup {NoRid}]
      /\ results \in [Rids -> Nat]
      /\ room # NoRoom
  BY DEF RmInv, RmTypeOK, RoomTypeOK
<1>2. RmTypeOK'
  BY <1>1 DEF RmInv, RmTypeOK, RoomTypeOK, TableTypeOK
<1>3. \A r \in Rids : Live(r)' <=> Live(r)
  BY <1>1 DEF Live
<1>4. \A r \in Rids : Live(r) => Players(rooms'[r]) = Players(rooms[r])
  BY <1>1
<1>5. RoomIndexSound'
  BY <1>1, <1>3, <1>4 DEF RmInv, RoomIndexSound
<1>6. RidsAreFresh'
  BY <1>1, <1>3 DEF RmInv, RidsAreFresh
<1>7. OverMeansRecorded'
  BY <1>1, <1>3 DEF RmInv, OverMeansRecorded
<1> QED
  BY <1>2, <1>5, <1>6, <1>7 DEF RmInv

(* Playing: a put_chess, whether it ends the game or not.                  *)
LEMMA HandleRequestInv ==
  ASSUME RmInv, NEW u \in Uids, NEW c \in Cells, HandleRequest(u, c)
  PROVE  RmInv'
<1> DEFINE rid == GetRoomByUid(u)
           room == rooms[rid]
           color == ColorOf(room, u)
           placed == [room EXCEPT !.board[c] = color]
<1>1. /\ rid \in Rids
      /\ Live(rid)
      /\ room \in Rooms(Uids)
  BY FoundRoom DEF HandleRequest
<1>2. OnlineTypeOK' /\ UNCHANGED <<nextRid, users>>
  BY DEF HandleRequest, RmInv, RmTypeOK, OnlineTypeOK, onlineVars
<1>3. /\ placed \in Rooms(Uids)
      /\ Players(placed) = Players(room)
      /\ placed.status = room.status
  <2>1. color \in Stones
    BY DEF ColorOf, Stones
  <2>2. placed = [white |-> room.white, black |-> room.black,
                  status |-> room.status, playerCnt |-> room.playerCnt,
                  board |-> [room.board EXCEPT ![c] = color]]
    BY <1>1 DEF Rooms
  <2> HIDE DEF placed, room, color
  <2>3. [room.board EXCEPT ![c] = color] \in [Cells -> Stones]
    BY <1>1, <2>1 DEF Rooms
  <2> QED
    BY <1>1, <2>2, <2>3 DEF Rooms, Players
<1>4. ASSUME NEW r \in Rooms(Uids)
      PROVE  /\ Over(r) \in Rooms(Uids)
             /\ Players(Over(r)) = Players(r)
             /\ Over(r).status = "GAME_OVER"
  BY DEF Over, Rooms, Players
<1>5. \A w \in WinnerByAbsence(room) : w \in Players(room)
  BY DEF WinnerByAbsence, Players
<1>6. OwnerOf(room, color) \in Players(room)
  BY DEF OwnerOf, Players
<1> HIDE DEF rid, room, color, placed
<1>7. CASE HandleRequestAbsent(rid)
  <2>1. PICK w \in WinnerByAbsence(room) : Record(rid, w)
    BY <1>7 DEF HandleRequestAbsent, room
  <2>2. rooms' = [rooms EXCEPT ![rid] = Over(room)]
    BY <1>7 DEF HandleRequestAbsent, room
  <2> QED
    BY <1>1, <1>2, <1>4, <1>5, <2>1, <2>2, RecordTypes, RoomChangeInv DEF room
<1>8. CASE HandleRequestPut(rid, u, c)
  <2>1. CASE /\ Record(rid, OwnerOf(room, color))
             /\ rooms' = [rooms EXCEPT ![rid] = Over(placed)]
    BY <1>1, <1>2, <1>3, <1>4, <1>6, <2>1, RecordTypes, RoomChangeInv DEF room
  <2>2. CASE /\ rooms' = [rooms EXCEPT ![rid] = placed]
             /\ UNCHANGED <<table, results>>
    BY <1>1, <1>2, <1>3, <2>2, RoomChangeInv DEF room
  <2> QED
    BY <1>8, <2>1, <2>2 DEF HandleRequestPut, room, color, placed
<1> QED
  BY <1>7, <1>8 DEF HandleRequest, rid

(* Destroying a room takes both its players out of the index, so nobody is *)
(* left listed with it.                                                    *)
LEMMA DestroyRoomInv ==
  ASSUME RmInv, NEW rid \in Rids, Live(rid), DestroyRoom(rid),
         OnlineTypeOK', TableTypeOK', UNCHANGED nextRid,
         results' \in [Rids -> Nat],
         results' = results \/ results' = [results EXCEPT ![rid] = @ + 1]
  PROVE  RmInv'
<1> USE RoomManagerAssumption
<1>1. /\ rooms \in [Rids -> Rooms(Uids) \cup {NoRoom}]
      /\ users \in [Uids -> Rids \cup {NoRid}]
      /\ results \in [Rids -> Nat]
      /\ rooms' = [rooms EXCEPT ![rid] = NoRoom]
      /\ users' = [x \in Uids |-> IF x \in Players(rooms[rid]) THEN NoRid
                                  ELSE users[x]]
  BY DEF RmInv, RmTypeOK, RoomTypeOK, DestroyRoom
<1>2. RmTypeOK'
  BY <1>1 DEF RmInv, RmTypeOK, RoomTypeOK
<1>3. ~Live(rid)' /\ \A r \in Rids \ {rid} : rooms'[r] = rooms[r]
  BY <1>1 DEF Live
<1>4. rid < nextRid /\ rid # NoRid
  BY DEF RmInv, RidsAreFresh, RmTypeOK, RoomTypeOK, Rids, NoRid
<1>5. RoomIndexSound'
  <2>1. \A x \in Uids : users[x] = rid => x \in Players(rooms[rid])
    BY <1>4 DEF RmInv, RoomIndexSound
  <2> QED
    BY <1>1, <1>3, <2>1 DEF RmInv, RoomIndexSound, Live
<1>6. RidsAreFresh'
  BY <1>1, <1>3, <1>4 DEF RmInv, RidsAreFresh, Live
<1>7. OverMeansRecorded'
  BY <1>1, <1>3 DEF RmInv, OverMeansRecorded, Live
<1> QED
  BY <1>2, <1>5, <1>6, <1>7 DEF RmInv

(* Leaving: the exit may end the game, and the last exit the room.         *)
LEMMA CloseRoomInv ==
  ASSUME RmInv, NEW u \in Uids, CloseRoom(u)
  PROVE  RmInv'
<1> DEFINE rid == GetRoomByUid(u)
           room == rooms[rid]
           left == Exited(room)
<1>1. OnlineTypeOK'
  BY RegistryTypes DEF CloseRoom
<1>2. CASE UNCHANGED <<table, roomVars>>
  BY <1>1, <1>2, RegistryStep
<1>3. CASE rid # NoRid /\ ~UNCHANGED <<table, roomVars>>
  <2>1. /\ rid \in Rids
        /\ Live(rid)
        /\ room \in Rooms(Uids)
    BY <1>3, FoundRoom
  <2>2. Opponent(room, u) \in Players(room)
    BY DEF Opponent, Players
  <2>3. /\ UNCHANGED nextRid
        /\ \/ room.status = "GAME_START" /\ Record(rid, Opponent(room, u))
           \/ room.status # "GAME_START" /\ UNCHANGED <<table, results>>
        /\ \/ DestroyRoom(rid)
           \/ /\ room.playerCnt # 1
              /\ rooms' = [rooms EXCEPT ![rid] = left]
              /\ UNCHANGED users
    <3> HIDE DEF room, rid
    <3>1. RemoveUser(u) /\ rid # NoRid
      BY <1>3 DEF CloseRoom
    <3>2. rooms[GetRoomByUid(u)] = room /\ GetRoomByUid(u) = rid
      BY DEF room, rid
    <3> QED
      BY <1>3, <3>1, <3>2 DEF RemoveUser, left
  <2>4. room.playerCnt # 1 =>
          /\ left \in Rooms(Uids)
          /\ Players(left) = Players(room)
          /\ left.status = "GAME_OVER"
    <3> HIDE DEF room, rid
    <3>1. /\ Over(room) \in Rooms(Uids)
          /\ Over(room).status = "GAME_OVER"
          /\ Over(room).playerCnt = room.playerCnt
          /\ Players(Over(room)) = Players(room)
      BY <2>1 DEF Rooms, Over, Players
    <3> HIDE DEF Over
    <3>2. room.playerCnt \in 1 .. 2
      BY <2>1 DEF Rooms
    <3> QED
      BY <3>1, <3>2 DEF Rooms, Players, Exited, left
  <2>5. TableTypeOK /\ results \in [Rids -> Nat]
    BY DEF RmInv, RmTypeOK, RoomTypeOK
  <2>6. room.status \in {"GAME_START", "GAME_OVER"}
    BY <2>1 DEF Rooms
  <2> HIDE DEF rid, room, left
  <2>7. CASE Record(rid, Opponent(room, u))
    <3>1. /\ TableTypeOK'
          /\ results' = [results EXCEPT ![rid] = @ + 1]
          /\ results' \in [Rids -> Nat]
          /\ results'[rid] > 0
      BY <2>1, <2>2, <2>7, RecordTypes DEF room
    <3>2. CASE DestroyRoom(rid)
      BY <1>1, <2>1, <2>3, <3>1, <3>2, DestroyRoomInv
    <3>3. CASE /\ room.playerCnt # 1
               /\ rooms' = [rooms EXCEPT ![rid] = left]
               /\ UNCHANGED users
      BY <1>1, <2>1, <2>3, <2>4, <3>1, <3>3, RoomChangeInv DEF room
    <3> QED
      BY <2>3, <3>2, <3>3
  <2>8. CASE room.status # "GAME_START" /\ UNCHANGED <<table, results>>
    <3>1. TableTypeOK'
      BY <2>5, <2>8 DEF TableTypeOK
    <3>2. CASE DestroyRoom(rid)
      BY <1>1, <2>1, <2>3, <2>5, <2>8, <3>1, <3>2, DestroyRoomInv
    <3>3. CASE /\ room.playerCnt # 1
               /\ rooms' = [rooms EXCEPT ![rid] = left]
               /\ UNCHANGED users
      BY <1>1, <2>1, <2>3, <2>4, <2>6, <2>8, <3>3, RoomChangeInv DEF room
    <3> QED
      BY <2>3, <3>2, <3>3
  <2> QED
    BY <2>3, <2>7, <2>8
<1> QED
  BY <1>2, <1>3 DEF CloseRoom, RemoveUser

-----------------------------------------------------------------------------
(* Every operation of the component preserves the invariant.               *)
LEMMA RmNextInv == RmInv /\ [RmNext]_rmVars => RmInv'
<1> SUFFICES ASSUME RmInv, [RmNext]_rmVars
             PROVE  RmInv'
  OBVIOUS
<1>1. ASSUME NEW u \in Uids, NEW c \in Conns, Hall(u, c) \/ OpenRoom(u, c)
      PROVE  RmInv'
  BY <1>1, RegistryTypes, RegistryStep DEF Hall, OpenRoom
<1>2. ASSUME NEW u \in Uids, NEW v \in Uids, CreateRoom(u, v)
      PROVE  RmInv'
  BY <1>2, InsertRoomInv DEF CreateRoom
<1>3. ASSUME NEW u \in Uids, NEW c \in Cells, HandleRequest(u, c)
      PROVE  RmInv'
  BY <1>3, HandleRequestInv
<1>4. ASSUME NEW u \in Uids, CloseRoom(u)
      PROVE  RmInv'
  BY <1>4, CloseRoomInv
<1>5. CASE UNCHANGED rmVars
  <2>1. OnlineTypeOK'
    BY <1>5 DEF rmVars, onlineVars, RmInv, RmTypeOK, OnlineTypeOK
  <2> QED
    BY <1>5, <2>1, RegistryStep DEF rmVars
<1> QED
  BY <1>1, <1>2, <1>3, <1>4, <1>5 DEF RmNext

(* The inductive invariant holds in every state.                           *)
THEOREM RmInvariant == RmSpec => []RmInv
  BY RmInitInv, RmNextInv, PTL DEF RmSpec

(* Type correctness; no room is left that counts no players.               *)
THEOREM RmTypeCorrect == RmSpec => []RmTypeOK
<1>1. RmInv => RmTypeOK
  BY DEF RmInv
<1> QED
  BY <1>1, RmInvariant, PTL

(* A player whom the index lists is listed with an existing room of his.   *)
THEOREM RoomIndexIsSound == RmSpec => []RoomIndexSound
<1>1. RmInv => RoomIndexSound
  BY DEF RmInv
<1> QED
  BY <1>1, RmInvariant, PTL

(* A room is over exactly when a result of it has been written.            *)
THEOREM OverRoomsAreRecorded == RmSpec => []OverMeansRecorded
<1>1. RmInv => OverMeansRecorded
  BY DEF RmInv
<1> QED
  BY <1>1, RmInvariant, PTL

-----------------------------------------------------------------------------
(* The scanning of the board: a pass that meets n stones counts them.      *)
LEMMA RunCounts ==
  ASSUME NEW board, NEW c, NEW d, NEW color, NEW n \in Nat, n <= MaxRun,
         \A k \in 1 .. n : Step(c, d, k) \in Cells /\ board[Step(c, d, k)] = color
  PROVE  Run(board, c, d, color) \in Nat /\ Run(board, c, d, color) >= n
<1> DEFINE S == {m \in 1 .. MaxRun :
                   \A k \in 1 .. m : /\ Step(c, d, k) \in Cells
                                     /\ board[Step(c, d, k)] = color}
<1>1. MaxRun \in Nat
  BY BoardAssumption DEF MaxRun
<1>2. \A m \in 1 .. n : m \in 1 .. MaxRun /\ 1 .. m \subseteq 1 .. n
  BY <1>1
<1>3. 1 .. n \subseteq S
  BY <1>2
<1>4. S \subseteq 1 .. MaxRun
  OBVIOUS
<1>5. IsFiniteSet(1 .. MaxRun)
  BY <1>1, FS_Interval
<1> HIDE DEF S
<1>6. IsFiniteSet(S)
  BY <1>4, <1>5, FS_Subset
<1>7. Cardinality(1 .. n) <= Cardinality(S) /\ Cardinality(S) \in Nat
  BY <1>3, <1>6, FS_Subset, FS_CardinalityType
<1>8. Cardinality(1 .. n) = n
  BY FS_Interval
<1> QED
  BY <1>7, <1>8 DEF Run, S

Lines == {<<0, 1>>, <<1, 0>>, <<1, 1>>, <<1, -1>>}

(* A line of cells, seen from the one that is j steps from its end; no     *)
(* line of the board is longer than a pass of the loop.                    *)
LEMMA StepsOnLine ==
  ASSUME NEW c \in Cells, NEW d \in Lines, NEW j \in Nat
  PROVE  /\ \A k \in Nat : Step(Step(c, d, j), d, k) = Step(c, d, j + k)
         /\ \A k \in 0 .. j : Step(Step(c, d, j), Opposite(d), k) = Step(c, d, j - k)
         /\ Step(c, d, j) \in Cells => j < MaxRun
<1>1. c[1] \in 0 .. BOARD_ROW - 1 /\ c[2] \in 0 .. BOARD_COL - 1
  BY DEF Cells
<1>2. CASE d = <<0, 1>>
  BY <1>1, <1>2, BoardAssumption DEF Step, Opposite, Cells, MaxRun
<1>3. CASE d = <<1, 0>>
  BY <1>1, <1>3, BoardAssumption DEF Step, Opposite, Cells, MaxRun
<1>4. CASE d = <<1, 1>>
  BY <1>1, <1>4, BoardAssumption DEF Step, Opposite, Cells, MaxRun
<1>5. CASE d = <<1, -1>>
  BY <1>1, <1>5, BoardAssumption DEF Step, Opposite, Cells, MaxRun
<1> QED
  BY <1>2, <1>3, <1>4, <1>5 DEF Lines

(* __win finds every five that the last stone is part of.                  *)
LEMMA WinFindsFive ==
  ASSUME NEW board, NEW color, NEW c \in Cells, NEW d \in Lines,
         NEW j \in 0 .. FIVE - 1,
         \A k \in 0 .. FIVE - 1 : Step(c, d, k) \in Cells /\ board[Step(c, d, k)] = color
  PROVE  win(board, Step(c, d, j), color)
<1> DEFINE last == Step(c, d, j)
           ahead == FIVE - 1 - j
<1>1. /\ FIVE \in Nat \ {0} /\ j \in Nat /\ ahead \in Nat
      /\ FIVE - 1 \in 0 .. FIVE - 1 /\ FIVE - 1 \in Nat
  BY BoardAssumption
<1>2. MaxRun \in Nat /\ FIVE - 1 < MaxRun
  BY <1>1, StepsOnLine, BoardAssumption DEF MaxRun
<1>3. \A k \in 1 .. ahead : Step(last, d, k) \in Cells /\ board[Step(last, d, k)] = color
  <2> SUFFICES ASSUME NEW k \in 1 .. ahead
               PROVE  Step(last, d, k) \in Cells /\ board[Step(last, d, k)] = color
    OBVIOUS
  <2>1. k \in Nat /\ j + k \in 0 .. FIVE - 1
    BY <1>1
  <2> QED
    BY <1>1, <2>1, StepsOnLine
<1>4. \A k \in 1 .. j : /\ Step(last, Opposite(d), k) \in Cells
                        /\ board[Step(last, Opposite(d), k)] = color
  <2> SUFFICES ASSUME NEW k \in 1 .. j
               PROVE  /\ Step(last, Opposite(d), k) \in Cells
                      /\ board[Step(last, Opposite(d), k)] = color
    OBVIOUS
  <2>1. k \in 0 .. j /\ j - k \in 0 .. FIVE - 1
    BY <1>1
  <2> QED
    BY <1>1, <2>1, StepsOnLine
<1>5. /\ Run(board, last, d, color) \in Nat
      /\ Run(board, last, d, color) >= ahead
  BY <1>1, <1>2, <1>3, RunCounts
<1>6. /\ Run(board, last, Opposite(d), color) \in Nat
      /\ Run(board, last, Opposite(d), color) >= j
  BY <1>1, <1>2, <1>4, RunCounts
<1>7. Opposite(Opposite(d)) = d /\ (d \in Directions \/ Opposite(d) \in Directions)
  BY DEF Lines, Opposite, Directions
<1>8. fiveChess(board, last, d, color) /\ fiveChess(board, last, Opposite(d), color)
  BY <1>1, <1>5, <1>6, <1>7 DEF fiveChess
<1> QED
  BY <1>7, <1>8 DEF win

(* A stone of one color makes no five of the other, and every five of its  *)
(* own that was not there before goes through it, where __win sees it.     *)
LEMMA StoneMakesFive ==
  ASSUME NEW board \in [Cells -> Stones], NEW c \in Cells, NEW own \in Stones,
         board[c] = NoChess, NEW color \in {WHITE_CHESS, BLACK_CHESS},
         FiveInARow([board EXCEPT ![c] = own], color)
  PROVE  \/ FiveInARow(board, color)
         \/ win([board EXCEPT ![c] = own], c, own)
<1> DEFINE placed == [board EXCEPT ![c] = own]
<1>1. PICK a \in Cells, d \in Lines :
        \A k \in 0 .. FIVE - 1 : Step(a, d, k) \in Cells /\ placed[Step(a, d, k)] = color
  BY DEF FiveInARow, Lines
<1>2. CASE \E j \in 0 .. FIVE - 1 : Step(a, d, j) = c
  <2>1. PICK j \in 0 .. FIVE - 1 : Step(a, d, j) = c
    BY <1>2
  <2>2. own = color
    BY <1>1, <2>1
  <2> HIDE DEF placed
  <2>3. win(placed, Step(a, d, j), color)
    BY <1>1, WinFindsFive
  <2> QED
    BY <2>1, <2>2, <2>3 DEF placed
<1>3. CASE \A j \in 0 .. FIVE - 1 : Step(a, d, j) # c
  <2>1. \A k \in 0 .. FIVE - 1 : Step(a, d, k) \in Cells /\ board[Step(a, d, k)] = color
    BY <1>1, <1>3
  <2> QED
    BY <2>1 DEF FiveInARow, Lines
<1> QED
  BY <1>2, <1>3

(* One room changes, and if it is not over it has no five of its own       *)
(* making; the other rooms stay.                                           *)
LEMMA OneRoomFive ==
  ASSUME RmInv, FiveEndsTheGame, NEW rid \in Rids, NEW room,
         rooms' = [rooms EXCEPT ![rid] = room],
         \/ room = NoRoom
         \/ room.status = "GAME_OVER"
         \/ \A color \in {WHITE_CHESS, BLACK_CHESS} :
              ~FiveInARow(room.board, color)
  PROVE  FiveEndsTheGame'
<1>1. rooms \in [Rids -> Rooms(Uids) \cup {NoRoom}]
  BY DEF RmInv, RmTypeOK, RoomTypeOK
<1>2. rooms'[rid] = room
  BY <1>1
<1>3. \A r \in Rids : r # rid => rooms'[r] = rooms[r]
  BY <1>1
<1> HIDE DEF FiveInARow
<1> QED
  BY <1>2, <1>3 DEF FiveEndsTheGame, Live

(* A new board carries no stone.                                           *)
LEMMA NewRoomNoFive ==
  ASSUME NEW white, NEW black, NEW color \in {WHITE_CHESS, BLACK_CHESS}
  PROVE  ~FiveInARow(NewRoom(white, black).board, color)
<1> SUFFICES ASSUME FiveInARow(NewRoom(white, black).board, color)
             PROVE  FALSE
  OBVIOUS
<1>1. PICK c \in Cells, d \in Lines :
        \A k \in 0 .. FIVE - 1 :
          /\ Step(c, d, k) \in Cells
          /\ NewRoom(white, black).board[Step(c, d, k)] = color
  BY DEF FiveInARow, Lines
<1>2. 0 \in 0 .. FIVE - 1
  BY BoardAssumption
<1>3. NewRoom(white, black).board[Step(c, d, 0)] = NoChess
  BY <1>1, <1>2 DEF NewRoom
<1> QED
  BY <1>1, <1>2, <1>3 DEF NoChess, WHITE_CHESS, BLACK_CHESS

(* Playing: the move that makes a five ends the game.                      *)
LEMMA HandleRequestFive ==
  ASSUME RmInv, FiveEndsTheGame, NEW u \in Uids, NEW c \in Cells,
         HandleRequest(u, c)
  PROVE  FiveEndsTheGame'
<1> DEFINE rid == GetRoomByUid(u)
           room == rooms[rid]
           color == ColorOf(room, u)
           placed == [room EXCEPT !.board[c] = color]
<1>1. /\ rid \in Rids
      /\ Live(rid)
      /\ room \in Rooms(Uids)
  BY FoundRoom DEF HandleRequest
<1>2. color \in Stones
  BY DEF ColorOf, Stones
<1>3. /\ room.status \in {"GAME_START", "GAME_OVER"}
      /\ room.board \in [Cells -> Stones]
      /\ placed.status = room.status
      /\ placed.board = [room.board EXCEPT ![c] = color]
      /\ Over(room).status = "GAME_OVER"
      /\ Over(placed).status = "GAME_OVER"
  <2>1. room = [white |-> room.white, black |-> room.black,
                status |-> room.status, playerCnt |-> room.playerCnt,
                board |-> room.board]
        /\ room.board \in [Cells -> Stones]
        /\ room.status \in {"GAME_START", "GAME_OVER"}
    BY <1>1 DEF Rooms
  <2> HIDE DEF room, color
  <2>2. placed = [white |-> room.white, black |-> room.black,
                  status |-> room.status, playerCnt |-> room.playerCnt,
                  board |-> [room.board EXCEPT ![c] = color]]
    BY <2>1
  <2> HIDE DEF placed
  <2>3. Over(room).status = "GAME_OVER"
    BY <2>1 DEF Over
  <2>4. Over(placed).status = "GAME_OVER"
    BY <2>2 DEF Over
  <2> QED
    BY <2>1, <2>2, <2>3, <2>4
<1> HIDE DEF rid, room, color, placed
<1>4. CASE HandleRequestAbsent(rid)
  <2>1. rooms' = [rooms EXCEPT ![rid] = Over(room)]
    BY <1>4 DEF HandleRequestAbsent, room
  <2> QED
    BY <1>1, <1>3, <2>1, OneRoomFive
<1>5. CASE HandleRequestPut(rid, u, c)
  <2>1. /\ room.board[c] = NoChess
        /\ \/ rooms' = [rooms EXCEPT ![rid] = Over(placed)]
           \/ /\ ~win(placed.board, c, color)
              /\ rooms' = [rooms EXCEPT ![rid] = placed]
    BY <1>5 DEF HandleRequestPut, room, color, placed
  <2>2. CASE rooms' = [rooms EXCEPT ![rid] = Over(placed)]
    BY <1>1, <1>3, <2>2, OneRoomFive
  <2>3. CASE /\ ~win(placed.board, c, color)
             /\ rooms' = [rooms EXCEPT ![rid] = placed]
    <3>1. CASE room.status = "GAME_OVER"
      BY <1>1, <1>3, <2>3, <3>1, OneRoomFive
    <3>2. CASE room.status # "GAME_OVER"
      <4>1. \A x \in {WHITE_CHESS, BLACK_CHESS} : ~FiveInARow(room.board, x)
        BY <1>1, <3>2 DEF FiveEndsTheGame, room
      <4>2. \A x \in {WHITE_CHESS, BLACK_CHESS} : ~FiveInARow(placed.board, x)
        BY <1>2, <1>3, <2>1, <2>3, <4>1, StoneMakesFive
      <4> QED
        BY <1>1, <2>3, <4>2, OneRoomFive
    <3> QED
      BY <3>1, <3>2
  <2> QED
    BY <2>1, <2>2, <2>3
<1> QED
  BY <1>4, <1>5 DEF HandleRequest, rid

(* Leaving a room puts no stone: it ends the game or destroys the room.    *)
LEMMA CloseRoomFive ==
  ASSUME RmInv, FiveEndsTheGame, NEW u \in Uids, CloseRoom(u)
  PROVE  FiveEndsTheGame'
<1> DEFINE rid == GetRoomByUid(u)
<1>1. CASE UNCHANGED rooms
  BY <1>1 DEF FiveEndsTheGame, Live
<1>2. CASE rid # NoRid /\ ~UNCHANGED rooms
  <2>1. rid \in Rids /\ rooms[rid] \in Rooms(Uids)
    BY <1>2, FoundRoom
  <2>2. \/ rooms' = [rooms EXCEPT ![rid] = NoRoom]
        \/ rooms' = [rooms EXCEPT ![rid] = Exited(rooms[rid])]
    BY <1>2 DEF CloseRoom, RemoveUser, DestroyRoom, roomVars
  <2>3. Exited(rooms[rid]).status = "GAME_OVER"
    <3>1. /\ Over(rooms[rid]) \in Rooms(Uids)
          /\ Over(rooms[rid]).status = "GAME_OVER"
      BY <2>1 DEF Rooms, Over
    <3> QED
      BY <3>1 DEF Rooms, Exited
  <2> QED
    BY <2>1, <2>2, <2>3, OneRoomFive
<1> QED
  BY <1>1, <1>2 DEF CloseRoom, RemoveUser, roomVars

(* The scan of __win, which looks at the last stone only, is enough: on    *)
(* every board, of any size, that has a five in a row the game is over.    *)
THEOREM FivesEndTheGame == RmSpec => []FiveEndsTheGame
<1>1. RmInit => FiveEndsTheGame
  BY DEF RmInit, RoomInit, FiveEndsTheGame, Live
<1>2. RmInv /\ FiveEndsTheGame /\ [RmNext]_rmVars => FiveEndsTheGame'
  <2> SUFFICES ASSUME RmInv, FiveEndsTheGame, [RmNext]_rmVars
               PROVE  FiveEndsTheGame'
    OBVIOUS
  <2>1. CASE UNCHANGED rooms
    BY <2>1 DEF FiveEndsTheGame, Live
  <2>2. ASSUME NEW u \in Uids, NEW v \in Uids, CreateRoom(u, v)
        PROVE  FiveEndsTheGame'
    <3>1. nextRid \in Rids /\ rooms' = [rooms EXCEPT ![nextRid] = NewRoom(u, v)]
      BY <2>2 DEF CreateRoom, InsertRoom
    <3> QED
      BY <3>1, NewRoomNoFive, OneRoomFive
  <2>3. ASSUME NEW u \in Uids, NEW c \in Cells, HandleRequest(u, c)
        PROVE  FiveEndsTheGame'
    BY <2>3, HandleRequestFive
  <2>4. ASSUME NEW u \in Uids, CloseRoom(u)
        PROVE  FiveEndsTheGame'
    BY <2>4, CloseRoomFive
  <2> QED
    BY <2>1, <2>2, <2>3, <2>4
    DEF RmNext, Hall, OpenRoom, rmVars, roomVars
<1> QED
  BY <1>1, <1>2, RmInvariant, PTL DEF RmSpec

-----------------------------------------------------------------------------
(* The partial sums of f over the subsets of D, as Total defines them.     *)
SumStep(f, g, S) ==
  IF S = {} THEN 0 ELSE f[AnyOf(S)] + g[S \ {AnyOf(S)}]

(* A set that is not empty has some element.                               *)
LEMMA AnyOfIn == ASSUME NEW S, S # {} PROVE AnyOf(S) \in S
  BY DEF AnyOf

(* There is such a function, ...                                           *)
LEMMA SumsExist ==
  ASSUME NEW f, IsFiniteSet(DOMAIN f)
  PROVE  \E g : g = [S \in SUBSET DOMAIN f |-> SumStep(f, g, S)]
<1> DEFINE D == DOMAIN f
           UpTo(n, g) == \A S \in SUBSET D :
                           Cardinality(S) <= n => g[S] = SumStep(f, g, S)
           N == {n \in Nat : \E g : UpTo(n, g)}
<1>1. \A S \in SUBSET D : /\ IsFiniteSet(S)
                          /\ Cardinality(S) \in Nat
                          /\ Cardinality(S) <= Cardinality(D)
                          /\ Cardinality(S) = 0 <=> S = {}
  BY FS_Subset, FS_CardinalityType, FS_EmptySet
<1>2. 0 \in N
  <2>1. UpTo(0, [S \in SUBSET D |-> 0])
    BY <1>1 DEF SumStep
  <2> QED
    BY <2>1
<1>3. ASSUME NEW n \in N PROVE n + 1 \in N
  <2>1. PICK g : UpTo(n, g)
    OBVIOUS
  <2> DEFINE h == [S \in SUBSET D |-> SumStep(f, g, S)]
  <2>2. UpTo(n + 1, h)
    <3> SUFFICES ASSUME NEW S \in SUBSET D, Cardinality(S) <= n + 1
                 PROVE  h[S] = SumStep(f, h, S)
      OBVIOUS
    <3>1. CASE S = {}
      BY <3>1 DEF SumStep
    <3>2. CASE S # {}
      <4> DEFINE R == S \ {AnyOf(S)}
      <4>1. R \in SUBSET D /\ Cardinality(R) <= n
        BY <1>1, <3>2, AnyOfIn, FS_RemoveElement
      <4> HIDE DEF R
      <4>2. h[R] = g[R]
        BY <2>1, <4>1
      <4> QED
        BY <3>2, <4>2 DEF SumStep, R
    <3> QED
      BY <3>1, <3>2
  <2> HIDE DEF h
  <2> QED
    BY <2>2
<1>4. N = Nat
  <2>1. N \in SUBSET Nat
    OBVIOUS
  <2> HIDE DEF N
  <2> QED
    BY <1>2, <1>3, <2>1, NatInd
<1>5. Cardinality(D) \in N
  BY <1>4, FS_CardinalityType
<1>6. PICK g : UpTo(Cardinality(D), g)
  BY <1>5
<1> DEFINE h == [S \in SUBSET D |-> g[S]]
<1>7. \A S \in SUBSET D : h[S] = SumStep(f, g, S)
  BY <1>1, <1>6
<1>8. \A S \in SUBSET D : SumStep(f, g, S) = SumStep(f, h, S)
  <2> SUFFICES ASSUME NEW S \in SUBSET D PROVE SumStep(f, g, S) = SumStep(f, h, S)
    OBVIOUS
  <2>1. S \ {AnyOf(S)} \in SUBSET D
    OBVIOUS
  <2> QED
    BY <2>1 DEF SumStep
<1>9. h = [S \in SUBSET D |-> SumStep(f, h, S)]
  <2>1. h = [S \in SUBSET D |-> h[S]]
    OBVIOUS
  <2> HIDE DEF h
  <2> QED
    BY <1>7, <1>8, <2>1
<1> QED
  BY <1>9

(* The one that Total speaks of.                                           *)
Sums(f) == CHOOSE g : g = [S \in SUBSET DOMAIN f |-> SumStep(f, g, S)]

(* ... Total takes it at the whole domain, and it does what it says.       *)
LEMMA TotalIsSum ==
  ASSUME NEW f, IsFiniteSet(DOMAIN f)
  PROVE  /\ Total(f) = Sums(f)[DOMAIN f]
         /\ Sums(f)[{}] = 0
         /\ \A S \in SUBSET DOMAIN f : S # {} =>
              /\ AnyOf(S) \in S
              /\ Sums(f)[S] = f[AnyOf(S)] + Sums(f)[S \ {AnyOf(S)}]
<1>1. Total(f) = Sums(f)[DOMAIN f]
  BY DEF Total, Sums, SumStep
<1>2. \E g : g = [S \in SUBSET DOMAIN f |-> SumStep(f, g, S)]
  BY SumsExist
<1>3. Sums(f) = [S \in SUBSET DOMAIN f |-> SumStep(f, Sums(f), S)]
  <2> HIDE DEF SumStep
  <2> QED
    BY <1>2 DEF Sums
<1>4. \A S \in SUBSET DOMAIN f : Sums(f)[S] = SumStep(f, Sums(f), S)
  <2> HIDE DEF SumStep
  <2> QED
    BY <1>3
<1>5. Sums(f)[{}] = 0
  <2>1. {} \in SUBSET DOMAIN f
    OBVIOUS
  <2>2. Sums(f)[{}] = SumStep(f, Sums(f), {})
    BY <1>4, <2>1
  <2> QED
    BY <2>2 DEF SumStep
<1>6. ASSUME NEW S \in SUBSET DOMAIN f, S # {}
      PROVE  Sums(f)[S] = f[AnyOf(S)] + Sums(f)[S \ {AnyOf(S)}]
  BY <1>4, <1>6 DEF SumStep
<1> QED
  BY <1>1, <1>5, <1>6, AnyOfIn

(* A total of integers is one.                                             *)
LEMMA SumsType ==
  ASSUME NEW D, IsFiniteSet(D), NEW f \in [D -> Int]
  PROVE  /\ \A S \in SUBSET D : Sums(f)[S] \in Int
         /\ Total(f) \in Int
<1> DEFINE T == {S \in SUBSET D : Sums(f)[S] \in Int}
<1>1. /\ DOMAIN f = D
      /\ Total(f) = Sums(f)[D]
      /\ Sums(f)[{}] = 0
      /\ \A S \in SUBSET D : S # {} =>
           /\ AnyOf(S) \in S
           /\ Sums(f)[S] = f[AnyOf(S)] + Sums(f)[S \ {AnyOf(S)}]
  BY TotalIsSum
<1>2. ASSUME NEW S \in SUBSET D, \A x \in S : S \ {x} \in T
      PROVE  S \in T
  <2>1. CASE S = {}
    BY <1>1, <2>1
  <2>2. CASE S # {}
    <3>1. AnyOf(S) \in S
      BY <1>1, <2>2
    <3>2. f[AnyOf(S)] \in Int /\ Sums(f)[S \ {AnyOf(S)}] \in Int
      BY <1>2, <3>1
    <3> QED
      BY <1>1, <2>2, <3>2
  <2> QED
    BY <2>1, <2>2
<1>3. T = SUBSET D
  <2>1. T \in SUBSET SUBSET D
    OBVIOUS
  <2> HIDE DEF T
  <2> QED
    BY <1>2, <2>1, SubsetInd
<1> QED
  BY <1>1, <1>3

(* Adding to one summand adds to the total.                                *)
Plus(f, x, d) == [f EXCEPT ![x] = @ + d]

(* A change of one entry changes the total by as much.                     *)
LEMMA TotalPlus ==
  ASSUME NEW D, IsFiniteSet(D), NEW f \in [D -> Int], NEW x \in D, NEW d \in Int
  PROVE  Total(Plus(f, x, d)) = Total(f) + d
<1> DEFINE h == [f EXCEPT ![x] = @ + d]
           More(S) == IF x \in S THEN d ELSE 0
           T == {S \in SUBSET D : Sums(h)[S] = Sums(f)[S] + More(S)}
<1>1. /\ h \in [D -> Int]
      /\ h[x] = f[x] + d
      /\ \A y \in D \ {x} : h[y] = f[y]
  OBVIOUS
<1> HIDE DEF h
<1>2. /\ DOMAIN f = D
      /\ Total(f) = Sums(f)[D]
      /\ Sums(f)[{}] = 0
      /\ \A S \in SUBSET D : S # {} =>
           /\ AnyOf(S) \in S
           /\ Sums(f)[S] = f[AnyOf(S)] + Sums(f)[S \ {AnyOf(S)}]
      /\ \A S \in SUBSET D : Sums(f)[S] \in Int
  BY TotalIsSum, SumsType
<1>3. /\ DOMAIN h = D
      /\ Total(h) = Sums(h)[D]
      /\ Sums(h)[{}] = 0
      /\ \A S \in SUBSET D : S # {} =>
           /\ AnyOf(S) \in S
           /\ Sums(h)[S] = h[AnyOf(S)] + Sums(h)[S \ {AnyOf(S)}]
  BY <1>1, TotalIsSum
<1>4. ASSUME NEW S \in SUBSET D, \A y \in S : S \ {y} \in T
      PROVE  S \in T
  <2>1. CASE S = {}
    <3>1. Sums(h)[S] = 0 /\ Sums(f)[S] = 0
      BY <1>2, <1>3, <2>1
    <3>2. More(S) = 0
      BY <2>1
    <3> HIDE DEF More
    <3> QED
      BY <3>1, <3>2
  <2>2. CASE S # {}
    <3> DEFINE a == AnyOf(S)
               R == S \ {a}
    <3>1. a \in S /\ a \in D /\ R \in SUBSET D
      BY <1>2, <2>2
    <3>2. Sums(h)[R] = Sums(f)[R] + More(R)
      BY <1>4, <3>1
    <3>3. /\ Sums(f)[S] = f[a] + Sums(f)[R]
          /\ Sums(h)[S] = h[a] + Sums(h)[R]
      BY <1>2, <1>3, <2>2
    <3>4. f[a] \in Int /\ Sums(f)[R] \in Int
      BY <1>2, <3>1
    <3>5. CASE a = x
      <4>1. h[a] = f[a] + d /\ More(S) = d /\ More(R) = 0
        BY <1>1, <3>1, <3>5
      <4> HIDE DEF a, R, More
      <4> QED
        BY <3>2, <3>3, <3>4, <4>1
    <3>6. CASE a # x
      <4>1. h[a] = f[a] /\ More(S) = More(R) /\ More(R) \in Int
        BY <1>1, <3>1, <3>6
      <4> HIDE DEF a, R, More
      <4> QED
        BY <3>2, <3>3, <3>4, <4>1
    <3> QED
      BY <3>5, <3>6
  <2> QED
    BY <2>1, <2>2
<1>5. T = SUBSET D
  <2>1. T \in SUBSET SUBSET D
    OBVIOUS
  <2> HIDE DEF T
  <2> QED
    BY <1>4, <2>1, SubsetInd
<1> QED
  BY <1>2, <1>3, <1>5 DEF Plus, h

(* The total of equal summands.                                            *)
LEMMA TotalConst ==
  ASSUME NEW D, IsFiniteSet(D), NEW k \in Int,
         NEW f \in [D -> Int], \A x \in D : f[x] = k
  PROVE  Total(f) = k * Cardinality(D)
<1> DEFINE T == {S \in SUBSET D : Sums(f)[S] = k * Cardinality(S)}
<1>1. /\ DOMAIN f = D
      /\ Total(f) = Sums(f)[D]
      /\ Sums(f)[{}] = 0
      /\ \A S \in SUBSET D : S # {} =>
           /\ AnyOf(S) \in S
           /\ Sums(f)[S] = f[AnyOf(S)] + Sums(f)[S \ {AnyOf(S)}]
  BY TotalIsSum
<1>2. ASSUME NEW S \in SUBSET D, \A x \in S : S \ {x} \in T
      PROVE  S \in T
  <2>1. CASE S = {}
    BY <1>1, <2>1, FS_EmptySet
  <2>2. CASE S # {}
    <3>1. AnyOf(S) \in S
      BY <1>1, <2>2
    <3>2. /\ Cardinality(S) \in Nat
          /\ Cardinality(S \ {AnyOf(S)}) = Cardinality(S) - 1
      BY <3>1, FS_Subset, FS_CardinalityType, FS_RemoveElement
    <3>3. Sums(f)[S] = k + k * (Cardinality(S) - 1)
      BY <1>1, <1>2, <2>2, <3>1, <3>2
    <3>4. \A n \in Nat : k + k * (n - 1) = k * n
      OBVIOUS
    <3> QED
      BY <3>2, <3>3, <3>4
  <2> QED
    BY <2>1, <2>2
<1>3. T = SUBSET D
  <2>1. T \in SUBSET SUBSET D
    OBVIOUS
  <2> HIDE DEF T
  <2> QED
    BY <1>2, <2>1, SubsetInd
<1> QED
  BY <1>1, <1>3

-----------------------------------------------------------------------------
(* Rows with any score, as they are between the two queries of a result.   *)
Rows == [score : Int, pkCnt : Nat, winCnt : Nat]

(* A row by itself: the score is what the counted games were worth.        *)
WorthItsGames(row) == row.score = 1000 + 60 * row.winCnt - 30 * row.pkCnt

(* The totals of its columns are numbers.                                  *)
LEMMA CountsAreNumbers ==
  ASSUME NEW t \in [Uids -> Rows]
  PROVE  PlayedIn(t) \in Int /\ WonIn(t) \in Int /\ PointsIn(t) \in Int
<1>1. /\ [u \in Uids |-> t[u].pkCnt] \in [Uids -> Int]
      /\ [u \in Uids |-> t[u].winCnt] \in [Uids -> Int]
      /\ [u \in Uids |-> t[u].score] \in [Uids -> Int]
  BY DEF Rows
<1> QED
  BY <1>1, SumsType, UidsAssumption DEF PlayedIn, WonIn, PointsIn

(* A query that adds to the columns of one row adds to their totals.       *)
Counted(t, id, points, won) ==
  [t EXCEPT ![id] = [score |-> @.score + points, pkCnt |-> @.pkCnt + 1,
                     winCnt |-> @.winCnt + won]]

(* A query that counts a game, won or not, in the three totals.            *)
LEMMA QueryCounts ==
  ASSUME NEW t \in [Uids -> Rows], NEW id \in Uids,
         NEW points \in Int, NEW won \in Nat, points = 60 * won - 30,
         \A u \in Uids : WorthItsGames(t[u])
  PROVE  /\ Counted(t, id, points, won) \in [Uids -> Rows]
         /\ PlayedIn(Counted(t, id, points, won)) = PlayedIn(t) + 1
         /\ WonIn(Counted(t, id, points, won)) = WonIn(t) + won
         /\ PointsIn(Counted(t, id, points, won)) = PointsIn(t) + points
         /\ \A u \in Uids : WorthItsGames(Counted(t, id, points, won)[u])
<1> DEFINE s == Counted(t, id, points, won)
           played(r) == [u \in Uids |-> r[u].pkCnt]
           wins(r) == [u \in Uids |-> r[u].winCnt]
           scores(r) == [u \in Uids |-> r[u].score]
<1>1. /\ t[id].score \in Int /\ t[id].pkCnt \in Nat /\ t[id].winCnt \in Nat
      /\ played(t) \in [Uids -> Int]
      /\ wins(t) \in [Uids -> Int]
      /\ scores(t) \in [Uids -> Int]
  BY DEF Rows
<1>2. s \in [Uids -> Rows]
  BY <1>1 DEF Rows, Counted
<1>3. /\ \A u \in Uids \ {id} : s[u] = t[u]
      /\ s[id].score = t[id].score + points
      /\ s[id].pkCnt = t[id].pkCnt + 1
      /\ s[id].winCnt = t[id].winCnt + won
  BY DEF Counted
<1> HIDE DEF s
<1>4. /\ played(s) = Plus(played(t), id, 1)
      /\ wins(s) = Plus(wins(t), id, won)
      /\ scores(s) = Plus(scores(t), id, points)
  BY <1>3 DEF Plus
<1> HIDE DEF played, wins, scores
<1>5. /\ Total(played(s)) = Total(played(t)) + 1
      /\ Total(wins(s)) = Total(wins(t)) + won
      /\ Total(scores(s)) = Total(scores(t)) + points
  BY <1>1, <1>4, TotalPlus, UidsAssumption
<1>6. \A u \in Uids : WorthItsGames(s[u])
  <2>1. WorthItsGames(s[id])
    <3>1. WorthItsGames(t[id])
      OBVIOUS
    <3> HIDE DEF played, wins, scores
    <3> QED
      BY <1>1, <1>3, <3>1 DEF WorthItsGames
  <2> QED
    BY <1>3, <2>1
<1> QED
  BY <1>2, <1>5, <1>6 DEF s, played, wins, scores, PlayedIn, WonIn, PointsIn

(* The two queries.                                                        *)
LEMMA WinCounts ==
  ASSUME NEW t \in [Uids -> Rows], NEW id \in Uids,
         \A u \in Uids : WorthItsGames(t[u])
  PROVE  /\ Win(t, id) \in [Uids -> Rows]
         /\ PlayedIn(Win(t, id)) = PlayedIn(t) + 1
         /\ WonIn(Win(t, id)) = WonIn(t) + 1
         /\ PointsIn(Win(t, id)) = PointsIn(t) + 30
         /\ \A u \in Uids : WorthItsGames(Win(t, id)[u])
<1>1. Win(t, id) = Counted(t, id, 30, 1)
  BY DEF Win, Counted
<1> QED
  BY <1>1, QueryCounts

(* A lost game is one more played, and 30 points less.                     *)
LEMMA LoseCounts ==
  ASSUME NEW t \in [Uids -> Rows], NEW id \in Uids,
         \A u \in Uids : WorthItsGames(t[u])
  PROVE  /\ Lose(t, id) \in [Uids -> Rows]
         /\ PlayedIn(Lose(t, id)) = PlayedIn(t) + 1
         /\ WonIn(Lose(t, id)) = WonIn(t)
         /\ PointsIn(Lose(t, id)) = PointsIn(t) - 30
         /\ \A u \in Uids : WorthItsGames(Lose(t, id)[u])
<1> DEFINE points == 0 - 30
<1>1. t[id].score \in Int /\ t[id].winCnt \in Nat
  BY DEF Rows
<1>2. Lose(t, id) = Counted(t, id, points, 0)
  <2>1. /\ t[id].score - 30 = t[id].score + points
        /\ t[id].winCnt = t[id].winCnt + 0
    BY <1>1
  <2> HIDE DEF points
  <2> QED
    BY <2>1 DEF Lose, Counted
<1>3. points \in Int /\ points = 60 * 0 - 30 /\ \A n \in Int : n + points = n - 30 /\ n + 0 = n
  OBVIOUS
<1> HIDE DEF points
<1>4. /\ Counted(t, id, points, 0) \in [Uids -> Rows]
      /\ PlayedIn(Counted(t, id, points, 0)) = PlayedIn(t) + 1
      /\ WonIn(Counted(t, id, points, 0)) = WonIn(t) + 0
      /\ PointsIn(Counted(t, id, points, 0)) = PointsIn(t) + points
      /\ \A u \in Uids : WorthItsGames(Counted(t, id, points, 0)[u])
  BY <1>3, QueryCounts
<1> QED
  BY <1>2, <1>3, <1>4, CountsAreNumbers

-----------------------------------------------------------------------------
(* The table as a ledger of results, in any number of rooms, any number of *)
(* results.  The inductive invariant; with RmInv it needs no more.         *)
Ledger == AccountsBalance /\ NothingCountsTwice

(* The table of the invariant is one of these.                             *)
LEMMA TableRows == TableTypeOK => table \in [Uids -> Rows]
  BY UserTableAssumption DEF TableTypeOK, Row, Rows

(* At first nobody has played, and everybody has 1000 points.              *)
LEMMA LedgerStart ==
  ASSUME RmInit
  PROVE  Ledger
<1>1. \A u \in Uids : /\ table[u].pkCnt = 0
                       /\ table[u].winCnt = 0
                       /\ table[u].score = 1000
  BY DEF RmInit, TableInit, NewUser
<1>2. /\ [u \in Uids |-> table[u].pkCnt] \in [Uids -> Int]
      /\ [u \in Uids |-> table[u].winCnt] \in [Uids -> Int]
      /\ [u \in Uids |-> table[u].score] \in [Uids -> Int]
  BY <1>1
<1>3. /\ PlayedIn(table) = 0 * Cardinality(Uids)
      /\ WonIn(table) = 0 * Cardinality(Uids)
      /\ PointsIn(table) = 1000 * Cardinality(Uids)
  BY <1>1, <1>2, TotalConst, UidsAssumption DEF PlayedIn, WonIn, PointsIn
<1>4. IsFiniteSet(Rids)
  BY FS_Interval, RoomManagerAssumption DEF Rids
<1>5. Games = 0 * Cardinality(Rids)
  BY <1>4, TotalConst DEF RmInit, RoomInit, Games
<1>6. Cardinality(Uids) \in Nat /\ Cardinality(Rids) \in Nat
  BY <1>4, FS_CardinalityType, UidsAssumption
<1> QED
  BY <1>1, <1>3, <1>5, <1>6
  DEF Ledger, AccountsBalance, NothingCountsTwice

(* A result, with the queries that succeed for it.                         *)
LEMMA RecordLedger ==
  ASSUME RmInv, Ledger, NEW rid \in Rids, Live(rid),
         NEW winner \in Players(rooms[rid]), Record(rid, winner)
  PROVE  Ledger'
<1> DEFINE loser == Opponent(rooms[rid], winner)
<1>1. winner \in Uids /\ loser \in Uids
  BY DEF RmInv, RmTypeOK, RoomTypeOK, Live, Rooms, Players, Opponent
<1>2. /\ table \in [Uids -> Rows]
      /\ PlayedIn(table) \in Int /\ WonIn(table) \in Int /\ PointsIn(table) \in Int
  BY TableRows, CountsAreNumbers DEF RmInv, RmTypeOK
<1>3. \A u \in Uids : WorthItsGames(table[u])
  BY DEF Ledger, NothingCountsTwice, WorthItsGames
<1>4. Games' = Games + 1 /\ Games \in Int
  <2>1. IsFiniteSet(Rids) /\ results \in [Rids -> Int]
    BY FS_Interval, RoomManagerAssumption DEF RmInv, RmTypeOK, RoomTypeOK, Rids
  <2>2. results' = [results EXCEPT ![rid] = @ + 1]
    BY DEF Record
  <2>3. results' = Plus(results, rid, 1)
    BY <2>2 DEF Plus
  <2> QED
    BY <2>1, <2>3, TotalPlus, SumsType DEF Games
<1>5. PICK won, lost \in QueryResults :
        table' = LET t == IF won THEN Win(table, winner) ELSE table
                 IN  IF lost THEN Lose(t, loser) ELSE t
  BY DEF Record
<1> DEFINE t == IF won THEN Win(table, winner) ELSE table
           w == IF won THEN 1 ELSE 0
           l == IF lost THEN 1 ELSE 0
<1>6. w \in 0..1 /\ l \in 0..1 /\ (~DbMayFail => w = 1 /\ l = 1)
  <2>1. ~DbMayFail => won /\ lost
    BY DEF QueryResults
  <2> QED
    BY <2>1
<1> HIDE DEF loser
<1>7. /\ t \in [Uids -> Rows]
      /\ PlayedIn(t) = PlayedIn(table) + w
      /\ WonIn(t) = WonIn(table) + w
      /\ PointsIn(t) = PointsIn(table) + 30 * w
      /\ \A u \in Uids : WorthItsGames(t[u])
  BY <1>1, <1>2, <1>3, WinCounts
<1>8. table' = IF lost THEN Lose(t, loser) ELSE t
  BY <1>5
<1> HIDE DEF t
<1>9. PlayedIn(t) \in Int /\ WonIn(t) \in Int /\ PointsIn(t) \in Int
  BY <1>7, CountsAreNumbers
<1>10. /\ PlayedIn(table') = PlayedIn(t) + l
       /\ WonIn(table') = WonIn(t)
       /\ PointsIn(table') = PointsIn(t) - 30 * l
       /\ \A u \in Uids : WorthItsGames(table'[u])
  <2>1. CASE lost
    BY <1>1, <1>7, <1>8, <2>1, LoseCounts
  <2>2. CASE ~lost
    BY <1>7, <1>8, <1>9, <2>2
  <2> QED
    BY <2>1, <2>2
<1> HIDE DEF w, l
<1>11. /\ PlayedIn(table') = PlayedIn(table) + w + l
       /\ WonIn(table') = WonIn(table) + w
       /\ PointsIn(table') = PointsIn(table) + 30 * w - 30 * l
  BY <1>2, <1>6, <1>7, <1>10
<1>12. AccountsBalance'
  BY <1>2, <1>4, <1>6, <1>11 DEF Ledger, AccountsBalance
<1>13. NothingCountsTwice'
  BY <1>2, <1>4, <1>6, <1>10, <1>11 DEF Ledger, NothingCountsTwice, WorthItsGames
<1> QED
  BY <1>12, <1>13 DEF Ledger

(* The table and the results change together, and only by Record.          *)
LEMMA OnlyRecordWrites ==
  ASSUME RmInv, [RmNext]_rmVars
  PROVE  \/ UNCHANGED <<table, results>>
         \/ \E rid \in Rids : /\ Live(rid)
                              /\ \E w \in Players(rooms[rid]) : Record(rid, w)
<1>1. ASSUME NEW u \in Uids, NEW c \in Cells, HandleRequest(u, c)
      PROVE  \/ UNCHANGED <<table, results>>
             \/ \E rid \in Rids : /\ Live(rid)
                                  /\ \E w \in Players(rooms[rid]) : Record(rid, w)
  <2> DEFINE rid == GetRoomByUid(u)
  <2>1. rid \in Rids /\ Live(rid)
    BY <1>1, FoundRoom DEF HandleRequest
  <2>2. \A w \in WinnerByAbsence(rooms[rid]) : w \in Players(rooms[rid])
    BY DEF WinnerByAbsence, Players
  <2>3. \A color : OwnerOf(rooms[rid], color) \in Players(rooms[rid])
    BY DEF OwnerOf, Players
  <2> QED
    BY <1>1, <2>1, <2>2, <2>3
    DEF HandleRequest, HandleRequestAbsent, HandleRequestPut
<1>2. ASSUME NEW u \in Uids, CloseRoom(u)
      PROVE  \/ UNCHANGED <<table, results>>
             \/ \E rid \in Rids : /\ Live(rid)
                                  /\ \E w \in Players(rooms[rid]) : Record(rid, w)
  <2> DEFINE rid == GetRoomByUid(u)
  <2>1. rid # NoRid => rid \in Rids /\ Live(rid)
    BY FoundRoom
  <2>2. Opponent(rooms[rid], u) \in Players(rooms[rid])
    BY DEF Opponent, Players
  <2> QED
    BY <1>2, <2>1, <2>2 DEF CloseRoom, RemoveUser, roomVars
<1> QED
  BY <1>1, <1>2
  DEF RmNext, Hall, OpenRoom, CreateRoom, InsertRoom, rmVars, roomVars

(* The accounts are kept in every reachable state.                         *)
THEOREM LedgerInvariant == RmSpec => []Ledger
<1>1. RmInit => Ledger
  BY LedgerStart
<1>2. RmInv /\ Ledger /\ [RmNext]_rmVars => Ledger'
  <2> SUFFICES ASSUME RmInv, Ledger, [RmNext]_rmVars PROVE Ledger'
    OBVIOUS
  <2>1. CASE UNCHANGED <<table, results>>
    BY <2>1 DEF Ledger, AccountsBalance, NothingCountsTwice, Games
  <2> QED
    BY <2>1, OnlyRecordWrites, RecordLedger
<1> QED
  BY <1>1, <1>2, RmInvariant, PTL DEF RmSpec

(* While the queries succeed, points only change hands, however many rooms *)
(* there are and however often a finished game is won again, also when one *)
(* player has both seats of a room.                                        *)
THEOREM AccountsAlwaysBalance == RmSpec => []AccountsBalance
<1>1. Ledger => AccountsBalance
  BY DEF Ledger
<1> QED
  BY <1>1, LedgerInvariant, PTL

(* Whichever queries fail, a result counts at most once for either side,   *)
(* and each score is worth the games counted beside it.                    *)
THEOREM NothingEverCountsTwice == RmSpec => []NothingCountsTwice
<1>1. Ledger => NothingCountsTwice
  BY DEF Ledger
<1> QED
  BY <1>1, LedgerInvariant, PTL

=============================================================================
