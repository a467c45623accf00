----------------------------- MODULE OnlineUser -----------------------------
(***************************************************************************)
(* Class OnlineUser (src/onlineUser.hpp): the two unordered_maps that say  *)
(* on which websocket connection a user can be reached in the game hall    *)
(* and in his game room.  Every method holds _mtx for its whole body, so   *)
(* one method is one atomic step.                                          *)
(*                                                                         *)
(* A connection is a token: two tokens of one user are two connections.    *)
(* NoConn is the null connection_ptr the getters return for a missing key. *)
(***************************************************************************)
EXTENDS UserIds

CONSTANTS Conns,   \* the websocket connections a user can open
          NoConn   \* the null pointer

ASSUME NoConnAssumption == NoConn \notin Conns

VARIABLES hallUser,  \* _hallUser: uid -> connection, NoConn where absent
          roomUser   \* _roomUser: uid -> connection, NoConn where absent

onlineVars == <<hallUser, roomUser>>

Registry == [Uids -> Conns \cup {NoConn}]

OnlineTypeOK == hallUser \in Registry /\ roomUser \in Registry

OnlineInit ==
  /\ hallUser = [u \in Uids |-> NoConn]
  /\ roomUser = [u \in Uids |-> NoConn]

-----------------------------------------------------------------------------

InHall(uid) == hallUser[uid] # NoConn
InRoom(uid) == roomUser[uid] # NoConn

(* unordered_map::insert keeps the entry that is already there.            *)
Inserted(map, uid, conn) ==
  [map EXCEPT ![uid] = IF @ = NoConn THEN conn ELSE @]

Erased(map, uid) == [map EXCEPT ![uid] = NoConn]

EnterHall(uid, conn) ==
  /\ hallUser' = Inserted(hallUser, uid, conn)
  /\ UNCHANGED roomUser

ExitHall(uid) ==
  /\ hallUser' = Erased(hallUser, uid)
  /\ UNCHANGED roomUser

EnterRoom(uid, conn) ==
  /\ roomUser' = Inserted(roomUser, uid, conn)
  /\ UNCHANGED hallUser

ExitRoom(uid) ==
  /\ roomUser' = Erased(roomUser, uid)
  /\ UNCHANGED hallUser

=============================================================================
