---------------------------- MODULE GomokuServer ----------------------------
(***************************************************************************)
(* Class GomokuServer (src/server.hpp): the handlers that the event loop   *)
(* runs for http requests and websocket connections.  Each finds the       *)
(* client's session by its cookie and then calls the session manager, the  *)
(* registry of connections and the room manager.  The loop has one thread, *)
(* so a handler is one step; what happens between two handlers is a        *)
(* matter of when requests arrive, connections break and timers fire.      *)
(*                                                                         *)
(* Matching is module Matcher's: here two players who asked for a match    *)
(* and are in the hall get a room in one step.  (One who leaves between    *)
(* the tests and the creation has here left just after it.)                *)
(***************************************************************************)
EXTENDS RoomManager, SessionManager

CONSTANT Nobody      \* the owner of a session before its login

ASSUME NobodyAssumption == Nobody \notin Uids

VARIABLES up,      \* whether the process lives
          owner,   \* _uid of each session
          uri,     \* of each connection: "/hall", "/room", "none" while it
                   \*   is not open
          cookie,  \* the SID each connection carries
          asked,   \* the players in the match queues
          missed   \* history: sids whose session a close handler did not find

clientVars == <<uri, cookie>>
serverVars == <<up, owner, asked>>
gsVars == <<rmVars, smVars, clientVars, serverVars, missed>>

NoSid == 0

ServerInit ==
  /\ RmInit /\ SmInit
  /\ up = TRUE
  /\ owner = [s \in Sids |-> Nobody]
  /\ uri = [c \in Conns |-> "none"]
  /\ cookie = [c \in Conns |-> NoSid]
  /\ asked = {}
  /\ missed = {}

Open(c) == uri[c] # "none"

(* Some registry holds the connection_ptr.                                 *)
Held(c) == \E u \in Uids : c \in {hallUser[u], roomUser[u]}

(* __GetSessionByCookie, for a connection and for the cookie it carries.   *)
Known(c) == cookie[c] \in session
User(c)  == owner[cookie[c]]

-----------------------------------------------------------------------------
(* http requests                                                           *)

(* Variant for the mutation runs: the new session is given no time.        *)
LoginHandlerUntimed(uid) ==
  /\ up
  /\ nextSid \in Sids
  /\ nextSid' = nextSid + 1
  /\ session' = session \cup {nextSid}
  /\ owner' = [owner EXCEPT ![nextSid] = uid]
  /\ UNCHANGED <<tp, removals, appends, history>>
  /\ UNCHANGED <<rmVars, clientVars, up, asked, missed>>

LoginHandler(uid) ==
  /\ up
  /\ Login
  /\ owner' = [owner EXCEPT ![nextSid] = uid]
  /\ UNCHANGED <<rmVars, clientVars, up, asked, missed>>

(* A page asks for the user's information, which renews the session.       *)
InfoHandler(sid) ==
  /\ up
  /\ SetSessionTime(sid, SESSION_TIMEOUT)
  /\ UNCHANGED <<rmVars, clientVars, serverVars, missed>>

-----------------------------------------------------------------------------
(* websocket connections                                                   *)

(* A connection that is closed and that nobody holds any more is free to   *)
(* stand for another one.                                                  *)
Connect(c, path, sid) ==
  /\ up
  /\ ~Open(c) /\ ~Held(c)
  /\ sid \in 1 .. nextSid - 1
  /\ uri' = [uri EXCEPT ![c] = path]
  /\ cookie' = [cookie EXCEPT ![c] = sid]

Disconnect(c, path) ==
  /\ up
  /\ uri[c] = path
  /\ uri' = [uri EXCEPT ![c] = "none"]
  /\ UNCHANGED cookie

(* Without a session, and after the null dereference that follows when a   *)
(* player has no room, a handler leaves everything else as it is.          *)
Refused == UNCHANGED <<rmVars, smVars, serverVars>>
Crash   == up' = FALSE /\ UNCHANGED <<rmVars, smVars, owner, asked>>

(* Another connection of the player is reported to the client, not         *)
(* refused.                                                                *)
WsOpenHall(c, sid) ==
  /\ Connect(c, "/hall", sid)
  /\ \/ /\ sid \notin session
        /\ Refused
     \/ /\ EnterHall(owner[sid], c)
        /\ SetSessionTime(sid, SESSION_FOREVER)
        /\ UNCHANGED <<table, roomVars, serverVars>>
  /\ UNCHANGED missed

WsOpenRoom(c, sid) ==
  /\ Connect(c, "/room", sid)
  /\ \/ /\ sid \notin session
        /\ Refused
     \/ /\ sid \in session
        /\ GetRoomByUid(owner[sid]) = NoRid
        /\ Crash
     \/ /\ OpenRoom(owner[sid], c)
        /\ SetSessionTime(sid, SESSION_FOREVER)
        /\ UNCHANGED serverVars
  /\ UNCHANGED missed

(* Whoever it is that closes, his session must be found for anything to    *)
(* be cleaned up.                                                          *)
MissedClose(c) ==
  /\ ~Known(c)
  /\ missed' = missed \cup {cookie[c]}
  /\ Refused

(* Variant for the mutation runs: the session stays permanent.             *)
WsCloseHallUntimed(c) ==
  /\ Disconnect(c, "/hall")
  /\ Known(c)
  /\ ExitHall(User(c))
  /\ UNCHANGED <<table, roomVars, smVars, serverVars, missed>>

WsCloseHall(c) ==
  /\ Disconnect(c, "/hall")
  /\ \/ MissedClose(c)
     \/ /\ Known(c)
        /\ ExitHall(User(c))
        /\ SetSessionTime(cookie[c], SESSION_TIMEOUT)
        /\ UNCHANGED <<table, roomVars, serverVars, missed>>

(* Variants for the mutation runs: the player leaves the registry, not his *)
(* room; the player leaves the registry of the hall.                       *)
WsCloseRoomStays(c) ==
  /\ Disconnect(c, "/room")
  /\ Known(c)
  /\ ExitRoom(User(c))
  /\ SetSessionTime(cookie[c], SESSION_TIMEOUT)
  /\ UNCHANGED <<table, roomVars, serverVars, missed>>

WsCloseRoomWrong(c) ==
  /\ Disconnect(c, "/room")
  /\ Known(c)
  /\ ExitHall(User(c))
  /\ RemoveUser(User(c))
  /\ SetSessionTime(cookie[c], SESSION_TIMEOUT)
  /\ UNCHANGED <<serverVars, missed>>

WsCloseRoom(c) ==
  /\ Disconnect(c, "/room")
  /\ \/ MissedClose(c)
     \/ /\ Known(c)
        /\ CloseRoom(User(c))
        /\ SetSessionTime(cookie[c], SESSION_TIMEOUT)
        /\ UNCHANGED <<serverVars, missed>>

(* match_start and match_stop                                              *)
WsMsgHall(c) ==
  /\ up
  /\ uri[c] = "/hall"
  /\ Known(c)
  /\ asked' \in {asked \cup {User(c)}, asked \ {User(c)}}
  /\ UNCHANGED <<rmVars, smVars, clientVars, up, owner, missed>>

(* put_chess                                                               *)
WsMsgRoom(c, cell) ==
  /\ up
  /\ uri[c] = "/room"
  /\ Known(c)
  /\ \/ /\ GetRoomByUid(User(c)) = NoRid
        /\ Crash
     \/ /\ HandleRequest(User(c), cell)
        /\ UNCHANGED <<smVars, serverVars>>
  /\ UNCHANGED <<clientVars, missed>>

-----------------------------------------------------------------------------
(* What the matching threads and the timers of the loop do meanwhile.      *)

Match(uid1, uid2) ==
  /\ up
  /\ {uid1, uid2} \subseteq asked
  /\ uid1 # uid2
  /\ CreateRoomForTwoUser(uid1, uid2)
  /\ asked' = asked \ {uid1, uid2}
  /\ UNCHANGED <<smVars, clientVars, up, owner, missed>>

Fire(sid) ==
  /\ up
  /\ RunRemove(sid) \/ RunAppend(sid) \/ Expire(sid)
  /\ UNCHANGED <<rmVars, clientVars, serverVars, missed>>

ServerNext ==
  \/ \E u \in Uids : LoginHandler(u)
  \/ \E s \in Sids : InfoHandler(s) \/ Fire(s)
  \/ \E c \in Conns, s \in Sids : WsOpenHall(c, s) \/ WsOpenRoom(c, s)
  \/ \E c \in Conns : WsCloseHall(c) \/ WsCloseRoom(c) \/ WsMsgHall(c)
  \/ \E c \in Conns, cell \in Cells : WsMsgRoom(c, cell)
  \/ \E u, v \in Uids : Match(u, v)

ServerSpec == ServerInit /\ [][ServerNext]_gsVars

-----------------------------------------------------------------------------
(* Every variable keeps its type.                                          *)
ServerTypeOK ==
  /\ RmTypeOK /\ SmTypeOK
  /\ up \in BOOLEAN
  /\ owner \in [Sids -> Uids \cup {Nobody}]
  /\ uri \in [Conns -> {"none", "/hall", "/room"}]
  /\ cookie \in [Conns -> Sids \cup {NoSid}]
  /\ asked \subseteq Uids
  /\ missed \subseteq Sids

(* The registry never lists a connection that has closed, unless the       *)
(* handler of its close came when the session was out of the map: no other *)
(* order of openings and closings of several pages of one player, some of  *)
(* them refused, some of them not the registered one, leaves a ghost.      *)
Listed(c, path, registry) ==
  \A u \in Uids : registry[u] = c =>
    /\ User(c) = u
    /\ uri[c] = path \/ cookie[c] \in missed

GhostsAreMissedCloses ==
  \A c \in Conns : Listed(c, "/hall", hallUser) /\ Listed(c, "/room", roomUser)

(* A session lives forever only as long as one of its client's connections *)
(* is open, again unless a close was missed.  Pages of one client that     *)
(* open and close in any order set the time on it by turns.                *)
PermanentWhileConnected ==
  \A s \in Sids : term[s] = SESSION_FOREVER =>
    s \in missed \/ \E c \in Conns : Open(c) /\ cookie[c] = s

(* Whatever the handlers do to rooms and sessions, they do by the steps    *)
(* that modules RoomManager and SessionManager know of: what holds of      *)
(* those in every environment holds of them in this server.                *)
ImplementsRooms    == RmSpec
ImplementsSessions == SmSpec

-----------------------------------------------------------------------------
(* What a comment of the code says, and its behaviour contradicts.         *)

(* server.hpp:335 "remove the user from the room; when there is no user in *)
(* it, the room is destroyed": no player of a room that is destroyed is    *)
(* connected to it any more.                                               *)
DestroyedOnlyWhenEmpty ==
  [][\A r \in Rids : Live(r) /\ ~Live(r)' =>
       \A u \in Players(rooms[r]) : ~InRoom(u)']_gsVars

=============================================================================
