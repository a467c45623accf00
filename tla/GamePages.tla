----------------------------- MODULE GamePages ------------------------------
(***************************************************************************)
(* The game between two browsers: the page src/wwwroot/game_room.html, the *)
(* messages between it and the server, and the rooms that answer them.     *)
(*                                                                         *)
(* The server does not know whose turn it is.  Each page keeps a flag for  *)
(* that, and a board of its own, by the answers it gets; an answer goes to *)
(* the connections that are registered for the two players when the server *)
(* handles the request.  A connection delivers in order; what two of them  *)
(* carry is not ordered.  What a page sent before it closed still arrives. *)
(*                                                                         *)
(* The steps of the server are those of module RoomManager.  Of sessions,  *)
(* which are module GomokuServer's, there is what a page can tell: at any  *)
(* request the one of its cookie may have run out.  Chat changes nothing.  *)
(***************************************************************************)
EXTENDS RoomManager, Sequences

CONSTANTS Owner,   \* whose browser a connection belongs to; it serves one page
          Nobody,  \* no winner: 0 in the code
          NoCell   \* row -1, column -1

ASSUME PagesAssumption ==
  /\ Owner \in [Conns -> Uids]
  /\ Nobody \notin Uids
  /\ NoCell \notin Cells

VARIABLES page,      \* per connection: the variables of the page's script
          toServer,  \* what the page has sent and the server not handled
          toPage,    \* and the other way round
          up,        \* whether the server lives
          doubled,   \* history: players who have had two pages registering
          late,      \* history: pages that opened when the game was over
          unheard    \* history: pages a move of which found no session

netVars  == <<toServer, toPage>>
histVars == <<doubled, late, unheard>>
pageVars == <<page, netVars, up, histVars>>
gpVars   == <<rmVars, pageVars>>

(* A page before room_ready: is_me is undefined, which counts as false.    *)
NewPage == [st |-> "none", rid |-> NoRid, isMe |-> FALSE, marks |-> {}, shown |-> FALSE]

GpInit ==
  /\ RmInit
  /\ page = [c \in Conns |-> NewPage]
  /\ toServer = [c \in Conns |-> <<>>]
  /\ toPage = [c \in Conns |-> <<>>]
  /\ up = TRUE
  /\ doubled = {} /\ late = {} /\ unheard = {}

Ready(rid, white)        == [type |-> "ready", rid |-> rid, white |-> white]
Moved(uid, cell, winner) == [type |-> "moved", uid |-> uid, cell |-> cell,
                             winner |-> winner]
Refused                  == [type |-> "refused"]
NullMessage              == [type |-> "null"]

Put(rid, cell) == [type |-> "put", rid |-> rid, cell |-> cell]
CloseFrame     == [type |-> "close"]

-----------------------------------------------------------------------------
(* The page.                                                               *)

Loaded(c) == page[c].st \in {"open", "ready"}

(* In a browser, whether the server has let the page in or not.            *)
Displayed(c) == Loaded(c) \/ page[c].st = "mute"

(* chess.onclick: on one's turn, on a cell the page takes for free.        *)
Click(c, cell) ==
  /\ page[c].st = "ready" /\ page[c].isMe
  /\ cell \notin page[c].marks
  /\ toServer' = [toServer EXCEPT ![c] = Append(@, Put(page[c].rid, cell))]
  /\ page' = [page EXCEPT ![c].isMe = FALSE]
  /\ UNCHANGED <<rmVars, toPage, up, histVars>>

(* The page is left, or reloaded: its script ends.                         *)
Leave(c) ==
  /\ Displayed(c)
  /\ toServer' = [toServer EXCEPT ![c] = Append(@, CloseFrame)]
  /\ page' = [page EXCEPT ![c] = [NewPage EXCEPT !.st = "closed"]]
  /\ toPage' = [toPage EXCEPT ![c] = <<>>]
  /\ late' = late \ {c} /\ unheard' = unheard \ {c}
  /\ UNCHANGED <<rmVars, up, doubled>>

(* onmessage, by the kind of message.                                      *)
GetsReady(c, m) ==
  /\ m.type = "ready"
  /\ page' = [page EXCEPT ![c].st = "ready", ![c].rid = m.rid,
                          ![c].isMe = m.white, ![c].marks = {}]

(* Variants for the mutation runs: the other one's stones are not          *)
(* remembered; every answer gives the turn.                                *)
GetsOwnMoves(c, m) ==
  /\ m.type = "moved"
  /\ page' = [page EXCEPT
       ![c].isMe  = m.uid # Owner[c],
       ![c].marks = IF m.uid = Owner[c] THEN @ \cup ({m.cell} \ {NoCell}) ELSE @,
       ![c].shown = @ \/ m.winner # Nobody]

GetsMovedAndTurn(c, m) ==
  /\ m.type = "moved"
  /\ page' = [page EXCEPT ![c].isMe  = TRUE,
                          ![c].marks = @ \cup ({m.cell} \ {NoCell}),
                          ![c].shown = @ \/ m.winner # Nobody]

GetsMoved(c, m) ==
  /\ m.type = "moved"
  /\ page' = [page EXCEPT ![c].isMe  = m.uid # Owner[c],
                          ![c].marks = @ \cup ({m.cell} \ {NoCell}),
                          ![c].shown = @ \/ m.winner # Nobody]

(* A refusal is shown in an alert.  The null that is sent when somebody    *)
(* leaves a finished game makes the script throw.                          *)
GetsNothing(m) == m.type \in {"refused", "null"} /\ UNCHANGED page

PageTakes(c) ==
  /\ toPage[c] # <<>>
  /\ LET m == Head(toPage[c])
     IN  GetsReady(c, m) \/ GetsMoved(c, m) \/ GetsNothing(m)
  /\ toPage' = [toPage EXCEPT ![c] = Tail(@)]
  /\ UNCHANGED <<rmVars, toServer, up, histVars>>

-----------------------------------------------------------------------------
(* The server.                                                             *)

(* Connections of a page that has closed swallow what is sent.             *)
SendTo(cs, ms) ==
  toPage' = [c \in Conns |-> IF c \in cs /\ Loaded(c) THEN toPage[c] \o ms
                             ELSE toPage[c]]

(* Variant for the mutation runs: the answer goes to white only.           *)
BroadcastToWhite(room, registry, m) == SendTo({registry[room.white]}, <<m>>)

Broadcast(room, registry, m) ==
  SendTo({registry[u] : u \in Players(room)}, <<m>>)

(* WsOpenRoom.  A player who is there already is told so in a room_ready   *)
(* without ids, which to the script means that it is its turn, and then    *)
(* let in all the same; the registry keeps his first connection.  So is a  *)
(* player whose connection to the hall, which the browser closed before it *)
(* opened this one, is still listed there (module GomokuServer has it).    *)
Open(c) ==
  LET uid  == Owner[c]
      rid  == GetRoomByUid(uid)
      hello == Ready(rid, uid = rooms[rid].white)
  IN  /\ up
      /\ page[c].st = "none"
      /\ \A d \in Conns : Owner[d] = uid => ~Displayed(d)
      /\ OpenRoom(uid, c)
      /\ page' = [page EXCEPT ![c].st = "open"]
      /\ \E inHall \in BOOLEAN :
           toPage' = [toPage EXCEPT ![c] =
             IF inHall \/ InRoom(uid) THEN <<Ready(NoRid, TRUE), hello>> ELSE <<hello>>]
      /\ doubled' = IF InRoom(uid) THEN doubled \cup {uid} ELSE doubled
      /\ late' = IF rooms[rid].status = "GAME_OVER" THEN late \cup {c} ELSE late
      /\ UNCHANGED <<toServer, up, unheard>>

(* WsOpenRoom when no session has the sid of the cookie: the page, of      *)
(* which the server keeps nothing, is told about the hall, and waits.      *)
OpenUnheard(c) ==
  /\ up
  /\ page[c].st = "none"
  /\ \A d \in Conns : Owner[d] = Owner[c] => ~Displayed(d)
  /\ page' = [page EXCEPT ![c].st = "mute"]
  /\ UNCHANGED <<rmVars, netVars, up, histVars>>

(* Without a room the server dies.                                         *)
OpenRoomless(c) ==
  /\ up
  /\ page[c].st = "none"
  /\ GetRoomByUid(Owner[c]) = NoRid
  /\ up' = FALSE
  /\ UNCHANGED <<rmVars, page, netVars, histVars>>

(* WsMsgRoom, for the next message of this connection: without a room the  *)
(* server dies; a message about another room is refused; and the answer to *)
(* a move says who has won, if anybody has.                                *)
Dies(uid) ==
  /\ GetRoomByUid(uid) = NoRid
  /\ up' = FALSE
  /\ UNCHANGED <<rmVars, toPage>>

PutRefused(room, m, rid) ==
  /\ \/ m.rid # rid
     \/ m.rid = rid /\ WinnerByAbsence(room) = {} /\ room.board[m.cell] # NoChess
  /\ Broadcast(room, roomUser, Refused)
  /\ UNCHANGED rmVars

PutAnswered(uid, room, m, rid) ==
  /\ m.rid = rid
  /\ HandleRequest(uid, m.cell)
  /\ \/ \E winner \in WinnerByAbsence(room) :
          Broadcast(room, roomUser, Moved(uid, m.cell, winner))
     \/ /\ WinnerByAbsence(room) = {}
        /\ LET color == ColorOf(room, uid)
               wins  == win(rooms'[rid].board, m.cell, color)
           IN  Broadcast(room, roomUser,
                         Moved(uid, m.cell,
                               IF wins THEN OwnerOf(room, color) ELSE Nobody))

WsMsgRoom(c, m) ==
  LET uid == Owner[c]
      rid == GetRoomByUid(uid)
  IN  \/ Dies(uid)
      \/ /\ rid # NoRid
         /\ PutRefused(rooms[rid], m, rid) \/ PutAnswered(uid, rooms[rid], m, rid)
         /\ UNCHANGED up

(* Variant for the mutation runs: the one who stays is not told.           *)
WsCloseRoomSilently(c) == CloseRoom(Owner[c]) /\ UNCHANGED toPage

(* WsCloseRoom.  HandleExitRoom tells the one who stays that he has won,   *)
(* or nothing at all.                                                      *)
WsCloseRoom(c) ==
  LET uid  == Owner[c]
      rid  == GetRoomByUid(uid)
      room == rooms[rid]
  IN  /\ CloseRoom(uid)
      /\ \/ rid = NoRid /\ UNCHANGED toPage
         \/ /\ rid # NoRid
            /\ Broadcast(room, roomUser',
                 IF room.status = "GAME_START"
                 THEN Moved(uid, NoCell, Opponent(room, uid)) ELSE NullMessage)

(* Both of them when no session has the sid of the cookie.  The timeout    *)
(* runs during a game once the player has asked for /info, or another      *)
(* connection with his cookie has closed; and when its timer is changed a  *)
(* session is out of the map between two callbacks.  What the page is told *)
(* is, again, about the hall: it does nothing with it.                     *)
NoSession(c, m) ==
  /\ unheard' = IF m.type = "put" /\ Loaded(c) THEN unheard \cup {c} ELSE unheard
  /\ UNCHANGED <<rmVars, toPage, up>>

ServerTakes(c) ==
  /\ up
  /\ toServer[c] # <<>>
  /\ LET m == Head(toServer[c])
     IN  \/ m.type = "put" /\ WsMsgRoom(c, m) /\ UNCHANGED unheard
         \/ m.type = "close" /\ WsCloseRoom(c) /\ UNCHANGED <<up, unheard>>
         \/ NoSession(c, m)
  /\ toServer' = [toServer EXCEPT ![c] = Tail(@)]
  /\ UNCHANGED <<page, doubled, late>>

(* Two players are matched.                                                *)
Match ==
  /\ up
  /\ \E u, v \in Uids : u # v /\ CreateRoom(u, v)
  /\ UNCHANGED pageVars

GpNext ==
  \/ Match
  \/ \E c \in Conns : \/ Open(c) \/ OpenRoomless(c) \/ OpenUnheard(c) \/ Leave(c)
                      \/ PageTakes(c) \/ ServerTakes(c)
                      \/ \E cell \in Cells : Click(c, cell)

GpSpec == GpInit /\ [][GpNext]_gpVars

(* The browsers and the event loop do not stop while something has come.   *)
(* Nobody has to play.                                                     *)
FairGpSpec ==
  GpSpec /\ WF_gpVars(\E c \in Conns : PageTakes(c) \/ ServerTakes(c))

-----------------------------------------------------------------------------
Running(rid) == Live(rid) /\ rooms[rid].status = "GAME_START"

Messages(c) == {toPage[c][i] : i \in DOMAIN toPage[c]}
Moves(c)    == {m \in Messages(c) : m.type = "moved"}

(* The open page through which a player plays in this room.  (A page may   *)
(* survive its room, and its player be matched again.)                     *)
Plays(c, rid) ==
  /\ Loaded(c)
  /\ roomUser[Owner[c]] = c
  /\ GetRoomByUid(Owner[c]) = rid
  /\ page[c].rid = rid \/ \E m \in Messages(c) : m.type = "ready" /\ m.rid = rid

StonesOf(rid, color) == {cell \in Cells : rooms[rid].board[cell] = color}

(* While a game is going on the stones on the server's board alternate,    *)
(* although only the pages take turns: unless one of the players has had   *)
(* two pages.                                                              *)
TurnsAlternate ==
  \A r \in Rids :
    Running(r) /\ Players(rooms[r]) \cap doubled = {} =>
      Cardinality(StonesOf(r, WHITE_CHESS)) - Cardinality(StonesOf(r, BLACK_CHESS))
        \in {0, 1}

(* The board that a page of a running game keeps is the server's, but for  *)
(* the answers that are on their way.                                      *)
PagesAgree ==
  \A r \in Rids, c \in Conns :
    Running(r) /\ Plays(c, r) =>
      page[c].marks \cup {m.cell : m \in Moves(c)}
        = {cell \in Cells : rooms[r].board[cell] # NoChess}

(* Whoever has been at a game when it ended is told the result, by a move, *)
(* by an absence or by an exit, or will be by what is on its way.          *)
EndIsTold ==
  \A r \in Rids, c \in Conns :
    Live(r) /\ ~Running(r) /\ Plays(c, r) /\ c \notin late =>
      page[c].shown \/ \E m \in Moves(c) : m.winner # Nobody

(* The turn is not lost between the pages: while the server lives and two  *)
(* players sit at a running game it is, sooner or later, the turn of one   *)
(* of them.  The exception is a move that found no session: the page has   *)
(* given the turn away when it sends, nobody gets it, and both wait.       *)
BothPlay(r) ==
  /\ up /\ Running(r) /\ Players(rooms[r]) \cap doubled = {}
  /\ \A u \in Players(rooms[r]) :
       \E c \in Conns \ unheard : Owner[c] = u /\ Plays(c, r)

SomebodysTurn ==
  \A r \in Rids :
    BothPlay(r) ~> \/ ~BothPlay(r)
                   \/ \E c \in Conns : Plays(c, r) /\ page[c].isMe

=============================================================================
