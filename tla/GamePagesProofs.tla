-------------------------- MODULE GamePagesProofs ---------------------------
(***************************************************************************)
(* Proofs about module GamePages, for any board, players and pages.  In    *)
(* any number of rooms: pages and messages act on the rooms only by steps  *)
(* of RoomManager, so what is proved of those holds here, and whoever is   *)
(* there is told the result.  In one room: the pages show the board of the *)
(* server, and the two colours take turns.                                 *)
(***************************************************************************)
EXTENDS GamePages, RoomManagerProofs, SequenceTheorems, FiniteSetTheorems

Pages == [st : {"none", "mute", "open", "ready", "closed"}, rid : Rids \cup {NoRid},
          isMe : BOOLEAN, marks : SUBSET Cells, shown : BOOLEAN]

ToServer == [type : {"put"}, rid : Rids \cup {NoRid}, cell : Cells]
              \cup [type : {"close"}]

ToPage == [type : {"ready"}, rid : Rids \cup {NoRid}, white : BOOLEAN]
            \cup [type : {"moved"}, uid : Uids, cell : Cells \cup {NoCell},
                  winner : Uids \cup {Nobody}]
            \cup [type : {"refused", "null"}]

NetTypeOK ==
  /\ page \in [Conns -> Pages]
  /\ toServer \in [Conns -> Seq(ToServer)]
  /\ toPage \in [Conns -> Seq(ToPage)]
  /\ up \in BOOLEAN
  /\ doubled \subseteq Uids /\ late \subseteq Conns /\ unheard \subseteq Conns

-----------------------------------------------------------------------------
(* The messages.                                                           *)
LEMMA MessageTypes ==
  /\ \A rid \in Rids \cup {NoRid}, white \in BOOLEAN : Ready(rid, white) \in ToPage
  /\ \A uid \in Uids, cell \in Cells \cup {NoCell}, winner \in Uids \cup {Nobody} :
       Moved(uid, cell, winner) \in ToPage
  /\ Refused \in ToPage /\ NullMessage \in ToPage
  /\ \A rid \in Rids \cup {NoRid}, cell \in Cells : Put(rid, cell) \in ToServer
  /\ CloseFrame \in ToServer
  BY DEF Ready, Moved, Refused, NullMessage, Put, CloseFrame, ToPage, ToServer

(* A message sent is at the end of the queues of those pages that are      *)
(* loaded.                                                                 *)
LEMMA SentTypes ==
  ASSUME NetTypeOK, NEW cs, NEW m \in ToPage, SendTo(cs, <<m>>)
  PROVE  /\ toPage' \in [Conns -> Seq(ToPage)]
         /\ \A c \in Conns :
              /\ c \in cs /\ Loaded(c) => toPage'[c] = toPage[c] \o <<m>>
              /\ ~(c \in cs /\ Loaded(c)) => toPage'[c] = toPage[c]
<1>1. \A c \in Conns : toPage[c] \in Seq(ToPage) /\ toPage[c] \o <<m>> \in Seq(ToPage)
  BY DEF NetTypeOK
<1> QED
  BY <1>1 DEF SendTo

(* The head of a queue of messages, and the rest.                          *)
LEMMA ServerQueue ==
  ASSUME NetTypeOK, NEW c \in Conns, toServer[c] # <<>>
  PROVE  /\ Head(toServer[c]) \in ToServer
         /\ Tail(toServer[c]) \in Seq(ToServer)
<1>1. toServer[c] \in Seq(ToServer)
  BY DEF NetTypeOK
<1> QED
  BY <1>1, HeadTailProperties

(* What a page takes is a message, and leaves messages.                    *)
LEMMA PageQueue ==
  ASSUME NetTypeOK, NEW c \in Conns, toPage[c] # <<>>
  PROVE  /\ Head(toPage[c]) \in ToPage
         /\ Tail(toPage[c]) \in Seq(ToPage)
<1>1. toPage[c] \in Seq(ToPage)
  BY DEF NetTypeOK
<1> QED
  BY <1>1, HeadTailProperties

(* A page belongs to a player.                                             *)
LEMMA OwnerType == \A c \in Conns : Owner[c] \in Uids
  BY PagesAssumption

-----------------------------------------------------------------------------
(* What a message to the server does to rooms.                             *)
LEMMA ServerTakesRooms ==
  ASSUME NetTypeOK, NEW c \in Conns, ServerTakes(c)
  PROVE  RmNext \/ UNCHANGED rmVars
<1> DEFINE m == Head(toServer[c])
<1>1. m \in ToServer
  BY ServerQueue DEF ServerTakes
<1>2. CASE m.type = "put" /\ WsMsgRoom(c, m)
  <2>1. m.cell \in Cells
    BY <1>1, <1>2 DEF ToServer
  <2>2. \/ UNCHANGED rmVars
        \/ HandleRequest(Owner[c], m.cell)
    BY <1>2 DEF WsMsgRoom, Dies, PutRefused, PutAnswered
  <2> QED
    BY <2>1, <2>2, OwnerType DEF RmNext
<1>3. CASE WsCloseRoom(c)
  BY <1>3, OwnerType DEF WsCloseRoom, RmNext
<1> QED
  BY <1>2, <1>3 DEF ServerTakes, NoSession

(* A step of pages and server is one of the rooms, or none.                *)
LEMMA PagesStepRooms ==
  ASSUME NetTypeOK, [GpNext]_gpVars
  PROVE  [RmNext]_rmVars
<1>1. CASE Match
  BY <1>1 DEF Match, RmNext
<1>2. ASSUME NEW c \in Conns, Open(c)
      PROVE  RmNext
  BY <1>2, OwnerType DEF Open, RmNext
<1>3. ASSUME NEW c \in Conns, NEW cell \in Cells, Leave(c) \/ PageTakes(c) \/ Click(c, cell)
      PROVE  UNCHANGED rmVars
  BY <1>3 DEF Leave, PageTakes, Click
<1>4. ASSUME NEW c \in Conns, ServerTakes(c)
      PROVE  RmNext \/ UNCHANGED rmVars
  BY <1>4, ServerTakesRooms
<1>5. CASE UNCHANGED gpVars
  BY <1>5 DEF gpVars
<1>6. ASSUME NEW c \in Conns,
             Leave(c) \/ PageTakes(c) \/ OpenRoomless(c) \/ OpenUnheard(c)
      PROVE  UNCHANGED rmVars
  BY <1>6 DEF Leave, PageTakes, OpenRoomless, OpenUnheard
<1> QED
  BY <1>1, <1>2, <1>3, <1>4, <1>5, <1>6 DEF GpNext

-----------------------------------------------------------------------------
(* The types, action by action.                                            *)
LEMMA GpInitInv == GpInit => NetTypeOK /\ RmInv
<1> SUFFICES ASSUME GpInit
             PROVE  NetTypeOK /\ RmInv
  OBVIOUS
<1>1. NetTypeOK
  <2>1. NewPage \in Pages
    BY DEF NewPage, Pages
  <2>2. <<>> \in Seq(ToServer) /\ <<>> \in Seq(ToPage)
    OBVIOUS
  <2> QED
    BY <2>1, <2>2 DEF GpInit, NetTypeOK
<1> QED
  BY <1>1, RmInitInv DEF GpInit

(* The room WsOpenRoom, WsMsgRoom and WsCloseRoom find.                    *)
LEMMA FoundRid == RmInv => \A u \in Uids : GetRoomByUid(u) \in Rids \cup {NoRid}
  BY DEF RmInv, RmTypeOK, RoomTypeOK, GetRoomByUid

(* The people that a room speaks of are players.                           *)
LEMMA RoomPeople ==
  ASSUME NEW room \in Rooms(Uids), NEW uid
  PROVE  /\ Players(room) \subseteq Uids
         /\ Opponent(room, uid) \in Uids
         /\ WinnerByAbsence(room) \subseteq Uids
         /\ OwnerOf(room, ColorOf(room, uid)) \in Uids
  BY DEF Rooms, Players, Opponent, WinnerByAbsence, OwnerOf

(* The pages that the steps make are pages.                                *)
LEMMA PageTypes ==
  ASSUME NetTypeOK, NEW c \in Conns
  PROVE  /\ page[c] \in Pages
         /\ [page[c] EXCEPT !.st = "open"] \in Pages
         /\ [page[c] EXCEPT !.st = "mute"] \in Pages
         /\ [NewPage EXCEPT !.st = "closed"] \in Pages
         /\ [page[c] EXCEPT !.isMe = FALSE] \in Pages
  BY DEF NetTypeOK, NewPage, Pages

(* The types, step by step: a click, ...                                   *)
LEMMA ClickTypes ==
  ASSUME NetTypeOK, NEW c \in Conns, NEW cell \in Cells, Click(c, cell)
  PROVE  NetTypeOK'
<1>1. page' \in [Conns -> Pages]
  BY PageTypes DEF Click, NetTypeOK
<1>2. Put(page[c].rid, cell) \in ToServer
  BY MessageTypes, PageTypes DEF Pages
<1>3. Append(toServer[c], Put(page[c].rid, cell)) \in Seq(ToServer)
  BY <1>2 DEF NetTypeOK
<1> QED
  BY <1>1, <1>3 DEF Click, histVars, NetTypeOK

(* ... the end of a page, ...                                              *)
LEMMA LeaveTypes ==
  ASSUME NetTypeOK, NEW c \in Conns, Leave(c)
  PROVE  NetTypeOK'
<1>1. page' \in [Conns -> Pages]
  BY PageTypes DEF Leave, NetTypeOK
<1>2. Append(toServer[c], CloseFrame) \in Seq(ToServer) /\ <<>> \in Seq(ToPage)
  BY MessageTypes DEF NetTypeOK
<1> QED
  BY <1>1, <1>2 DEF Leave, NetTypeOK

(* What a message makes of a page.                                         *)
LEMMA GetsTypes ==
  ASSUME NetTypeOK, NEW c \in Conns, NEW m \in ToPage,
         GetsReady(c, m) \/ GetsMoved(c, m) \/ GetsNothing(m)
  PROVE  page' \in [Conns -> Pages]
<1>1. page[c] \in Pages
  BY PageTypes
<1>2. CASE GetsReady(c, m)
  <2>1. m.rid \in Rids \cup {NoRid} /\ m.white \in BOOLEAN
    BY <1>2 DEF GetsReady, ToPage
  <2>2. [page[c] EXCEPT !.st = "ready", !.rid = m.rid, !.isMe = m.white, !.marks = {}]
          \in Pages
    BY <1>1, <2>1 DEF Pages
  <2> QED
    BY <1>2, <2>2 DEF GetsReady, NetTypeOK
<1>3. CASE GetsMoved(c, m)
  <2>1. m.cell \in Cells \cup {NoCell}
    BY <1>3 DEF GetsMoved, ToPage
  <2>2. page[c].marks \cup ({m.cell} \ {NoCell}) \in SUBSET Cells
    BY <1>1, <2>1 DEF Pages
  <2> QED
    BY <1>1, <1>3, <2>2 DEF GetsMoved, NetTypeOK, Pages
<1> QED
  BY <1>2, <1>3 DEF GetsNothing, NetTypeOK

(* ... a message that a page takes, ...                                    *)
LEMMA PageTakesTypes ==
  ASSUME NetTypeOK, NEW c \in Conns, PageTakes(c)
  PROVE  NetTypeOK'
<1>1. page' \in [Conns -> Pages]
  BY PageQueue, GetsTypes DEF PageTakes
<1> QED
  BY <1>1, PageQueue DEF PageTakes, histVars, NetTypeOK

(* ... a new page, ...                                                     *)
LEMMA OpenTypes ==
  ASSUME NetTypeOK, RmInv, NEW c \in Conns, Open(c)
  PROVE  NetTypeOK'
<1> DEFINE uid == Owner[c]
           rid == GetRoomByUid(uid)
           hello == Ready(rid, uid = rooms[rid].white)
<1>1. hello \in ToPage /\ Ready(NoRid, TRUE) \in ToPage
  BY FoundRid, OwnerType, MessageTypes
<1>2. page' \in [Conns -> Pages]
  BY PageTypes DEF Open, NetTypeOK
<1>3. toPage' \in [Conns -> Seq(ToPage)]
  <2>1. \A a, b \in ToPage : <<a, b>> \in Seq(ToPage) /\ <<b>> \in Seq(ToPage)
    OBVIOUS
  <2>2. \/ toPage' = [toPage EXCEPT ![c] = <<Ready(NoRid, TRUE), hello>>]
        \/ toPage' = [toPage EXCEPT ![c] = <<hello>>]
    BY DEF Open
  <2> HIDE DEF hello
  <2> QED
    BY <1>1, <2>1, <2>2 DEF NetTypeOK
<1>4. doubled' \subseteq Uids /\ late' \subseteq Conns
  BY OwnerType DEF Open, NetTypeOK
<1> QED
  BY <1>2, <1>3, <1>4 DEF Open, NetTypeOK

(* ... one that the server does not hear of, ...                           *)
LEMMA OpenUnheardTypes ==
  ASSUME NetTypeOK, NEW c \in Conns, OpenUnheard(c)
  PROVE  NetTypeOK'
<1>1. page' \in [Conns -> Pages]
  BY PageTypes DEF OpenUnheard, NetTypeOK
<1> QED
  BY <1>1 DEF OpenUnheard, netVars, histVars, NetTypeOK

(* ... an answer of the server, ...                                        *)
LEMMA BroadcastTypes ==
  ASSUME NetTypeOK, NEW room, NEW registry, NEW m \in ToPage,
         Broadcast(room, registry, m)
  PROVE  toPage' \in [Conns -> Seq(ToPage)]
  BY SentTypes DEF Broadcast

(* ... and what the server does before it.                                 *)
LEMMA ServerTakesTypes ==
  ASSUME NetTypeOK, RmInv, NEW c \in Conns, ServerTakes(c)
  PROVE  NetTypeOK'
<1> DEFINE m    == Head(toServer[c])
           uid  == Owner[c]
           rid  == GetRoomByUid(uid)
           room == rooms[rid]
<1>1. m \in ToServer /\ uid \in Uids
  BY ServerQueue, OwnerType DEF ServerTakes
<1>2. rid # NoRid => room \in Rooms(Uids)
  BY <1>1, FoundRoom
<1>3. UNCHANGED toPage => toPage' \in [Conns -> Seq(ToPage)]
  BY DEF NetTypeOK
<1>4. ASSUME m.type = "put", WsMsgRoom(c, m)
      PROVE  toPage' \in [Conns -> Seq(ToPage)] /\ up' \in BOOLEAN
  <2>1. m.cell \in Cells
    BY <1>1, <1>4 DEF ToServer
  <2>2. ASSUME Dies(uid)
        PROVE  toPage' \in [Conns -> Seq(ToPage)]
    BY <1>3, <2>2 DEF Dies
  <2>3. ASSUME PutRefused(room, m, rid)
        PROVE  toPage' \in [Conns -> Seq(ToPage)]
    BY <2>3, MessageTypes, BroadcastTypes DEF PutRefused
  <2>4. ASSUME rid # NoRid, PutAnswered(uid, room, m, rid)
        PROVE  toPage' \in [Conns -> Seq(ToPage)]
    <3>1. PICK winner \in Uids \cup {Nobody} :
            Broadcast(room, roomUser, Moved(uid, m.cell, winner))
      BY <1>2, <2>4, RoomPeople DEF PutAnswered
    <3>2. Moved(uid, m.cell, winner) \in ToPage
      BY <1>1, <2>1, MessageTypes
    <3> QED
      BY <3>1, <3>2, BroadcastTypes
  <2>5. up' \in BOOLEAN
    BY <1>4 DEF WsMsgRoom, Dies, NetTypeOK
  <2> QED
    BY <1>4, <2>2, <2>3, <2>4, <2>5 DEF WsMsgRoom
<1>5. ASSUME WsCloseRoom(c)
      PROVE  toPage' \in [Conns -> Seq(ToPage)]
  <2> DEFINE answer == IF room.status = "GAME_START"
                       THEN Moved(uid, NoCell, Opponent(room, uid)) ELSE NullMessage
  <2>1. ASSUME rid # NoRid, Broadcast(room, roomUser', answer)
        PROVE  toPage' \in [Conns -> Seq(ToPage)]
    <3>1. answer \in ToPage
      BY <1>1, <1>2, <2>1, RoomPeople, MessageTypes
    <3> QED
      BY <2>1, <3>1, BroadcastTypes
  <2> QED
    BY <1>3, <1>5, <2>1 DEF WsCloseRoom
<1>6. toPage' \in [Conns -> Seq(ToPage)] /\ up' \in BOOLEAN
  BY <1>4, <1>5 DEF ServerTakes, NoSession, NetTypeOK
<1>7. unheard' \subseteq Conns
  BY DEF ServerTakes, NoSession, NetTypeOK
<1> QED
  BY <1>6, <1>7, ServerQueue DEF ServerTakes, NetTypeOK

(* Types and rooms are kept by every step.                                 *)
LEMMA GpNextInv == NetTypeOK /\ RmInv /\ [GpNext]_gpVars => NetTypeOK' /\ RmInv'
<1> SUFFICES ASSUME NetTypeOK, RmInv, [GpNext]_gpVars
             PROVE  NetTypeOK' /\ RmInv'
  OBVIOUS
<1>1. RmInv'
  BY PagesStepRooms, RmNextInv
<1>2. CASE Match \/ UNCHANGED gpVars
  BY <1>1, <1>2 DEF Match, gpVars, pageVars, netVars, histVars, NetTypeOK
<1>3. ASSUME NEW c \in Conns,
             \/ Open(c) \/ OpenUnheard(c) \/ Leave(c) \/ PageTakes(c) \/ ServerTakes(c)
             \/ \E cell \in Cells : Click(c, cell)
      PROVE  NetTypeOK'
  BY <1>3, ClickTypes, LeaveTypes, PageTakesTypes, OpenTypes, OpenUnheardTypes, ServerTakesTypes
<1>5. ASSUME NEW c \in Conns, OpenRoomless(c)
      PROVE  NetTypeOK'
  BY <1>5 DEF OpenRoomless, netVars, histVars, NetTypeOK
<1>4. [GpNext]_gpVars =>
        \/ Match \/ UNCHANGED gpVars
        \/ \E c \in Conns : \/ Open(c) \/ Leave(c) \/ PageTakes(c) \/ ServerTakes(c)
                            \/ \E cell \in Cells : Click(c, cell)
                            \/ OpenRoomless(c) \/ OpenUnheard(c)
  BY DEF GpNext
<1> QED
  BY <1>1, <1>2, <1>3, <1>4, <1>5

(* The types of pages and messages, and the invariant of the rooms.        *)
THEOREM PagesInvariant == GpSpec => [](NetTypeOK /\ RmInv)
  BY GpInitInv, GpNextInv, PTL DEF GpSpec

(* Whatever two browsers click, close and reload, and however late it      *)
(* arrives: the rooms of the server only take steps of module RoomManager. *)
THEOREM PagesImplementRooms == GpSpec => RmSpec
<1>1. GpInit => RmInit
  BY DEF GpInit
<1> QED
  BY <1>1, PagesInvariant, PagesStepRooms, PTL DEF GpSpec, RmSpec

-----------------------------------------------------------------------------
(* Queues, and what the steps of the server do to rooms and pages.         *)
Elements(s) == {s[i] : i \in DOMAIN s}

(* Taking the head of a queue takes one message, ...                       *)
LEMMA TailElements ==
  ASSUME NEW S, NEW s \in Seq(S), s # <<>>
  PROVE  Elements(s) = {Head(s)} \cup Elements(Tail(s))
<1>1. /\ Tail(s) \in Seq(S) /\ Len(s) \in Nat \ {0}
      /\ Len(Tail(s)) = Len(s) - 1 /\ Head(s) = s[1]
      /\ \A i \in 1 .. Len(s) - 1 : Tail(s)[i] = s[i + 1]
  BY HeadTailProperties, EmptySeq
<1>2. ASSUME NEW i \in 1 .. Len(s)
      PROVE  s[i] = Head(s) \/ \E j \in 1 .. Len(Tail(s)) : s[i] = Tail(s)[j]
  <2>1. CASE i # 1
    <3>1. i - 1 \in 1 .. Len(Tail(s)) /\ s[i] = Tail(s)[i - 1]
      BY <1>1, <2>1
    <3> QED
      BY <3>1
  <2> QED
    BY <1>1, <2>1
<1>3. ASSUME NEW j \in 1 .. Len(Tail(s))
      PROVE  \E i \in 1 .. Len(s) : Tail(s)[j] = s[i]
  BY <1>1
<1>4. \E i \in 1 .. Len(s) : Head(s) = s[i]
  BY <1>1
<1>5. DOMAIN s = 1 .. Len(s) /\ DOMAIN Tail(s) = 1 .. Len(Tail(s))
  BY <1>1
<1>6. /\ \A x : x \in Elements(s) <=> \E i \in 1 .. Len(s) : x = s[i]
      /\ \A x : x \in Elements(Tail(s)) <=> \E i \in 1 .. Len(Tail(s)) : x = Tail(s)[i]
  BY <1>5 DEF Elements
<1>7. ASSUME NEW x
      PROVE  x \in Elements(s) <=> x = Head(s) \/ x \in Elements(Tail(s))
  BY <1>2, <1>3, <1>4, <1>6
<1> QED
  BY <1>7

(* ... moves the others up by one place, ...                               *)
LEMMA TailIndices ==
  ASSUME NEW S, NEW s \in Seq(S), s # <<>>
  PROVE  \A i \in DOMAIN Tail(s) : /\ i \in Nat \ {0} /\ i + 1 \in DOMAIN s
                                   /\ Tail(s)[i] = s[i + 1]
<1>1. /\ Len(s) \in Nat \ {0} /\ DOMAIN s = 1 .. Len(s)
      /\ DOMAIN Tail(s) = 1 .. Len(s) - 1
      /\ \A i \in 1 .. Len(s) - 1 : Tail(s)[i] = s[i + 1]
  BY HeadTailProperties, EmptySeq
<1> QED
  BY <1>1

(* One message, or two.                                                     *)
LEMMA Greetings ==
  \A a, b : /\ DOMAIN <<a>> = {1} /\ <<a>>[1] = a
            /\ DOMAIN <<a, b>> = {1, 2} /\ <<a, b>>[1] = a /\ <<a, b>>[2] = b
  OBVIOUS

(* ... and appending one adds it.                                          *)
LEMMA AppendedElements ==
  ASSUME NEW S, NEW s \in Seq(S), NEW m \in S
  PROVE  Elements(s \o <<m>>) = Elements(s) \cup {m}
<1>1. /\ s \o <<m>> \in Seq(S) /\ Len(s) \in Nat
      /\ Len(s \o <<m>>) = Len(s) + 1
      /\ (s \o <<m>>)[Len(s) + 1] = m
      /\ \A i \in 1 .. Len(s) : (s \o <<m>>)[i] = s[i]
  OBVIOUS
<1>2. DOMAIN s = 1 .. Len(s) /\ DOMAIN (s \o <<m>>) = 1 .. Len(s) + 1
  BY <1>1
<1>3. 1 .. Len(s) + 1 = (1 .. Len(s)) \cup {Len(s) + 1}
  BY <1>1
<1> QED
  BY <1>1, <1>2, <1>3 DEF Elements

(* The messages on the way to a page are the elements of its queue.        *)
LEMMA MessagesAre == \A c \in Conns : Messages(c) = Elements(toPage[c])
  BY DEF Messages, Elements

(* What a broadcast adds to the messages of a page.                        *)
LEMMA BroadcastMessages ==
  ASSUME NetTypeOK, NEW room, NEW registry, NEW m \in ToPage,
         Broadcast(room, registry, m), NEW c \in Conns
  PROVE  /\ Messages(c) \subseteq Messages(c)'
         /\ Messages(c)' \subseteq Messages(c) \cup {m}
         /\ Loaded(c) /\ (\E u \in Players(room) : registry[u] = c) =>
              Messages(c)' = Messages(c) \cup {m}
<1> DEFINE cs == {registry[u] : u \in Players(room)}
<1>1. SendTo(cs, <<m>>)
  BY DEF Broadcast
<1>2. /\ c \in cs /\ Loaded(c) => toPage'[c] = toPage[c] \o <<m>>
      /\ ~(c \in cs /\ Loaded(c)) => toPage'[c] = toPage[c]
  BY <1>1, SentTypes
<1>3. toPage[c] \in Seq(ToPage)
  BY DEF NetTypeOK
<1>4. Messages(c)' = Elements(toPage'[c]) /\ Messages(c) = Elements(toPage[c])
  BY DEF Messages, Elements
<1>5. Elements(toPage[c] \o <<m>>) = Elements(toPage[c]) \cup {m}
  BY <1>3, AppendedElements
<1> QED
  BY <1>2, <1>4, <1>5

(* A move: answered in the room it is for, or without any effect.          *)
Placed(rid, uid, cell) ==
  [rooms[rid] EXCEPT !.board[cell] = ColorOf(rooms[rid], uid)]

PutChanges(uid, cell) ==
  LET rid == GetRoomByUid(uid)
  IN  /\ rid \in Rids /\ Live(rid)
      /\ UNCHANGED <<onlineVars, nextRid, users>>
      /\ rooms' = [rooms EXCEPT ![rid] = rooms'[rid]]
      /\ rooms'[rid] \in Rooms(Uids)
      /\ Players(rooms'[rid]) = Players(rooms[rid])
      /\ \E winner \in Uids \cup {Nobody} :
           /\ Broadcast(rooms[rid], roomUser, Moved(uid, cell, winner))
           /\ \/ rooms'[rid].status = "GAME_OVER" /\ winner \in Uids
              \/ /\ WinnerByAbsence(rooms[rid]) = {}
                 /\ rooms[rid].board[cell] = NoChess
                 /\ rooms'[rid] = Placed(rid, uid, cell)

PutChangesNothing ==
  /\ UNCHANGED rmVars
  /\ \/ UNCHANGED toPage
     \/ \E room \in Rooms(Uids) : Broadcast(room, roomUser, Refused)

(* A move is placed and answered, or refused: nothing else.                *)
LEMMA PutEffect ==
  ASSUME NetTypeOK, RmInv, NEW c \in Conns, NEW m \in ToServer, m.type = "put",
         WsMsgRoom(c, m)
  PROVE  PutChanges(Owner[c], m.cell) \/ PutChangesNothing
<1> DEFINE uid  == Owner[c]
           rid  == GetRoomByUid(uid)
           room == rooms[rid]
<1>1. uid \in Uids /\ m.cell \in Cells
  BY OwnerType DEF ToServer
<1>2. CASE Dies(uid)
  BY <1>2 DEF Dies, PutChangesNothing
<1>3. CASE rid # NoRid
  <2>1. rid \in Rids /\ Live(rid) /\ room \in Rooms(Uids) /\ uid \in Players(room)
    BY <1>1, <1>3, FoundRoom
  <2>2. CASE PutRefused(room, m, rid)
    BY <2>1, <2>2 DEF PutRefused, PutChangesNothing
  <2>3. CASE PutAnswered(uid, room, m, rid)
    <3>1. /\ UNCHANGED <<onlineVars, nextRid, users>>
          /\ HandleRequestAbsent(rid) \/ HandleRequestPut(rid, uid, m.cell)
      BY <2>3 DEF PutAnswered, HandleRequest
    <3>2. rooms \in [Rids -> Rooms(Uids) \cup {NoRoom}]
      BY DEF RmInv, RmTypeOK, RoomTypeOK
    <3>3. CASE HandleRequestAbsent(rid)
      <4>1. /\ rooms' = [rooms EXCEPT ![rid] = Over(@)]
            /\ WinnerByAbsence(room) # {}
        BY <3>3 DEF HandleRequestAbsent
      <4>2. PICK winner \in WinnerByAbsence(room) :
              Broadcast(room, roomUser, Moved(uid, m.cell, winner))
        BY <2>3, <4>1 DEF PutAnswered
      <4>3. winner \in Uids
        BY <2>1, <4>2, RoomPeople
      <4>4. /\ Over(room) \in Rooms(Uids) /\ Over(room).status = "GAME_OVER"
            /\ Players(Over(room)) = Players(room)
        BY <2>1 DEF Over, Rooms, Players
      <4>5. rooms'[rid] = Over(room)
        BY <2>1, <3>2, <4>1
      <4>6. rooms' = [rooms EXCEPT ![rid] = rooms'[rid]]
        BY <4>1, <4>5
      <4> QED
        BY <2>1, <3>1, <4>2, <4>3, <4>4, <4>5, <4>6 DEF PutChanges
    <3>4. CASE HandleRequestPut(rid, uid, m.cell)
      <4> DEFINE color  == ColorOf(room, uid)
                 placed == Placed(rid, uid, m.cell)
                 winner == IF win(rooms'[rid].board, m.cell, color)
                           THEN OwnerOf(room, color) ELSE Nobody
      <4>1. /\ WinnerByAbsence(room) = {}
            /\ room.board[m.cell] = NoChess
            /\ \/ win(placed.board, m.cell, color) /\ rooms' = [rooms EXCEPT ![rid] = Over(placed)]
               \/ ~win(placed.board, m.cell, color) /\ rooms' = [rooms EXCEPT ![rid] = placed]
        BY <3>4 DEF HandleRequestPut, Placed
      <4>2. placed \in Rooms(Uids) /\ Players(placed) = Players(room)
        BY <1>1, <2>1 DEF Placed, Rooms, ColorOf, Stones, Players
      <4>3. /\ Over(placed) \in Rooms(Uids) /\ Over(placed).status = "GAME_OVER"
            /\ Players(Over(placed)) = Players(room)
            /\ Over(placed).board = placed.board
        BY <4>2 DEF Over, Rooms, Players
      <4>4. Broadcast(room, roomUser, Moved(uid, m.cell, winner))
        BY <2>3, <4>1 DEF PutAnswered
      <4>5. OwnerOf(room, color) \in Uids
        BY <2>1, RoomPeople
      <4>6. winner \in Uids \cup {Nobody}
        BY <4>5
      <4> HIDE DEF placed
      <4>7. CASE win(placed.board, m.cell, color) /\ rooms' = [rooms EXCEPT ![rid] = Over(placed)]
        <5>1. rooms'[rid] = Over(placed)
          BY <2>1, <3>2, <4>7
        <5>2. winner \in Uids
          BY <4>3, <4>5, <4>7, <5>1
        <5>3. rooms' = [rooms EXCEPT ![rid] = rooms'[rid]]
          BY <4>7, <5>1
        <5> HIDE DEF winner
        <5> QED
          BY <2>1, <3>1, <4>3, <4>4, <5>1, <5>2, <5>3 DEF PutChanges
      <4>8. CASE ~win(placed.board, m.cell, color) /\ rooms' = [rooms EXCEPT ![rid] = placed]
        <5>1. rooms'[rid] = placed
          BY <2>1, <3>2, <4>8
        <5>2. rooms' = [rooms EXCEPT ![rid] = rooms'[rid]]
          BY <4>8, <5>1
        <5> HIDE DEF winner
        <5> QED
          BY <2>1, <3>1, <4>1, <4>2, <4>4, <4>6, <5>1, <5>2 DEF PutChanges, placed
      <4> QED
        BY <4>1, <4>7, <4>8
    <3> QED
      BY <3>1, <3>3, <3>4
  <2> QED
    BY <1>3, <2>2, <2>3 DEF WsMsgRoom, Dies
<1> QED
  BY <1>2, <1>3 DEF WsMsgRoom

(* A move that names no room changes nothing.                              *)
LEMMA PutNowhere ==
  ASSUME NEW c \in Conns, NEW m \in ToServer, m.type = "put", m.rid = NoRid,
         RmInv, WsMsgRoom(c, m)
  PROVE  PutChangesNothing
<1> DEFINE rid == GetRoomByUid(Owner[c])
<1>1. CASE Dies(Owner[c])
  BY <1>1 DEF Dies, PutChangesNothing
<1>2. CASE rid # NoRid /\ PutRefused(rooms[rid], m, rid)
  BY <1>2, OwnerType, FoundRoom DEF PutRefused, PutChangesNothing
<1> QED
  BY <1>1, <1>2 DEF WsMsgRoom, PutAnswered

(* The end of a connection.                                                *)
LEMMA CloseEffect ==
  ASSUME NetTypeOK, RmInv, NEW c \in Conns, WsCloseRoom(c)
  PROVE  LET uid  == Owner[c]
             rid  == GetRoomByUid(uid)
             room == rooms[rid]
         IN  /\ roomUser' = [roomUser EXCEPT ![uid] = NoConn]
             /\ nextRid' = nextRid
             /\ \/ rid = NoRid /\ UNCHANGED <<rooms, users, toPage>>
                \/ /\ rid \in Rids /\ Live(rid) /\ room \in Rooms(Uids)
                   /\ uid \in Players(room)
                   /\ \/ DestroyRoom(rid)
                      \/ rooms' = [rooms EXCEPT ![rid] = Exited(@)] /\ UNCHANGED users
                   /\ \E m \in ToPage :
                        /\ Broadcast(room, roomUser', m)
                        /\ IF room.status = "GAME_START"
                           THEN m.type = "moved" /\ m.winner # Nobody
                           ELSE m.type = "null"
<1> DEFINE uid    == Owner[c]
           rid    == GetRoomByUid(uid)
           room   == rooms[rid]
           answer == IF room.status = "GAME_START"
                     THEN Moved(uid, NoCell, Opponent(room, uid)) ELSE NullMessage
<1>1. uid \in Uids
  BY OwnerType
<1>2. roomUser' = [roomUser EXCEPT ![uid] = NoConn] /\ nextRid' = nextRid
  BY DEF WsCloseRoom, CloseRoom, ExitRoom, Erased, RemoveUser, roomVars
<1>3. CASE rid = NoRid
  BY <1>2, <1>3 DEF WsCloseRoom, CloseRoom, RemoveUser, roomVars
<1>4. CASE rid # NoRid
  <2>1. rid \in Rids /\ Live(rid) /\ room \in Rooms(Uids) /\ uid \in Players(room)
    BY <1>1, <1>4, FoundRoom
  <2>2. \/ DestroyRoom(rid)
        \/ rooms' = [rooms EXCEPT ![rid] = Exited(@)] /\ UNCHANGED users
    BY <1>4 DEF WsCloseRoom, CloseRoom, RemoveUser
  <2>3. Broadcast(room, roomUser', answer)
    BY <1>4 DEF WsCloseRoom
  <2>4. Opponent(room, uid) \in Uids
    BY <2>1, RoomPeople
  <2>5. answer \in ToPage
    BY <1>1, <2>4, MessageTypes
  <2>6. IF room.status = "GAME_START"
        THEN answer.type = "moved" /\ answer.winner # Nobody
        ELSE answer.type = "null"
    BY <2>4, PagesAssumption DEF Moved, NullMessage
  <2> HIDE DEF answer
  <2> QED
    BY <1>2, <2>1, <2>2, <2>3, <2>5, <2>6
<1> QED
  BY <1>3, <1>4

(* A page that has been left, or let wait, is not loaded.                  *)
LEMMA ShutOut ==
  ASSUME NetTypeOK, NEW c \in Conns, Leave(c) \/ OpenUnheard(c)
  PROVE  ~Loaded(c)'
<1>1. page \in [Conns -> Pages]
  BY DEF NetTypeOK
<1>2. CASE Leave(c)
  BY <1>1, <1>2 DEF Leave, NewPage, Loaded
<1>3. CASE OpenUnheard(c)
  BY <1>1, <1>3 DEF OpenUnheard, Pages, Loaded
<1> QED
  BY <1>2, <1>3

(* A page that is not there has nothing to take.                           *)
Swallowed == \A c \in Conns : ~Loaded(c) => toPage[c] = <<>>

(* An answer goes to loaded pages only.                                    *)
LEMMA BroadcastSwallowed ==
  ASSUME NetTypeOK, Swallowed, NEW room, NEW registry, NEW m \in ToPage,
         Broadcast(room, registry, m), UNCHANGED page
  PROVE  Swallowed'
<1>1. SendTo({registry[u] : u \in Players(room)}, <<m>>)
  BY DEF Broadcast
<1>2. \A c \in Conns : ~Loaded(c) => toPage'[c] = toPage[c]
  BY <1>1, SentTypes
<1> QED
  BY <1>2 DEF Swallowed, Loaded

(* No step leaves a message for a page that is not there.                  *)
LEMMA SwallowedNext ==
  ASSUME NetTypeOK, RmInv, Swallowed, [GpNext]_gpVars
  PROVE  Swallowed'
<1>1. CASE Match \/ UNCHANGED gpVars
  BY <1>1 DEF Match, gpVars, pageVars, netVars, histVars, Swallowed, Loaded
<1>2. ASSUME NEW c \in Conns, Open(c)
      PROVE  Swallowed'
  BY <1>2 DEF Open, Swallowed, Loaded, NetTypeOK, Pages
<1>3. ASSUME NEW c \in Conns, NEW cell, Click(c, cell)
      PROVE  Swallowed'
  BY <1>3 DEF Click, Swallowed, Loaded, NetTypeOK, Pages
<1>4. ASSUME NEW c \in Conns, Leave(c)
      PROVE  Swallowed'
  BY <1>4 DEF Leave, Swallowed, Loaded, NetTypeOK, Pages
<1>5. ASSUME NEW c \in Conns, PageTakes(c)
      PROVE  Swallowed'
  <2>1. Loaded(c)
    BY <1>5 DEF PageTakes, Swallowed
  <2>2. page'[c].st \in {"open", "ready"}
    BY <1>5, <2>1 DEF PageTakes, GetsReady, GetsMoved, GetsNothing, NetTypeOK, Pages, Loaded
  <2>3. \A d \in Conns \ {c} : page'[d] = page[d] /\ toPage'[d] = toPage[d]
    BY <1>5 DEF PageTakes, GetsReady, GetsMoved, GetsNothing, NetTypeOK
  <2> QED
    BY <2>2, <2>3 DEF Swallowed, Loaded
<1>6. ASSUME NEW c \in Conns, ServerTakes(c)
      PROVE  Swallowed'
  <2> DEFINE m == Head(toServer[c])
  <2>1. m \in ToServer /\ UNCHANGED page
    BY <1>6, ServerQueue DEF ServerTakes
  <2>2. CASE UNCHANGED toPage
    BY <2>1, <2>2 DEF Swallowed, Loaded
  <2>3. CASE \E room, registry, a : a \in ToPage /\ Broadcast(room, registry, a)
    BY <2>1, <2>3, BroadcastSwallowed
  <2>4. CASE m.type = "put" /\ WsMsgRoom(c, m)
    <3>1. m.cell \in Cells
      BY <2>1, <2>4 DEF ToServer
    <3>2. \A winner \in Uids \cup {Nobody} : Moved(Owner[c], m.cell, winner) \in ToPage
      BY <3>1, OwnerType, MessageTypes
    <3> QED
      BY <2>1, <2>2, <2>3, <2>4, <3>2, PutEffect, MessageTypes
      DEF PutChanges, PutChangesNothing
  <2>5. CASE WsCloseRoom(c)
    BY <2>2, <2>3, <2>5, CloseEffect
  <2> QED
    BY <1>6, <2>2, <2>4, <2>5 DEF ServerTakes, NoSession
<1>7. ASSUME NEW c \in Conns, OpenRoomless(c) \/ OpenUnheard(c)
      PROVE  Swallowed'
  BY <1>7 DEF OpenRoomless, OpenUnheard, netVars, Swallowed, Loaded, NetTypeOK, Pages
<1>8. [GpNext]_gpVars =>
        \/ Match \/ UNCHANGED gpVars
        \/ \E c \in Conns : \/ Open(c) \/ Leave(c) \/ PageTakes(c) \/ ServerTakes(c)
                            \/ \E cell \in Cells : Click(c, cell)
                            \/ OpenRoomless(c) \/ OpenUnheard(c)
  BY DEF GpNext
<1> QED
  BY <1>1, <1>2, <1>3, <1>4, <1>5, <1>6, <1>7, <1>8

-----------------------------------------------------------------------------
(* The end of a game is told, in any number of rooms.                      *)
Ended(r, c) == Live(r) /\ ~Running(r) /\ Plays(c, r) /\ c \notin late
Told(c)     == page[c].shown \/ \E m \in Moves(c) : m.winner # Nobody

(* The property, said for each room and page.                              *)
LEMMA EndIsToldAs == EndIsTold <=> \A r \in Rids, c \in Conns : Ended(r, c) => Told(c)
  BY DEF EndIsTold, Ended, Told

(* A page that stays as it is, with more messages, none of them room_ready.*)
LEMMA PageStays ==
  ASSUME NetTypeOK, NEW c \in Conns, page'[c] = page[c],
         Messages(c) \subseteq Messages(c)',
         \A m \in Messages(c)' \ Messages(c) : m.type # "ready"
  PROVE  /\ Told(c) => Told(c)'
         /\ \A r : /\ Plays(c, r)' => /\ Loaded(c)
                                      /\ roomUser'[Owner[c]] = c
                                      /\ GetRoomByUid(Owner[c])' = r
                   /\ Plays(c, r)' /\ roomUser[Owner[c]] = c
                        /\ GetRoomByUid(Owner[c]) = r => Plays(c, r)
  BY DEF Told, Moves, Plays, Loaded

(* A page that takes a message.                                            *)
LEMMA PageTakesOne ==
  ASSUME NetTypeOK, Swallowed, NEW c \in Conns, PageTakes(c)
  PROVE  /\ Told(c) => Told(c)'
         /\ \A r : Plays(c, r)' => Plays(c, r)
         /\ \A d \in Conns \ {c} : page'[d] = page[d] /\ toPage'[d] = toPage[d]
<1> DEFINE m == Head(toPage[c])
<1>1. /\ m \in ToPage
      /\ toPage[c] \in Seq(ToPage)
      /\ toPage[c] # <<>>
      /\ toPage' = [toPage EXCEPT ![c] = Tail(@)]
      /\ GetsReady(c, m) \/ GetsMoved(c, m) \/ GetsNothing(m)
      /\ UNCHANGED rmVars
  BY PageQueue DEF PageTakes, NetTypeOK
<1>2. Messages(c)' = Elements(Tail(toPage[c]))
  BY <1>1 DEF Messages, Elements, NetTypeOK
<1>3. Messages(c) = {m} \cup Messages(c)'
  BY <1>1, <1>2, MessagesAre, TailElements
<1>4. Loaded(c)
  BY <1>1 DEF Swallowed
<1>5. roomUser' = roomUser /\ \A u : GetRoomByUid(u)' = GetRoomByUid(u)
  BY <1>1 DEF GetRoomByUid, rmVars, roomVars, onlineVars, Live
<1>6. /\ page[c].shown => page'[c].shown
      /\ m.type = "moved" /\ m.winner # Nobody => page'[c].shown
      /\ \/ page'[c].rid = page[c].rid
         \/ m.type = "ready" /\ page'[c].rid = m.rid
  <2>1. page[c] \in Pages /\ page \in [Conns -> Pages]
    BY DEF NetTypeOK
  <2>2. CASE GetsReady(c, m)
    <3>1. /\ m.type = "ready" /\ page'[c].rid = m.rid
          /\ page[c].shown => page'[c].shown
      BY <2>1, <2>2 DEF GetsReady, Pages
    <3> QED
      BY <3>1
  <2>3. CASE GetsMoved(c, m)
    <3>1. page'[c].rid = page[c].rid
      BY <2>1, <2>3 DEF GetsMoved, Pages
    <3>2. page[c].shown \/ m.winner # Nobody => page'[c].shown
      BY <2>1, <2>3 DEF GetsMoved, Pages
    <3> QED
      BY <3>1, <3>2
  <2>4. CASE GetsNothing(m)
    BY <2>4 DEF GetsNothing
  <2> QED
    BY <1>1, <2>2, <2>3, <2>4
<1>7. Told(c) => Told(c)'
  BY <1>3, <1>6 DEF Told, Moves
<1>8. \A r : Plays(c, r)' => Plays(c, r)
  BY <1>3, <1>4, <1>5, <1>6 DEF Plays
<1>9. \A d \in Conns \ {c} : page'[d] = page[d] /\ toPage'[d] = toPage[d]
  BY <1>1 DEF GetsReady, GetsMoved, GetsNothing, NetTypeOK
<1> QED
  BY <1>7, <1>8, <1>9

(* A broadcast in the room r leaves the pages of other rooms as told as    *)
(* they were; and who plays in r gets it.                                  *)
LEMMA BroadcastTold ==
  ASSUME NetTypeOK, NEW room, NEW registry, NEW m \in ToPage, m.type # "ready",
         Broadcast(room, registry, m), UNCHANGED page, NEW c \in Conns
  PROVE  /\ Told(c) => Told(c)'
         /\ Loaded(c) /\ (\E u \in Players(room) : registry[u] = c)
              /\ m.type = "moved" /\ m.winner # Nobody => Told(c)'
         /\ \A r : Plays(c, r)' =>
              /\ Loaded(c) /\ roomUser'[Owner[c]] = c /\ GetRoomByUid(Owner[c])' = r
         /\ \A r : Plays(c, r)' /\ roomUser[Owner[c]] = c
                     /\ GetRoomByUid(Owner[c]) = r => Plays(c, r)
<1>1. /\ Messages(c) \subseteq Messages(c)'
      /\ Messages(c)' \subseteq Messages(c) \cup {m}
      /\ Loaded(c) /\ (\E u \in Players(room) : registry[u] = c) =>
           Messages(c)' = Messages(c) \cup {m}
  BY BroadcastMessages
<1>2. /\ Told(c) => Told(c)'
      /\ \A r : /\ Plays(c, r)' => /\ Loaded(c)
                                   /\ roomUser'[Owner[c]] = c
                                   /\ GetRoomByUid(Owner[c])' = r
                /\ Plays(c, r)' /\ roomUser[Owner[c]] = c
                     /\ GetRoomByUid(Owner[c]) = r => Plays(c, r)
  BY <1>1, PageStays
<1>3. Loaded(c) /\ (\E u \in Players(room) : registry[u] = c)
        /\ m.type = "moved" /\ m.winner # Nobody => Told(c)'
  BY <1>1 DEF Told, Moves
<1> QED
  BY <1>2, <1>3

(* A new room has not ended.                                               *)
LEMMA MatchTold ==
  ASSUME NetTypeOK, RmInv, EndIsTold, Match
  PROVE  EndIsTold'
<1>1. PICK u, v \in Uids : u # v /\ CreateRoom(u, v)
  BY DEF Match
<1>2. /\ nextRid \in Rids /\ ~Live(nextRid)
      /\ rooms' = [rooms EXCEPT ![nextRid] = NewRoom(u, v)]
      /\ users' = [x \in Uids |-> IF x \in {u, v} /\ users[x] = NoRid
                                  THEN nextRid ELSE users[x]]
      /\ UNCHANGED <<roomUser, page, toPage, late>>
  BY <1>1 DEF CreateRoom, InsertRoom, onlineVars, Match, pageVars, netVars, histVars, RmInv,
              RidsAreFresh, RmTypeOK, RoomTypeOK, Rids
<1>3. ASSUME NEW r \in Rids, NEW c \in Conns, Ended(r, c)'
      PROVE  Ended(r, c)
  <2>1. r # nextRid /\ rooms'[r] = rooms[r]
    BY <1>2, <1>3 DEF Ended, Running, NewRoom, RmInv, RmTypeOK, RoomTypeOK
  <2>2. GetRoomByUid(Owner[c]) = r
    BY <1>2, <1>3, <2>1, OwnerType DEF Ended, Plays, GetRoomByUid, Live, RmInv, RmTypeOK,
       RoomTypeOK, Rids, NoRid, RoomManagerAssumption
  <2> QED
    BY <1>2, <1>3, <2>1, <2>2 DEF Ended, Running, Live, Plays, Loaded, Messages
<1>4. \A c \in Conns : Told(c)' = Told(c)
  BY <1>2 DEF Told, Moves, Messages
<1> QED
  BY <1>3, <1>4 DEF EndIsTold, Ended, Told

(* A page that opens after the end is late, and is owed nothing.           *)
LEMMA OpenTold ==
  ASSUME NetTypeOK, RmInv, EndIsTold, NEW d \in Conns, Open(d)
  PROVE  EndIsTold'
<1> DEFINE uid == Owner[d]
           rid == GetRoomByUid(uid)
<1>1. /\ UNCHANGED <<rooms, users>>
      /\ rid # NoRid /\ rid \in Rids
      /\ roomUser' = [roomUser EXCEPT ![uid] = IF @ = NoConn THEN d ELSE @]
      /\ late' = IF rooms[rid].status = "GAME_OVER" THEN late \cup {d} ELSE late
      /\ \A c \in Conns \ {d} : page'[c] = page[c] /\ toPage'[c] = toPage[c]
  BY FoundRoom, OwnerType DEF Open, OpenRoom, EnterRoom, Inserted, roomVars, NetTypeOK
<1>2. rooms[rid].status \in {"GAME_START", "GAME_OVER"}
  BY <1>1, FoundRoom, OwnerType DEF Rooms
<1>3. ASSUME NEW r \in Rids, NEW c \in Conns, Ended(r, c)'
      PROVE  c # d /\ Ended(r, c)
  <2>1. c # d
    BY <1>1, <1>2, <1>3 DEF Ended, Running, Plays, GetRoomByUid, Live
  <2>2. roomUser[Owner[c]] = c
    BY <1>1, <1>3, <2>1, OwnerType DEF Ended, Plays, RmInv, RmTypeOK, OnlineTypeOK, Registry
  <2> QED
    BY <1>1, <1>3, <2>1, <2>2 DEF Ended, Running, Live, Plays, Loaded, Messages, GetRoomByUid
<1>4. \A c \in Conns \ {d} : Told(c)' = Told(c)
  BY <1>1 DEF Told, Moves, Messages
<1> QED
  BY <1>3, <1>4 DEF EndIsTold, Ended, Told

(* The move that ends a game is answered to all pages of it.               *)
LEMMA PutTold ==
  ASSUME NetTypeOK, RmInv, EndIsTold, UNCHANGED <<page, late>>,
         NEW d \in Conns, NEW cell \in Cells, PutChanges(Owner[d], cell)
  PROVE  EndIsTold'
<1> DEFINE uid == Owner[d]
           rid == GetRoomByUid(uid)
<1>1. PICK winner \in Uids \cup {Nobody} :
        /\ Broadcast(rooms[rid], roomUser, Moved(uid, cell, winner))
        /\ \/ rooms'[rid].status = "GAME_OVER" /\ winner \in Uids
           \/ rooms'[rid] = Placed(rid, uid, cell)
  BY DEF PutChanges
<1> DEFINE m == Moved(uid, cell, winner)
<1>2. m \in ToPage /\ m.type = "moved" /\ m.winner = winner
  BY OwnerType, MessageTypes DEF Moved
<1>3. /\ UNCHANGED <<roomUser, users>>
      /\ rooms' = [rooms EXCEPT ![rid] = rooms'[rid]]
      /\ rooms'[rid] \in Rooms(Uids)
      /\ rid \in Rids /\ Live(rid)
      /\ rooms \in [Rids -> Rooms(Uids) \cup {NoRoom}]
      /\ users \in [Uids -> Rids \cup {NoRid}]
  BY DEF PutChanges, onlineVars, RmInv, RmTypeOK, RoomTypeOK
<1>4. \A r \in Rids \ {rid} : rooms'[r] = rooms[r]
  BY <1>3
<1>5. \A r \in Rids : rooms'[r] # NoRoom <=> rooms[r] # NoRoom
  BY <1>3, <1>4, RoomManagerAssumption DEF Live
<1>6. /\ \A r \in Rids : Live(r)' <=> Live(r)
      /\ \A u \in Uids : GetRoomByUid(u)' = GetRoomByUid(u)
  BY <1>3, <1>5 DEF GetRoomByUid, Live
<1>7. ASSUME NEW r \in Rids, NEW c \in Conns, Ended(r, c)'
      PROVE  Told(c)'
  <2>1. Plays(c, r)' /\ Live(r) /\ c \notin late
    BY <1>6, <1>7 DEF Ended
  <2>2. /\ Loaded(c) /\ roomUser[Owner[c]] = c
        /\ GetRoomByUid(Owner[c]) = r /\ Plays(c, r)
        /\ Told(c) => Told(c)'
        /\ (\E u \in Players(rooms[rid]) : roomUser[u] = c) /\ winner # Nobody => Told(c)'
    BY <1>1, <1>2, <1>3, <1>6, <2>1, OwnerType, BroadcastTold
  <2>3. CASE ~Running(r)
    BY <2>1, <2>2, <2>3 DEF EndIsTold, Told
  <2>4. CASE Running(r)
    <3>1. rooms'[r].status # "GAME_START" /\ rooms[r].status = "GAME_START"
      BY <1>6, <1>7, <2>4 DEF Ended, Running
    <3>2. r = rid
      BY <1>4, <3>1
    <3>3. winner \in Uids
      <4>1. rooms[rid] \in Rooms(Uids)
        BY <1>3 DEF Live
      <4>2. Placed(rid, uid, cell).status = rooms[rid].status
        BY <4>1 DEF Placed, Rooms
      <4> QED
        BY <1>1, <3>1, <3>2, <4>2
    <3>4. Owner[c] \in Players(rooms[rid])
      BY <2>2, <3>2, OwnerType, FoundRoom DEF NoRid, Rids
    <3> QED
      BY <2>2, <3>3, <3>4, PagesAssumption
  <2> QED
    BY <2>3, <2>4
<1> QED
  BY <1>7 DEF EndIsTold, Ended, Told

(* So is the exit that ends one.                                           *)
LEMMA CloseTold ==
  ASSUME NetTypeOK, RmInv, EndIsTold, UNCHANGED <<page, late>>,
         NEW d \in Conns, WsCloseRoom(d)
  PROVE  EndIsTold'
<1> DEFINE uid  == Owner[d]
           rid  == GetRoomByUid(uid)
           room == rooms[rid]
<1>1. /\ roomUser \in [Uids -> Conns \cup {NoConn}]
      /\ rooms \in [Rids -> Rooms(Uids) \cup {NoRoom}]
      /\ users \in [Uids -> Rids \cup {NoRid}]
      /\ uid \in Uids
  BY OwnerType DEF RmInv, RmTypeOK, OnlineTypeOK, Registry, RoomTypeOK
<1>2. roomUser' = [roomUser EXCEPT ![uid] = NoConn]
  BY CloseEffect
<1>3. \A c \in Conns : roomUser'[Owner[c]] = c => roomUser[Owner[c]] = c
  BY <1>1, <1>2, OwnerType, NoConnAssumption
<1>4. CASE rid = NoRid /\ UNCHANGED <<rooms, users, toPage>>
  BY <1>3, <1>4 DEF EndIsTold, Running, Live, Plays, Loaded, Moves, Messages, GetRoomByUid
<1>5. CASE rid # NoRid
  <2>1. /\ rid \in Rids /\ Live(rid) /\ room \in Rooms(Uids)
        /\ \/ DestroyRoom(rid)
           \/ rooms' = [rooms EXCEPT ![rid] = Exited(@)] /\ UNCHANGED users
        /\ \E m \in ToPage :
             /\ Broadcast(room, roomUser', m)
             /\ IF room.status = "GAME_START"
                THEN m.type = "moved" /\ m.winner # Nobody
                ELSE m.type = "null"
    BY <1>5, CloseEffect DEF NoRid, Rids
  <2>2. PICK m \in ToPage :
          /\ Broadcast(room, roomUser', m)
          /\ IF room.status = "GAME_START"
             THEN m.type = "moved" /\ m.winner # Nobody
             ELSE m.type = "null"
    BY <2>1
  <2>3. \A r \in Rids \ {rid} : rooms'[r] = rooms[r]
    BY <1>1, <2>1 DEF DestroyRoom
  <2>4. \A r \in Rids : Live(r)' => Live(r)
    BY <2>1, <2>3 DEF Live
  <2>5. \A u \in Uids, r \in Rids : GetRoomByUid(u)' = r => GetRoomByUid(u) = r
    <3>1. \A u \in Uids : users'[u] # NoRid => users'[u] = users[u]
      BY <1>1, <2>1 DEF DestroyRoom
    <3> QED
      BY <1>1, <2>4, <3>1 DEF GetRoomByUid, NoRid, Rids, Live
  <2>6. ASSUME NEW r \in Rids, NEW c \in Conns, Ended(r, c)'
        PROVE  Told(c)'
    <3>1. Plays(c, r)' /\ Live(r) /\ c \notin late
      BY <2>4, <2>6 DEF Ended
    <3>2. roomUser'[Owner[c]] = c /\ roomUser[Owner[c]] = c /\ GetRoomByUid(Owner[c]) = r
      BY <1>3, <2>5, <3>1, OwnerType DEF Plays
    <3>3. /\ Loaded(c) /\ Plays(c, r)
          /\ Told(c) => Told(c)'
          /\ Owner[c] \in Players(room) /\ m.type = "moved" /\ m.winner # Nobody => Told(c)'
      BY <2>2, <3>1, <3>2, BroadcastTold
    <3>4. CASE ~Running(r)
      BY <3>1, <3>3, <3>4 DEF EndIsTold, Told
    <3>5. CASE Running(r)
      <4>1. rooms[r].status = "GAME_START" /\ r = rid
        BY <2>3, <2>6, <3>5 DEF Ended, Running, Live
      <4>2. Owner[c] \in Players(room)
        BY <3>2, <4>1, OwnerType, FoundRoom DEF NoRid, Rids
      <4> QED
        BY <2>2, <3>3, <4>1, <4>2
    <3> QED
      BY <3>4, <3>5
  <2> QED
    BY <2>6 DEF EndIsTold, Ended, Told
<1>6. rid = NoRid => UNCHANGED <<rooms, users, toPage>>
  BY CloseEffect DEF Rids, NoRid
<1> QED
  BY <1>4, <1>5, <1>6

(* A message from a page that has an effect on no room.                    *)
LEMMA RefusedTold ==
  ASSUME NetTypeOK, EndIsTold, UNCHANGED <<page, late, rmVars>>,
         UNCHANGED toPage
           \/ \E room \in Rooms(Uids) : Broadcast(room, roomUser, Refused)
  PROVE  EndIsTold'
<1>1. UNCHANGED <<rooms, users, roomUser>>
  BY DEF rmVars, onlineVars, roomVars
<1>2. CASE UNCHANGED toPage
  BY <1>1, <1>2 DEF EndIsTold, Running, Live, Plays, Loaded, Moves, Messages, GetRoomByUid
<1>3. ASSUME NEW room, Broadcast(room, roomUser, Refused)
      PROVE  EndIsTold'
  <2>1. Refused \in ToPage /\ Refused.type # "ready"
    BY MessageTypes DEF Refused
  <2>2. \A u : GetRoomByUid(u)' = GetRoomByUid(u)
    BY <1>1 DEF GetRoomByUid, Live
  <2>3. ASSUME NEW r \in Rids, NEW c \in Conns, Ended(r, c)'
        PROVE  Told(c)'
    <3>1. Plays(c, r)' /\ Live(r) /\ ~Running(r) /\ c \notin late
      BY <1>1, <2>3 DEF Ended, Live, Running
    <3>2. Plays(c, r) /\ (Told(c) => Told(c)')
      BY <1>1, <1>3, <2>1, <2>2, <3>1, BroadcastTold
    <3> QED
      BY <3>1, <3>2 DEF EndIsTold, Told
  <2> QED
    BY <2>3 DEF EndIsTold, Ended, Told
<1> QED
  BY <1>2, <1>3

(* Every step keeps the property.                                          *)
LEMMA EndIsToldNext ==
  ASSUME NetTypeOK, RmInv, Swallowed, EndIsTold, [GpNext]_gpVars
  PROVE  EndIsTold'
<1>1. CASE Match
  BY <1>1, MatchTold
<1>2. ASSUME NEW c \in Conns, Open(c)
      PROVE  EndIsTold'
  BY <1>2, OpenTold
<1>3. ASSUME NEW d \in Conns, NEW cell, Click(d, cell) \/ Leave(d) \/ OpenUnheard(d)
      PROVE  EndIsTold'
  <2>1. UNCHANGED <<rooms, users, roomUser>> /\ late \ {d} \subseteq late'
    BY <1>3 DEF Click, Leave, OpenUnheard, rmVars, onlineVars, roomVars, histVars
  <2>2. ASSUME NEW r \in Rids, NEW c \in Conns, Ended(r, c)'
        PROVE  Ended(r, c) /\ Told(c)' = Told(c)
    <3>1. Loaded(c)' => /\ toPage'[c] = toPage[c] /\ Loaded(c)
                        /\ c \in late => c \in late'
                        /\ page'[c].rid = page[c].rid /\ page'[c].shown = page[c].shown
      <4>1. CASE c = d /\ Click(d, cell)
        BY <4>1 DEF Click, histVars, Loaded, NetTypeOK, Pages
      <4>2. CASE c = d /\ (Leave(d) \/ OpenUnheard(d))
        BY <4>2, ShutOut
      <4>3. CASE c # d
        BY <1>3, <2>1, <4>3 DEF Click, Leave, OpenUnheard, netVars, Loaded, NetTypeOK
      <4> QED
        BY <1>3, <4>1, <4>2, <4>3
    <3> QED
      BY <2>1, <2>2, <3>1 DEF Ended, Told, Live, Running, Plays, Moves, Messages, GetRoomByUid
  <2> QED
    BY <2>2 DEF EndIsTold, Ended, Told
<1>4. ASSUME NEW d \in Conns, PageTakes(d)
      PROVE  EndIsTold'
  <2>1. UNCHANGED <<rooms, users, roomUser, late>>
    BY <1>4 DEF PageTakes, histVars, rmVars, onlineVars, roomVars
  <2>2. ASSUME NEW r \in Rids, NEW c \in Conns, Ended(r, c)'
        PROVE  Ended(r, c) /\ (Told(c) => Told(c)')
    <3>1. CASE c = d
      BY <1>4, <2>1, <2>2, <3>1, PageTakesOne DEF Ended, Live, Running
    <3>2. CASE c # d
      <4>1. page'[c] = page[c] /\ toPage'[c] = toPage[c]
        BY <1>4, <3>2, PageTakesOne
      <4> QED
        BY <2>1, <2>2, <4>1 DEF Ended, Told, Live, Running, Plays, Loaded, Moves, Messages,
           GetRoomByUid
    <3> QED
      BY <3>1, <3>2
  <2> QED
    BY <2>2 DEF EndIsTold, Ended, Told
<1>5. ASSUME NEW d \in Conns, ServerTakes(d)
      PROVE  EndIsTold'
  <2> DEFINE m == Head(toServer[d])
  <2>1. m \in ToServer /\ UNCHANGED <<page, late>>
    BY <1>5, ServerQueue DEF ServerTakes
  <2>2. CASE m.type = "put" /\ WsMsgRoom(d, m)
    <3>1. m.cell \in Cells
      BY <2>1, <2>2 DEF ToServer
    <3> QED
      BY <2>1, <2>2, <3>1, PutEffect, PutTold, RefusedTold DEF PutChangesNothing
  <2>3. CASE WsCloseRoom(d)
    BY <2>1, <2>3, CloseTold
  <2>4. CASE NoSession(d, m)
    BY <2>1, <2>4, RefusedTold DEF NoSession
  <2> QED
    BY <1>5, <2>2, <2>3, <2>4 DEF ServerTakes
<1>6. CASE UNCHANGED gpVars
  BY <1>6, RefusedTold DEF gpVars, pageVars, netVars, histVars
<1>7. ASSUME NEW c \in Conns, OpenRoomless(c)
      PROVE  EndIsTold'
  BY <1>7, RefusedTold DEF OpenRoomless, netVars, histVars
<1> QED
  BY <1>1, <1>2, <1>3, <1>4, <1>5, <1>6, <1>7 DEF GpNext

(* Whoever is at a game when it ends is told the result, whatever the      *)
(* number of rooms, players and pages.                                     *)
THEOREM EndIsAlwaysTold == GpSpec => []EndIsTold
<1>1. GpInit => Swallowed /\ EndIsTold
  <2>1. GpInit => \A r \in Rids : ~Live(r)
    BY DEF GpInit, RmInit, RoomInit, Live
  <2> QED
    BY <2>1 DEF GpInit, Swallowed, EndIsTold
<1>2. NetTypeOK /\ RmInv /\ Swallowed /\ EndIsTold /\ [GpNext]_gpVars
        => Swallowed' /\ EndIsTold'
  BY SwallowedNext, EndIsToldNext
<1> QED
  BY <1>1, <1>2, PagesInvariant, PTL DEF GpSpec

-----------------------------------------------------------------------------
(* One room.  With several, a player can be in two at once, and the        *)
(* answers of one reach his page in the other.                             *)
room1 == rooms[1]

(* A page that takes no part: not loaded yet, or never heard by the server,*)
(* or gone with all it has sent but its close.                             *)
Apart(c) == /\ ~Loaded(c) /\ ~page[c].isMe
            /\ \A i \in DOMAIN toServer[c] : toServer[c][i].type # "put"

(* Nobody comes before the players are matched.                            *)
NobodyYet == nextRid = 1 => /\ \A u \in Uids : ~InRoom(u)
                            /\ \A c \in Conns : Apart(c)

Unopened == \A c \in Conns : page[c].st = "none" => page[c] = NewPage /\ toServer[c] = <<>>

(* The registry keeps connections of their owners.                         *)
Owned == \A u \in Uids : InRoom(u) => /\ Owner[roomUser[u]] = u
                                      /\ page[roomUser[u]].st # "none"

(* The players of the running game are two, listed with it; one who has    *)
(* not been there has seen no stone; of one who has had no second page, no *)
(* page but the registered one takes part.                                 *)
Game1 == Running(1) =>
  /\ room1.white # room1.black
  /\ \A u \in Players(room1) :
       /\ users[u] = 1
       /\ ~InRoom(u) => \A cell \in Cells : room1.board[cell] = NoChess
       /\ u \notin doubled =>
            \A c \in Conns : Owner[c] = u /\ c # roomUser[u] => Apart(c)

(* Before room_ready the registered page of a player hears nothing else.   *)
Greeted == \A c \in Conns : roomUser[Owner[c]] = c /\ Loaded(c) =>
  \A i \in DOMAIN toPage[c] : toPage[c][i].type = "ready" =>
    /\ page[c].marks = {}
    /\ \A j \in DOMAIN toPage[c] : j < i => toPage[c][j].type = "ready"

Setting == NobodyYet /\ Unopened /\ Owned /\ Game1 /\ Greeted

AllInv == NetTypeOK /\ RmInv /\ Swallowed /\ Setting

(* With one room there is one rid.                                         *)
LEMMA OneRid == MaxRooms = 1 => Rids = {1} /\ 1 # NoRid
  BY DEF Rids, NoRid

(* While the game is running, what may have happened in a step.            *)
LEMMA MatchSetting ==
  ASSUME MaxRooms = 1, AllInv, Match
  PROVE  Setting'
<1>1. PICK u, v \in Uids : u # v /\ CreateRoom(u, v)
  BY DEF Match
<1>2. /\ nextRid = 1 /\ ~Live(1) /\ nextRid' = 2
      /\ rooms' = [rooms EXCEPT ![1] = NewRoom(u, v)]
      /\ \A x \in {u, v} : users[x] = NoRid => users'[x] = 1
      /\ UNCHANGED <<roomUser, page, toPage, toServer, doubled>>
  <2>1. nextRid = 1
    BY <1>1, OneRid DEF CreateRoom, InsertRoom
  <2>2. ~Live(1)
    BY <2>1, OneRid DEF AllInv, RmInv, RidsAreFresh
  <2>3. \A x \in {u, v} : users[x] = NoRid => users'[x] = nextRid
    BY <1>1 DEF CreateRoom, InsertRoom
  <2>4. rooms' = [rooms EXCEPT ![nextRid] = NewRoom(u, v)] /\ nextRid' = nextRid + 1
    BY <1>1 DEF CreateRoom, InsertRoom
  <2>5. UNCHANGED <<roomUser, page, toPage, toServer, doubled>>
    BY <1>1 DEF CreateRoom, onlineVars, Match, pageVars, netVars, histVars
  <2> QED
    BY <2>1, <2>2, <2>3, <2>4, <2>5
<1>3. \A x \in Uids : users[x] = NoRid
  BY <1>2, OneRid DEF AllInv, RmInv, RmTypeOK, RoomTypeOK, RoomIndexSound
<1>4. /\ \A x \in Uids : ~InRoom(x)
      /\ \A c \in Conns : Apart(c)
  BY <1>2 DEF AllInv, Setting, NobodyYet
<1>7. \A c \in Conns : Apart(c)'
  BY <1>2, <1>4 DEF Apart, Loaded
<1>5. room1' = NewRoom(u, v)
  BY <1>2, OneRid DEF room1, AllInv, RmInv, RmTypeOK, RoomTypeOK
<1>6. Game1'
  BY <1>1, <1>2, <1>3, <1>4, <1>5, <1>7 DEF Game1, NewRoom, Players, InRoom
<1> QED
  BY <1>2, <1>4, <1>6, <1>7
  DEF AllInv, Setting, NobodyYet, Unopened, Owned, Greeted, InRoom, Loaded

(* The setting of the one game, step by step: a new page, ...              *)
LEMMA OpenSetting ==
  ASSUME MaxRooms = 1, AllInv, NEW d \in Conns, Open(d)
  PROVE  Setting'
<1> DEFINE uid == Owner[d]
           rid == GetRoomByUid(uid)
<1>1. /\ roomUser \in [Uids -> Conns \cup {NoConn}]
      /\ page \in [Conns -> Pages] /\ toPage \in [Conns -> Seq(ToPage)]
      /\ nextRid \in 1 .. 2
      /\ uid \in Uids
  BY OwnerType, OneRid DEF AllInv, NetTypeOK, RmInv, RmTypeOK, OnlineTypeOK, Registry,
     RoomTypeOK
<1>2. /\ UNCHANGED <<rooms, users, nextRid, toServer>>
      /\ rid = 1 /\ Live(1) /\ page[d].st = "none"
      /\ roomUser' = [roomUser EXCEPT ![uid] = IF @ = NoConn THEN d ELSE @]
      /\ page' = [page EXCEPT ![d].st = "open"]
      /\ doubled' = IF InRoom(uid) THEN doubled \cup {uid} ELSE doubled
      /\ \/ toPage' = [toPage EXCEPT ![d] =
                          <<Ready(NoRid, TRUE), Ready(rid, uid = rooms[rid].white)>>]
         \/ toPage' = [toPage EXCEPT ![d] = <<Ready(rid, uid = rooms[rid].white)>>]
  BY <1>1, OneRid, FoundRoom DEF Open, OpenRoom, EnterRoom, Inserted, roomVars, AllInv
<1>3. nextRid # 1
  BY <1>2, OneRid DEF AllInv, RmInv, RidsAreFresh
<1>4. page[d] = NewPage
  BY <1>2 DEF AllInv, Setting, Unopened
<1>5. \A c \in Conns \ {d} : page'[c] = page[c] /\ toPage'[c] = toPage[c]
  BY <1>1, <1>2
<1>6. page'[d].st = "open" /\ page'[d].marks = {}
  BY <1>1, <1>2, <1>4 DEF NewPage, Pages
<1>7. Unopened'
  BY <1>2, <1>5, <1>6 DEF AllInv, Setting, Unopened
<1>8. \A u \in Uids \ {uid} : roomUser'[u] = roomUser[u]
  BY <1>1, <1>2
<1>9. InRoom(uid) => roomUser'[uid] = roomUser[uid] /\ roomUser[uid] # d
  BY <1>1, <1>2 DEF InRoom, AllInv, Setting, Owned
<1>10. ~InRoom(uid) => roomUser'[uid] = d
  BY <1>1, <1>2 DEF InRoom
<1>11. Owned'
  <2> SUFFICES ASSUME NEW u \in Uids, roomUser'[u] # NoConn
               PROVE  Owner[roomUser'[u]] = u /\ page'[roomUser'[u]].st # "none"
    BY DEF Owned, InRoom
  <2>1. CASE u = uid /\ ~InRoom(uid)
    BY <1>6, <1>10, <2>1
  <2>2. CASE u # uid \/ InRoom(uid)
    <3>1. roomUser'[u] = roomUser[u] /\ roomUser[u] # NoConn /\ roomUser[u] \in Conns
      BY <1>1, <1>8, <1>9, <2>2
    <3>2. Owner[roomUser[u]] = u /\ page[roomUser[u]].st # "none"
      BY <3>1 DEF AllInv, Setting, Owned, InRoom
    <3> QED
      BY <1>2, <1>5, <3>1, <3>2
  <2> QED
    BY <2>1, <2>2
<1>12. Game1'
  <2>0. room1' = room1 /\ users' = users /\ (Running(1)' <=> Running(1))
    BY <1>2 DEF room1, Running, Live
  <2> SUFFICES ASSUME Running(1), NEW u \in Players(room1)
               PROVE  /\ room1.white # room1.black
                      /\ users[u] = 1
                      /\ ~InRoom(u)' => \A cell \in Cells : room1.board[cell] = NoChess
                      /\ u \notin doubled' =>
                           \A c \in Conns : Owner[c] = u /\ c # roomUser'[u] => Apart(c)'
    <3>1. room1.white \in Players(room1)
      BY DEF Players
    <3> QED
      BY <2>0, <3>1 DEF Game1
  <2>1. /\ Running(1) /\ room1 \in Rooms(Uids) /\ u \in Uids
    BY <1>2, OneRid DEF Live, AllInv, room1, RmInv, RmTypeOK, RoomTypeOK, Players, Rooms
  <2>2. /\ room1.white # room1.black
        /\ users[u] = 1
        /\ ~InRoom(u) => \A cell \in Cells : room1.board[cell] = NoChess
        /\ u \notin doubled =>
             \A c \in Conns : Owner[c] = u /\ c # roomUser[u] => Apart(c)
    BY <2>1 DEF AllInv, Setting, Game1
  <2>3. InRoom(u) => InRoom(u)'
    BY <1>8, <1>9, <2>1 DEF InRoom
  <2>4. ASSUME u \notin doubled', NEW c \in Conns, Owner[c] = u, c # roomUser'[u]
        PROVE  Apart(c)'
    <3>3. c # d => (Apart(c) => Apart(c)')
      BY <1>2, <1>5 DEF Apart, Loaded
    <3>1. CASE u # uid
      BY <1>2, <1>8, <2>1, <2>2, <2>4, <3>1, <3>3
    <3>2. CASE u = uid
      <4>1. ~InRoom(uid) /\ u \notin doubled
        BY <1>2, <2>4, <3>2
      <4>2. c # d /\ roomUser[u] = NoConn
        BY <1>10, <2>4, <3>2, <4>1 DEF InRoom
      <4> QED
        BY <2>2, <2>4, <3>3, <4>1, <4>2, NoConnAssumption
    <3> QED
      BY <3>1, <3>2
  <2> QED
    BY <2>2, <2>3, <2>4
<1>13. Greeted'
  <2> SUFFICES ASSUME NEW c \in Conns, roomUser'[Owner[c]] = c, Loaded(c)',
                      NEW i \in DOMAIN toPage'[c], toPage'[c][i].type = "ready"
               PROVE  /\ page'[c].marks = {}
                      /\ \A j \in DOMAIN toPage'[c] : j < i => toPage'[c][j].type = "ready"
    BY DEF Greeted
  <2>1. CASE c = d
    <3> DEFINE told == Ready(NoRid, TRUE)
               hello == Ready(rid, uid = rooms[rid].white)
    <3>2. told.type = "ready" /\ hello.type = "ready"
      BY DEF Ready
    <3>3. toPage'[d] = <<told, hello>> \/ toPage'[d] = <<hello>>
      BY <1>1, <1>2
    <3> HIDE DEF told, hello
    <3>4. \A j \in DOMAIN toPage'[d] : toPage'[d][j].type = "ready"
      BY <3>2, <3>3, Greetings
    <3> QED
      BY <1>6, <2>1, <3>4
  <2>2. CASE c # d
    <3>1. roomUser[Owner[c]] = c
      BY <1>8, <1>9, <1>10, <2>2, OwnerType
    <3> QED
      BY <1>5, <2>2, <3>1 DEF AllInv, Setting, Greeted, Loaded
  <2> QED
    BY <2>1, <2>2
<1> QED
  BY <1>2, <1>3, <1>7, <1>11, <1>12, <1>13 DEF Setting, NobodyYet

(* A step of a page, or of one that the server does not hear of.           *)
LEMMA PageStepSetting ==
  ASSUME AllInv, NEW d \in Conns, Apart(d) => Apart(d)',
         UNCHANGED <<rooms, users, nextRid, roomUser, doubled>>,
         page'[d].st # "none",
         \A c \in Conns \ {d} : page'[c] = page[c] /\ toServer'[c] = toServer[c]
                                  /\ toPage'[c] = toPage[c],
         Loaded(d)' => Loaded(d),
         Loaded(d)' /\ roomUser[Owner[d]] = d =>
           \/ page'[d].marks = page[d].marks /\ toPage'[d] = toPage[d]
           \/ \A i \in DOMAIN toPage'[d] : toPage'[d][i].type = "ready" =>
                /\ page'[d].marks = {}
                /\ \A j \in DOMAIN toPage'[d] : j < i => toPage'[d][j].type = "ready"
  PROVE  Setting'
<1>1. \A c \in Conns : page[c].st # "none" => page'[c].st # "none"
  OBVIOUS
<1>7. ASSUME NEW c \in Conns, Apart(c)
      PROVE  Apart(c)'
  BY <1>7 DEF Apart, Loaded
<1>2. NobodyYet'
  BY <1>7 DEF AllInv, Setting, NobodyYet, InRoom
<1>3. Unopened'
  BY DEF AllInv, Setting, Unopened
<1>4. Owned'
  <2>1. \A u \in Uids : InRoom(u) => roomUser[u] \in Conns
    BY DEF AllInv, RmInv, RmTypeOK, OnlineTypeOK, Registry, InRoom
  <2> QED
    BY <1>1, <2>1 DEF AllInv, Setting, Owned, InRoom
<1>5. Game1'
  BY <1>7 DEF AllInv, Setting, Game1, room1, Running, Live, InRoom
<1>6. Greeted'
  <2> SUFFICES ASSUME NEW c \in Conns, roomUser[Owner[c]] = c, Loaded(c)',
                      NEW i \in DOMAIN toPage'[c], toPage'[c][i].type = "ready"
               PROVE  /\ page'[c].marks = {}
                      /\ \A j \in DOMAIN toPage'[c] : j < i => toPage'[c][j].type = "ready"
    BY DEF Greeted
  <2>1. CASE page'[c].marks = page[c].marks /\ toPage'[c] = toPage[c] /\ Loaded(c)
    BY <2>1 DEF AllInv, Setting, Greeted
  <2>2. CASE ~(page'[c].marks = page[c].marks /\ toPage'[c] = toPage[c] /\ Loaded(c))
    <3>1. c = d
      BY <2>2 DEF Loaded
    <3> QED
      BY <2>2, <3>1
  <2> QED
    BY <2>1, <2>2
<1> QED
  BY <1>2, <1>3, <1>4, <1>5, <1>6 DEF Setting

(* ... a click, ...                                                        *)
LEMMA ClickSetting ==
  ASSUME AllInv, NEW d \in Conns, NEW cell \in Cells, Click(d, cell)
  PROVE  Setting'
<1>1. /\ UNCHANGED <<rooms, users, nextRid, roomUser, doubled, toPage>>
      /\ page' = [page EXCEPT ![d].isMe = FALSE]
      /\ page[d].st = "ready"
      /\ page \in [Conns -> Pages] /\ toServer \in [Conns -> Seq(ToServer)]
      /\ \A c \in Conns \ {d} : toServer'[c] = toServer[c]
  BY DEF Click, histVars, rmVars, onlineVars, roomVars, AllInv, NetTypeOK
<1>2. page'[d].st = "ready" /\ page'[d].marks = page[d].marks
  BY <1>1 DEF Pages
<1>3. ~Apart(d)
  BY <1>1 DEF Apart, Loaded
<1> QED
  BY <1>1, <1>2, <1>3, PageStepSetting DEF Loaded

(* ... the end of a page, ...                                              *)
LEMMA LeaveSetting ==
  ASSUME AllInv, NEW d \in Conns, Leave(d)
  PROVE  Setting'
<1>1. /\ UNCHANGED <<rooms, users, nextRid, roomUser, doubled>>
      /\ page' = [page EXCEPT ![d] = [NewPage EXCEPT !.st = "closed"]]
      /\ page \in [Conns -> Pages]
      /\ toServer[d] \in Seq(ToServer) /\ toServer'[d] = Append(toServer[d], CloseFrame)
      /\ \A c \in Conns \ {d} : toServer'[c] = toServer[c] /\ toPage'[c] = toPage[c]
  BY DEF Leave, rmVars, onlineVars, roomVars, AllInv, NetTypeOK
<1>2. page'[d].st = "closed" /\ page'[d].isMe = FALSE
  BY <1>1 DEF NewPage
<1>3. Apart(d) => Apart(d)'
  <2>1. CloseFrame \in ToServer /\ CloseFrame.type = "close"
    BY MessageTypes DEF CloseFrame
  <2>2. \A i \in DOMAIN toServer'[d] :
          \/ i \in DOMAIN toServer[d] /\ toServer'[d][i] = toServer[d][i]
          \/ toServer'[d][i] = CloseFrame
    BY <1>1, <2>1
  <2> QED
    BY <1>2, <2>1, <2>2 DEF Apart, Loaded
<1> QED
  BY <1>1, <1>2, <1>3, PageStepSetting DEF Loaded

(* ... a page that the server does not hear of, ...                        *)
LEMMA OpenUnheardSetting ==
  ASSUME AllInv, NEW d \in Conns, OpenUnheard(d)
  PROVE  Setting'
<1>1. /\ UNCHANGED <<rooms, users, nextRid, roomUser, doubled, toServer, toPage>>
      /\ page' = [page EXCEPT ![d].st = "mute"] /\ page \in [Conns -> Pages]
  BY DEF OpenUnheard, netVars, histVars, rmVars, onlineVars, roomVars, AllInv, NetTypeOK
<1>2. page'[d].st = "mute" /\ page'[d].isMe = page[d].isMe
  BY <1>1 DEF Pages
<1>3. Apart(d) => Apart(d)'
  BY <1>1, <1>2 DEF Apart, Loaded
<1> QED
  BY <1>1, <1>2, <1>3, PageStepSetting DEF Loaded

(* What a message leaves of the state of a page.                           *)
LEMMA GetsState ==
  ASSUME NetTypeOK, NEW d \in Conns, NEW m \in ToPage,
         GetsReady(d, m) \/ GetsMoved(d, m) \/ GetsNothing(m)
  PROVE  /\ page'[d].st \in {page[d].st, "ready"}
         /\ \A c \in Conns \ {d} : page'[c] = page[c]
         /\ m.type = "ready" => /\ page'[d].marks = {} /\ page'[d].isMe = m.white
                                /\ page'[d].rid = m.rid
         /\ m.type = "moved" => /\ page'[d].marks = page[d].marks \cup ({m.cell} \ {NoCell})
                                /\ page'[d].isMe = (m.uid # Owner[d])
                                /\ page'[d].rid = page[d].rid
         /\ m.type \in {"refused", "null"} => page'[d] = page[d]
<1>1. page \in [Conns -> Pages]
  BY DEF NetTypeOK
<1>2. CASE GetsReady(d, m)
  BY <1>1, <1>2 DEF GetsReady, Pages
<1>3. CASE GetsMoved(d, m)
  BY <1>1, <1>3 DEF GetsMoved, Pages
<1>4. CASE GetsNothing(m)
  BY <1>1, <1>4 DEF GetsNothing, Pages
<1> QED
  BY <1>2, <1>3, <1>4

(* ... a message that a page takes, ...                                    *)
LEMMA PageTakesSetting ==
  ASSUME AllInv, NEW d \in Conns, PageTakes(d)
  PROVE  Setting'
<1> DEFINE m == Head(toPage[d])
<1>1. /\ m \in ToPage /\ toPage[d] # <<>> /\ toPage[d] \in Seq(ToPage)
      /\ GetsReady(d, m) \/ GetsMoved(d, m) \/ GetsNothing(m)
      /\ UNCHANGED <<rooms, users, nextRid, roomUser, doubled, toServer>>
      /\ toPage' = [toPage EXCEPT ![d] = Tail(@)]
  BY PageQueue
  DEF PageTakes, histVars, rmVars, onlineVars, roomVars, AllInv, NetTypeOK
<1>2. Loaded(d) /\ page'[d].st \in {page[d].st, "ready"}
  BY <1>1, GetsState DEF AllInv, Swallowed
<1>3. \A c \in Conns \ {d} : page'[c] = page[c] /\ toPage'[c] = toPage[c]
  BY <1>1, GetsState DEF AllInv, NetTypeOK
<1>5. ~Apart(d)
  BY <1>2 DEF Apart
<1>4. ASSUME roomUser[Owner[d]] = d, NEW i \in DOMAIN toPage'[d], toPage'[d][i].type = "ready"
      PROVE  /\ page'[d].marks = {}
             /\ \A j \in DOMAIN toPage'[d] : j < i => toPage'[d][j].type = "ready"
  <2>1. toPage'[d] = Tail(toPage[d])
    BY <1>1 DEF AllInv, NetTypeOK
  <2>2. /\ 1 \in DOMAIN toPage[d] /\ m = toPage[d][1]
        /\ \A j \in DOMAIN toPage'[d] : /\ j \in Nat \ {0}
                                        /\ j + 1 \in DOMAIN toPage[d]
                                        /\ toPage'[d][j] = toPage[d][j + 1]
    <3>1. 1 \in DOMAIN toPage[d] /\ m = toPage[d][1]
      BY <1>1, EmptySeq
    <3>2. \A j \in DOMAIN Tail(toPage[d]) : /\ j \in Nat \ {0}
                                             /\ j + 1 \in DOMAIN toPage[d]
                                             /\ Tail(toPage[d])[j] = toPage[d][j + 1]
      BY <1>1, TailIndices
    <3> QED
      BY <2>1, <3>1, <3>2
  <2>3. \A j \in DOMAIN toPage[d] : j < i + 1 => toPage[d][j].type = "ready"
    BY <1>2, <1>4, <2>2 DEF AllInv, Setting, Greeted
  <2>4. 1 < i + 1 /\ \A j \in DOMAIN toPage'[d] : j < i => j + 1 < i + 1
    BY <2>2
  <2>5. m.type = "ready"
    BY <2>2, <2>3, <2>4
  <2>6. page'[d].marks = {}
    BY <1>1, <2>5, GetsState DEF AllInv
  <2> QED
    BY <2>2, <2>3, <2>4, <2>6
<1> QED
  BY <1>1, <1>2, <1>3, <1>4, <1>5, PageStepSetting DEF Loaded

(* A message of the server appended to a queue.                            *)
LEMMA BroadcastQueue ==
  ASSUME NetTypeOK, NEW room, NEW registry, NEW m \in ToPage,
         Broadcast(room, registry, m), NEW c \in Conns
  PROVE  \/ toPage'[c] = toPage[c]
         \/ /\ Loaded(c) /\ \E u \in Players(room) : registry[u] = c
            /\ Len(toPage[c]) \in Nat /\ DOMAIN toPage[c] = 1 .. Len(toPage[c])
            /\ DOMAIN toPage'[c] = 1 .. Len(toPage[c]) + 1
            /\ toPage'[c][Len(toPage[c]) + 1] = m
            /\ \A i \in DOMAIN toPage[c] : toPage'[c][i] = toPage[c][i]
<1> DEFINE cs == {registry[u] : u \in Players(room)}
<1>1. SendTo(cs, <<m>>)
  BY DEF Broadcast
<1>2. /\ c \in cs /\ Loaded(c) => toPage'[c] = toPage[c] \o <<m>>
      /\ ~(c \in cs /\ Loaded(c)) => toPage'[c] = toPage[c]
  BY <1>1, SentTypes
<1>3. toPage[c] \in Seq(ToPage)
  BY DEF NetTypeOK
<1> QED
  BY <1>2, <1>3

(* ... an answer that is not room_ready, ...                               *)
LEMMA BroadcastGreeted ==
  ASSUME NetTypeOK, Greeted, NEW room, NEW registry, NEW m \in ToPage, m.type # "ready",
         Broadcast(room, registry, m), UNCHANGED page,
         \A c \in Conns : roomUser'[Owner[c]] = c => roomUser[Owner[c]] = c
  PROVE  Greeted'
<1> SUFFICES ASSUME NEW c \in Conns, roomUser'[Owner[c]] = c, Loaded(c)',
                    NEW i \in DOMAIN toPage'[c], toPage'[c][i].type = "ready"
             PROVE  /\ page'[c].marks = {}
                    /\ \A j \in DOMAIN toPage'[c] : j < i => toPage'[c][j].type = "ready"
  BY DEF Greeted
<1>1. roomUser[Owner[c]] = c /\ Loaded(c) /\ page'[c] = page[c]
  BY DEF Loaded
<1>2. /\ i \in DOMAIN toPage[c] /\ toPage[c][i].type = "ready"
      /\ \A j \in DOMAIN toPage'[c] : j < i => /\ j \in DOMAIN toPage[c]
                                              /\ toPage'[c][j] = toPage[c][j]
  <2>1. CASE toPage'[c] = toPage[c]
    BY <2>1
  <2>2. CASE toPage'[c] # toPage[c]
    <3>1. /\ Len(toPage[c]) \in Nat /\ DOMAIN toPage[c] = 1 .. Len(toPage[c])
          /\ DOMAIN toPage'[c] = 1 .. Len(toPage[c]) + 1
          /\ toPage'[c][Len(toPage[c]) + 1] = m
          /\ \A j \in DOMAIN toPage[c] : toPage'[c][j] = toPage[c][j]
      BY <2>2, BroadcastQueue
    <3>2. i # Len(toPage[c]) + 1
      BY <3>1
    <3> QED
      BY <3>1, <3>2
  <2> QED
    BY <2>1, <2>2
<1> QED
  BY <1>1, <1>2 DEF Greeted

(* The server takes the head of a queue.                                   *)
LEMMA TakesUnopened ==
  ASSUME Unopened, NetTypeOK, NEW d \in Conns, toServer[d] # <<>>, UNCHANGED page,
         toServer' = [toServer EXCEPT ![d] = Tail(@)]
  PROVE  Unopened' /\ page[d].st # "none"
  BY DEF Unopened, NetTypeOK

(* Then a page that took no part takes none.                               *)
LEMMA TakesApart ==
  ASSUME NetTypeOK, UNCHANGED page,
         \/ UNCHANGED toServer
         \/ \E d \in Conns : toServer[d] # <<>> /\ toServer' = [toServer EXCEPT ![d] = Tail(@)],
         NEW c \in Conns, Apart(c)
  PROVE  Apart(c)'
<1>1. CASE toServer'[c] = toServer[c]
  BY <1>1 DEF Apart, Loaded
<1>2. CASE toServer'[c] # toServer[c]
  <2>1. /\ toServer[c] \in Seq(ToServer) /\ toServer[c] # <<>>
        /\ toServer'[c] = Tail(toServer[c])
    BY <1>2 DEF NetTypeOK
  <2>2. \A i \in DOMAIN toServer'[c] : /\ i + 1 \in DOMAIN toServer[c]
                                       /\ toServer'[c][i] = toServer[c][i + 1]
    BY <2>1, TailIndices
  <2> QED
    BY <2>2 DEF Apart, Loaded
<1> QED
  BY <1>1, <1>2

(* ... a move, after which a running game has one stone more, ...          *)
LEMMA PutSetting ==
  ASSUME MaxRooms = 1, AllInv, NEW d \in Conns, NEW cell \in Cells,
         toServer[d] # <<>>, toServer' = [toServer EXCEPT ![d] = Tail(@)],
         UNCHANGED <<page, doubled>>, PutChanges(Owner[d], cell)
  PROVE  /\ Setting'
         /\ Running(1)' => /\ Running(1) /\ room1' = Placed(1, Owner[d], cell)
                           /\ GetRoomByUid(Owner[d]) = 1
                           /\ room1.board[cell] = NoChess
                           /\ WinnerByAbsence(room1) = {}
                           /\ room1 \in Rooms(Uids)
<1> DEFINE uid == Owner[d]
           rid == GetRoomByUid(uid)
<1>1. /\ UNCHANGED <<roomUser, users, nextRid>>
      /\ rid = 1 /\ Live(1)
  BY OneRid DEF PutChanges, onlineVars
<1>2. PICK winner \in Uids \cup {Nobody} :
        /\ Broadcast(room1, roomUser, Moved(uid, cell, winner))
        /\ \/ rooms'[1].status = "GAME_OVER"
           \/ /\ WinnerByAbsence(room1) = {}
              /\ room1.board[cell] = NoChess
              /\ rooms'[1] = Placed(1, uid, cell)
  BY <1>1 DEF PutChanges, room1
<1>3. Moved(uid, cell, winner) \in ToPage /\ Moved(uid, cell, winner).type # "ready"
  BY OwnerType, MessageTypes DEF Moved
<1>4. Greeted'
  BY <1>1, <1>2, <1>3, BroadcastGreeted DEF AllInv, Setting
<1>5. Unopened'
  BY TakesUnopened DEF AllInv, Setting
<1>6. NobodyYet' /\ Owned'
  BY <1>1, TakesApart DEF AllInv, Setting, NobodyYet, Owned, InRoom
<1>7. room1 \in Rooms(Uids)
  BY <1>1, OneRid DEF AllInv, RmInv, RmTypeOK, RoomTypeOK, Live, room1
<1>8. /\ Placed(1, uid, cell).status = room1.status
      /\ Placed(1, uid, cell).white = room1.white
      /\ Placed(1, uid, cell).black = room1.black
  BY <1>7 DEF Placed, Rooms, room1
<1>9. ASSUME Running(1)'
      PROVE  /\ Running(1) /\ room1' = Placed(1, uid, cell)
             /\ room1.board[cell] = NoChess
             /\ WinnerByAbsence(room1) = {}
  BY <1>1, <1>2, <1>8, <1>9 DEF Running, room1
<1>10. ASSUME Running(1)'
       PROVE  Game1'
  <2>1. /\ Running(1) /\ room1' = Placed(1, uid, cell) /\ WinnerByAbsence(room1) = {}
    BY <1>9, <1>10
  <2>2. Players(room1') = Players(room1) /\ room1'.white # room1'.black
    BY <1>8, <2>1 DEF Players, AllInv, Setting, Game1
  <2>3. \A u \in Players(room1) : InRoom(u)
    BY <2>1 DEF WinnerByAbsence, Players
  <2> QED
    BY <1>1, <2>1, <2>2, <2>3, TakesApart DEF AllInv, Setting, Game1, InRoom
<1>11. Game1'
  BY <1>10 DEF Game1
<1> QED
  BY <1>1, <1>4, <1>5, <1>6, <1>7, <1>9, <1>11 DEF Setting

(* ... a request that is refused or has no answer, ...                     *)
LEMMA NothingSetting ==
  ASSUME AllInv, UNCHANGED <<page, doubled, rmVars>>,
         \/ UNCHANGED toServer
         \/ \E d \in Conns : toServer[d] # <<>> /\ toServer' = [toServer EXCEPT ![d] = Tail(@)],
         \/ UNCHANGED toPage
         \/ \E room \in Rooms(Uids) : Broadcast(room, roomUser, Refused)
  PROVE  Setting'
<1>1. UNCHANGED <<rooms, users, nextRid, roomUser>>
  BY DEF rmVars, onlineVars, roomVars
<1>2. Unopened'
  BY TakesUnopened DEF AllInv, Setting, Unopened
<1>3. Greeted'
  <2>1. Refused \in ToPage /\ Refused.type # "ready"
    BY MessageTypes DEF Refused
  <2>2. CASE UNCHANGED toPage
    BY <1>1, <2>2 DEF AllInv, Setting, Greeted, Loaded
  <2> QED
    BY <1>1, <2>1, <2>2, BroadcastGreeted DEF AllInv, Setting
<1> QED
  BY <1>1, <1>2, <1>3, TakesApart
  DEF AllInv, Setting, NobodyYet, Owned, Game1, InRoom, Running, Live, room1

(* ... a close, which leaves a game that still runs as it is.              *)
LEMMA CloseSetting ==
  ASSUME MaxRooms = 1, AllInv, NEW d \in Conns, WsCloseRoom(d),
         toServer[d] # <<>>, toServer' = [toServer EXCEPT ![d] = Tail(@)],
         UNCHANGED <<page, doubled>>
  PROVE  Setting' /\ (Running(1)' => Running(1) /\ UNCHANGED <<rooms, users, toPage>>)
<1> DEFINE uid  == Owner[d]
           rid  == GetRoomByUid(uid)
           room == rooms[rid]
<1>1. /\ roomUser \in [Uids -> Conns \cup {NoConn}]
      /\ rooms \in [Rids -> Rooms(Uids) \cup {NoRoom}]
      /\ uid \in Uids
  BY OwnerType DEF AllInv, RmInv, RmTypeOK, OnlineTypeOK, Registry, RoomTypeOK
<1>2. roomUser' = [roomUser EXCEPT ![uid] = NoConn] /\ nextRid' = nextRid
  BY CloseEffect DEF AllInv
<1>3. \A c \in Conns : roomUser'[Owner[c]] = c => roomUser[Owner[c]] = c
  BY <1>1, <1>2, OwnerType, NoConnAssumption
<1>4. Unopened'
  BY TakesUnopened DEF AllInv, Setting
<1>5. NobodyYet' /\ Owned'
  BY <1>1, <1>2, TakesApart DEF AllInv, Setting, NobodyYet, Owned, InRoom
<1>6. CASE rid = NoRid
  <2>1. UNCHANGED <<rooms, users, toPage>>
    BY <1>6, CloseEffect DEF AllInv, Rids, NoRid
  <2>2. Greeted'
    BY <1>3, <2>1 DEF AllInv, Setting, Greeted, Loaded
  <2>3. Game1'
    <3> SUFFICES ASSUME Running(1), NEW u \in Players(room1)
                 PROVE  u # uid
      <4>1. \A c \in Conns : Apart(c) => Apart(c)'
        BY TakesApart DEF AllInv
      <4> QED
        BY <1>1, <1>2, <2>1, <4>1
        DEF AllInv, Setting, Game1, Running, Live, InRoom, room1
    <3>1. users[u] = 1
      BY DEF AllInv, Setting, Game1
    <3> QED
      BY <1>6, <3>1 DEF GetRoomByUid, Running, NoRid
  <2> QED
    BY <1>4, <1>5, <2>1, <2>2, <2>3 DEF Setting, Running, Live
<1>7. CASE rid # NoRid
  <2>1. /\ rid \in Rids
        /\ room \in Rooms(Uids)
        /\ \/ DestroyRoom(rid)
           \/ rooms' = [rooms EXCEPT ![rid] = Exited(@)]
        /\ \E m \in ToPage :
             /\ Broadcast(room, roomUser', m)
             /\ IF room.status = "GAME_START"
                THEN m.type = "moved" /\ m.winner # Nobody
                ELSE m.type = "null"
    BY <1>7, CloseEffect DEF AllInv
  <2>2. rid = 1
    BY <2>1, OneRid
  <2>3. ~Running(1)'
    <3>1. rooms'[1] = NoRoom \/ rooms'[1] = Exited(rooms[1])
      BY <1>1, <2>1, <2>2 DEF DestroyRoom
    <3>2. Exited(rooms[1]).status = "GAME_OVER"
      BY <2>1, <2>2 DEF Exited, Over, Rooms
    <3> QED
      BY <3>1, <3>2 DEF Running, Live
  <2>4. Greeted'
    BY <1>3, <2>1, BroadcastGreeted DEF AllInv, Setting
  <2> QED
    BY <1>4, <1>5, <2>3, <2>4 DEF Setting, Game1
<1> QED
  BY <1>6, <1>7

(* Every step keeps the setting.                                           *)
LEMMA SettingNext ==
  ASSUME MaxRooms = 1, AllInv, [GpNext]_gpVars
  PROVE  Setting'
<1>1. CASE UNCHANGED gpVars
  BY <1>1, NothingSetting DEF gpVars, pageVars, netVars, histVars
<1>2. ASSUME NEW d \in Conns, ServerTakes(d)
      PROVE  Setting'
  <2> DEFINE m == Head(toServer[d])
  <2>1. /\ m \in ToServer /\ UNCHANGED <<page, doubled>>
        /\ toServer[d] # <<>> /\ toServer' = [toServer EXCEPT ![d] = Tail(@)]
    BY <1>2, ServerQueue DEF ServerTakes, AllInv
  <2>2. CASE m.type = "put" /\ WsMsgRoom(d, m)
    <3>1. m.cell \in Cells
      BY <2>1, <2>2 DEF ToServer
    <3>2. PutChanges(Owner[d], m.cell) \/ PutChangesNothing
      BY <2>1, <2>2, PutEffect DEF AllInv
    <3> QED
      BY <2>1, <3>1, <3>2, PutSetting, NothingSetting DEF PutChangesNothing
  <2>3. CASE WsCloseRoom(d)
    BY <2>1, <2>3, CloseSetting
  <2>4. CASE NoSession(d, m)
    BY <2>1, <2>4, NothingSetting DEF NoSession
  <2> QED
    BY <1>2, <2>2, <2>3, <2>4 DEF ServerTakes
<1>3. ASSUME NEW d \in Conns, NEW cell \in Cells, Click(d, cell)
      PROVE  Setting'
  BY <1>3, ClickSetting
<1>4. ASSUME NEW d \in Conns, Open(d) \/ OpenUnheard(d) \/ Leave(d) \/ PageTakes(d)
      PROVE  Setting'
  BY <1>4, OpenSetting, OpenUnheardSetting, LeaveSetting, PageTakesSetting
<1>5. ASSUME NEW d \in Conns, OpenRoomless(d)
      PROVE  Setting'
  BY <1>5, NothingSetting DEF OpenRoomless, netVars, histVars
<1> QED
  BY <1>1, <1>2, <1>3, <1>4, <1>5, MatchSetting DEF GpNext

-----------------------------------------------------------------------------
(* The pages show the board of the server.                                 *)
Occupied(rid) == {cell \in Cells : rooms[rid].board[cell] # NoChess}
Shows(c)      == page[c].marks \cup {m.cell : m \in Moves(c)}

(* The property, for the one room.                                         *)
LEMMA PagesAgreeAs ==
  MaxRooms = 1 =>
    (PagesAgree <=> \A c \in Conns : Running(1) /\ Plays(c, 1) => Shows(c) = Occupied(1))
  BY OneRid DEF PagesAgree, Shows, Occupied

(* Who plays has a seat, and is in the room.                               *)
LEMMA PlaysAs ==
  ASSUME MaxRooms = 1, RmInv, NEW c \in Conns, Plays(c, 1)
  PROVE  /\ Loaded(c) /\ Owner[c] \in Uids /\ InRoom(Owner[c])
         /\ roomUser[Owner[c]] = c /\ Owner[c] \in Players(room1)
  BY OneRid, OwnerType, FoundRoom, NoConnAssumption DEF Plays, InRoom, room1

(* The boards, step by step: a new room has no stones, ...                 *)
LEMMA MatchAgrees ==
  ASSUME MaxRooms = 1, AllInv, Match
  PROVE  PagesAgree'
<1>1. nextRid = 1 /\ roomUser' = roomUser
  BY OneRid DEF Match, CreateRoom, InsertRoom, onlineVars
<1>2. \A c \in Conns : roomUser'[Owner[c]] # c
  BY <1>1, OwnerType, NoConnAssumption DEF AllInv, Setting, NobodyYet, InRoom
<1> QED
  BY <1>2 DEF PagesAgree, Plays

(* ... nor has one that a page opens in, ...                               *)
LEMMA OpenAgrees ==
  ASSUME MaxRooms = 1, AllInv, PagesAgree, NEW d \in Conns, Open(d)
  PROVE  PagesAgree'
<1> DEFINE uid == Owner[d]
           hello == Ready(1, uid = room1.white)
<1>1. /\ UNCHANGED <<rooms, users>>
      /\ GetRoomByUid(uid) = 1 /\ page[d].st = "none"
      /\ page \in [Conns -> Pages] /\ toPage \in [Conns -> Seq(ToPage)]
      /\ page' = [page EXCEPT ![d].st = "open"]
      /\ roomUser' = [roomUser EXCEPT ![uid] = IF @ = NoConn THEN d ELSE @]
      /\ roomUser \in [Uids -> Conns \cup {NoConn}]
      /\ uid \in Players(room1) /\ uid \in Uids
      /\ \A c \in Conns \ {d} : toPage'[c] = toPage[c]
      /\ toPage'[d] = <<hello>> \/ toPage'[d] = <<Ready(NoRid, TRUE), hello>>
  BY OneRid, OwnerType, FoundRoom
  DEF Open, OpenRoom, EnterRoom, Inserted, roomVars, AllInv, NetTypeOK, room1,
      RmInv, RmTypeOK, OnlineTypeOK, Registry
<1>2. page[d] = NewPage
  BY <1>1 DEF AllInv, Setting, Unopened
<1>3. page'[d].marks = {} /\ \A c \in Conns \ {d} : page'[c] = page[c]
  BY <1>1, <1>2 DEF NewPage, Pages
<1>4. \A u : GetRoomByUid(u)' = GetRoomByUid(u)
  BY <1>1 DEF GetRoomByUid, Live
<1>5. ASSUME Running(1)', Plays(d, 1)'
      PROVE  Shows(d)' = Occupied(1)'
  <2>1. ~InRoom(uid)
    BY <1>1, <1>5 DEF Plays, InRoom, AllInv, Setting, Owned
  <2>2. Shows(d)' = {}
    <3>1. hello.type # "moved" /\ Ready(NoRid, TRUE).type # "moved"
      BY DEF Ready
    <3>2. Moves(d)' = {}
      <4> DEFINE told == Ready(NoRid, TRUE)
      <4>1. /\ told.type # "moved" /\ hello.type # "moved"
            /\ toPage'[d] = <<hello>> \/ toPage'[d] = <<told, hello>>
        BY <1>1, <3>1
      <4> HIDE DEF hello, told
      <4>2. \A i \in DOMAIN toPage'[d] : toPage'[d][i].type # "moved"
        BY <4>1, Greetings
      <4> QED
        BY <4>2 DEF Moves, Messages
    <3> QED
      BY <1>3, <3>2 DEF Shows
  <2>3. Running(1)
    BY <1>1, <1>5 DEF Running, Live
  <2> QED
    BY <1>1, <2>1, <2>2, <2>3 DEF AllInv, Setting, Game1, Occupied, room1
<1>6. ASSUME NEW c \in Conns \ {d}, Running(1)', Plays(c, 1)'
      PROVE  Shows(c)' = Occupied(1)'
  <2>1. roomUser[Owner[c]] = c
    BY <1>1, <1>6, OwnerType DEF Plays
  <2>2. Running(1) /\ Plays(c, 1)
    BY <1>1, <1>3, <1>4, <1>6, <2>1 DEF Running, Live, Plays, Loaded, Messages
  <2>3. Shows(c)' = Shows(c) /\ Occupied(1)' = Occupied(1)
    BY <1>1, <1>3 DEF Shows, Occupied, Moves, Messages
  <2> QED
    BY <2>2, <2>3, PagesAgreeAs
<1> QED
  BY <1>5, <1>6, OneRid DEF PagesAgree, Shows, Occupied

(* ... clicking, leaving and opening in vain draw nothing, ...             *)
LEMMA BrowserAgrees ==
  ASSUME MaxRooms = 1, AllInv, PagesAgree, NEW d \in Conns, NEW cell,
         Click(d, cell) \/ Leave(d) \/ OpenUnheard(d)
  PROVE  PagesAgree'
<1>1. UNCHANGED <<rooms, users, roomUser>>
  BY DEF Click, Leave, OpenUnheard, rmVars, onlineVars, roomVars
<1>2. ASSUME NEW c \in Conns, Loaded(c)'
      PROVE  /\ toPage'[c] = toPage[c] /\ Loaded(c)
             /\ page'[c].rid = page[c].rid /\ page'[c].marks = page[c].marks
  <2>1. CASE c = d /\ Click(d, cell)
    BY <1>2, <2>1 DEF Click, Loaded, AllInv, NetTypeOK, Pages
  <2>2. CASE c = d /\ (Leave(d) \/ OpenUnheard(d))
    BY <1>2, <2>2, ShutOut DEF AllInv
  <2>3. CASE c # d
    BY <1>2, <2>3 DEF Click, Leave, OpenUnheard, netVars, Loaded, AllInv, NetTypeOK
  <2> QED
    BY <2>1, <2>2, <2>3
<1>3. ASSUME NEW c \in Conns, Running(1)', Plays(c, 1)'
      PROVE  Running(1) /\ Plays(c, 1) /\ Shows(c)' = Shows(c) /\ Occupied(1)' = Occupied(1)
  <2>1. Loaded(c)'
    BY <1>3 DEF Plays
  <2> QED
    BY <1>1, <1>2, <1>3, <2>1
    DEF Running, Live, Plays, Shows, Occupied, Moves, Messages, GetRoomByUid
<1> QED
  BY <1>3, PagesAgreeAs, OneRid DEF PagesAgree, Shows, Occupied

(* ... a page draws what was on its way to it, ...                         *)
LEMMA PageTakesAgrees ==
  ASSUME MaxRooms = 1, AllInv, PagesAgree, NEW d \in Conns, PageTakes(d)
  PROVE  PagesAgree'
<1> DEFINE m == Head(toPage[d])
<1>1. /\ m \in ToPage /\ toPage[d] # <<>> /\ toPage[d] \in Seq(ToPage)
      /\ m = toPage[d][1] /\ 1 \in DOMAIN toPage[d]
      /\ GetsReady(d, m) \/ GetsMoved(d, m) \/ GetsNothing(m)
      /\ UNCHANGED <<rooms, users, roomUser>>
      /\ toPage' = [toPage EXCEPT ![d] = Tail(@)]
  BY PageQueue DEF PageTakes, rmVars, onlineVars, roomVars, AllInv, NetTypeOK
<1>2. Messages(d)' = Elements(Tail(toPage[d]))
  BY <1>1 DEF Messages, Elements, AllInv, NetTypeOK
<1>3. Messages(d) = {m} \cup Messages(d)'
  BY <1>1, <1>2, MessagesAre, TailElements
<1>4. /\ Running(1)' <=> Running(1)
      /\ Occupied(1)' = Occupied(1)
      /\ \A c \in Conns : Plays(c, 1)' => Plays(c, 1)
      /\ \A c \in Conns \ {d} : page'[c] = page[c] /\ toPage'[c] = toPage[c]
  <2>1. (Running(1)' <=> Running(1)) /\ Occupied(1)' = Occupied(1)
    BY <1>1 DEF Running, Live, Occupied
  <2>2. \A c \in Conns \ {d} : page'[c] = page[c] /\ toPage'[c] = toPage[c]
    BY PageTakesOne DEF AllInv
  <2>3. Plays(d, 1)' => Plays(d, 1)
    BY PageTakesOne DEF AllInv
  <2>4. \A c \in Conns \ {d} : Plays(c, 1)' => Plays(c, 1)
    BY <1>1, <2>2 DEF Plays, Loaded, Messages, GetRoomByUid, Live
  <2> QED
    BY <2>1, <2>2, <2>3, <2>4
<1>5. ASSUME Running(1), Plays(d, 1)
      PROVE  Shows(d)' = Shows(d)
  <2>1. Shows(d) = Occupied(1)
    BY <1>5, PagesAgreeAs
  <2>2. roomUser[Owner[d]] = d /\ Loaded(d)
    BY <1>5, PlaysAs DEF AllInv
  <2>3. CASE m.type = "ready"
    <3>1. page'[d].marks = {} /\ page[d].marks = {}
      BY <1>1, <2>2, <2>3, GetsState DEF AllInv, Setting, Greeted
    <3>2. Moves(d)' = Moves(d)
      BY <1>3, <2>3 DEF Moves
    <3> QED
      BY <3>1, <3>2 DEF Shows
  <2>4. CASE m.type = "moved"
    <3>1. page'[d].marks = page[d].marks \cup ({m.cell} \ {NoCell})
      BY <1>1, <2>4, GetsState DEF AllInv
    <3>2. Moves(d) = {m} \cup Moves(d)'
      BY <1>3, <2>4 DEF Moves
    <3>3. m.cell \in Cells
      BY <2>1, <3>2 DEF Shows, Occupied
    <3> QED
      BY <3>1, <3>2, <3>3, PagesAssumption DEF Shows
  <2>5. CASE m.type \in {"refused", "null"}
    <3>1. page'[d] = page[d]
      BY <1>1, <2>5, GetsState DEF AllInv
    <3>2. Moves(d)' = Moves(d)
      BY <1>3, <2>5 DEF Moves
    <3> QED
      BY <3>1, <3>2 DEF Shows
  <2> QED
    BY <1>1, <2>3, <2>4, <2>5 DEF ToPage
<1>6. \A c \in Conns \ {d} : Shows(c)' = Shows(c)
  BY <1>4 DEF Shows, Moves, Messages
<1> QED
  BY <1>4, <1>5, <1>6, PagesAgreeAs, OneRid DEF PagesAgree, Shows, Occupied

(* ... an answer reaches whoever plays, ...                                *)
LEMMA BroadcastAgrees ==
  ASSUME MaxRooms = 1, AllInv, UNCHANGED <<page, users, roomUser>>,
         NEW m \in ToPage, m.type # "ready", Broadcast(room1, roomUser, m),
         \A u \in Uids : GetRoomByUid(u)' = GetRoomByUid(u),
         NEW c \in Conns, Plays(c, 1)'
  PROVE  Plays(c, 1) /\ Messages(c)' = Messages(c) \cup {m}
<1>1. /\ Messages(c) \subseteq Messages(c)'
      /\ Messages(c)' \subseteq Messages(c) \cup {m}
      /\ Loaded(c) /\ (\E u \in Players(room1) : roomUser[u] = c) =>
           Messages(c)' = Messages(c) \cup {m}
  BY BroadcastMessages DEF AllInv
<1>2. Plays(c, 1)
  BY <1>1, OwnerType DEF Plays, Loaded
<1> QED
  BY <1>1, <1>2, PlaysAs DEF AllInv

(* ... so a new stone is on its way to both, ...                           *)
LEMMA PutAgrees ==
  ASSUME MaxRooms = 1, AllInv, PagesAgree, NEW d \in Conns, NEW cell \in Cells,
         toServer[d] # <<>>, toServer' = [toServer EXCEPT ![d] = Tail(@)],
         UNCHANGED <<page, doubled>>, PutChanges(Owner[d], cell)
  PROVE  PagesAgree'
<1> DEFINE uid == Owner[d]
<1>1. SUFFICES ASSUME Running(1)', NEW c \in Conns, Plays(c, 1)'
               PROVE  Shows(c)' = Occupied(1)'
  BY OneRid DEF PagesAgree, Shows, Occupied
<1>2. /\ Running(1) /\ room1' = Placed(1, uid, cell)
      /\ GetRoomByUid(uid) = 1 /\ room1 \in Rooms(Uids)
  BY <1>1, PutSetting
<1>3. UNCHANGED <<users, roomUser>> /\ Live(1) /\ Live(1)'
  BY <1>1, <1>2 DEF PutChanges, onlineVars, Running
<1>4. PICK winner \in Uids \cup {Nobody} :
        Broadcast(room1, roomUser, Moved(uid, cell, winner))
  BY <1>2 DEF PutChanges, room1
<1> DEFINE m == Moved(uid, cell, winner)
<1>5. m \in ToPage /\ m.type = "moved" /\ m.cell = cell
  BY OwnerType, MessageTypes DEF Moved
<1>6. \A u \in Uids : GetRoomByUid(u)' = GetRoomByUid(u)
  <2>1. \A u \in Uids : users[u] # NoRid => users[u] = 1
    BY OneRid DEF AllInv, RmInv, RmTypeOK, RoomTypeOK
  <2> QED
    BY <1>3, <2>1 DEF GetRoomByUid
<1>7. Plays(c, 1) /\ Messages(c)' = Messages(c) \cup {m}
  BY <1>1, <1>3, <1>4, <1>5, <1>6, BroadcastAgrees
<1>8. Moves(c)' = Moves(c) \cup {m} /\ page'[c].marks = page[c].marks
  BY <1>5, <1>7 DEF Moves
<1>9. Occupied(1)' = Occupied(1) \cup {cell}
  BY <1>2 DEF Occupied, Placed, ColorOf, room1, Rooms, WHITE_CHESS, BLACK_CHESS, NoChess
<1>10. Shows(c)' = Shows(c) \cup {cell}
  BY <1>5, <1>8 DEF Shows
<1> QED
  BY <1>2, <1>7, <1>9, <1>10, PagesAgreeAs

(* ... a refusal puts no stone on its way, ...                             *)
LEMMA NothingAgrees ==
  ASSUME MaxRooms = 1, AllInv, PagesAgree, UNCHANGED <<page, rmVars>>,
         \/ UNCHANGED toPage
         \/ \E room \in Rooms(Uids) : Broadcast(room, roomUser, Refused)
  PROVE  PagesAgree'
<1>1. /\ UNCHANGED <<rooms, users, roomUser>>
      /\ Occupied(1)' = Occupied(1) /\ (Running(1)' <=> Running(1))
      /\ \A u : GetRoomByUid(u)' = GetRoomByUid(u)
  BY DEF rmVars, onlineVars, roomVars, Occupied, Running, Live, GetRoomByUid
<1>2. Refused \in ToPage /\ Refused.type = "refused"
  BY MessageTypes DEF Refused
<1>3. ASSUME NEW c \in Conns
      PROVE  /\ Messages(c) \subseteq Messages(c)'
             /\ Messages(c)' \subseteq Messages(c) \cup {Refused}
  <2>1. CASE UNCHANGED toPage
    BY <2>1 DEF Messages
  <2>2. CASE \E room \in Rooms(Uids) : Broadcast(room, roomUser, Refused)
    BY <1>2, <2>2, BroadcastMessages DEF AllInv
  <2> QED
    BY <2>1, <2>2
<1>4. ASSUME NEW c \in Conns, Plays(c, 1)'
      PROVE  Plays(c, 1) /\ Shows(c)' = Shows(c)
  <2>1. Moves(c)' = Moves(c)
    BY <1>2, <1>3 DEF Moves
  <2>2. Plays(c, 1)
    BY <1>1, <1>2, <1>3, <1>4 DEF Plays, Loaded
  <2> QED
    BY <2>1, <2>2 DEF Shows
<1> QED
  BY <1>1, <1>4, PagesAgreeAs, OneRid DEF PagesAgree, Shows, Occupied

(* ... and a close leaves stones and pages alone.                          *)
LEMMA CloseAgrees ==
  ASSUME MaxRooms = 1, AllInv, PagesAgree, NEW d \in Conns, WsCloseRoom(d),
         toServer[d] # <<>>, toServer' = [toServer EXCEPT ![d] = Tail(@)],
         UNCHANGED <<page, doubled>>
  PROVE  PagesAgree'
<1> SUFFICES ASSUME Running(1)', NEW c \in Conns, Plays(c, 1)'
             PROVE  Shows(c)' = Occupied(1)'
  BY OneRid DEF PagesAgree, Shows, Occupied
<1>1. Running(1) /\ UNCHANGED <<rooms, users, toPage>>
  BY CloseSetting
<1>2. roomUser' = [roomUser EXCEPT ![Owner[d]] = NoConn]
  BY CloseEffect DEF AllInv
<1>3. roomUser[Owner[c]] = c
  BY <1>2, OwnerType, NoConnAssumption
  DEF Plays, AllInv, RmInv, RmTypeOK, OnlineTypeOK, Registry
<1>4. Plays(c, 1)
  BY <1>1, <1>3 DEF Plays, Loaded, Messages, GetRoomByUid, Live
<1>5. Shows(c)' = Shows(c) /\ Occupied(1)' = Occupied(1)
  BY <1>1 DEF Shows, Occupied, Moves, Messages
<1> QED
  BY <1>1, <1>4, <1>5, PagesAgreeAs

(* Every step keeps the boards alike.                                      *)
LEMMA PagesAgreeNext ==
  ASSUME MaxRooms = 1, AllInv, PagesAgree, [GpNext]_gpVars
  PROVE  PagesAgree'
<1>1. CASE UNCHANGED gpVars
  BY <1>1, NothingAgrees DEF gpVars, pageVars, netVars, histVars
<1>2. ASSUME NEW d \in Conns, ServerTakes(d)
      PROVE  PagesAgree'
  <2> DEFINE m == Head(toServer[d])
  <2>1. /\ m \in ToServer /\ UNCHANGED <<page, doubled>>
        /\ toServer[d] # <<>> /\ toServer' = [toServer EXCEPT ![d] = Tail(@)]
    BY <1>2, ServerQueue DEF ServerTakes, AllInv
  <2>2. CASE m.type = "put" /\ WsMsgRoom(d, m)
    <3>1. m.cell \in Cells
      BY <2>1, <2>2 DEF ToServer
    <3>2. PutChanges(Owner[d], m.cell) \/ PutChangesNothing
      BY <2>1, <2>2, PutEffect DEF AllInv
    <3> QED
      BY <2>1, <3>1, <3>2, PutAgrees, NothingAgrees DEF PutChangesNothing
  <2>3. CASE WsCloseRoom(d)
    BY <2>1, <2>3, CloseAgrees
  <2>4. CASE NoSession(d, m)
    BY <2>1, <2>4, NothingAgrees DEF NoSession
  <2> QED
    BY <1>2, <2>2, <2>3, <2>4 DEF ServerTakes
<1>3. ASSUME NEW d \in Conns, NEW cell \in Cells, Click(d, cell)
      PROVE  PagesAgree'
  BY <1>3, BrowserAgrees
<1>4. ASSUME NEW d \in Conns, Open(d) \/ PageTakes(d)
      PROVE  PagesAgree'
  BY <1>4, OpenAgrees, PageTakesAgrees
<1>5. ASSUME NEW d \in Conns, Leave(d) \/ OpenUnheard(d)
      PROVE  PagesAgree'
  BY <1>5, BrowserAgrees
<1>6. ASSUME NEW d \in Conns, OpenRoomless(d)
      PROVE  PagesAgree'
  BY <1>6, NothingAgrees DEF OpenRoomless, netVars, histVars
<1> QED
  BY <1>1, <1>2, <1>3, <1>4, <1>5, <1>6, MatchAgrees DEF GpNext

(* At first there is no game.                                              *)
LEMMA SettingInit == MaxRooms = 1 /\ GpInit => Swallowed /\ Setting /\ PagesAgree
<1> SUFFICES ASSUME MaxRooms = 1, GpInit
             PROVE  Swallowed /\ Setting /\ PagesAgree
  OBVIOUS
<1>1. \A c \in Conns : page[c] = NewPage /\ toServer[c] = <<>> /\ toPage[c] = <<>>
  BY DEF GpInit
<1>2. \A u \in Uids : ~InRoom(u)
  BY DEF GpInit, RmInit, OnlineInit, InRoom
<1>3. \A r : ~(r \in Rids /\ Live(r))
  BY DEF GpInit, RmInit, RoomInit, Live
<1>4. \A c \in Conns : ~Loaded(c)
  BY <1>1 DEF NewPage, Loaded
<1>5. Greeted /\ Swallowed
  BY <1>1, <1>4 DEF Greeted, Swallowed
<1>6. NobodyYet /\ Unopened /\ Owned
  <2>1. NewPage.st = "none" /\ ~NewPage.isMe
    BY DEF NewPage
  <2>2. \A c \in Conns : page[c].st = "none" /\ Apart(c)
    BY <1>1, <1>4, <2>1 DEF Apart
  <2> QED
    BY <1>1, <1>2, <2>2 DEF NobodyYet, Unopened, Owned
<1>7. PagesAgree
  BY <1>3 DEF PagesAgree, Running
<1>8. Game1
  BY <1>3, OneRid DEF Game1, Running
<1> QED
  BY <1>5, <1>6, <1>7, <1>8 DEF Setting

(* The invariant of the game between the pages of one room.                *)
THEOREM OneRoomInvariant == MaxRooms = 1 => (GpSpec => []AllInv)
<1> SUFFICES ASSUME MaxRooms = 1
             PROVE  GpSpec => []AllInv
  OBVIOUS
<1>1. GpInit => Swallowed /\ Setting
  BY SettingInit
<1>2. AllInv /\ [GpNext]_gpVars => Swallowed' /\ Setting'
  BY SwallowedNext, SettingNext DEF AllInv
<1>3. AllInv <=> NetTypeOK /\ RmInv /\ Swallowed /\ Setting
  BY DEF AllInv
<1> QED
  BY <1>1, <1>2, <1>3, PagesInvariant, PTL DEF GpSpec

(* In one room, on any board and with any players and pages: the page of a *)
(* player shows the stones that the server has, but for what is under way. *)
THEOREM PagesAlwaysAgree == MaxRooms = 1 => (GpSpec => []PagesAgree)
<1> SUFFICES ASSUME MaxRooms = 1
             PROVE  GpSpec => []PagesAgree
  OBVIOUS
<1>1. GpInit => PagesAgree
  BY SettingInit
<1>2. AllInv /\ PagesAgree /\ [GpNext]_gpVars => PagesAgree'
  BY PagesAgreeNext
<1> QED
  BY <1>1, <1>2, OneRoomInvariant, PTL DEF GpSpec

-----------------------------------------------------------------------------
(* The turn.  A player may be about to move because his page takes it for  *)
(* his turn, because it has sent a move, or because a message under way    *)
(* will give it the turn.  What names no room does not count: the server   *)
(* refuses the moves of a page that has only been told it is there twice.  *)
Gives(m, u) == \/ m.type = "ready" /\ m.white /\ m.rid # NoRid
               \/ m.type = "moved" /\ m.uid # u

Moving(m) == m.type = "put" /\ m.rid # NoRid

Has(c)   == page[c].isMe /\ page[c].rid # NoRid
Puts(c)  == {i \in DOMAIN toServer[c] : Moving(toServer[c][i])}
Gifts(c) == {i \in DOMAIN toPage[c] : Gives(toPage[c][i], Owner[c])}

(* The turn is not there at all; or once.                                  *)
Quiet(c) == ~Has(c) /\ Puts(c) = {} /\ Gifts(c) = {}

OneTurn(c) ==
  /\ Has(c) => Puts(c) = {} /\ Gifts(c) = {}
  /\ Puts(c) # {} => Gifts(c) = {}
  /\ \A i, j \in Puts(c) : i = j
  /\ \A i, j \in Gifts(c) : i = j

Fair == Running(1) /\ Players(room1) \cap doubled = {}

Whites == Cardinality(StonesOf(1, WHITE_CHESS))
Blacks == Cardinality(StonesOf(1, BLACK_CHESS))

(* It is the turn of p, and of nobody else.                                *)
TurnOf(p) ==
  /\ \/ p = room1.white /\ Whites = Blacks
     \/ p = room1.black /\ Whites = Blacks + 1
  /\ \A c \in Conns : Owner[c] = p => OneTurn(c)
  /\ \A c \in Conns : Owner[c] \in Players(room1) /\ Owner[c] # p => Quiet(c)

Turns == Fair => \E p \in Players(room1) : TurnOf(p)

(* What is taken from a queue, and what is put into it.                    *)
LEMMA TakenPuts ==
  ASSUME NetTypeOK, NEW d \in Conns, toServer[d] # <<>>,
         toServer' = [toServer EXCEPT ![d] = Tail(@)]
  PROVE  /\ \A i \in Puts(d)' : i \in Nat \ {0} /\ i + 1 \in Puts(d)
         /\ Moving(Head(toServer[d])) => 1 \in Puts(d)
         /\ \A c \in Conns \ {d} : Puts(c)' = Puts(c)
<1>1. toServer[d] \in Seq(ToServer) /\ toServer'[d] = Tail(toServer[d])
  BY DEF NetTypeOK
<1>2. 1 \in DOMAIN toServer[d] /\ Head(toServer[d]) = toServer[d][1]
  BY <1>1, EmptySeq
<1>3. \A i \in Puts(d)' : i \in Nat \ {0} /\ i + 1 \in Puts(d)
  BY <1>1, TailIndices DEF Puts
<1>4. \A c \in Conns \ {d} : Puts(c)' = Puts(c)
  BY DEF Puts, NetTypeOK
<1> QED
  BY <1>2, <1>3, <1>4 DEF Puts

(* A page that takes a message has its turns one place further up.         *)
LEMMA TakenGifts ==
  ASSUME NetTypeOK, NEW d \in Conns, toPage[d] # <<>>,
         toPage' = [toPage EXCEPT ![d] = Tail(@)]
  PROVE  /\ \A i \in Gifts(d)' : i \in Nat \ {0} /\ i + 1 \in Gifts(d)
         /\ Gives(Head(toPage[d]), Owner[d]) => 1 \in Gifts(d)
         /\ \A c \in Conns \ {d} : Gifts(c)' = Gifts(c)
<1>1. toPage[d] \in Seq(ToPage) /\ toPage'[d] = Tail(toPage[d])
  BY DEF NetTypeOK
<1>2. 1 \in DOMAIN toPage[d] /\ Head(toPage[d]) = toPage[d][1]
  BY <1>1, EmptySeq
<1>3. \A i \in Gifts(d)' : i \in Nat \ {0} /\ i + 1 \in Gifts(d)
  BY <1>1, TailIndices DEF Gifts
<1>4. \A c \in Conns \ {d} : Gifts(c)' = Gifts(c)
  BY DEF Gifts, NetTypeOK
<1> QED
  BY <1>2, <1>3, <1>4 DEF Gifts

(* A message to the server adds at most one move to those on the way.      *)
LEMMA SentPuts ==
  ASSUME NetTypeOK, NEW d \in Conns, NEW m \in ToServer,
         toServer' = [toServer EXCEPT ![d] = Append(@, m)]
  PROVE  /\ ~Moving(m) => Puts(d)' = Puts(d)
         /\ \A i, j \in Puts(d)' : i = j \/ i \in Puts(d) \/ j \in Puts(d)
         /\ \A c \in Conns \ {d} : Puts(c)' = Puts(c)
<1>1. toServer[d] \in Seq(ToServer) /\ toServer'[d] = Append(toServer[d], m)
  BY DEF NetTypeOK
<1>2. /\ Len(toServer[d]) \in Nat /\ DOMAIN toServer[d] = 1 .. Len(toServer[d])
      /\ DOMAIN toServer'[d] = 1 .. Len(toServer[d]) + 1
      /\ toServer'[d][Len(toServer[d]) + 1] = m
      /\ \A i \in DOMAIN toServer[d] : toServer'[d][i] = toServer[d][i]
  BY <1>1
<1>3. \A i \in Puts(d)' : \/ i \in Puts(d)
                          \/ i = Len(toServer[d]) + 1 /\ Moving(m)
  BY <1>2 DEF Puts
<1>4. Puts(d) \subseteq Puts(d)'
  BY <1>2 DEF Puts
<1>5. \A c \in Conns \ {d} : Puts(c)' = Puts(c)
  BY DEF Puts, NetTypeOK
<1> QED
  BY <1>3, <1>4, <1>5

(* An answer adds at most one turn to those on the way to a page.          *)
LEMMA SentGifts ==
  ASSUME NetTypeOK, NEW room, NEW registry, NEW m \in ToPage,
         Broadcast(room, registry, m), NEW c \in Conns
  PROVE  /\ ~Gives(m, Owner[c]) => Gifts(c)' = Gifts(c)
         /\ \A i, j \in Gifts(c)' : i = j \/ i \in Gifts(c) \/ j \in Gifts(c)
         /\ ~Loaded(c) => Gifts(c)' = Gifts(c)
<1>1. CASE toPage'[c] = toPage[c]
  BY <1>1 DEF Gifts
<1>2. CASE toPage'[c] # toPage[c]
  <2>1. /\ Loaded(c)
        /\ Len(toPage[c]) \in Nat /\ DOMAIN toPage[c] = 1 .. Len(toPage[c])
        /\ DOMAIN toPage'[c] = 1 .. Len(toPage[c]) + 1
        /\ toPage'[c][Len(toPage[c]) + 1] = m
        /\ \A i \in DOMAIN toPage[c] : toPage'[c][i] = toPage[c][i]
    BY <1>2, BroadcastQueue
  <2>2. \A i \in Gifts(c)' : \/ i \in Gifts(c)
                             \/ i = Len(toPage[c]) + 1 /\ Gives(m, Owner[c])
    BY <2>1 DEF Gifts
  <2>3. Gifts(c) \subseteq Gifts(c)'
    BY <2>1 DEF Gifts
  <2> QED
    BY <2>1, <2>2, <2>3
<1> QED
  BY <1>1, <1>2

(* How many stones there are.                                              *)
LEMMA CountStones ==
  /\ \A color : IsFiniteSet(StonesOf(1, color)) /\ Cardinality(StonesOf(1, color)) \in Nat
  /\ \A color : StonesOf(1, color) = {} => Cardinality(StonesOf(1, color)) = 0
<1>1. IsFiniteSet(Cells)
  <2>1. BOARD_ROW - 1 \in Int /\ BOARD_COL - 1 \in Int
    BY BoardAssumption
  <2>2. IsFiniteSet(0 .. BOARD_ROW - 1) /\ IsFiniteSet(0 .. BOARD_COL - 1)
    BY <2>1, FS_Interval
  <2> QED
    BY <2>2, FS_Product DEF Cells
<1>2. ASSUME NEW color
      PROVE  IsFiniteSet(StonesOf(1, color))
  <2>1. StonesOf(1, color) \in SUBSET Cells
    BY DEF StonesOf
  <2> QED
    BY <1>1, <2>1, FS_Subset
<1> QED
  BY <1>2, FS_CardinalityType, FS_EmptySet

(* A stone placed is one more of its color, and none of another.           *)
LEMMA StoneAdded ==
  ASSUME rooms[1] \in Rooms(Uids), NEW cell \in Cells, rooms[1].board[cell] = NoChess,
         NEW color, NEW other, color # NoChess, other \notin {color, NoChess},
         rooms'[1] = [rooms[1] EXCEPT !.board[cell] = color]
  PROVE  /\ Cardinality(StonesOf(1, color))' = Cardinality(StonesOf(1, color)) + 1
         /\ Cardinality(StonesOf(1, other))' = Cardinality(StonesOf(1, other))
<1>1. /\ rooms'[1].board[cell] = color
      /\ \A x \in Cells \ {cell} : rooms'[1].board[x] = rooms[1].board[x]
  BY DEF Rooms
<1>2. /\ cell \notin StonesOf(1, color)
      /\ StonesOf(1, color)' = StonesOf(1, color) \cup {cell}
  BY <1>1 DEF StonesOf
<1>3. StonesOf(1, other)' = StonesOf(1, other)
  BY <1>1 DEF StonesOf
<1> QED
  BY <1>2, <1>3, CountStones, FS_AddElement

(* So a move counts for the color of who makes it.                         *)
LEMMA OneMoreStone ==
  ASSUME room1 \in Rooms(Uids), NEW uid, NEW cell \in Cells, room1.board[cell] = NoChess,
         room1' = Placed(1, uid, cell)
  PROVE  /\ uid = room1.white => Whites' = Whites + 1 /\ Blacks' = Blacks
         /\ uid # room1.white => Whites' = Whites /\ Blacks' = Blacks + 1
<1>1. /\ rooms[1] \in Rooms(Uids) /\ rooms[1].board[cell] = NoChess
      /\ uid = room1.white => rooms'[1] = [rooms[1] EXCEPT !.board[cell] = WHITE_CHESS]
      /\ uid # room1.white => rooms'[1] = [rooms[1] EXCEPT !.board[cell] = BLACK_CHESS]
  BY DEF room1, Placed, ColorOf
<1>2. /\ WHITE_CHESS # NoChess /\ BLACK_CHESS # NoChess
      /\ BLACK_CHESS # WHITE_CHESS
  BY DEF WHITE_CHESS, BLACK_CHESS, NoChess
<1> QED
  BY <1>1, <1>2, StoneAdded DEF Whites, Blacks

(* A step that puts no stone and gives nobody a turn that was not there.   *)
LEMMA TurnsKept ==
  ASSUME Turns, Fair' => Fair, Fair' => UNCHANGED rooms,
         Fair' => \A c \in Conns : /\ Quiet(c) => Quiet(c)'
                                   /\ OneTurn(c) => OneTurn(c)'
  PROVE  Turns'
<1> SUFFICES ASSUME Fair'
             PROVE  (\E p \in Players(room1) : TurnOf(p))'
  BY DEF Turns
<1>1. Fair /\ rooms' = rooms
  OBVIOUS
<1>2. room1' = room1 /\ Players(room1)' = Players(room1) /\ Whites' = Whites /\ Blacks' = Blacks
  BY <1>1 DEF room1, Players, Whites, Blacks, StonesOf
<1>3. PICK p \in Players(room1) : TurnOf(p)
  BY <1>1 DEF Turns
<1>4. TurnOf(p)'
  BY <1>2, <1>3 DEF TurnOf
<1> QED
  BY <1>2, <1>4

(* No sign of a turn is at most one.                                       *)
LEMMA QuietIsOne == \A c : Quiet(c) => OneTurn(c)
  BY DEF Quiet, OneTurn

(* The turns, step by step: a click makes a move of the flag, ...          *)
LEMMA ClickTurns ==
  ASSUME AllInv, Turns, NEW d \in Conns, NEW cell \in Cells, Click(d, cell)
  PROVE  Turns'
<1>1. /\ UNCHANGED <<rooms, toPage, doubled>>
      /\ page[d].isMe
      /\ page' = [page EXCEPT ![d].isMe = FALSE]
      /\ toServer' = [toServer EXCEPT ![d] = Append(@, Put(page[d].rid, cell))]
      /\ page \in [Conns -> Pages]
  BY DEF Click, histVars, rmVars, roomVars, AllInv, NetTypeOK
<1>2. ~Has(d)' /\ \A c \in Conns \ {d} : page'[c] = page[c]
  BY <1>1 DEF Pages, Has
<1>3. Put(page[d].rid, cell) \in ToServer
  BY <1>1, MessageTypes DEF Pages
<1>4. /\ \A i, j \in Puts(d)' : i = j \/ i \in Puts(d) \/ j \in Puts(d)
      /\ ~Has(d) => Puts(d)' = Puts(d)
      /\ \A c \in Conns \ {d} : Puts(c)' = Puts(c)
  <2>1. ~Has(d) => ~Moving(Put(page[d].rid, cell))
    BY <1>1 DEF Has, Moving, Put
  <2> QED
    BY <1>1, <1>3, <2>1, SentPuts DEF AllInv
<1>5. \A c \in Conns : Gifts(c)' = Gifts(c)
  BY <1>1 DEF Gifts
<1>6. \A c \in Conns : (Quiet(c) => Quiet(c)') /\ (OneTurn(c) => OneTurn(c)')
  <2>1. \A c \in Conns \ {d} : Has(c)' <=> Has(c)
    BY <1>2 DEF Has
  <2> QED
    BY <1>2, <1>4, <1>5, <2>1 DEF Quiet, OneTurn
<1>7. Fair' <=> Fair
  BY <1>1 DEF Fair, Running, Live, room1, Players
<1> QED
  BY <1>1, <1>6, <1>7, TurnsKept

(* ... the end of a page takes what was there, ...                         *)
LEMMA LeaveTurns ==
  ASSUME AllInv, Turns, NEW d \in Conns, Leave(d)
  PROVE  Turns'
<1>1. /\ UNCHANGED <<rooms, doubled>>
      /\ page' = [page EXCEPT ![d] = [NewPage EXCEPT !.st = "closed"]]
      /\ toServer' = [toServer EXCEPT ![d] = Append(@, CloseFrame)]
      /\ toPage' = [toPage EXCEPT ![d] = <<>>]
      /\ page \in [Conns -> Pages] /\ toPage \in [Conns -> Seq(ToPage)]
  BY DEF Leave, rmVars, roomVars, AllInv, NetTypeOK
<1>2. \A c \in Conns : Has(c)' => Has(c)
  BY <1>1 DEF NewPage, Has
<1>3. CloseFrame \in ToServer /\ ~Moving(CloseFrame)
  BY MessageTypes DEF CloseFrame, Moving
<1>4. \A c \in Conns : Puts(c)' = Puts(c)
  BY <1>1, <1>3, SentPuts DEF AllInv
<1>5. \A c \in Conns : Gifts(c)' \subseteq Gifts(c)
  BY <1>1 DEF Gifts
<1>6. \A c \in Conns : (Quiet(c) => Quiet(c)') /\ (OneTurn(c) => OneTurn(c)')
  BY <1>2, <1>4, <1>5 DEF Quiet, OneTurn
<1>7. Fair' <=> Fair
  BY <1>1 DEF Fair, Running, Live, room1, Players
<1> QED
  BY <1>1, <1>6, <1>7, TurnsKept

(* ... a page that the server does not hear of gets none, ...              *)
LEMMA OpenUnheardTurns ==
  ASSUME AllInv, Turns, NEW d \in Conns, OpenUnheard(d)
  PROVE  Turns'
<1>1. /\ UNCHANGED <<rooms, doubled, toServer, toPage>>
      /\ page' = [page EXCEPT ![d].st = "mute"] /\ page \in [Conns -> Pages]
  BY DEF OpenUnheard, netVars, histVars, rmVars, roomVars, AllInv, NetTypeOK
<1>2. \A c \in Conns : Has(c)' <=> Has(c)
  BY <1>1 DEF Has, Pages
<1>3. \A c \in Conns : (Quiet(c) => Quiet(c)') /\ (OneTurn(c) => OneTurn(c)')
  BY <1>1, <1>2 DEF Quiet, OneTurn, Puts, Gifts
<1>4. Fair' <=> Fair
  BY <1>1 DEF Fair, Running, Live, room1, Players
<1> QED
  BY <1>1, <1>3, <1>4, TurnsKept

(* ... a page makes a flag of the answer, ...                              *)
LEMMA PageTakesTurns ==
  ASSUME AllInv, Turns, NEW d \in Conns, PageTakes(d)
  PROVE  Turns'
<1> DEFINE m == Head(toPage[d])
<1>1. /\ m \in ToPage /\ toPage[d] # <<>>
      /\ GetsReady(d, m) \/ GetsMoved(d, m) \/ GetsNothing(m)
      /\ UNCHANGED <<rooms, doubled, toServer>>
      /\ toPage' = [toPage EXCEPT ![d] = Tail(@)]
  BY PageQueue DEF PageTakes, histVars, rmVars, roomVars, AllInv
<1>2. /\ \A c \in Conns \ {d} : page'[c] = page[c]
      /\ Has(d)' => Has(d) \/ Gives(m, Owner[d])
  <2>1. m.type \in {"ready", "moved", "refused", "null"}
    BY <1>1 DEF ToPage
  <2> QED
    BY <1>1, <2>1, GetsState DEF Gives, Has, AllInv
<1>3. /\ \A i \in Gifts(d)' : i \in Nat \ {0} /\ i + 1 \in Gifts(d)
      /\ Gives(m, Owner[d]) => 1 \in Gifts(d)
      /\ \A c \in Conns \ {d} : Gifts(c)' = Gifts(c)
  BY <1>1, TakenGifts DEF AllInv
<1>4. \A c \in Conns : Puts(c)' = Puts(c)
  BY <1>1 DEF Puts
<1>5. Quiet(d) => Quiet(d)'
  BY <1>2, <1>3, <1>4 DEF Quiet
<1>6. OneTurn(d) => OneTurn(d)'
  <2> SUFFICES ASSUME OneTurn(d)
               PROVE  OneTurn(d)'
    OBVIOUS
  <2>1. \A i, j \in Gifts(d)' : i = j
    BY <1>3 DEF OneTurn
  <2>2. 1 \in Gifts(d) => Gifts(d)' = {}
    BY <1>3 DEF OneTurn
  <2>3. Gifts(d) = {} => Gifts(d)' = {}
    BY <1>3
  <2>4. CASE Gives(m, Owner[d])
    BY <1>3, <1>4, <2>1, <2>2, <2>4 DEF OneTurn
  <2>5. CASE ~Gives(m, Owner[d])
    BY <1>2, <1>4, <2>1, <2>3, <2>5 DEF OneTurn
  <2> QED
    BY <2>4, <2>5
<1>7. \A c \in Conns : (Quiet(c) => Quiet(c)') /\ (OneTurn(c) => OneTurn(c)')
  <2>1. \A c \in Conns \ {d} : Has(c)' <=> Has(c)
    BY <1>2 DEF Has
  <2> QED
    BY <1>3, <1>4, <1>5, <1>6, <2>1 DEF Quiet, OneTurn
<1>8. Fair' <=> Fair
  BY <1>1 DEF Fair, Running, Live, room1, Players
<1> QED
  BY <1>1, <1>7, <1>8, TurnsKept

(* On a bare board it is white's turn.                                     *)
LEMMA BareBoard ==
  (\A cell \in Cells : room1.board[cell] = NoChess) => Whites = 0 /\ Blacks = 0
<1> SUFFICES ASSUME \A cell \in Cells : room1.board[cell] = NoChess
             PROVE  Whites = 0 /\ Blacks = 0
  OBVIOUS
<1>1. StonesOf(1, WHITE_CHESS) = {} /\ StonesOf(1, BLACK_CHESS) = {}
  BY DEF StonesOf, room1, WHITE_CHESS, BLACK_CHESS, NoChess
<1> QED
  BY <1>1, CountStones DEF Whites, Blacks

(* ... a page that takes no part has no turn, ...                          *)
LEMMA ApartIsQuiet ==
  ASSUME AllInv, NEW c \in Conns, Apart(c)
  PROVE  Quiet(c) /\ ~Loaded(c)
<1>1. ~Loaded(c) /\ toPage[c] = <<>> /\ ~Has(c)
  BY DEF Apart, AllInv, Swallowed, Has
<1>2. Puts(c) = {}
  BY DEF Apart, Puts, Moving
<1> QED
  BY <1>1, <1>2 DEF Quiet, Gifts

(* ... nor has one in a new room, ...                                      *)
LEMMA MatchTurns ==
  ASSUME MaxRooms = 1, AllInv, Match
  PROVE  Turns'
<1>1. PICK u, v \in Uids : u # v /\ CreateRoom(u, v)
  BY DEF Match
<1>2. nextRid = 1 /\ rooms' = [rooms EXCEPT ![nextRid] = NewRoom(u, v)]
  BY <1>1, OneRid DEF CreateRoom, InsertRoom
<1>3. UNCHANGED <<page, toPage, toServer>>
  BY DEF Match, pageVars, netVars, histVars
<1>4. room1' = NewRoom(u, v)
  BY <1>2, OneRid DEF room1, AllInv, RmInv, RmTypeOK, RoomTypeOK
<1>5. /\ \A cell \in Cells : room1'.board[cell] = NoChess
      /\ room1'.white \in Players(room1')
  BY <1>4 DEF NewRoom, Players
<1>6. Whites' = 0 /\ Blacks' = 0
  <2>1. ((\A cell \in Cells : room1.board[cell] = NoChess) => Whites = 0 /\ Blacks = 0)'
    BY BareBoard, PTL
  <2> QED
    BY <1>5, <2>1
<1>7. \A c \in Conns : Quiet(c)
  BY <1>2, ApartIsQuiet DEF AllInv, Setting, NobodyYet
<1>8. \A c \in Conns : Quiet(c)' /\ OneTurn(c)'
  <2>1. \A c \in Conns : Quiet(c)'
    BY <1>3, <1>7 DEF Quiet, Has, Puts, Gifts
  <2> QED
    BY <2>1 DEF Quiet, OneTurn
<1> QED
  BY <1>5, <1>6, <1>8 DEF Turns, TurnOf

(* ... the first room_ready gives the turn to white, ...                   *)
LEMMA OpenTurns ==
  ASSUME MaxRooms = 1, AllInv, Turns, NEW d \in Conns, Open(d)
  PROVE  Turns'
<1> DEFINE uid   == Owner[d]
           hello == Ready(1, uid = room1.white)
<1>1. SUFFICES ASSUME Fair'
               PROVE  (\E p \in Players(room1) : TurnOf(p))'
  BY DEF Turns
<1>2. /\ UNCHANGED <<rooms, toServer>>
      /\ page[d].st = "none"
      /\ page \in [Conns -> Pages] /\ toPage \in [Conns -> Seq(ToPage)]
      /\ page' = [page EXCEPT ![d].st = "open"]
      /\ uid \in Players(room1)
      /\ \A c \in Conns \ {d} : toPage'[c] = toPage[c]
      /\ toPage'[d] = <<hello>> \/ toPage'[d] = <<Ready(NoRid, TRUE), hello>>
      /\ ~InRoom(uid) => doubled' = doubled
      /\ InRoom(uid) => uid \in doubled'
  BY OneRid, OwnerType, FoundRoom
  DEF Open, OpenRoom, roomVars, AllInv, NetTypeOK, room1
<1>3. /\ room1' = room1 /\ Players(room1)' = Players(room1)
      /\ Whites' = Whites /\ Blacks' = Blacks /\ (Running(1)' <=> Running(1))
  BY <1>2 DEF room1, Players, Whites, Blacks, StonesOf, Running, Live
<1>4. ~InRoom(uid) /\ Fair
  BY <1>1, <1>2, <1>3 DEF Fair
<1>5. Whites = 0 /\ Blacks = 0
  BY <1>2, <1>4, BareBoard DEF Fair, AllInv, Setting, Game1
<1>6. PICK p \in Players(room1) : TurnOf(p)
  BY <1>4 DEF Turns
<1>7. p = room1.white
  BY <1>5, <1>6 DEF TurnOf
<1>8. page[d] = NewPage /\ toServer[d] = <<>>
  BY <1>2 DEF AllInv, Setting, Unopened
<1>9. ~Has(d)' /\ Puts(d)' = {} /\ \A c \in Conns \ {d} : page'[c] = page[c]
  BY <1>2, <1>8 DEF NewPage, Pages, Has, Puts
<1>10. /\ \A i, j \in Gifts(d)' : i = j
       /\ uid # room1.white => Gifts(d)' = {}
  <2>1. /\ Gives(hello, uid) => uid = room1.white
        /\ ~Gives(Ready(NoRid, TRUE), uid)
    BY DEF Gives, Ready
  <2> DEFINE told == Ready(NoRid, TRUE)
  <2> HIDE DEF hello, told
  <2>2. /\ DOMAIN <<hello>> = {1} /\ <<hello>>[1] = hello
        /\ DOMAIN <<told, hello>> = {1, 2}
        /\ <<told, hello>>[1] = told /\ <<told, hello>>[2] = hello
    BY Greetings
  <2>3. CASE toPage'[d] = <<hello>>
    BY <2>1, <2>2, <2>3 DEF Gifts
  <2>4. CASE toPage'[d] = <<told, hello>>
    <3>1. \A i \in Gifts(d)' : i = 2 /\ Gives(hello, uid)
      BY <2>1, <2>2, <2>4 DEF Gifts, told
    <3> QED
      BY <2>1, <3>1
  <2> QED
    BY <1>2, <2>3, <2>4 DEF told
<1>11. OneTurn(d)' /\ (uid # room1.white => Quiet(d)')
  BY <1>9, <1>10 DEF OneTurn, Quiet
<1>12. \A c \in Conns \ {d} : (Quiet(c) => Quiet(c)') /\ (OneTurn(c) => OneTurn(c)')
  BY <1>2, <1>9 DEF OneTurn, Quiet, Has, Puts, Gifts
<1>13. TurnOf(p)'
  BY <1>3, <1>6, <1>7, <1>11, <1>12 DEF TurnOf
<1> QED
  BY <1>3, <1>13

(* ... a refusal gives it to nobody, ...                                   *)
LEMMA NothingTurns ==
  ASSUME AllInv, Turns, UNCHANGED <<page, doubled, rooms>>,
         \/ UNCHANGED toServer
         \/ \E d \in Conns : toServer[d] # <<>> /\ toServer' = [toServer EXCEPT ![d] = Tail(@)],
         \/ UNCHANGED toPage
         \/ \E room \in Rooms(Uids) : Broadcast(room, roomUser, Refused)
  PROVE  Turns'
<1>1. \A c \in Conns : Gifts(c)' = Gifts(c)
  <2>1. Refused \in ToPage /\ \A u : ~Gives(Refused, u)
    BY MessageTypes DEF Refused, Gives
  <2>2. CASE UNCHANGED toPage
    BY <2>2 DEF Gifts
  <2> QED
    BY <2>1, <2>2, SentGifts DEF AllInv
<1>2. \A c \in Conns : \/ Puts(c)' = Puts(c)
                       \/ \A i \in Puts(c)' : i \in Nat \ {0} /\ i + 1 \in Puts(c)
  <2>1. CASE UNCHANGED toServer
    BY <2>1 DEF Puts
  <2> QED
    BY <2>1, TakenPuts DEF AllInv
<1>3. \A c \in Conns : (Quiet(c) => Quiet(c)') /\ (OneTurn(c) => OneTurn(c)')
  BY <1>1, <1>2 DEF Quiet, Has, OneTurn
<1>4. Fair' <=> Fair
  BY DEF Fair, Running, Live, room1, Players
<1> QED
  BY <1>3, <1>4, TurnsKept

(* ... and a close ends the game or leaves the turn.                       *)
LEMMA CloseTurns ==
  ASSUME MaxRooms = 1, AllInv, Turns, NEW d \in Conns, WsCloseRoom(d),
         toServer[d] # <<>>, toServer' = [toServer EXCEPT ![d] = Tail(@)],
         UNCHANGED <<page, doubled>>
  PROVE  Turns'
<1>1. Running(1)' => Running(1) /\ UNCHANGED <<rooms, users, toPage>>
  BY CloseSetting
<1>2. CASE Running(1)'
  BY <1>1, <1>2, NothingTurns
<1>3. CASE ~Running(1)'
  BY <1>3 DEF Turns, Fair
<1> QED
  BY <1>2, <1>3

(* A move: who makes it had the turn, and gives it to the other one.       *)
LEMMA PutTurns ==
  ASSUME MaxRooms = 1, AllInv, Turns, NEW d \in Conns, NEW cell \in Cells,
         toServer[d] # <<>>, toServer' = [toServer EXCEPT ![d] = Tail(@)],
         Moving(Head(toServer[d])),
         UNCHANGED <<page, doubled>>, PutChanges(Owner[d], cell)
  PROVE  Turns'
<1> DEFINE uid   == Owner[d]
           other == Opponent(room1, uid)
<1>1. SUFFICES ASSUME Fair'
               PROVE  (\E p \in Players(room1) : TurnOf(p))'
  BY DEF Turns
<1>2. /\ Running(1) /\ room1' = Placed(1, uid, cell)
      /\ GetRoomByUid(uid) = 1 /\ room1 \in Rooms(Uids)
      /\ room1.board[cell] = NoChess
  BY <1>1, PutSetting DEF Fair
<1>3. /\ room1'.white = room1.white /\ room1'.black = room1.black
      /\ Players(room1)' = Players(room1)
  BY <1>2 DEF Placed, Rooms, room1, Players
<1>4. /\ Fair /\ uid \in Players(room1) /\ uid \notin doubled
      /\ room1.white # room1.black
  BY <1>1, <1>2, <1>3, OneRid, OwnerType, FoundRoom
  DEF Fair, AllInv, Setting, Game1, room1
<1>5. PICK p \in Players(room1) : TurnOf(p)
  BY <1>4 DEF Turns
<1>6. /\ \A i \in Puts(d)' : i \in Nat \ {0} /\ i + 1 \in Puts(d)
      /\ 1 \in Puts(d)
      /\ \A c \in Conns \ {d} : Puts(c)' = Puts(c)
  BY TakenPuts DEF AllInv
<1>7. p = uid /\ OneTurn(d)
  BY <1>4, <1>5, <1>6 DEF TurnOf, Quiet
<1>8. ~Has(d) /\ Gifts(d) = {} /\ Puts(d)' = {}
  BY <1>6, <1>7 DEF OneTurn
<1>9. PICK winner \in Uids \cup {Nobody} :
        Broadcast(room1, roomUser, Moved(uid, cell, winner))
  BY <1>2 DEF PutChanges, room1
<1> DEFINE m == Moved(uid, cell, winner)
<1>10. m \in ToPage /\ ~Gives(m, uid)
  BY OwnerType, MessageTypes DEF Moved, Gives
<1>11. ASSUME NEW c \in Conns, Owner[c] = uid
       PROVE  Quiet(c)'
  <2>1. Gifts(c)' = Gifts(c)
    BY <1>9, <1>10, <1>11, SentGifts DEF AllInv
  <2>2. ~Apart(d)
    BY <1>6 DEF Apart, Puts, Moving
  <2>3. d = roomUser[uid]
    BY <1>4, <2>2 DEF Fair, AllInv, Setting, Game1
  <2>4. CASE c = d
    BY <1>8, <2>1, <2>4 DEF Quiet, Has
  <2>5. CASE c # d
    <3>1. Quiet(c)
      BY <1>4, <1>11, <2>3, <2>5, ApartIsQuiet DEF Fair, AllInv, Setting, Game1
    <3> QED
      BY <1>6, <2>1, <2>5, <3>1 DEF Quiet, Has
  <2> QED
    BY <2>4, <2>5
<1>12. ASSUME NEW c \in Conns, Owner[c] \in Players(room1), Owner[c] # uid
       PROVE  OneTurn(c)'
  <2>1. Quiet(c) /\ Puts(c)' = Puts(c)
    BY <1>5, <1>6, <1>7, <1>12 DEF TurnOf
  <2>2. \A i, j \in Gifts(c)' : i = j \/ i \in Gifts(c) \/ j \in Gifts(c)
    BY <1>9, <1>10, SentGifts DEF AllInv
  <2> QED
    BY <2>1, <2>2 DEF Quiet, Has, OneTurn
<1>13. /\ uid = room1.white => Whites' = Whites + 1 /\ Blacks' = Blacks
       /\ uid # room1.white => Whites' = Whites /\ Blacks' = Blacks + 1
  BY <1>2, OneMoreStone
<1>14. Whites \in Nat /\ Blacks \in Nat
  BY CountStones DEF Whites, Blacks
<1>15. other \in Players(room1) /\ other # uid /\ {uid, other} = Players(room1)
  BY <1>4 DEF Opponent, Players
<1>16. \/ other = room1.white /\ Whites' = Blacks'
       \/ other = room1.black /\ Whites' = Blacks' + 1
  BY <1>4, <1>5, <1>7, <1>13, <1>14 DEF Opponent, TurnOf, Players
<1>17. ASSUME NEW q \in Players(room1), q # uid,
              \/ q = room1.white /\ Whites' = Blacks'
              \/ q = room1.black /\ Whites' = Blacks' + 1
       PROVE  TurnOf(q)'
  <2>1. {uid, q} = Players(room1)
    BY <1>4, <1>17 DEF Players
  <2> QED
    BY <1>3, <1>11, <1>12, <1>17, <2>1 DEF TurnOf
<1> QED
  BY <1>3, <1>15, <1>16, <1>17

(* Every step keeps the turns.                                             *)
LEMMA TurnsNext ==
  ASSUME MaxRooms = 1, AllInv, Turns, [GpNext]_gpVars
  PROVE  Turns'
<1>1. CASE UNCHANGED gpVars
  BY <1>1, NothingTurns DEF gpVars, pageVars, netVars, histVars, rmVars, roomVars
<1>2. ASSUME NEW d \in Conns, ServerTakes(d)
      PROVE  Turns'
  <2> DEFINE m == Head(toServer[d])
  <2>1. /\ m \in ToServer /\ UNCHANGED <<page, doubled>>
        /\ toServer[d] # <<>> /\ toServer' = [toServer EXCEPT ![d] = Tail(@)]
    BY <1>2, ServerQueue DEF ServerTakes, AllInv
  <2>2. CASE m.type = "put" /\ WsMsgRoom(d, m)
    <3>1. m.cell \in Cells
      BY <2>1, <2>2 DEF ToServer
    <3>2. \/ PutChanges(Owner[d], m.cell) /\ m.rid # NoRid
          \/ PutChangesNothing
      BY <2>1, <2>2, PutEffect, PutNowhere DEF AllInv
    <3> QED
      BY <2>1, <2>2, <3>1, <3>2, PutTurns, NothingTurns
      DEF PutChangesNothing, Moving, rmVars, roomVars
  <2>3. CASE WsCloseRoom(d)
    BY <2>1, <2>3, CloseTurns
  <2>4. CASE NoSession(d, m)
    BY <2>1, <2>4, NothingTurns DEF NoSession, rmVars, roomVars
  <2> QED
    BY <1>2, <2>2, <2>3, <2>4 DEF ServerTakes
<1>3. ASSUME NEW d \in Conns, NEW cell \in Cells, Click(d, cell)
      PROVE  Turns'
  BY <1>3, ClickTurns
<1>4. ASSUME NEW d \in Conns, Open(d) \/ OpenUnheard(d) \/ Leave(d) \/ PageTakes(d)
      PROVE  Turns'
  BY <1>4, OpenTurns, OpenUnheardTurns, LeaveTurns, PageTakesTurns
<1>5. ASSUME NEW d \in Conns, OpenRoomless(d)
      PROVE  Turns'
  BY <1>5, NothingTurns DEF OpenRoomless, netVars, histVars, rmVars, roomVars
<1> QED
  BY <1>1, <1>2, <1>3, <1>4, <1>5, MatchTurns DEF GpNext

(* In one room, on any board and with any players and pages: while the     *)
(* game goes on and no player has had a second page, white and black put   *)
(* their stones by turns, although the server asks nobody for his turn.    *)
THEOREM TurnsAlwaysAlternate == MaxRooms = 1 => (GpSpec => []TurnsAlternate)
<1> SUFFICES ASSUME MaxRooms = 1
             PROVE  GpSpec => []TurnsAlternate
  OBVIOUS
<1>1. GpInit => Turns
  BY OneRid DEF GpInit, RmInit, RoomInit, Turns, Fair, Running, Live
<1>2. AllInv /\ Turns /\ [GpNext]_gpVars => Turns'
  BY TurnsNext
<1>3. Turns => TurnsAlternate
  <2> SUFFICES ASSUME Turns, Fair
               PROVE  Whites - Blacks \in {0, 1}
    BY OneRid DEF TurnsAlternate, Fair, Whites, Blacks, room1
  <2>1. Whites = Blacks \/ Whites = Blacks + 1
    BY DEF Turns, TurnOf
  <2>2. Whites \in Nat /\ Blacks \in Nat
    BY CountStones DEF Whites, Blacks
  <2> QED
    BY <2>1, <2>2
<1> QED
  BY <1>1, <1>2, <1>3, OneRoomInvariant, PTL DEF GpSpec

=============================================================================
