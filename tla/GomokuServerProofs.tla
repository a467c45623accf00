------------------------- MODULE GomokuServerProofs -------------------------
(***************************************************************************)
(* Proofs about modules SessionManager and GomokuServer.  The sessions by  *)
(* themselves, for any number of logins and calls: their invariants, and   *)
(* that they implement SessionLease.  The handlers of the server act on    *)
(* rooms and on sessions only by steps of RoomManager and SessionManager,  *)
(* so what is proved of those holds here; and what its registries and      *)
(* permanent sessions have to do with the connections of the clients.      *)
(***************************************************************************)
EXTENDS GomokuServer, RoomManagerProofs

(* The inductive invariant, per session.  The callbacks that insert a      *)
(* session again are never fewer than those that still remove it; this is  *)
(* what keeps a session alive through any interleaving of callbacks.       *)
SidInv(s) ==
  /\ removals[s] <= appends[s]
  /\ s >= nextSid => ~Alive(s) /\ s \notin tp /\ term[s] = "none"
  /\ s < nextSid => term[s] # "none"
  /\ s \in tp <=> term[s] = "timeout" /\ Alive(s)
  /\ term[s] = "forever" => Alive(s)

SmInv == SmTypeOK /\ \A s \in Sids : SidInv(s)

-----------------------------------------------------------------------------
(* No session exists before the first login.                               *)
LEMMA SmInitInv == SmInit => SmInv
  BY SessionAssumption
  DEF SmInit, SmInv, SmTypeOK, SidInv, Alive, Sids, Times, SESSION_FOREVER,
      SESSION_TIMEOUT

(* Every handler and every callback preserves the invariant.               *)
LEMMA SmNextInv == SmInv /\ [SmNext]_smVars => SmInv'
<1> SUFFICES ASSUME SmInv, [SmNext]_smVars
             PROVE  SmInv'
  OBVIOUS
<1> USE SessionAssumption
    DEF SmInv, SmTypeOK, SidInv, Alive, Sids, Times, SESSION_FOREVER,
        SESSION_TIMEOUT, history
<1>1. CASE Login
  BY <1>1 DEF Login
<1>2. ASSUME NEW s \in Sids, NEW ms \in Times, SetSessionTime(s, ms)
      PROVE  SmInv'
  <2>1. SmTypeOK'
    <3>1. tp' \subseteq Sids
      <4>1. tp' = tp \ {s} \/ tp' = tp \cup {s}
        BY <1>2 DEF SetSessionTime
      <4> QED
        BY <4>1
    <3>2. removals' \in [Sids -> Nat] /\ appends' \in [Sids -> Nat]
      <4>1. CASE Cancel(s)
        BY <4>1 DEF Cancel
      <4>2. CASE UNCHANGED <<removals, appends>>
        BY <4>2
      <4> QED
        BY <1>2, <4>1, <4>2 DEF SetSessionTime
    <3>3. /\ term' \in [Sids -> Times \cup {"none"}]
          /\ calls' \in [Sids -> Nat]
      BY <1>2 DEF SetSessionTime
    <3> QED
      BY <1>2, <3>1, <3>2, <3>3 DEF SetSessionTime
  <2>2. SidInv(s)'
    <3>1. CASE ms = "forever"
      BY <1>2, <3>1 DEF SetSessionTime, Cancel
    <3>2. CASE ms = "timeout"
      BY <1>2, <3>2 DEF SetSessionTime, Cancel
    <3> QED
      BY <3>1, <3>2
  <2>3. ASSUME NEW x \in Sids, x # s
        PROVE  SidInv(x)'
    BY <1>2, <2>3 DEF SetSessionTime, Cancel
  <2> QED
    BY <2>1, <2>2, <2>3
<1>3. ASSUME NEW s \in Sids, RunRemove(s)
      PROVE  SmInv'
  BY <1>3 DEF RunRemove
<1>4. ASSUME NEW s \in Sids, RunAppend(s)
      PROVE  SmInv'
  BY <1>4 DEF RunAppend
<1>5. ASSUME NEW s \in Sids, Expire(s)
      PROVE  SmInv'
  BY <1>5 DEF Expire
<1>6. CASE UNCHANGED smVars
  BY <1>6 DEF smVars
<1> QED
  BY <1>1, <1>2, <1>3, <1>4, <1>5, <1>6 DEF SmNext

(* The inductive invariant holds in every state.                           *)
THEOREM SmInvariant == SmSpec => []SmInv
  BY SmInitInv, SmNextInv, PTL DEF SmSpec

(* Type correctness.                                                       *)
THEOREM SmTypeCorrect == SmSpec => []SmTypeOK
<1>1. SmInv => SmTypeOK
  BY DEF SmInv
<1> QED
  BY <1>1, SmInvariant, PTL

(* A session set to live forever is never lost, and no timer waits for it. *)
THEOREM ForeverStaysAlive == SmSpec => []ForeverIsAlive
<1>1. SmInv => ForeverIsAlive
  BY DEF SmInv, SidInv, ForeverIsAlive, SESSION_FOREVER
<1> QED
  BY <1>1, SmInvariant, PTL

(* A living session that is timed has the timer that will end it.          *)
THEOREM TimedSessionsHaveTimers == SmSpec => []TimedHasTimer
<1>1. SmInv => TimedHasTimer
  BY DEF SmInv, SidInv, TimedHasTimer, SESSION_TIMEOUT
<1> QED
  BY <1>1, SmInvariant, PTL

-----------------------------------------------------------------------------
(* The refinement.  Every session is at the start of its lease.            *)
LEMMA LeaseInitially == SmInit => Lease!LeaseInit
  BY SessionAssumption DEF SmInit, Lease!LeaseInit, Lease!Sids, Sids

(* A step of the timers and handlers is a step of the leases, or none.     *)
LEMMA LeaseStep ==
  SmInv /\ [SmNext]_smVars =>
    [Lease!LeaseNext]_[s \in Sids |-> IF s >= nextSid THEN "none"
                                      ELSE IF Alive(s) THEN term[s] ELSE "gone"]
<1> DEFINE l == [s \in Sids |-> IF s >= nextSid THEN "none"
                                ELSE IF Alive(s) THEN term[s] ELSE "gone"]
<1> SUFFICES ASSUME SmInv, [SmNext]_smVars
             PROVE  Lease!LeaseNext \/ UNCHANGED l
  OBVIOUS
<1> USE SessionAssumption
    DEF SmInv, SmTypeOK, SidInv, Alive, Sids, Times, SESSION_FOREVER,
        SESSION_TIMEOUT, history
<1>1. CASE Login
  <2>1. nextSid \in Lease!Sids /\ l[nextSid] = "none"
    BY <1>1 DEF Login, Lease!Sids
  <2>2. l' = [l EXCEPT ![nextSid] = "timeout"]
    <3>1. ASSUME NEW x \in Sids
          PROVE  l'[x] = IF x = nextSid THEN "timeout" ELSE l[x]
      BY <1>1 DEF Login
    <3> QED
      BY <3>1
  <2>3. \E s \in Lease!Sids : Lease!Grant(s)
    BY <2>1, <2>2 DEF Lease!Grant
  <2> QED
    BY <2>3 DEF Lease!LeaseNext
<1>2. ASSUME NEW s \in Sids, NEW ms \in Times, SetSessionTime(s, ms)
      PROVE  Lease!LeaseNext
  <2>1. s \in Lease!Sids /\ ms \in Lease!Terms
    BY DEF Lease!Sids, Lease!Terms
  <2>2. l[s] \in Lease!Terms
    BY <1>2 DEF SetSessionTime, Lease!Terms
  <2>3. l' = [l EXCEPT ![s] = ms]
    <3>1. ASSUME NEW x \in Sids
          PROVE  l'[x] = IF x = s THEN ms ELSE l[x]
      BY <1>2 DEF SetSessionTime, Cancel
    <3> QED
      BY <3>1
  <2> QED
    BY <2>1, <2>2, <2>3 DEF Lease!LeaseNext, Lease!Renew
<1>3. ASSUME NEW s \in Sids, RunRemove(s)
      PROVE  UNCHANGED l
  BY <1>3 DEF RunRemove
<1>4. ASSUME NEW s \in Sids, RunAppend(s)
      PROVE  UNCHANGED l
  BY <1>4 DEF RunAppend
<1>5. ASSUME NEW s \in Sids, Expire(s)
      PROVE  Lease!LeaseNext
  <2>1. s \in Lease!Sids /\ l[s] = "timeout"
    BY <1>5 DEF Expire, Lease!Sids
  <2>2. l' = [l EXCEPT ![s] = "gone"]
    <3>1. ASSUME NEW x \in Sids
          PROVE  l'[x] = IF x = s THEN "gone" ELSE l[x]
      BY <1>5 DEF Expire
    <3> QED
      BY <3>1
  <2> QED
    BY <2>1, <2>2 DEF Lease!LeaseNext, Lease!End
<1>6. CASE UNCHANGED smVars
  BY <1>6 DEF smVars
<1> HIDE DEF SmInv, SmTypeOK, SidInv, Alive, Sids, Times, SESSION_FOREVER,
        SESSION_TIMEOUT, history, l
<1> QED
  BY <1>1, <1>2, <1>3, <1>4, <1>5, <1>6 DEF SmNext

(* The session manager implements leases.                                  *)
THEOREM SessionManagerImplementsLease == SmSpec => ImplementsLeaseSafe
  BY SmInvariant, LeaseInitially, LeaseStep, PTL
  DEF SmSpec, ImplementsLeaseSafe, Lease!LeaseSafe

-----------------------------------------------------------------------------
(* Sessions that exist have an owner, and connections that are open or     *)
(* held carry the cookie of a session that was created.                    *)
ClientInv ==
  /\ \A s \in Sids : s < nextSid => owner[s] \in Uids
  /\ \A c \in Conns :
       Open(c) \/ Held(c) => cookie[c] \in Sids /\ cookie[c] < nextSid

ServerOwnTypeOK ==
  /\ up \in BOOLEAN
  /\ owner \in [Sids -> Uids \cup {Nobody}]
  /\ uri \in [Conns -> {"none", "/hall", "/room"}]
  /\ cookie \in [Conns -> Sids \cup {NoSid}]
  /\ asked \subseteq Uids
  /\ missed \subseteq Sids

(* The inductive invariant.                                                *)
ServerInv ==
  /\ RmInv /\ SmInv /\ ServerOwnTypeOK /\ ClientInv
  /\ GhostsAreMissedCloses /\ PermanentWhileConnected

-----------------------------------------------------------------------------
(* Nobody has logged in, no connection is open.                            *)
LEMMA ServerInitInv == ServerInit => ServerInv
<1> SUFFICES ASSUME ServerInit PROVE ServerInv
  OBVIOUS
<1>1. RmInv /\ SmInv
  BY RmInitInv, SmInitInv DEF ServerInit
<1>2. ServerOwnTypeOK
  BY DEF ServerInit, ServerOwnTypeOK
<1>3. \A c \in Conns, u \in Uids : hallUser[u] # c /\ roomUser[u] # c
  BY NoConnAssumption DEF ServerInit, RmInit, OnlineInit
<1>4. ClientInv
  BY <1>3 DEF ServerInit, SmInit, ClientInv, Sids, Open, Held
<1>5. GhostsAreMissedCloses
  BY <1>3 DEF GhostsAreMissedCloses, Listed
<1>6. PermanentWhileConnected
  BY DEF ServerInit, SmInit, PermanentWhileConnected, SESSION_FOREVER
<1> QED
  BY <1>1, <1>2, <1>4, <1>5, <1>6 DEF ServerInv

-----------------------------------------------------------------------------
(* Every handler that has found a session acts for a player.               *)
LEMMA SessionsHaveOwners ==
  ASSUME ServerInv, NEW s \in session
  PROVE  s \in Sids /\ s < nextSid /\ owner[s] \in Uids
<1>1. s \in Sids
  BY DEF ServerInv, SmInv, SmTypeOK
<1>2. ~(s >= nextSid)
  BY <1>1 DEF ServerInv, SmInv, SidInv, Alive
<1> QED
  BY <1>1, <1>2 DEF ServerInv, ClientInv, SmInv, SmTypeOK, Sids

(* A registered connection has a session of a player.                      *)
LEMMA UsersAreKnown ==
  ASSUME ServerInv, NEW c \in Conns, Known(c)
  PROVE  cookie[c] \in Sids /\ User(c) \in Uids
  BY SessionsHaveOwners DEF Known, User

-----------------------------------------------------------------------------
(* Each step of the server is one of the room manager's, or none of its.   *)
LEMMA ServerStepsRooms ==
  ServerInv /\ [ServerNext]_gsVars => [RmNext]_rmVars
<1> SUFFICES ASSUME ServerInv, [ServerNext]_gsVars
             PROVE  RmNext \/ UNCHANGED rmVars
  OBVIOUS
<1>1. ASSUME NEW u \in Uids, LoginHandler(u) PROVE UNCHANGED rmVars
  BY <1>1 DEF LoginHandler
<1>2. ASSUME NEW s \in Sids, InfoHandler(s) \/ Fire(s) PROVE UNCHANGED rmVars
  BY <1>2 DEF InfoHandler, Fire
<1>3. ASSUME NEW c \in Conns, NEW s \in Sids, WsOpenHall(c, s)
      PROVE  RmNext \/ UNCHANGED rmVars
  <2>1. CASE Refused
    BY <2>1 DEF Refused
  <2>2. CASE s \in session /\ EnterHall(owner[s], c) /\ UNCHANGED <<table, roomVars>>
    <3>1. Hall(owner[s], c)
      BY <2>2 DEF Hall
    <3> QED
      BY <2>2, <3>1, SessionsHaveOwners DEF RmNext
  <2> QED
    BY <1>3, <2>1, <2>2 DEF WsOpenHall, SetSessionTime
<1>4. ASSUME NEW c \in Conns, NEW s \in Sids, WsOpenRoom(c, s)
      PROVE  RmNext \/ UNCHANGED rmVars
  <2>1. CASE Refused \/ Crash
    BY <2>1 DEF Refused, Crash
  <2>2. CASE s \in session /\ OpenRoom(owner[s], c)
    BY <2>2, SessionsHaveOwners DEF RmNext
  <2> QED
    BY <1>4, <2>1, <2>2 DEF WsOpenRoom, SetSessionTime
<1>5. ASSUME NEW c \in Conns, WsCloseHall(c)
      PROVE  RmNext \/ UNCHANGED rmVars
  <2>1. CASE MissedClose(c)
    BY <2>1 DEF MissedClose, Refused
  <2>2. CASE Known(c) /\ ExitHall(User(c)) /\ UNCHANGED <<table, roomVars>>
    <3>1. User(c) \in Uids
      BY <2>2, UsersAreKnown
    <3>2. CASE InHall(User(c))
      <4>1. Hall(User(c), c)
        BY <2>2, <3>2 DEF Hall
      <4> QED
        BY <3>1, <4>1 DEF RmNext
    <3>3. CASE ~InHall(User(c))
      <4>1. hallUser' = hallUser
        BY <2>2, <3>1, <3>3
        DEF ExitHall, Erased, InHall, ServerInv, RmInv, RmTypeOK, OnlineTypeOK, Registry
      <4> QED
        BY <2>2, <4>1 DEF ExitHall, rmVars, onlineVars
    <3> QED
      BY <3>2, <3>3
  <2> QED
    BY <1>5, <2>1, <2>2 DEF WsCloseHall
<1>6. ASSUME NEW c \in Conns, WsCloseRoom(c)
      PROVE  RmNext \/ UNCHANGED rmVars
  <2>1. CASE MissedClose(c)
    BY <2>1 DEF MissedClose, Refused
  <2>2. CASE Known(c) /\ CloseRoom(User(c))
    BY <2>2, UsersAreKnown DEF RmNext
  <2> QED
    BY <1>6, <2>1, <2>2 DEF WsCloseRoom
<1>7. ASSUME NEW c \in Conns, WsMsgHall(c) PROVE UNCHANGED rmVars
  BY <1>7 DEF WsMsgHall
<1>8. ASSUME NEW c \in Conns, NEW cell \in Cells, WsMsgRoom(c, cell)
      PROVE  RmNext \/ UNCHANGED rmVars
  <2>1. CASE Crash
    BY <2>1 DEF Crash
  <2>2. CASE Known(c) /\ HandleRequest(User(c), cell)
    BY <2>2, UsersAreKnown DEF RmNext
  <2> QED
    BY <1>8, <2>1, <2>2 DEF WsMsgRoom
<1>9. ASSUME NEW u \in Uids, NEW v \in Uids, Match(u, v) PROVE RmNext
  BY <1>9 DEF Match, CreateRoomForTwoUser, RmNext
<1>10. CASE UNCHANGED gsVars
  BY <1>10 DEF gsVars
<1> QED
  BY <1>1, <1>2, <1>3, <1>4, <1>5, <1>6, <1>7, <1>8, <1>9, <1>10 DEF ServerNext

(* Likewise for the session manager.                                       *)
LEMMA ServerStepsSessions ==
  ServerInv /\ [ServerNext]_gsVars => [SmNext]_smVars
<1> SUFFICES ASSUME ServerInv, [ServerNext]_gsVars
             PROVE  SmNext \/ UNCHANGED smVars
  OBVIOUS
<1>1. ASSUME NEW u \in Uids, LoginHandler(u) PROVE SmNext
  BY <1>1 DEF LoginHandler, SmNext
<1>2. ASSUME NEW s \in Sids, InfoHandler(s) \/ Fire(s) PROVE SmNext
  BY <1>2 DEF InfoHandler, Fire, SmNext, Times
<1>3. ASSUME NEW c \in Conns, NEW s \in Sids, WsOpenHall(c, s) \/ WsOpenRoom(c, s)
      PROVE  SmNext \/ UNCHANGED smVars
  <2>1. CASE SetSessionTime(s, SESSION_FOREVER)
    BY <2>1 DEF SmNext, Times
  <2> QED
    BY <1>3, <2>1 DEF WsOpenHall, WsOpenRoom, Refused, Crash
<1>4. ASSUME NEW c \in Conns, WsCloseHall(c) \/ WsCloseRoom(c)
      PROVE  SmNext \/ UNCHANGED smVars
  <2>1. CASE MissedClose(c)
    BY <2>1 DEF MissedClose, Refused
  <2>2. CASE Known(c) /\ SetSessionTime(cookie[c], SESSION_TIMEOUT)
    BY <2>2, UsersAreKnown DEF SmNext, Times
  <2> QED
    BY <1>4, <2>1, <2>2 DEF WsCloseHall, WsCloseRoom
<1>5. ASSUME NEW c \in Conns, WsMsgHall(c) \/ \E cell \in Cells : WsMsgRoom(c, cell)
      PROVE  UNCHANGED smVars
  BY <1>5 DEF WsMsgHall, WsMsgRoom, Crash
<1>6. ASSUME NEW u \in Uids, NEW v \in Uids, Match(u, v) PROVE UNCHANGED smVars
  BY <1>6 DEF Match
<1>7. CASE UNCHANGED gsVars
  BY <1>7 DEF gsVars
<1> QED
  BY <1>1, <1>2, <1>3, <1>4, <1>5, <1>6, <1>7 DEF ServerNext

-----------------------------------------------------------------------------
(* Steps that leave connections, registries and missed as they are: they   *)
(* disturb the links between clients and sessions only where a session is  *)
(* created or given another time.                                          *)
Quiet == UNCHANGED <<onlineVars, clientVars, missed>>

(* A step that registers nobody and makes no session permanent.            *)
LEMMA QuietInv ==
  ASSUME ServerInv, Quiet, ServerOwnTypeOK', nextSid' \in Int, nextSid <= nextSid',
         \A s \in Sids : s < nextSid => owner'[s] = owner[s],
         \A s \in Sids : s < nextSid' => owner'[s] \in Uids,
         \A s \in Sids : term'[s] = SESSION_FOREVER => term[s] = SESSION_FOREVER
  PROVE  ClientInv' /\ GhostsAreMissedCloses' /\ PermanentWhileConnected'
<1>1. /\ hallUser' = hallUser /\ roomUser' = roomUser
      /\ uri' = uri /\ cookie' = cookie /\ missed' = missed
  BY DEF Quiet, onlineVars, clientVars
<1>2. ClientInv'
  BY <1>1 DEF ServerInv, ClientInv, SmInv, SmTypeOK, Sids, Open, Held
<1>3. ASSUME NEW c \in Conns, NEW u \in Uids, hallUser[u] = c \/ roomUser[u] = c
      PROVE  User(c)' = User(c)
  <2>1. Held(c)
    BY <1>3 DEF Held
  <2> QED
    BY <1>1, <2>1 DEF ServerInv, ClientInv, User
<1>4. GhostsAreMissedCloses'
  BY <1>1, <1>3 DEF ServerInv, GhostsAreMissedCloses, Listed
<1>5. PermanentWhileConnected'
  BY <1>1 DEF ServerInv, PermanentWhileConnected, Open
<1> QED
  BY <1>2, <1>4, <1>5

(* A connection that opens, whether or not it finds its session: it may be *)
(* entered into the registry its path names, under its owner.              *)
LEMMA OpenInv ==
  ASSUME ServerInv, NEW c \in Conns, NEW path \in {"/hall", "/room"}, NEW sid \in Sids,
         Connect(c, path, sid), UNCHANGED <<nextSid, owner, asked, missed>>, up' \in BOOLEAN,
         \/ UNCHANGED hallUser
         \/ path = "/hall" /\ owner[sid] \in Uids /\ hallUser' = Inserted(hallUser, owner[sid], c),
         \/ UNCHANGED roomUser
         \/ path = "/room" /\ owner[sid] \in Uids /\ roomUser' = Inserted(roomUser, owner[sid], c),
         \A s \in Sids : term'[s] = SESSION_FOREVER => term[s] = SESSION_FOREVER \/ s = sid
  PROVE  /\ ServerOwnTypeOK' /\ ClientInv'
         /\ GhostsAreMissedCloses' /\ PermanentWhileConnected'
<1>1. /\ ~Open(c) /\ ~Held(c) /\ sid < nextSid
      /\ uri' = [uri EXCEPT ![c] = path] /\ cookie' = [cookie EXCEPT ![c] = sid]
  BY DEF Connect, ServerInv, SmInv, SmTypeOK, Sids
<1>2. ServerOwnTypeOK'
  BY <1>1 DEF ServerInv, ServerOwnTypeOK
<1>3. /\ uri'[c] = path /\ cookie'[c] = sid
      /\ \A d \in Conns \ {c} : uri'[d] = uri[d] /\ cookie'[d] = cookie[d]
  BY <1>1 DEF ServerInv, ServerOwnTypeOK
<1>4. \A u \in Uids :
        /\ hallUser'[u] # hallUser[u] =>
             path = "/hall" /\ u = owner[sid] /\ hallUser'[u] = c
        /\ roomUser'[u] # roomUser[u] =>
             path = "/room" /\ u = owner[sid] /\ roomUser'[u] = c
  BY DEF Inserted, ServerInv, RmInv, RmTypeOK, OnlineTypeOK, Registry
<1>5. \A u \in Uids : hallUser[u] # c /\ roomUser[u] # c
  BY <1>1 DEF Held
<1>6. ClientInv'
  <2>1. ASSUME NEW d \in Conns, d # c, Open(d)' \/ Held(d)'
        PROVE  Open(d) \/ Held(d)
    BY <1>3, <1>4, <2>1 DEF Open, Held
  <2> QED
    BY <1>1, <1>3, <2>1 DEF ServerInv, ClientInv
<1>7. GhostsAreMissedCloses'
  BY <1>3, <1>4, <1>5 DEF ServerInv, GhostsAreMissedCloses, Listed, User
<1>8. PermanentWhileConnected'
  <2> SUFFICES ASSUME NEW s \in Sids, term'[s] = SESSION_FOREVER
               PROVE  s \in missed' \/ \E d \in Conns : Open(d)' /\ cookie'[d] = s
    BY DEF PermanentWhileConnected
  <2>1. CASE s = sid
    BY <1>3, <2>1 DEF Open
  <2>2. CASE term[s] = SESSION_FOREVER
    <3>1. s \in missed \/ \E d \in Conns : Open(d) /\ cookie[d] = s
      BY <2>2 DEF ServerInv, PermanentWhileConnected
    <3> QED
      BY <1>1, <1>3, <3>1 DEF Open
  <2> QED
    BY <2>1, <2>2
<1> QED
  BY <1>2, <1>6, <1>7, <1>8

(* A connection that closes and finds its session is erased, if it is the  *)
(* one its owner is listed with, and the session is given a timeout.       *)
LEMMA FoundCloseInv ==
  ASSUME ServerInv, NEW c \in Conns, NEW path \in {"/hall", "/room"},
         Disconnect(c, path), Known(c), UNCHANGED <<nextSid, serverVars, missed>>,
         hallUser' = IF path = "/hall" THEN Erased(hallUser, User(c)) ELSE hallUser,
         roomUser' = IF path = "/room" THEN Erased(roomUser, User(c)) ELSE roomUser,
         term' = [term EXCEPT ![cookie[c]] = SESSION_TIMEOUT]
  PROVE  /\ ServerOwnTypeOK' /\ ClientInv'
         /\ GhostsAreMissedCloses' /\ PermanentWhileConnected'
<1>1. /\ uri[c] = path
      /\ uri' = [uri EXCEPT ![c] = "none"] /\ cookie' = cookie
      /\ up' = up /\ owner' = owner /\ asked' = asked /\ missed' = missed
  BY DEF Disconnect, serverVars
<1>2. ServerOwnTypeOK'
  BY <1>1 DEF ServerInv, ServerOwnTypeOK
<1>3. uri'[c] = "none" /\ \A d \in Conns \ {c} : uri'[d] = uri[d]
  BY <1>1 DEF ServerInv, ServerOwnTypeOK
<1>4. \A u \in Uids :
        /\ hallUser'[u] = hallUser[u] \/ hallUser'[u] = NoConn
        /\ roomUser'[u] = roomUser[u] \/ roomUser'[u] = NoConn
        /\ path = "/hall" /\ u = User(c) => hallUser'[u] = NoConn
        /\ path = "/room" /\ u = User(c) => roomUser'[u] = NoConn
  BY DEF Erased, ServerInv, RmInv, RmTypeOK, OnlineTypeOK, Registry
<1>5. ClientInv'
  <2>1. ASSUME NEW d \in Conns, Open(d)' \/ Held(d)'
        PROVE  Open(d) \/ Held(d)
    BY <1>3, <1>4, <2>1, NoConnAssumption DEF Open, Held
  <2> QED
    BY <1>1, <2>1 DEF ServerInv, ClientInv
<1>6. GhostsAreMissedCloses'
  <2> SUFFICES ASSUME NEW d \in Conns
               PROVE  Listed(d, "/hall", hallUser)' /\ Listed(d, "/room", roomUser)'
    BY DEF GhostsAreMissedCloses
  <2>1. Listed(d, "/hall", hallUser) /\ Listed(d, "/room", roomUser)
    BY DEF ServerInv, GhostsAreMissedCloses
  <2>2. User(d)' = User(d)
    BY <1>1 DEF User
  <2>3. CASE d # c
    BY <1>1, <1>3, <1>4, <2>1, <2>2, <2>3, NoConnAssumption DEF Listed
  <2>4. CASE d = c
    BY <1>1, <1>3, <1>4, <2>1, <2>2, <2>4, NoConnAssumption DEF Listed
  <2> QED
    BY <2>3, <2>4
<1>7. PermanentWhileConnected'
  <2> SUFFICES ASSUME NEW s \in Sids, term'[s] = SESSION_FOREVER
               PROVE  s \in missed' \/ \E d \in Conns : Open(d)' /\ cookie'[d] = s
    BY DEF PermanentWhileConnected
  <2>1. s # cookie[c] /\ term[s] = SESSION_FOREVER
    BY DEF ServerInv, SmInv, SmTypeOK, SESSION_FOREVER, SESSION_TIMEOUT
  <2>2. s \in missed \/ \E d \in Conns : Open(d) /\ cookie[d] = s
    BY <2>1 DEF ServerInv, PermanentWhileConnected
  <2> QED
    BY <1>1, <1>3, <2>1, <2>2 DEF Open
<1> QED
  BY <1>2, <1>5, <1>6, <1>7

(* A connection that closes without its session leaves a mark in missed.   *)
LEMMA MissedCloseInv ==
  ASSUME ServerInv, NEW c \in Conns, NEW path \in {"/hall", "/room"},
         Disconnect(c, path), MissedClose(c)
  PROVE  /\ ServerOwnTypeOK' /\ ClientInv'
         /\ GhostsAreMissedCloses' /\ PermanentWhileConnected'
<1>1. /\ uri[c] = path
      /\ uri' = [uri EXCEPT ![c] = "none"] /\ cookie' = cookie
      /\ up' = up /\ owner' = owner /\ asked' = asked
      /\ missed' = missed \cup {cookie[c]}
      /\ hallUser' = hallUser /\ roomUser' = roomUser
      /\ nextSid' = nextSid /\ term' = term
  BY DEF Disconnect, MissedClose, Refused, serverVars, rmVars, onlineVars, smVars, history
<1>2. cookie[c] \in Sids
  BY <1>1 DEF ServerInv, ClientInv, Open
<1>3. ServerOwnTypeOK'
  BY <1>1, <1>2 DEF ServerInv, ServerOwnTypeOK
<1>4. uri'[c] = "none" /\ \A d \in Conns \ {c} : uri'[d] = uri[d]
  BY <1>1 DEF ServerInv, ServerOwnTypeOK
<1>5. ClientInv'
  BY <1>1, <1>4 DEF ServerInv, ClientInv, Open, Held
<1>6. GhostsAreMissedCloses'
  BY <1>1, <1>4 DEF ServerInv, GhostsAreMissedCloses, Listed, User
<1>7. PermanentWhileConnected'
  BY <1>1, <1>4 DEF ServerInv, PermanentWhileConnected, Open
<1> QED
  BY <1>3, <1>5, <1>6, <1>7

-----------------------------------------------------------------------------
(* Every handler preserves what links clients, registries and sessions.    *)
LEMMA ServerLinksInv ==
  ServerInv /\ [ServerNext]_gsVars =>
    /\ ServerOwnTypeOK' /\ ClientInv'
    /\ GhostsAreMissedCloses' /\ PermanentWhileConnected'
<1> DEFINE Links == /\ ServerOwnTypeOK /\ ClientInv
                    /\ GhostsAreMissedCloses /\ PermanentWhileConnected
<1> SUFFICES ASSUME ServerInv, [ServerNext]_gsVars
             PROVE  Links'
  OBVIOUS
<1>0. /\ ServerOwnTypeOK /\ nextSid \in Int
      /\ term \in [Sids -> Times \cup {"none"}]
      /\ \A s \in Sids : s < nextSid => owner[s] \in Uids
  BY DEF ServerInv, ClientInv, SmInv, SmTypeOK, Sids
<1>1. ASSUME NEW u \in Uids, LoginHandler(u) PROVE Links'
  <2>1. /\ nextSid \in Sids /\ nextSid' = nextSid + 1
        /\ term' = [term EXCEPT ![nextSid] = SESSION_TIMEOUT]
        /\ owner' = [owner EXCEPT ![nextSid] = u]
        /\ UNCHANGED <<up, asked, uri, cookie, missed>> /\ Quiet
    BY <1>1 DEF LoginHandler, Login, clientVars, rmVars, Quiet
  <2>2. ServerOwnTypeOK'
    BY <1>0, <2>1 DEF ServerOwnTypeOK
  <2>3. /\ \A s \in Sids : s < nextSid => owner'[s] = owner[s]
        /\ \A s \in Sids : s < nextSid' => owner'[s] \in Uids
    BY <1>0, <2>1 DEF ServerOwnTypeOK, Sids
  <2>4. \A s \in Sids : term'[s] = SESSION_FOREVER => term[s] = SESSION_FOREVER
    BY <1>0, <2>1 DEF SESSION_FOREVER, SESSION_TIMEOUT
  <2> QED
    BY <1>0, <2>1, <2>2, <2>3, <2>4, QuietInv
<1>2. ASSUME NEW s \in Sids, InfoHandler(s) \/ Fire(s) PROVE Links'
  <2>1. /\ nextSid' = nextSid
        /\ term' = [term EXCEPT ![s] = SESSION_TIMEOUT] \/ term' = term
        /\ UNCHANGED <<up, owner, asked, uri, cookie, missed>> /\ Quiet
    BY <1>2 DEF InfoHandler, Fire, SetSessionTime, RunRemove, RunAppend, Expire,
                history, clientVars, serverVars, rmVars, Quiet
  <2>2. ServerOwnTypeOK'
    BY <1>0, <2>1 DEF ServerOwnTypeOK
  <2>3. \A x \in Sids : term'[x] = SESSION_FOREVER => term[x] = SESSION_FOREVER
    BY <1>0, <2>1 DEF SESSION_FOREVER, SESSION_TIMEOUT
  <2> QED
    BY <1>0, <2>1, <2>2, <2>3, QuietInv
<1>3. ASSUME NEW c \in Conns, NEW s \in Sids, WsOpenHall(c, s) PROVE Links'
  <2>1. Connect(c, "/hall", s) /\ UNCHANGED <<nextSid, serverVars, missed, roomUser>>
    BY <1>3 DEF WsOpenHall, Refused, SetSessionTime, EnterHall, rmVars, onlineVars, smVars
  <2>2. \/ UNCHANGED hallUser
        \/ owner[s] \in Uids /\ hallUser' = Inserted(hallUser, owner[s], c)
    BY <1>3, SessionsHaveOwners
    DEF WsOpenHall, Refused, SetSessionTime, EnterHall, rmVars, onlineVars
  <2>3. term' = term \/ term' = [term EXCEPT ![s] = SESSION_FOREVER]
    BY <1>3 DEF WsOpenHall, Refused, SetSessionTime, smVars, history
  <2>4. \A x \in Sids : term'[x] = SESSION_FOREVER => term[x] = SESSION_FOREVER \/ x = s
    BY <1>0, <2>3
  <2> QED
    BY <1>0, <2>1, <2>2, <2>4, OpenInv DEF serverVars, ServerOwnTypeOK
<1>4. ASSUME NEW c \in Conns, NEW s \in Sids, WsOpenRoom(c, s) PROVE Links'
  <2>1. /\ Connect(c, "/room", s)
        /\ UNCHANGED <<nextSid, owner, asked, missed, hallUser>> /\ up' \in {up, FALSE}
    BY <1>4 DEF WsOpenRoom, Refused, Crash, SetSessionTime, OpenRoom, EnterRoom,
                rmVars, onlineVars, smVars, serverVars
  <2>2. \/ UNCHANGED roomUser
        \/ owner[s] \in Uids /\ roomUser' = Inserted(roomUser, owner[s], c)
    BY <1>4, SessionsHaveOwners
    DEF WsOpenRoom, Refused, Crash, SetSessionTime, OpenRoom, EnterRoom, rmVars, onlineVars
  <2>3. term' = term \/ term' = [term EXCEPT ![s] = SESSION_FOREVER]
    BY <1>4 DEF WsOpenRoom, Refused, Crash, SetSessionTime, smVars, history
  <2>4. \A x \in Sids : term'[x] = SESSION_FOREVER => term[x] = SESSION_FOREVER \/ x = s
    BY <1>0, <2>3
  <2> QED
    BY <1>0, <2>1, <2>2, <2>4, OpenInv DEF ServerOwnTypeOK
<1>5. ASSUME NEW c \in Conns, WsCloseHall(c) PROVE Links'
  <2>1. CASE MissedClose(c)
    BY <1>5, <2>1, MissedCloseInv DEF WsCloseHall
  <2>2. CASE Known(c) /\ ~MissedClose(c)
    <3>1. /\ Disconnect(c, "/hall") /\ UNCHANGED <<nextSid, serverVars, missed, roomUser>>
          /\ hallUser' = Erased(hallUser, User(c))
          /\ term' = [term EXCEPT ![cookie[c]] = SESSION_TIMEOUT]
      BY <1>5, <2>2 DEF WsCloseHall, ExitHall, SetSessionTime
    <3> QED
      BY <2>2, <3>1, FoundCloseInv
  <2> QED
    BY <1>5, <2>1, <2>2 DEF WsCloseHall
<1>6. ASSUME NEW c \in Conns, WsCloseRoom(c) PROVE Links'
  <2>1. CASE MissedClose(c)
    BY <1>6, <2>1, MissedCloseInv DEF WsCloseRoom
  <2>2. CASE Known(c) /\ ~MissedClose(c)
    <3>1. /\ Disconnect(c, "/room") /\ UNCHANGED <<nextSid, serverVars, missed, hallUser>>
          /\ roomUser' = Erased(roomUser, User(c))
          /\ term' = [term EXCEPT ![cookie[c]] = SESSION_TIMEOUT]
      BY <1>6, <2>2 DEF WsCloseRoom, CloseRoom, ExitRoom, SetSessionTime
    <3> QED
      BY <2>2, <3>1, FoundCloseInv
  <2> QED
    BY <1>6, <2>1, <2>2 DEF WsCloseRoom
<1>7. ASSUME UNCHANGED <<onlineVars, clientVars, missed, owner, smVars>>,
             ServerOwnTypeOK'
      PROVE  Links'
  <2>1. Quiet /\ nextSid' = nextSid /\ term' = term /\ owner' = owner
    BY <1>7 DEF Quiet, smVars, history
  <2> QED
    BY <1>0, <1>7, <2>1, QuietInv
<1>8. ASSUME NEW c \in Conns, WsMsgHall(c) PROVE Links'
  <2>1. UNCHANGED <<onlineVars, clientVars, missed, owner, smVars>>
    BY <1>8 DEF WsMsgHall, rmVars
  <2>2. asked' \subseteq Uids /\ UNCHANGED <<up, owner, uri, cookie, missed>>
    BY <1>0, <1>8, UsersAreKnown DEF WsMsgHall, clientVars, ServerOwnTypeOK
  <2> QED
    BY <1>0, <1>7, <2>1, <2>2 DEF ServerOwnTypeOK
<1>9. ASSUME NEW c \in Conns, NEW cell \in Cells, WsMsgRoom(c, cell) PROVE Links'
  <2>1. UNCHANGED <<onlineVars, clientVars, missed, owner, smVars>>
    BY <1>9 DEF WsMsgRoom, Crash, HandleRequest, rmVars, serverVars
  <2>2. up' \in {up, FALSE} /\ UNCHANGED <<owner, uri, cookie, asked, missed>>
    BY <1>9 DEF WsMsgRoom, Crash, clientVars, serverVars
  <2> QED
    BY <1>0, <1>7, <2>1, <2>2 DEF ServerOwnTypeOK
<1>10. ASSUME NEW u \in Uids, NEW v \in Uids, Match(u, v) PROVE Links'
  <2>1. UNCHANGED <<onlineVars, clientVars, missed, owner, smVars>>
    BY <1>10 DEF Match, CreateRoomForTwoUser, CreateRoom
  <2>2. asked' \subseteq asked /\ UNCHANGED <<up, owner, uri, cookie, missed>>
    BY <1>10 DEF Match, clientVars
  <2> QED
    BY <1>0, <1>7, <2>1, <2>2 DEF ServerOwnTypeOK
<1>11. CASE UNCHANGED gsVars
  <2>1. UNCHANGED <<onlineVars, clientVars, missed, owner, smVars>>
    BY <1>11 DEF gsVars, rmVars, serverVars
  <2>2. UNCHANGED <<up, owner, uri, cookie, asked, missed>>
    BY <1>11 DEF gsVars, clientVars, serverVars
  <2> QED
    BY <1>0, <1>7, <2>1, <2>2 DEF ServerOwnTypeOK
<1> HIDE DEF Links
<1> QED
  BY <1>1, <1>2, <1>3, <1>4, <1>5, <1>6, <1>8, <1>9, <1>10, <1>11 DEF ServerNext

(* Every step keeps the invariant of the server, ...                       *)
LEMMA ServerNextInv == ServerInv /\ [ServerNext]_gsVars => ServerInv'
<1>1. ServerInv => RmInv /\ SmInv
  BY DEF ServerInv
<1> QED
  BY <1>1, ServerStepsRooms, ServerStepsSessions, ServerLinksInv, RmNextInv, SmNextInv
  DEF ServerInv

(* ... which therefore holds: of rooms, of sessions, and of the clients of *)
(* both.                                                                   *)
THEOREM ServerInvariant == ServerSpec => []ServerInv
  BY ServerInitInv, ServerNextInv, PTL DEF ServerSpec

(* Type correctness of the composition.                                    *)
THEOREM ServerTypeCorrect == ServerSpec => []ServerTypeOK
<1>1. ServerInv => ServerTypeOK
  BY DEF ServerInv, RmInv, SmInv, ServerOwnTypeOK, ServerTypeOK
<1> QED
  BY <1>1, ServerInvariant, PTL

(* Ghosts in the registries come from closes that missed their session,    *)
(* and from nothing else: the hazard of two pages of one player.           *)
THEOREM GhostsComeFromMissedCloses == ServerSpec => []GhostsAreMissedCloses
<1>1. ServerInv => GhostsAreMissedCloses
  BY DEF ServerInv
<1> QED
  BY <1>1, ServerInvariant, PTL

(* No session outlives its client's connections, but for missed closes.    *)
THEOREM PermanentMeansConnected == ServerSpec => []PermanentWhileConnected
<1>1. ServerInv => PermanentWhileConnected
  BY DEF ServerInv
<1> QED
  BY <1>1, ServerInvariant, PTL

(* The server implements the specification of its rooms, so the theorems   *)
(* of RoomManagerProofs hold of it ...                                     *)
THEOREM ServerImplementsRooms == ServerSpec => ImplementsRooms
<1>1. ServerInit => RmInit
  BY DEF ServerInit
<1> QED
  BY <1>1, ServerStepsRooms, ServerInvariant, PTL DEF ServerSpec, RmSpec, ImplementsRooms

(* ... and that of its sessions.                                           *)
THEOREM ServerImplementsSessions == ServerSpec => ImplementsSessions
<1>1. ServerInit => SmInit
  BY DEF ServerInit
<1> QED
  BY <1>1, ServerStepsSessions, ServerInvariant, PTL
  DEF ServerSpec, SmSpec, ImplementsSessions

=============================================================================
