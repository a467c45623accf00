------------------------------- MODULE Matcher -------------------------------
(***************************************************************************)
(* Class Matcher (src/matcher.hpp): one blocking queue and one thread per  *)
(* tier of players, which pairs the players of its queue and creates rooms *)
(* for them, while the thread of the event loop adds players, deletes them,*)
(* moves them in and out of the hall and runs their games.                 *)
(*                                                                         *)
(* Every method of MatchQueue, OnlineUser and RoomManager is a critical    *)
(* section of its own.  ThreadRunHelper holds no lock between them, so     *)
(* each of its calls is one step here; pc names the call that comes next.  *)
(***************************************************************************)
EXTENDS RoomManager, Sequences

CONSTANTS BRONZE_SCORE, SILVER_SCORE, \* 1000 and 3000 in the code
          MaxStarts,                  \* bound: match_start requests per player
          None                        \* no queue chosen

(* Which queue a player of this score belongs to.                          *)
Tier(score) == IF score < BRONZE_SCORE THEN "bronze"
               ELSE IF score < SILVER_SCORE THEN "silver" ELSE "gold"

(* The queues somebody can be in.  The threads of the others block.        *)
Tiers == {Tier(s) : s \in Scores}

ASSUME MatcherAssumption ==
  /\ BRONZE_SCORE \in Int /\ SILVER_SCORE \in Int
  /\ MaxStarts \in Nat
  /\ None \notin Tiers

VARIABLES queue,   \* _list of each queue
          pc,      \* what each thread is about to do
          held,    \* uid1 and uid2 of each thread, those it still looks after
          seen,    \* conn1 and conn2 of each thread
          dest,    \* inside Add: the queue the player goes to
          wish,    \* history: "match" for a player who asked in the hall and
                   \*   still waits there
          starts,  \* history: match_start requests of each player
          seats    \* history: places in new rooms given to each player

threadVars == <<pc, held, seen, dest>>
matcherVars == <<queue, threadVars, wish, starts, seats>>
vars == <<rmVars, matcherVars>>

PCs == {"size", "wait", "blocked", "pop1", "pop2", "conn1", "conn2",
        "hall1", "hall2", "create", "send", "add", "push"}

Elements(seq) == {seq[i] : i \in DOMAIN seq}

MatcherInit ==
  /\ RmInit
  /\ queue = [t \in Tiers |-> <<>>]
  /\ pc = [t \in Tiers |-> "size"]
  /\ held = [t \in Tiers |-> <<>>]
  /\ seen = [t \in Tiers |-> <<>>]
  /\ dest = [t \in Tiers |-> None]
  /\ wish = [u \in Uids |-> "none"]
  /\ starts = [u \in Uids |-> 0]
  /\ seats = [u \in Uids |-> 0]

-----------------------------------------------------------------------------
(* MatchQueue::Push: notify_all makes a blocked thread look again.         *)
Pushed(t, uid) == [queue EXCEPT ![t] = Append(@, uid)]
Notified(t)    == [pc EXCEPT ![t] = IF @ = "blocked" THEN "size" ELSE @]

(* MatchQueue::Remove: every entry of this player goes, the others keep    *)
(* their order.                                                            *)
Remove(t, uid) ==
  LET keep == {i \in DOMAIN queue[t] : queue[t][i] # uid}
  IN  \E from \in [1 .. Cardinality(keep) -> keep] :
        /\ \A i, j \in DOMAIN from : i < j => from[i] < from[j]
        /\ \A k \in keep : \E i \in DOMAIN from : from[i] = k
        /\ queue' = [queue EXCEPT ![t] =
                       [i \in 1 .. Cardinality(keep) |-> queue[t][from[i]]]]

-----------------------------------------------------------------------------
(* ThreadRunHelper of the thread of queue t.                               *)

Goto(t, label) == pc' = [pc EXCEPT ![t] = label]

(* Variant for the mutation runs: two players are not enough to go on.     *)
SizeOffByOne(t) ==
  /\ pc[t] = "size"
  /\ Goto(t, IF Len(queue[t]) <= 2 THEN "wait" ELSE "pop1")
  /\ UNCHANGED <<rmVars, queue, held, seen, dest, wish, starts, seats>>

Size(t) ==
  /\ pc[t] = "size"
  /\ Goto(t, IF Len(queue[t]) < 2 THEN "wait" ELSE "pop1")
  /\ UNCHANGED <<rmVars, queue, held, seen, dest, wish, starts, seats>>

(* Whatever has happened since Size: Wait does not look.                   *)
Wait(t) ==
  /\ pc[t] = "wait"
  /\ Goto(t, "blocked")
  /\ UNCHANGED <<rmVars, queue, held, seen, dest, wish, starts, seats>>

(* A condition variable may wake up by itself.                             *)
Spurious(t) ==
  /\ pc[t] = "blocked"
  /\ Goto(t, "size")
  /\ UNCHANGED <<rmVars, queue, held, seen, dest, wish, starts, seats>>

(* Variant for the mutation runs: front() without pop_front().             *)
Pop1Peeks(t) ==
  /\ pc[t] = "pop1"
  /\ queue[t] # <<>>
  /\ held' = [held EXCEPT ![t] = <<Head(queue[t])>>]
  /\ Goto(t, "pop2")
  /\ UNCHANGED <<rmVars, queue, seen, dest, wish, starts, seats>>

(* Pop takes the player from the queue into uid1.                          *)
Pop1(t) ==
  /\ pc[t] = "pop1"
  /\ \/ /\ queue[t] = <<>>
        /\ Goto(t, "size")
        /\ UNCHANGED <<queue, held>>
     \/ /\ queue[t] # <<>>
        /\ held' = [held EXCEPT ![t] = <<Head(queue[t])>>]
        /\ queue' = [queue EXCEPT ![t] = Tail(@)]
        /\ Goto(t, "pop2")
  /\ UNCHANGED <<rmVars, seen, dest, wish, starts, seats>>

(* Variant for the mutation runs: continue without adding uid1 again.      *)
Pop2Forgets(t) ==
  /\ pc[t] = "pop2"
  /\ \/ /\ queue[t] = <<>>
        /\ Goto(t, "size")
        /\ UNCHANGED <<queue, held>>
     \/ /\ queue[t] # <<>>
        /\ held' = [held EXCEPT ![t] = Append(@, Head(queue[t]))]
        /\ queue' = [queue EXCEPT ![t] = Tail(@)]
        /\ Goto(t, "conn1")
  /\ UNCHANGED <<rmVars, seen, dest, wish, starts, seats>>

(* ... and into uid2; without a second player the first is added again.    *)
Pop2(t) ==
  /\ pc[t] = "pop2"
  /\ \/ /\ queue[t] = <<>>
        /\ Goto(t, "add")
        /\ UNCHANGED <<queue, held>>
     \/ /\ queue[t] # <<>>
        /\ held' = [held EXCEPT ![t] = Append(@, Head(queue[t]))]
        /\ queue' = [queue EXCEPT ![t] = Tail(@)]
        /\ Goto(t, "conn1")
  /\ UNCHANGED <<rmVars, seen, dest, wish, starts, seats>>

(* Variant for the mutation runs: the thread waits for the player.         *)
Conn1Waits(t) ==
  /\ pc[t] = "conn1"
  /\ InHall(held[t][1])
  /\ seen' = [seen EXCEPT ![t] = <<hallUser[held[t][1]]>>]
  /\ Goto(t, "conn2")
  /\ UNCHANGED <<rmVars, queue, held, dest, wish, starts, seats>>

(* GetConnFromHall of both; who is not in the hall is dropped and the      *)
(* other one added again.                                                  *)
Conn1(t) ==
  /\ pc[t] = "conn1"
  /\ \/ /\ ~InHall(held[t][1])
        /\ held' = [held EXCEPT ![t] = <<@[2]>>]
        /\ Goto(t, "add")
        /\ UNCHANGED seen
     \/ /\ InHall(held[t][1])
        /\ seen' = [seen EXCEPT ![t] = <<hallUser[held[t][1]]>>]
        /\ Goto(t, "conn2")
        /\ UNCHANGED held
  /\ UNCHANGED <<rmVars, queue, dest, wish, starts, seats>>

(* Variant for the mutation runs: the player who left is added again, and  *)
(* the one who is still here is not.                                       *)
Conn2Swapped(t) ==
  /\ pc[t] = "conn2"
  /\ ~InHall(held[t][2])
  /\ held' = [held EXCEPT ![t] = <<@[2]>>]
  /\ seen' = [seen EXCEPT ![t] = <<>>]
  /\ Goto(t, "add")
  /\ UNCHANGED <<rmVars, queue, dest, wish, starts, seats>>

Conn2(t) ==
  /\ pc[t] = "conn2"
  /\ \/ /\ ~InHall(held[t][2])
        /\ held' = [held EXCEPT ![t] = <<@[1]>>]
        /\ seen' = [seen EXCEPT ![t] = <<>>]
        /\ Goto(t, "add")
     \/ /\ InHall(held[t][2])
        /\ seen' = [seen EXCEPT ![t] = Append(@, hallUser[held[t][2]])]
        /\ Goto(t, "hall1")
        /\ UNCHANGED held
  /\ UNCHANGED <<rmVars, queue, dest, wish, starts, seats>>

(* CreateRoomForTwoUser, its first and second test; a null room makes both *)
(* players be added again.                                                 *)
HallTest(t, here, uid, next) ==
  /\ pc[t] = here
  /\ \/ /\ InHall(uid)
        /\ Goto(t, next)
        /\ UNCHANGED seen
     \/ /\ ~InHall(uid)
        /\ seen' = [seen EXCEPT ![t] = <<>>]
        /\ Goto(t, "add")
  /\ UNCHANGED <<rmVars, queue, held, dest, wish, starts, seats>>

Hall1(t) == HallTest(t, "hall1", held[t][1], "hall2")
Hall2(t) == HallTest(t, "hall2", held[t][2], "create")

(* CreateRoomForTwoUser, its critical section.                             *)
Create(t) ==
  LET uid1 == held[t][1]
      uid2 == held[t][2]
  IN  /\ pc[t] = "create"
      /\ InsertRoom(uid1, uid2)
      /\ wish' = [u \in Uids |-> IF u \in {uid1, uid2} THEN "none" ELSE wish[u]]
      /\ seats' = [u \in Uids |-> seats[u] + Cardinality(
                                    {i \in DOMAIN held[t] : held[t][i] = u})]
      /\ Goto(t, "send")
      /\ UNCHANGED <<onlineVars, table, queue, held, seen, dest, starts>>

(* match_success goes to conn1 and conn2.  On a connection that was closed *)
(* since, the message goes nowhere and nobody notices.                     *)
Send(t) ==
  /\ pc[t] = "send"
  /\ held' = [held EXCEPT ![t] = <<>>]
  /\ seen' = [seen EXCEPT ![t] = <<>>]
  /\ Goto(t, "size")
  /\ UNCHANGED <<rmVars, queue, dest, wish, starts, seats>>

(* Add, called by the thread for each player it still holds: SelectById,   *)
(* which may fail, and then nobody has this player any more,               *)
AddSelect(t) ==
  LET uid == Head(held[t])
  IN  /\ pc[t] = "add"
      /\ \E found \in QueryResults :
           \/ /\ found
              /\ dest' = [dest EXCEPT ![t] = Tier(table[uid].score)]
              /\ Goto(t, "push")
              /\ UNCHANGED <<held, wish>>
           \/ /\ ~found
              /\ held' = [held EXCEPT ![t] = Tail(@)]
              /\ Goto(t, IF Len(held[t]) = 1 THEN "size" ELSE "add")
              /\ wish' = [wish EXCEPT ![uid] = "none"]
              /\ UNCHANGED dest
      /\ UNCHANGED <<rmVars, queue, seen, starts, seats>>

(* and Push, into the queue of the score just read.                        *)
AddPush(t) ==
  LET uid  == Head(held[t])
      next == IF Len(held[t]) = 1 THEN "size" ELSE "add"
  IN  /\ pc[t] = "push"
      /\ queue' = Pushed(dest[t], uid)
      /\ pc' = [Notified(dest[t]) EXCEPT ![t] = next]
      /\ held' = [held EXCEPT ![t] = Tail(@)]
      /\ dest' = [dest EXCEPT ![t] = None]
      /\ UNCHANGED <<rmVars, seen, wish, starts, seats>>

Running(t) ==
  \/ Size(t) \/ Wait(t) \/ Pop1(t) \/ Pop2(t) \/ Conn1(t) \/ Conn2(t)
  \/ Hall1(t) \/ Hall2(t) \/ Create(t) \/ Send(t) \/ AddSelect(t) \/ AddPush(t)

-----------------------------------------------------------------------------
(* The thread of the event loop.  The messages match_start and match_stop  *)
(* come on any connection to the hall, also on one that is not registered  *)
(* because another connection of the player was, or has been erased.       *)

(* Add, called for match_start.  No other thread writes the table, so its  *)
(* query and its Push are one step.  The player is told that matching has  *)
(* started whether or not Add succeeds.                                    *)
MatchStart(uid) ==
  LET t == Tier(table[uid].score)
  IN  /\ starts[uid] < MaxStarts                      \* bound
      /\ starts' = [starts EXCEPT ![uid] = @ + 1]
      /\ \E found \in QueryResults :
           \/ /\ found
              /\ queue' = Pushed(t, uid)
              /\ pc' = Notified(t)
              /\ wish' = [wish EXCEPT ![uid] = IF InHall(uid) THEN "match"
                                                ELSE "none"]
           \/ /\ ~found
              /\ wish' = [wish EXCEPT ![uid] = "none"]
              /\ UNCHANGED <<queue, pc>>
      /\ UNCHANGED <<rmVars, held, seen, dest, seats>>

(* Del, called for match_stop: the queue of the score he has now.          *)
MatchStop(uid) ==
  /\ \E found \in QueryResults :
       \/ /\ found
          /\ Remove(Tier(table[uid].score), uid)
       \/ /\ ~found
          /\ UNCHANGED queue
  /\ wish' = [wish EXCEPT ![uid] = "none"]
  /\ UNCHANGED <<rmVars, threadVars, starts, seats>>

EnterTheHall(uid, conn) ==
  /\ EnterHall(uid, conn)
  /\ UNCHANGED <<table, roomVars, matcherVars>>

LeaveTheHall(uid) ==
  /\ InHall(uid)
  /\ ExitHall(uid)
  /\ wish' = [wish EXCEPT ![uid] = "none"]
  /\ UNCHANGED <<table, roomVars, queue, threadVars, starts, seats>>

(* What goes on in the rooms meanwhile.                                    *)
InTheRooms ==
  /\ \/ \E u \in Uids : CloseRoom(u) \/ \E c \in Conns : OpenRoom(u, c)
     \/ \E u \in Uids, c \in Cells : HandleRequest(u, c)
  /\ UNCHANGED matcherVars

MatcherNext ==
  \/ \E t \in Tiers : Running(t) \/ Spurious(t)
  \/ \E u \in Uids : MatchStart(u) \/ MatchStop(u) \/ LeaveTheHall(u)
  \/ \E u \in Uids, c \in Conns : EnterTheHall(u, c)
  \/ InTheRooms

MatcherSpec == MatcherInit /\ [][MatcherNext]_vars

(* The scheduler runs every thread that is not blocked; nothing obliges a  *)
(* player to do anything, nor a condition variable to wake up by itself.   *)
FairMatcherSpec == MatcherSpec /\ \A t \in Tiers : WF_vars(Running(t))

-----------------------------------------------------------------------------
(* Every variable keeps its type, and a thread holds as many players as    *)
(* the place in ThreadRunHelper where it is needs.                         *)
Hands(t) ==
  /\ pc[t] \in {"size", "wait", "blocked", "pop1"} => held[t] = <<>>
  /\ pc[t] = "pop2" => Len(held[t]) = 1
  /\ pc[t] \in {"conn1", "conn2", "hall1", "hall2", "create", "send"} =>
       Len(held[t]) = 2
  /\ pc[t] \in {"add", "push"} => Len(held[t]) \in 1 .. 2
  /\ pc[t] = "push" <=> dest[t] # None

MatcherTypeOK ==
  /\ RmTypeOK
  /\ queue \in [Tiers -> Seq(Uids)]
  /\ pc \in [Tiers -> PCs]
  /\ held \in [Tiers -> Seq(Uids)]
  /\ seen \in [Tiers -> Seq(Conns)]
  /\ dest \in [Tiers -> Tiers \cup {None}]
  /\ wish \in [Uids -> {"none", "match"}]
  /\ starts \in [Uids -> Nat]
  /\ seats \in [Uids -> Nat]
  /\ \A t \in Tiers : Hands(t)

(* The players a thread still has to match or to give back.                *)
Holding(t) == IF pc[t] = "send" THEN <<>> ELSE held[t]

(* The retry paths of ThreadRunHelper lose nobody: a player who asked for  *)
(* a match, did not take it back and stayed in the hall is in some queue   *)
(* or in the hands of a thread until he gets a room.  Only the player      *)
(* missing from the hall may be dropped, even when he was read before      *)
(* somebody left, and a query that fails is the only other way out.        *)
Waiting == {u \in Uids : wish[u] = "match"}

WaitersNotLost ==
  \A u \in Waiting :
    /\ InHall(u)
    /\ \E t \in Tiers : u \in Elements(queue[t]) \cup Elements(Holding(t))

(* Nor do they multiply anybody: what lies in the queues and in the hands  *)
(* of the threads, and the places given away in rooms, were all asked for. *)
Count(seq, u) == Cardinality({i \in DOMAIN seq : seq[i] = u})

Copies(t, u) ==
  IF t \in Tiers THEN Count(queue[t], u) + Count(Holding(t), u) ELSE 0

SeatsWereAskedFor ==
  \A u \in Uids :
    Copies("bronze", u) + Copies("silver", u) + Copies("gold", u) + seats[u]
      <= starts[u]

(* A thread that is not asleep, nor just falling asleep, takes two players *)
(* out of a queue that has them, unless they are deleted first.            *)
Awake(t) == pc[t] \notin {"wait", "blocked"}

AwakeThreadPops ==
  \A t \in Tiers :
    Awake(t) /\ Len(queue[t]) >= 2 ~> Len(queue[t]) < 2 \/ pc[t] = "conn1"

(* Between popping players and having matched or added them again a thread *)
(* blocks on nothing: whoever it took is matched, added again or dropped.  *)
HeldPlayersReleased ==
  \A t \in Tiers : held[t] # <<>> ~> held[t] = <<>> \/ nextRid \notin Rids

-----------------------------------------------------------------------------
(* What comments and messages of the code say, and its behaviour           *)
(* contradicts.                                                            *)

(* matcher.hpp:20 "block the consumer thread, it blocks when               *)
(* _list.size() < 2": a blocked thread has fewer than two players.         *)
BlockedOnlyWhenShort ==
  \A t \in Tiers : pc[t] = "blocked" => Len(queue[t]) < 2

(* matcher.hpp:95 "take two players out of the queue": a room has two      *)
(* different players.                                                      *)
NoSelfMatch == \A r \in Rids : Live(r) => rooms[r].white # rooms[r].black

=============================================================================
