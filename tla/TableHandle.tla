---------------------------- MODULE TableHandle -----------------------------
(***************************************************************************)
(* Class UserTable (src/database.hpp) as its threads use it: one MYSQL     *)
(* handle, which the event loop and the matching threads share.  The       *)
(* queries that select hold _mtx from mysql_query to mysql_store_result;   *)
(* those that insert or update do not take it.                             *)
(*                                                                         *)
(* The client library (outside src/) has one exchange with the server at a *)
(* time: mysql_query writes a query and reads its answer, and the rows of  *)
(* a select stay pending until mysql_store_result.  A query sent while     *)
(* rows are pending is refused ("commands out of sync").  Two threads      *)
(* inside the library at once tear the exchange.  From then on a call may  *)
(* return anything; or never return, when another thread has read what was *)
(* meant for it: no read timeout is set.                                   *)
(***************************************************************************)
EXTENDS UserTable, Sequences

CONSTANTS Matching, Loop, \* the matching threads, and the event loop's
          Nobody,         \* no thread
          Nothing,        \* no row, no answer
          Unasked,        \* the server has not answered
          Accounts,       \* the rows there are at the start
          BRONZE_SCORE, SILVER_SCORE, \* 1000 and 3000 in the code
          IntMax, UMod,   \* 2^31 - 1 and 2^64 in the code
          MaxCalls        \* bound: handlers and calls of Add

Threads == Matching \cup {Loop}

(* What a select finds.                                                    *)
Answers == [id : Uids, row : Row] \cup {Nothing}

ASSUME HandleAssumption ==
  /\ Loop \notin Matching
  /\ Nobody \notin Threads
  /\ Nothing \notin [score : Int, pkCnt : Nat, winCnt : Nat]
  /\ Unasked \notin Answers
  /\ Accounts \in [Uids -> Row \cup {Nothing}]
  /\ IntMax \in Nat /\ UMod \in Nat
  /\ \A s \in Scores : -IntMax - 1 <= s /\ s <= IntMax
  /\ UMod > 2 * IntMax + 1
  /\ MaxCalls \in Nat

VARIABLES mtx,      \* who holds _mtx
          todo,     \* the calls a thread makes, the first one going on
          pc,       \* where it is in that call
          inside,   \* the threads inside the client library's exchange
          pending,  \* the rows not yet read
          torn,     \* two threads have been inside at once
          result,   \* what the call returns: Nothing for false
          truth,    \* history: what the server answered to this call
          placed,   \* the queue the last Add of a thread chose
          crashed,  \* an exception nobody catches has ended the process
          calls     \* number of calls begun

libVars    == <<inside, pending, torn>>
callVars   == <<todo, pc, result, truth>>
endVars    == <<placed, crashed, calls>>
handleVars == <<table, mtx, libVars, callVars, endVars>>

Selects == {"login", "select", "add"}
Updates == {"insert", "win", "lose"}

Call(op, id) == [op |-> op, id |-> id]

Op(t)     == todo[t][1].op
Target(t) == todo[t][1].id

HandleInit ==
  /\ table = Accounts
  /\ mtx = Nobody
  /\ todo = [t \in Threads |-> <<>>]
  /\ pc = [t \in Threads |-> "idle"]
  /\ inside = {} /\ pending = Nothing /\ torn = FALSE
  /\ result = [t \in Threads |-> Nothing]
  /\ truth = [t \in Threads |-> Unasked]
  /\ placed = [t \in Threads |-> Nothing]
  /\ crashed = FALSE
  /\ calls = 0

-----------------------------------------------------------------------------
(* What is called: RegisteHandler, LoginHandler, InfoHandler, match_start  *)
(* and match_stop, the end of a game; and Add by a matching thread.        *)
LoopCalls ==
  {<<Call(op, u)>> : op \in {"insert", "login", "select", "add"}, u \in Uids}
    \cup {<<Call("win", u), Call("lose", v)>> : u, v \in Uids}

AddCalls == {<<Call("add", u)>> : u \in Uids}

Begin(t) ==
  /\ pc[t] = "idle"
  /\ calls < MaxCalls                                 \* bound
  /\ calls' = calls + 1
  /\ \E cs \in IF t = Loop THEN LoopCalls ELSE AddCalls :
       todo' = [todo EXCEPT ![t] = cs]
  /\ pc' = [pc EXCEPT ![t] = "call"]
  /\ UNCHANGED <<table, mtx, libVars, result, truth, placed, crashed>>

(* Variant for the mutation runs: nobody takes _mtx.                       *)
EnterUnlocked(t) ==
  /\ pc[t] = "call"
  /\ pc' = [pc EXCEPT ![t] = "query"]
  /\ truth' = [truth EXCEPT ![t] = Unasked]
  /\ UNCHANGED <<table, mtx, libVars, todo, result, endVars>>

(* The scope of the lock begins.                                           *)
Enter(t) ==
  /\ pc[t] = "call"
  /\ Op(t) \in Selects => mtx = Nobody
  /\ mtx' = IF Op(t) \in Selects THEN t ELSE mtx
  /\ pc' = [pc EXCEPT ![t] = "query"]
  /\ truth' = [truth EXCEPT ![t] = Unasked]
  /\ UNCHANGED <<table, libVars, todo, result, endVars>>

(* Variant for the mutation runs: locked by hand, and kept by a return.    *)
KeptMtx(t) == mtx

(* It ends, also by the returns inside.                                    *)
Unlocked(t) == IF mtx = t THEN Nobody ELSE mtx

(* mysql_query refuses to start while rows are pending,                    *)
OutOfSync(t) ==
  /\ pc[t] = "query"
  /\ inside = {} /\ pending # Nothing /\ ~torn
  /\ result' = [result EXCEPT ![t] = Nothing]
  /\ pc' = [pc EXCEPT ![t] = "return"]
  /\ mtx' = Unlocked(t)
  /\ UNCHANGED <<table, libVars, todo, truth, endVars>>

(* or writes the query.                                                    *)
Send(t) ==
  /\ pc[t] = "query"
  /\ inside # {} \/ pending = Nothing \/ torn
  /\ inside' = inside \cup {t}
  /\ torn' = (torn \/ inside # {})
  /\ pc' = [pc EXCEPT ![t] = "wire"]
  /\ UNCHANGED <<table, mtx, pending, todo, result, truth, endVars>>

(* The statements: a username is taken once, and an update of a missing    *)
(* row changes nothing.  (A user's id stands for his name, too.)           *)
Applied(op, id) ==
  CASE op = "insert"                     -> [table EXCEPT ![id] = NewUser]
    [] op = "win"  /\ table[id] # Nothing -> Win(table, id)
    [] op = "lose" /\ table[id] # Nothing -> Lose(table, id)
    [] OTHER                             -> table

Accepts(op, id) == op = "insert" => table[id] = Nothing

(* Some row that is in the table, with the id of its user.                 *)
Rows == {[id |-> u, row |-> table[u]] : u \in {v \in Uids : table[v] # Nothing}}

RowOf(id) == IF table[id] = Nothing THEN Nothing ELSE [id |-> id, row |-> table[id]]

(* The server runs the query and its answer is read.  (A wrong password    *)
(* finds no row.)                                                          *)
Answer(t) ==
  /\ pc[t] = "wire"
  /\ inside' = inside \ {t}
  /\ \E ok \in QueryResults :
       /\ table' = IF ok /\ Accepts(Op(t), Target(t)) THEN Applied(Op(t), Target(t))
                   ELSE table
       /\ \/ /\ ok /\ Op(t) \in Selects
             /\ \E found \in IF Op(t) = "login" THEN {RowOf(Target(t)), Nothing}
                             ELSE {RowOf(Target(t))} :
                  /\ pending' = found
                  /\ truth' = [truth EXCEPT ![t] = found]
             /\ pc' = [pc EXCEPT ![t] = "store"]
             /\ UNCHANGED <<mtx, result>>
          \/ /\ ~(ok /\ Op(t) \in Selects)
             /\ pc' = [pc EXCEPT ![t] = "return"]
             /\ result' = [result EXCEPT ![t] = Nothing]
             /\ truth' = [truth EXCEPT ![t] = Nothing]
             /\ mtx' = Unlocked(t)
             /\ UNCHANGED pending
  /\ \A u \in Uids : table'[u] # Nothing => table'[u].score \in Scores  \* bound
  /\ UNCHANGED <<torn, todo, endVars>>

(* The answer of a torn exchange, if one comes: of another query, or an    *)
(* error; the server may have run the query or not.                        *)
AnswerTorn(t) ==
  /\ pc[t] = "wire"
  /\ torn
  /\ inside' = inside \ {t}
  /\ \/ UNCHANGED table
     \/ /\ Accepts(Op(t), Target(t))
        /\ table' = Applied(Op(t), Target(t))
  /\ pending' \in Rows \cup {Nothing}
  /\ truth' = [truth EXCEPT ![t] = Nothing]
  /\ \/ /\ Op(t) \in Selects
        /\ pc' = [pc EXCEPT ![t] = "store"]
        /\ UNCHANGED <<mtx, result>>
     \/ /\ pc' = [pc EXCEPT ![t] = "return"]
        /\ result' = [result EXCEPT ![t] = Nothing]
        /\ mtx' = Unlocked(t)
  /\ \A u \in Uids : table'[u] # Nothing => table'[u].score \in Scores  \* bound
  /\ UNCHANGED <<torn, todo, endVars>>

(* mysql_store_result takes what is pending.                               *)
Store(t) ==
  /\ pc[t] = "store"
  /\ \/ /\ ~torn /\ inside = {}
        /\ result' = [result EXCEPT ![t] = pending]
     \/ /\ torn \/ inside # {}
        /\ \E row \in Rows \cup {pending, Nothing} :
             result' = [result EXCEPT ![t] = row]
  /\ torn' = (torn \/ inside # {})
  /\ pending' = Nothing
  /\ mtx' = Unlocked(t)
  /\ pc' = [pc EXCEPT ![t] = "return"]
  /\ UNCHANGED <<table, inside, todo, truth, endVars>>

-----------------------------------------------------------------------------
(* (Json::UInt64)std::stol(row[1])                                         *)
UInt64(score) == score % UMod

(* Json::Value::asInt throws when the number does not fit.                 *)
asIntThrows(value) == value > IntMax

(* Variant for the mutation runs: asInt keeps the low bits.                *)
TierOfBits(value) == IF value % (2 * (IntMax + 1)) < BRONZE_SCORE THEN "bronze"
                     ELSE IF value < SILVER_SCORE THEN "silver" ELSE "gold"

(* The queue that Matcher::Add (and Del) choose by this number.            *)
TierOf(value) == IF value < BRONZE_SCORE THEN "bronze"
                 ELSE IF value < SILVER_SCORE THEN "silver" ELSE "gold"

(* Variant for the mutation runs: any number is read as an int.            *)
Returned(t) ==
  /\ pc[t] = "return"
  /\ placed' = IF Op(t) = "add" /\ result[t] # Nothing
               THEN [placed EXCEPT ![t] = TierOf(UInt64(result[t].row.score))]
               ELSE placed
  /\ todo' = [todo EXCEPT ![t] = Tail(@)]
  /\ pc' = [pc EXCEPT ![t] = IF Tail(todo[t]) = <<>> THEN "idle" ELSE "call"]
  /\ UNCHANGED <<table, mtx, libVars, result, truth, crashed, calls>>

(* Variant for the mutation runs: the next call of the caller is forgotten.*)
ReturnedForGood(t) ==
  /\ pc[t] = "return"
  /\ todo' = [todo EXCEPT ![t] = Tail(@)]
  /\ pc' = [pc EXCEPT ![t] = "idle"]
  /\ UNCHANGED <<table, mtx, libVars, result, truth, endVars>>

(* The call returns to its caller, who makes the next one; Add looks at    *)
(* the score.                                                              *)
Return(t) ==
  /\ pc[t] = "return"
  /\ LET scored == Op(t) = "add" /\ result[t] # Nothing
         value  == UInt64(result[t].row.score)
     IN  /\ crashed' = (scored /\ asIntThrows(value))
         /\ placed' = IF scored /\ ~asIntThrows(value)
                      THEN [placed EXCEPT ![t] = TierOf(value)] ELSE placed
  /\ todo' = [todo EXCEPT ![t] = Tail(@)]
  /\ pc' = [pc EXCEPT ![t] = IF Tail(todo[t]) = <<>> THEN "idle" ELSE "call"]
  /\ UNCHANGED <<table, mtx, libVars, result, truth, calls>>

GoOn(t) ==
  /\ ~crashed
  /\ \/ Enter(t) \/ OutOfSync(t) \/ Send(t) \/ Answer(t) \/ AnswerTorn(t)
     \/ Store(t) \/ Return(t)

HandleNext == \E t \in Threads : (~crashed /\ Begin(t)) \/ GoOn(t)

HandleSpec == HandleInit /\ [][HandleNext]_handleVars

(* A thread that reads from the connection when another one does, or has   *)
(* done so: what it waits for may be gone.                                 *)
ReadsTorn(t) == pc[t] \in {"wire", "store"} /\ (torn \/ inside \ {t} # {})

(* The scheduler runs every thread that can go on, and the server answers; *)
(* but nothing is promised to a thread that reads from a torn connection.  *)
FairHandleSpec ==
  HandleSpec /\ \A t \in Threads : WF_handleVars(GoOn(t) /\ ~ReadsTorn(t))

-----------------------------------------------------------------------------
(* Every variable keeps its type, and a thread has something to do exactly *)
(* when it is not idle.                                                    *)
HandleTypeOK ==
  /\ table \in [Uids -> Row \cup {Nothing}]
  /\ mtx \in Threads \cup {Nobody}
  /\ pc \in [Threads -> {"idle", "call", "query", "wire", "store", "return"}]
  /\ todo \in [Threads -> Seq([op : Selects \cup Updates, id : Uids])]
  /\ inside = {t \in Threads : pc[t] = "wire"}
  /\ pending \in Answers /\ torn \in BOOLEAN
  /\ result \in [Threads -> Answers] /\ truth \in [Threads -> Answers \cup {Unasked}]
  /\ placed \in [Threads -> {"bronze", "silver", "gold", Nothing}]
  /\ crashed \in BOOLEAN /\ calls \in Nat
  /\ \A t \in Threads : pc[t] = "idle" <=> todo[t] = <<>>

(* Until the exchange is torn, every select gets through to the server and *)
(* returns what that found for it, although queries and rows pass through  *)
(* a handle that others use: _mtx keeps the other selects away, and the    *)
(* library refuses the updates.                                            *)
SelectTellsTruth ==
  ~torn => \A t \in Threads :
    pc[t] = "return" /\ Op(t) \in Selects =>
      /\ result[t] = truth[t]
      /\ result[t] # Nothing => result[t].id = Target(t)

(* Selects do not get in each other's way: only an insert or an update of  *)
(* the event loop, which do without _mtx, tears the exchange.              *)
TornNeedsUpdate ==
  [][~torn /\ torn' =>
       \E t \in inside' \cup inside : t = Loop /\ Op(t) \in Updates]_handleVars

(* Add chooses the queue by the score that was read, although the number   *)
(* goes through an unsigned type; a score below zero ends the process.     *)
AddPlacesByScore ==
  [][\A t \in Threads :
       pc[t] = "return" /\ pc'[t] # "return" /\ Op(t) = "add" /\ result[t] # Nothing =>
         LET score == result[t].row.score
         IN  IF score < 0 THEN crashed' ELSE placed'[t] = TierOf(score)]_handleVars

(* Blocked by a torn exchange: the thread itself, or the one that holds    *)
(* the lock it wants.                                                      *)
CutOff(t) ==
  \/ ReadsTorn(t)
  \/ /\ pc[t] = "call" /\ Op(t) \in Selects
     /\ \E h \in Threads : mtx = h /\ ReadsTorn(h)

(* Every call returns, also those that fail inside the lock's scope or are *)
(* refused: only a torn exchange keeps one, and the selects behind it.     *)
CallsComeBack ==
  \A t \in Threads : pc[t] # "idle" ~> pc[t] = "idle" \/ crashed \/ CutOff(t)

=============================================================================
