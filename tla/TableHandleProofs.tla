------------------------- MODULE TableHandleProofs --------------------------
(***************************************************************************)
(* Proofs about module TableHandle, for any players, threads and scores:   *)
(* until two threads meet inside the client library selects return what    *)
(* the server found, and only a query without _mtx lets them meet.         *)
(***************************************************************************)
EXTENDS TableHandle, SequenceTheorems, TLAPS

Calls == [op : Selects \cup Updates, id : Uids]

(* A select holds _mtx from its query to the end of its exchange, and the  *)
(* matching threads do nothing but select.                                 *)
Locking ==
  /\ \A t \in Threads :
       /\ pc[t] \in {"query", "wire", "store"} /\ Op(t) \in Selects => mtx = t
       /\ pc[t] = "store" => Op(t) \in Selects
  /\ \A t \in Matching : todo[t] \in {<<>>} \cup AddCalls

(* What is pending is the answer to the select that will read it.          *)
PendingIsMine ==
  ~torn =>
    /\ pending # Nothing => \E t \in Threads : pc[t] = "store"
    /\ \A t \in Threads : pc[t] = "store" =>
         /\ pending = truth[t]
         /\ pending # Nothing => pending.id = Target(t)

HandleInv == HandleTypeOK /\ Locking /\ PendingIsMine /\ SelectTellsTruth

-----------------------------------------------------------------------------
(* A call reads or writes; handlers make some calls, Add one that reads.   *)
LEMMA Ops ==
  /\ Selects \cap Updates = {}
  /\ \A cs \in LoopCalls \cup AddCalls : cs \in Seq(Calls) /\ cs # <<>>
  /\ \A cs \in AddCalls : Tail(cs) = <<>> /\ cs[1].op \in Selects
<1>1. Selects \cap Updates = {}
  BY DEF Selects, Updates
<1>2. ASSUME NEW cs \in LoopCalls \cup AddCalls
      PROVE  cs \in Seq(Calls) /\ cs # <<>>
  <2>1. ASSUME NEW op \in Selects \cup Updates, NEW u \in Uids, cs = <<Call(op, u)>>
        PROVE  cs \in Seq(Calls) /\ cs # <<>>
    BY <2>1 DEF Calls, Call
  <2>2. ASSUME NEW u \in Uids, NEW v \in Uids, cs = <<Call("win", u), Call("lose", v)>>
        PROVE  cs \in Seq(Calls) /\ cs # <<>>
    <3>1. Call("win", u) \in Calls /\ Call("lose", v) \in Calls
      BY DEF Calls, Call, Updates
    <3> QED
      BY <2>2, <3>1
  <2>3. {"insert", "login", "select", "add"} \subseteq Selects \cup Updates
    BY DEF Selects, Updates
  <2> QED
    BY <1>2, <2>1, <2>2, <2>3 DEF LoopCalls, AddCalls
<1>3. ASSUME NEW cs \in AddCalls
      PROVE  Tail(cs) = <<>> /\ cs[1].op \in Selects
  <2>1. PICK u \in Uids : cs = <<Call("add", u)>>
    BY <1>3 DEF AddCalls
  <2>2. cs \in Seq(Calls) /\ Len(cs) = 1 /\ cs # <<>> /\ cs[1] = Call("add", u)
    BY <1>2, <1>3, <2>1
  <2>3. Tail(cs) \in Seq(Calls) /\ Len(Tail(cs)) = 0
    BY <2>2, HeadTailProperties
  <2>4. Tail(cs) = <<>>
    BY <2>3, EmptySeq
  <2> QED
    BY <2>2, <2>4 DEF Call, Selects
<1> QED
  BY <1>1, <1>2, <1>3

(* A thread that is not idle has a call to make.                           *)
LEMMA CurrentCall ==
  ASSUME HandleTypeOK, NEW t \in Threads, pc[t] # "idle"
  PROVE  /\ todo[t] \in Seq(Calls) /\ todo[t] # <<>>
         /\ Op(t) \in Selects \cup Updates /\ Target(t) \in Uids
         /\ Tail(todo[t]) \in Seq(Calls)
<1>1. todo[t] \in Seq(Calls) /\ todo[t] # <<>>
  BY DEF HandleTypeOK, Calls
<1>2. todo[t][1] \in Calls /\ Tail(todo[t]) \in Seq(Calls)
  BY <1>1, HeadTailProperties
<1> QED
  BY <1>1, <1>2 DEF Op, Target, Calls

(* The row of a player is an answer, and his.                              *)
LEMMA RowOfType ==
  ASSUME HandleTypeOK, NEW u \in Uids
  PROVE  /\ RowOf(u) \in Answers
         /\ RowOf(u) # Nothing => RowOf(u).id = u
  BY DEF HandleTypeOK, RowOf, Answers

(* So are all rows.                                                        *)
LEMMA RowsType ==
  ASSUME HandleTypeOK
  PROVE  Rows \subseteq Answers
  BY DEF HandleTypeOK, Rows, Answers

(* An update makes rows of rows.                                           *)
LEMMA AppliedType ==
  ASSUME HandleTypeOK, NEW op, NEW u \in Uids,
         \A v \in Uids : Applied(op, u)[v] # Nothing => Applied(op, u)[v].score \in Scores
  PROVE  Applied(op, u) \in [Uids -> Row \cup {Nothing}]
<1>1. table \in [Uids -> Row \cup {Nothing}]
  BY DEF HandleTypeOK
<1>2. NewUser \in Row
  BY UserTableAssumption DEF NewUser, Row
<1>3. CASE op = "insert"
  BY <1>1, <1>2, <1>3 DEF Applied
<1>4. CASE op = "win" /\ table[u] # Nothing
  <2>1. Applied(op, u) = Win(table, u)
    BY <1>4 DEF Applied
  <2>2. table[u].score + 30 \in Scores
    <3>1. /\ table[u].score \in Int /\ table[u].pkCnt \in Nat
          /\ table[u].winCnt \in Nat
      BY <1>1, <1>4, UserTableAssumption DEF Row
    <3>2. Applied(op, u)[u] = [score |-> table[u].score + 30,
                               pkCnt |-> table[u].pkCnt + 1,
                               winCnt |-> table[u].winCnt + 1]
      BY <1>1, <2>1 DEF Win
    <3>3. Applied(op, u)[u] \in [score : Int, pkCnt : Nat, winCnt : Nat]
      BY <3>1, <3>2
    <3>4. Applied(op, u)[u] # Nothing
      BY <3>3, HandleAssumption
    <3> QED
      BY <3>2, <3>4
  <2> QED
    BY <1>1, <1>4, <2>1, <2>2 DEF Win, Row
<1>5. CASE op = "lose" /\ table[u] # Nothing
  <2>1. Applied(op, u) = Lose(table, u)
    BY <1>5 DEF Applied
  <2>2. table[u].score - 30 \in Scores
    <3>1. /\ table[u].score \in Int /\ table[u].pkCnt \in Nat
          /\ table[u].winCnt \in Nat
      BY <1>1, <1>5, UserTableAssumption DEF Row
    <3>2. Applied(op, u)[u] = [score |-> table[u].score - 30,
                               pkCnt |-> table[u].pkCnt + 1,
                               winCnt |-> table[u].winCnt]
      BY <1>1, <2>1 DEF Lose
    <3>3. Applied(op, u)[u] \in [score : Int, pkCnt : Nat, winCnt : Nat]
      BY <3>1, <3>2
    <3>4. Applied(op, u)[u] # Nothing
      BY <3>3, HandleAssumption
    <3> QED
      BY <3>2, <3>4
  <2> QED
    BY <1>1, <1>5, <2>1, <2>2 DEF Lose, Row
<1>6. CASE /\ op # "insert"
           /\ op = "win" => table[u] = Nothing
           /\ op = "lose" => table[u] = Nothing
  BY <1>1, <1>6 DEF Applied
<1> QED
  BY <1>3, <1>4, <1>5, <1>6

-----------------------------------------------------------------------------
(* At first nobody is in the library.                                      *)
LEMMA HandleInitInv == HandleInit => HandleInv
<1> SUFFICES ASSUME HandleInit PROVE HandleInv
  OBVIOUS
<1>1. HandleTypeOK
  BY HandleAssumption, EmptySeq DEF HandleInit, HandleTypeOK, Answers
<1>2. Locking /\ PendingIsMine /\ SelectTellsTruth
  BY DEF HandleInit, Locking, PendingIsMine, SelectTellsTruth, Threads
<1> QED
  BY <1>1, <1>2 DEF HandleInv

(* The invariant, step by step: a handler begins, ...                      *)
LEMMA BeginInv ==
  ASSUME HandleInv, NEW t \in Threads, Begin(t)
  PROVE  HandleInv'
<1>1. PICK cs \in IF t = Loop THEN LoopCalls ELSE AddCalls :
        todo' = [todo EXCEPT ![t] = cs]
  BY DEF Begin
<1>2. cs \in Seq(Calls) /\ cs # <<>> /\ (t \in Matching => cs \in AddCalls)
  BY <1>1, Ops, HandleAssumption
<1>3. /\ pc[t] = "idle" /\ pc' = [pc EXCEPT ![t] = "call"]
      /\ calls' = calls + 1
      /\ UNCHANGED <<table, mtx, inside, pending, torn, result, truth, placed,
                     crashed>>
  BY DEF Begin, libVars
<1>4. HandleTypeOK'
  <2>1. HandleTypeOK
    BY DEF HandleInv
  <2>2. /\ todo \in [Threads -> Seq(Calls)]
        /\ inside = {u \in Threads : pc[u] = "wire"}
        /\ \A u \in Threads : pc[u] = "idle" <=> todo[u] = <<>>
    BY <2>1 DEF HandleTypeOK, Calls
  <2>3. todo' \in [Threads -> Seq(Calls)]
    BY <1>1, <1>2, <2>2
  <2>4. pc' \in [Threads -> {"idle", "call", "query", "wire", "store", "return"}]
    BY <1>3, <2>1 DEF HandleTypeOK
  <2>5. inside' = {u \in Threads : pc'[u] = "wire"}
    BY <1>3, <2>1, <2>2 DEF HandleTypeOK
  <2>6. \A u \in Threads : pc'[u] = "idle" <=> todo'[u] = <<>>
    BY <1>1, <1>2, <1>3, <2>1, <2>2 DEF HandleTypeOK
  <2>7. /\ table' \in [Uids -> Row \cup {Nothing}]
        /\ mtx' \in Threads \cup {Nobody}
        /\ pending' \in Answers /\ torn' \in BOOLEAN
        /\ result' \in [Threads -> Answers]
        /\ truth' \in [Threads -> Answers \cup {Unasked}]
        /\ placed' \in [Threads -> {"bronze", "silver", "gold", Nothing}]
        /\ crashed' \in BOOLEAN /\ calls' \in Nat
    BY <1>3, <2>1 DEF HandleTypeOK
  <2> QED
    BY <2>3, <2>4, <2>5, <2>6, <2>7 DEF HandleTypeOK, Calls
<1>5. \A u \in Threads : u # t => /\ todo'[u] = todo[u] /\ pc'[u] = pc[u]
                                  /\ Op(u)' = Op(u) /\ Target(u)' = Target(u)
  BY <1>1, <1>3 DEF HandleInv, HandleTypeOK, Op, Target
<1>6. pc'[t] = "call" /\ todo'[t] = cs
  BY <1>1, <1>3 DEF HandleInv, HandleTypeOK
<1>7. Locking'
  BY <1>2, <1>3, <1>5, <1>6 DEF HandleInv, Locking, Threads
<1>8. PendingIsMine' /\ SelectTellsTruth'
  BY <1>3, <1>5, <1>6 DEF HandleInv, PendingIsMine, SelectTellsTruth
<1> QED
  BY <1>4, <1>7, <1>8 DEF HandleInv

(* Steps of a thread inside a call: what stays the same for the others.    *)
Others(t) ==
  /\ todo' = todo
  /\ \A u \in Threads : /\ Op(u)' = Op(u) /\ Target(u)' = Target(u)
                        /\ u # t => /\ pc'[u] = pc[u]
                                    /\ result'[u] = result[u]
                                    /\ truth'[u] = truth[u]

(* ... a call takes the lock, if it is one that does, ...                  *)
LEMMA EnterInv ==
  ASSUME HandleInv, NEW t \in Threads, Enter(t)
  PROVE  HandleInv'
<1>1. /\ pc[t] = "call" /\ pc' = [pc EXCEPT ![t] = "query"]
      /\ Op(t) \in Selects => mtx = Nobody
      /\ mtx' = IF Op(t) \in Selects THEN t ELSE mtx
      /\ truth' = [truth EXCEPT ![t] = Unasked]
      /\ UNCHANGED <<table, inside, pending, torn, todo, result, placed, crashed,
                     calls>>
  BY DEF Enter, libVars, endVars
<1>2. HandleTypeOK'
  BY <1>1 DEF HandleInv, HandleTypeOK
<1>3. Others(t) /\ pc'[t] = "query"
  BY <1>1 DEF Others, HandleInv, HandleTypeOK, Op, Target
<1>4. Locking'
  BY <1>1, <1>3, HandleAssumption
  DEF HandleInv, Locking, Others
<1>5. PendingIsMine' /\ SelectTellsTruth'
  BY <1>1, <1>3 DEF HandleInv, PendingIsMine, SelectTellsTruth, Others
<1> QED
  BY <1>2, <1>4, <1>5 DEF HandleInv

(* ... a query is refused while rows are pending, ...                      *)
LEMMA OutOfSyncInv ==
  ASSUME HandleInv, NEW t \in Threads, OutOfSync(t)
  PROVE  HandleInv'
<1>1. /\ pc[t] = "query" /\ pc' = [pc EXCEPT ![t] = "return"]
      /\ pending # Nothing /\ ~torn
      /\ mtx' = Unlocked(t)
      /\ result' = [result EXCEPT ![t] = Nothing]
      /\ UNCHANGED <<table, inside, pending, torn, todo, truth, placed, crashed,
                     calls>>
  BY DEF OutOfSync, libVars, endVars
<1>2. HandleTypeOK'
  BY <1>1 DEF HandleInv, HandleTypeOK, Unlocked, Answers
<1>3. Others(t) /\ pc'[t] = "return"
  BY <1>1 DEF Others, HandleInv, HandleTypeOK, Op, Target
<1>4. Op(t) \notin Selects
  <2>1. PICK u \in Threads : pc[u] = "store"
    BY <1>1 DEF HandleInv, PendingIsMine
  <2>2. mtx = u /\ u # t
    BY <1>1, <2>1 DEF HandleInv, Locking
  <2> QED
    BY <1>1, <2>2 DEF HandleInv, Locking
<1>5. Locking'
  BY <1>1, <1>3 DEF HandleInv, Locking, Others, Unlocked
<1>6. PendingIsMine' /\ SelectTellsTruth'
  BY <1>1, <1>3, <1>4 DEF HandleInv, PendingIsMine, SelectTellsTruth, Others
<1> QED
  BY <1>2, <1>5, <1>6 DEF HandleInv

(* ... or is sent, ...                                                     *)
LEMMA SendInv ==
  ASSUME HandleInv, NEW t \in Threads, Send(t)
  PROVE  HandleInv'
<1>1. /\ pc[t] = "query" /\ pc' = [pc EXCEPT ![t] = "wire"]
      /\ inside' = inside \cup {t}
      /\ torn' = (torn \/ inside # {})
      /\ UNCHANGED <<table, mtx, pending, todo, result, truth, placed, crashed,
                     calls>>
  BY DEF Send, endVars
<1>2. HandleTypeOK'
  BY <1>1 DEF HandleInv, HandleTypeOK
<1>3. Others(t) /\ pc'[t] = "wire"
  BY <1>1 DEF Others, HandleInv, HandleTypeOK, Op, Target
<1>4. Locking' /\ PendingIsMine' /\ SelectTellsTruth'
  BY <1>1, <1>3
  DEF HandleInv, Locking, PendingIsMine, SelectTellsTruth, Others
<1> QED
  BY <1>2, <1>4 DEF HandleInv

(* ... its answer comes, ...                                               *)
LEMMA AnswerInv ==
  ASSUME HandleInv, NEW t \in Threads, Answer(t)
  PROVE  HandleInv'
<1>1. /\ pc[t] = "wire" /\ inside' = inside \ {t}
      /\ UNCHANGED <<torn, todo, placed, crashed, calls>>
  BY DEF Answer, endVars
<1>2. /\ Op(t) \in Selects \cup Updates /\ Target(t) \in Uids
  BY <1>1, CurrentCall DEF HandleInv
<1>3. table' \in [Uids -> Row \cup {Nothing}]
  <2>1. table' = table \/ table' = Applied(Op(t), Target(t))
    BY DEF Answer
  <2>2. \A u \in Uids : table'[u] # Nothing => table'[u].score \in Scores
    BY DEF Answer
  <2>3. HandleTypeOK /\ Target(t) \in Uids
    BY <1>2 DEF HandleInv
  <2>4. CASE table' = table
    BY <2>3, <2>4 DEF HandleTypeOK
  <2>5. CASE table' = Applied(Op(t), Target(t))
    <3>1. \A v \in Uids : Applied(Op(t), Target(t))[v] # Nothing
                           => Applied(Op(t), Target(t))[v].score \in Scores
      BY <2>2, <2>5
    <3>2. Applied(Op(t), Target(t)) \in [Uids -> Row \cup {Nothing}]
      BY <2>3, <3>1, AppliedType
    <3> QED
      BY <2>5, <3>2
  <2> QED
    BY <2>1, <2>4, <2>5
<1>4. CASE /\ Op(t) \in Selects
           /\ \E found \in {RowOf(Target(t)), Nothing} :
                pending' = found /\ truth' = [truth EXCEPT ![t] = found]
           /\ pc' = [pc EXCEPT ![t] = "store"]
           /\ UNCHANGED <<mtx, result>>
  <2>1. PICK found \in {RowOf(Target(t)), Nothing} :
          pending' = found /\ truth' = [truth EXCEPT ![t] = found]
    BY <1>4
  <2>2. found \in Answers /\ (found # Nothing => found.id = Target(t))
    BY <1>2, <2>1, RowOfType DEF HandleInv, Answers
  <2>3. HandleTypeOK'
    BY <1>1, <1>3, <1>4, <2>1, <2>2 DEF HandleInv, HandleTypeOK
  <2>4. Others(t) /\ pc'[t] = "store" /\ truth'[t] = found
    BY <1>1, <1>4, <2>1 DEF Others, HandleInv, HandleTypeOK, Op, Target
  <2>5. \A u \in Threads : pc'[u] = "store" => u = t
    BY <1>1, <1>4, <2>4 DEF HandleInv, Locking, Others
  <2>6. Locking'
    BY <1>1, <1>4, <2>4 DEF HandleInv, Locking, Others
  <2>7. PendingIsMine'
    BY <2>1, <2>2, <2>4, <2>5 DEF PendingIsMine, Others
  <2>8. SelectTellsTruth'
    BY <1>1, <1>4, <2>4 DEF HandleInv, SelectTellsTruth, Others
  <2> QED
    BY <2>3, <2>6, <2>7, <2>8 DEF HandleInv
<1>5. CASE /\ pc' = [pc EXCEPT ![t] = "return"]
           /\ result' = [result EXCEPT ![t] = Nothing]
           /\ truth' = [truth EXCEPT ![t] = Nothing]
           /\ mtx' = Unlocked(t)
           /\ UNCHANGED pending
  <2>1. HandleTypeOK'
    BY <1>1, <1>3, <1>5 DEF HandleInv, HandleTypeOK, Unlocked, Answers
  <2>2. /\ Others(t) /\ pc'[t] = "return"
        /\ result'[t] = Nothing /\ truth'[t] = Nothing
    BY <1>1, <1>5 DEF Others, HandleInv, HandleTypeOK, Op, Target
  <2>3. Locking'
    BY <1>1, <1>5, <2>2 DEF HandleInv, Locking, Others, Unlocked
  <2>4. PendingIsMine' /\ SelectTellsTruth'
    BY <1>1, <1>5, <2>2 DEF HandleInv, PendingIsMine, SelectTellsTruth, Others
  <2> QED
    BY <2>1, <2>3, <2>4 DEF HandleInv
<1> QED
  BY <1>4, <1>5 DEF Answer

(* ... or, once the exchange is torn, any answer, ...                      *)
LEMMA AnswerTornInv ==
  ASSUME HandleInv, NEW t \in Threads, AnswerTorn(t)
  PROVE  HandleInv'
<1>1. /\ pc[t] = "wire" /\ inside' = inside \ {t}
      /\ torn /\ pending' \in Rows \cup {Nothing}
      /\ truth' = [truth EXCEPT ![t] = Nothing]
      /\ UNCHANGED <<torn, todo, placed, crashed, calls>>
  BY DEF AnswerTorn, endVars
<1>2. /\ Op(t) \in Selects \cup Updates /\ Target(t) \in Uids
      /\ pending' \in Answers
  BY <1>1, CurrentCall, RowsType DEF HandleInv, Answers
<1>3. table' \in [Uids -> Row \cup {Nothing}]
  <2>1. table' = table \/ table' = Applied(Op(t), Target(t))
    BY DEF AnswerTorn
  <2>2. \A u \in Uids : table'[u] # Nothing => table'[u].score \in Scores
    BY DEF AnswerTorn
  <2>3. HandleTypeOK /\ Target(t) \in Uids
    BY <1>2 DEF HandleInv
  <2>4. CASE table' = table
    BY <2>3, <2>4 DEF HandleTypeOK
  <2>5. CASE table' = Applied(Op(t), Target(t))
    <3>1. \A v \in Uids : Applied(Op(t), Target(t))[v] # Nothing
                           => Applied(Op(t), Target(t))[v].score \in Scores
      BY <2>2, <2>5
    <3>2. Applied(Op(t), Target(t)) \in [Uids -> Row \cup {Nothing}]
      BY <2>3, <3>1, AppliedType
    <3> QED
      BY <2>5, <3>2
  <2> QED
    BY <2>1, <2>4, <2>5
<1>4. PendingIsMine' /\ SelectTellsTruth'
  BY <1>1 DEF PendingIsMine, SelectTellsTruth
<1>5. CASE /\ Op(t) \in Selects
           /\ pc' = [pc EXCEPT ![t] = "store"]
           /\ UNCHANGED <<mtx, result>>
  <2>1. HandleTypeOK'
    BY <1>1, <1>2, <1>3, <1>5 DEF HandleInv, HandleTypeOK, Answers
  <2>2. Others(t) /\ pc'[t] = "store"
    BY <1>1, <1>5 DEF Others, HandleInv, HandleTypeOK, Op, Target
  <2>3. Locking'
    BY <1>1, <1>5, <2>2 DEF HandleInv, Locking, Others
  <2> QED
    BY <1>4, <2>1, <2>3 DEF HandleInv
<1>6. CASE /\ pc' = [pc EXCEPT ![t] = "return"]
           /\ result' = [result EXCEPT ![t] = Nothing]
           /\ mtx' = Unlocked(t)
  <2>1. HandleTypeOK'
    BY <1>1, <1>2, <1>3, <1>6 DEF HandleInv, HandleTypeOK, Unlocked, Answers
  <2>2. Others(t) /\ pc'[t] = "return"
    BY <1>1, <1>6 DEF Others, HandleInv, HandleTypeOK, Op, Target
  <2>3. Locking'
    BY <1>1, <1>6, <2>2 DEF HandleInv, Locking, Others, Unlocked
  <2> QED
    BY <1>4, <2>1, <2>3 DEF HandleInv
<1> QED
  BY <1>5, <1>6 DEF AnswerTorn

(* ... the rows are read, ...                                              *)
LEMMA StoreInv ==
  ASSUME HandleInv, NEW t \in Threads, Store(t)
  PROVE  HandleInv'
<1>1. /\ pc[t] = "store" /\ pc' = [pc EXCEPT ![t] = "return"]
      /\ torn' = (torn \/ inside # {})
      /\ pending' = Nothing
      /\ mtx' = Unlocked(t)
      /\ UNCHANGED <<table, inside, todo, truth, placed, crashed, calls>>
  BY DEF Store, endVars
<1>2. PICK row \in Rows \cup {pending, Nothing} :
        /\ result' = [result EXCEPT ![t] = row]
        /\ ~torn' => row = pending
  BY <1>1 DEF Store
<1>3. row \in Answers
  BY <1>2, RowsType DEF HandleInv, HandleTypeOK, Answers
<1>4. HandleTypeOK'
  BY <1>1, <1>2, <1>3 DEF HandleInv, HandleTypeOK, Unlocked, Answers
<1>5. Others(t) /\ pc'[t] = "return" /\ result'[t] = row
  BY <1>1, <1>2 DEF Others, HandleInv, HandleTypeOK, Op, Target
<1>6. \A u \in Threads : u # t => pc[u] # "store"
  BY <1>1 DEF HandleInv, Locking
<1>7. Locking'
  BY <1>1, <1>5 DEF HandleInv, Locking, Others, Unlocked
<1>8. PendingIsMine'
  BY <1>1, <1>5, <1>6 DEF PendingIsMine, Others, HandleInv, HandleTypeOK
<1>9. SelectTellsTruth'
  <2> SUFFICES ASSUME ~torn', NEW u \in Threads, pc'[u] = "return", Op(u)' \in Selects
               PROVE  /\ result'[u] = truth'[u]
                      /\ result'[u] # Nothing => result'[u].id = Target(u)'
    BY DEF SelectTellsTruth
  <2>1. ~torn /\ truth' = truth /\ Op(u)' = Op(u) /\ Target(u)' = Target(u)
    BY <1>1, <1>5 DEF Others
  <2>2. CASE u = t
    <3>1. result'[t] = pending
      BY <1>2, <1>5
    <3>2. pending = truth[t] /\ (pending # Nothing => pending.id = Target(t))
      BY <1>1, <2>1 DEF HandleInv, PendingIsMine
    <3> QED
      BY <2>1, <2>2, <3>1, <3>2
  <2>3. CASE u # t
    BY <1>5, <2>1, <2>3 DEF HandleInv, SelectTellsTruth, Others
  <2> QED
    BY <2>2, <2>3
<1> QED
  BY <1>4, <1>7, <1>8, <1>9 DEF HandleInv

(* ... and the lock is given back.                                         *)
LEMMA ReturnInv ==
  ASSUME HandleInv, NEW t \in Threads, Return(t)
  PROVE  HandleInv'
<1>1. /\ pc[t] = "return"
      /\ todo' = [todo EXCEPT ![t] = Tail(@)]
      /\ pc' = [pc EXCEPT ![t] = IF Tail(todo[t]) = <<>> THEN "idle" ELSE "call"]
      /\ UNCHANGED <<table, mtx, inside, pending, torn, result, truth, calls>>
  BY DEF Return, libVars
<1>2. Tail(todo[t]) \in Seq(Calls) /\ todo[t] # <<>>
  BY <1>1, CurrentCall DEF HandleInv
<1>3. /\ crashed' \in BOOLEAN
      /\ placed' \in [Threads -> {"bronze", "silver", "gold", Nothing}]
  BY DEF Return, TierOf, asIntThrows, HandleInv, HandleTypeOK
<1>4. HandleTypeOK'
  BY <1>1, <1>2, <1>3 DEF HandleInv, HandleTypeOK, Calls
<1>5. \A u \in Threads : u # t => /\ todo'[u] = todo[u] /\ pc'[u] = pc[u]
                                  /\ Op(u)' = Op(u) /\ Target(u)' = Target(u)
  BY <1>1 DEF HandleInv, HandleTypeOK, Op, Target
<1>6. pc'[t] \in {"idle", "call"} /\ todo'[t] = Tail(todo[t])
  BY <1>1 DEF HandleInv, HandleTypeOK
<1>7. t \in Matching => todo'[t] = <<>>
  BY <1>2, <1>6, Ops DEF HandleInv, Locking
<1>8. Locking'
  BY <1>1, <1>5, <1>6, <1>7 DEF HandleInv, Locking, Threads
<1>9. PendingIsMine' /\ SelectTellsTruth'
  BY <1>1, <1>5, <1>6 DEF HandleInv, PendingIsMine, SelectTellsTruth
<1> QED
  BY <1>4, <1>8, <1>9 DEF HandleInv

(* Every step keeps the invariant, ...                                     *)
LEMMA HandleInvStep ==
  ASSUME HandleInv, [HandleNext]_handleVars
  PROVE  HandleInv'
<1>1. CASE UNCHANGED handleVars
  BY <1>1
  DEF handleVars, libVars, callVars, endVars, HandleInv, HandleTypeOK, Locking,
      PendingIsMine, SelectTellsTruth, Op, Target
<1>2. CASE HandleNext
  BY <1>2, BeginInv, EnterInv, OutOfSyncInv, SendInv, AnswerInv, AnswerTornInv,
     StoreInv, ReturnInv
  DEF HandleNext, GoOn
<1> QED
  BY <1>1, <1>2

-----------------------------------------------------------------------------
(* ... which therefore holds: rows that are pending belong to the select   *)
(* that reads them.                                                        *)
THEOREM HandleInvariant == HandleSpec => []HandleInv
  BY HandleInitInv, HandleInvStep, PTL DEF HandleSpec

(* The types are kept.                                                     *)
THEOREM HandleTypeCorrect == HandleSpec => []HandleTypeOK
<1>1. HandleInv => HandleTypeOK
  BY DEF HandleInv
<1> QED
  BY <1>1, HandleInvariant, PTL

(* database.hpp: with _mtx around query and result, every select returns   *)
(* the row it asked for, until an exchange is torn.                        *)
THEOREM SelectsTellTruth == HandleSpec => []SelectTellsTruth
<1>1. HandleInv => SelectTellsTruth
  BY DEF HandleInv
<1> QED
  BY <1>1, HandleInvariant, PTL

(* Whatever tears it is an insert or an update without _mtx.               *)
THEOREM OnlyUpdatesTear == HandleSpec => TornNeedsUpdate
<1> DEFINE Culprit == \E t \in inside' \cup inside : t = Loop /\ Op(t) \in Updates
<1>1. ASSUME HandleInv, [HandleNext]_handleVars, ~torn, torn'
      PROVE  Culprit
  <2>1. HandleTypeOK /\ Locking
    BY <1>1 DEF HandleInv
  <2>2. ASSUME NEW t \in Threads, Op(t) \in Updates, pc[t] # "idle"
        PROVE  t = Loop
    <3>1. todo[t] # <<>>
      BY <2>1, <2>2 DEF HandleTypeOK
    <3>2. CASE t \in Matching
      <4>1. todo[t] \in AddCalls
        BY <2>1, <3>1, <3>2 DEF Locking
      <4>2. todo[t][1].op \in Selects
        BY <4>1, Ops
      <4> QED
        BY <2>2, <4>2, Ops DEF Op
    <3> QED
      BY <3>2 DEF Threads
  <2>3. PICK t \in Threads : Send(t) \/ Store(t)
    <3>1. HandleNext
      BY <1>1 DEF handleVars, libVars
    <3>2. PICK t \in Threads : Begin(t) \/ GoOn(t)
      BY <3>1 DEF HandleNext
    <3>3. ~(Begin(t) \/ Enter(t) \/ OutOfSync(t) \/ Answer(t) \/ AnswerTorn(t)
              \/ Return(t))
      BY <1>1 DEF Begin, Enter, OutOfSync, Answer, AnswerTorn, Return, libVars
    <3> QED
      BY <3>2, <3>3 DEF GoOn
  <2>4. inside # {} /\ inside \subseteq inside'
    BY <1>1, <2>3 DEF Send, Store
  <2>5. PICK u \in Threads : pc[u] = "wire" /\ u \in inside
    BY <2>1, <2>4 DEF HandleTypeOK
  <2>6. /\ pc[t] \in {"query", "store"}
        /\ pc[t] = "query" => t \in inside'
        /\ pc[t] = "store" => Op(t) \in Selects
    BY <2>1, <2>3 DEF Send, Store, Locking
  <2>7. Op(t) \notin Selects \/ Op(u) \notin Selects
    <3>1. u # t
      BY <2>5, <2>6
    <3> QED
      BY <2>1, <2>5, <2>6, <3>1 DEF Locking
  <2>8. Op(t) \in Selects \cup Updates /\ Op(u) \in Selects \cup Updates
    BY <2>1, <2>5, <2>6, CurrentCall
  <2>9. CASE Op(t) \in Updates /\ Op(t) \notin Selects
    BY <2>2, <2>6, <2>9
  <2>10. CASE Op(u) \in Updates
    BY <2>2, <2>4, <2>5, <2>10
  <2> QED
    BY <2>7, <2>8, <2>9, <2>10
<1>2. ASSUME HandleInv, [HandleNext]_handleVars
      PROVE  [~torn /\ torn' => Culprit]_handleVars
  BY <1>1, <1>2
<1> QED
  BY <1>2, HandleInvariant, PTL DEF HandleSpec, TornNeedsUpdate

-----------------------------------------------------------------------------
(* What the conversion to an unsigned type does to an int.                 *)
LEMMA UInt64OfScore ==
  ASSUME NEW s \in Scores
  PROVE  IF s < 0 THEN UInt64(s) > IntMax
         ELSE UInt64(s) = s /\ ~(UInt64(s) > IntMax)
<1>1. /\ s \in Int /\ IntMax \in Nat /\ UMod \in Nat
      /\ -IntMax - 1 <= s /\ s <= IntMax /\ UMod > 2 * IntMax + 1
  BY HandleAssumption, UserTableAssumption
<1>2. CASE s < 0
  <2>1. (s + UMod) \in 0 .. UMod - 1 /\ s = (-1) * UMod + (s + UMod)
    BY <1>1, <1>2
  <2>2. s % UMod > IntMax
    BY <1>1, <1>2, <2>1
  <2> QED
    BY <1>2, <2>2 DEF UInt64
<1>3. CASE ~(s < 0)
  <2>1. s % UMod = s
    BY <1>1, <1>3
  <2> QED
    BY <1>1, <1>3, <2>1 DEF UInt64
<1> QED
  BY <1>2, <1>3

(* matcher.hpp: Add chooses the queue by the signed score that was read,   *)
(* whatever the thresholds and the widths are, as long as the unsigned     *)
(* type is wider than an int; a score below zero ends the process.         *)
THEOREM AddPlaces == HandleSpec => AddPlacesByScore
<1> DEFINE Placed(t) ==
      LET score == result[t].row.score
      IN  IF score < 0 THEN crashed' ELSE placed'[t] = TierOf(score)
<1>1. ASSUME HandleInv, [HandleNext]_handleVars, NEW t \in Threads,
             pc[t] = "return", pc'[t] # "return", Op(t) = "add", result[t] # Nothing
      PROVE  Placed(t)
  <2>1. HandleTypeOK
    BY <1>1 DEF HandleInv
  <2>2. Return(t)
    <3>1. HandleNext
      BY <1>1 DEF handleVars, callVars
    <3>2. PICK u \in Threads : Begin(u) \/ GoOn(u)
      BY <3>1 DEF HandleNext
    <3>3. u = t
      BY <1>1, <2>1, <3>2
      DEF HandleTypeOK, GoOn, Begin, Enter, OutOfSync, Send, Answer, AnswerTorn,
          Store, Return
    <3> QED
      BY <1>1, <3>2, <3>3
      DEF GoOn, Begin, Enter, OutOfSync, Send, Answer, AnswerTorn, Store
  <2>3. result[t].row.score \in Scores
    <3>1. result[t] \in [id : Uids, row : Row]
      BY <1>1, <2>1 DEF HandleTypeOK, Answers
    <3> QED
      BY <3>1 DEF Row
  <2> DEFINE score == result[t].row.score
  <2>4. IF score < 0 THEN asIntThrows(UInt64(score))
        ELSE UInt64(score) = score /\ ~asIntThrows(UInt64(score))
    BY <2>3, UInt64OfScore DEF asIntThrows
  <2>5. /\ asIntThrows(UInt64(score)) => crashed'
        /\ ~asIntThrows(UInt64(score))
             => placed' = [placed EXCEPT ![t] = TierOf(UInt64(score))]
    <3>1. asIntThrows(UInt64(score)) => crashed'
      BY <1>1, <2>2, Zenon DEF Return
    <3>2. ~asIntThrows(UInt64(score))
            => placed' = [placed EXCEPT ![t] = TierOf(UInt64(score))]
      BY <1>1, <2>2, Zenon DEF Return
    <3> QED
      BY <3>1, <3>2
  <2>6. placed \in [Threads -> {"bronze", "silver", "gold", Nothing}]
    BY <2>1 DEF HandleTypeOK
  <2> HIDE DEF score
  <2>7. CASE score < 0
    BY <2>4, <2>5, <2>7 DEF score
  <2>8. CASE ~(score < 0)
    <3>1. placed'[t] = TierOf(score)
      BY <2>4, <2>5, <2>6, <2>8
    <3> QED
      BY <2>8, <3>1 DEF score
  <2> QED
    BY <2>7, <2>8
<1>2. ASSUME HandleInv, [HandleNext]_handleVars
      PROVE  [\A t \in Threads :
                pc[t] = "return" /\ pc'[t] # "return" /\ Op(t) = "add"
                  /\ result[t] # Nothing => Placed(t)]_handleVars
  BY <1>1, <1>2
<1> QED
  BY <1>2, HandleInvariant, PTL DEF HandleSpec, AddPlacesByScore

=============================================================================
