--------------------------- MODULE MatcherProofs ----------------------------
(***************************************************************************)
(* Proofs about module Matcher, for any players, scores and bounds: its    *)
(* types, and that the retry paths of the matching threads lose no player  *)
(* and multiply none.                                                      *)
(***************************************************************************)
EXTENDS Matcher, RoomManagerProofs, FiniteSetTheorems, FunctionTheorems,
        SequenceTheorems

(* The variables the threads and the queues are made of have their types.  *)
ThreadTypeOK ==
  /\ queue \in [Tiers -> Seq(Uids)]
  /\ pc \in [Tiers -> PCs]
  /\ held \in [Tiers -> Seq(Uids)]
  /\ seen \in [Tiers -> Seq(Conns)]
  /\ dest \in [Tiers -> Tiers \cup {None}]
  /\ wish \in [Uids -> {"none", "match"}]
  /\ starts \in [Uids -> Nat]
  /\ seats \in [Uids -> Nat]

(* Who is in queue t or in the hands of its thread.                        *)
Around(t) == Elements(queue[t]) \cup Elements(Holding(t))

(* The inductive invariant.  How many players a thread holds where, part   *)
(* of the types, is what makes WaitersNotLost inductive.                   *)
MatcherInv ==
  /\ RmInv
  /\ ThreadTypeOK
  /\ \A t \in Tiers : Hands(t)
  /\ WaitersNotLost

-----------------------------------------------------------------------------
(* What the operations on sequences do to the set of their elements.       *)
LEMMA ElementsAppend ==
  ASSUME NEW S, NEW s \in Seq(S), NEW e \in S
  PROVE  Elements(Append(s, e)) = Elements(s) \cup {e}
<1>1. /\ Append(s, e) \in Seq(S)
      /\ Len(Append(s, e)) = Len(s) + 1
      /\ \A i \in 1 .. Len(s) : Append(s, e)[i] = s[i]
      /\ Append(s, e)[Len(s) + 1] = e
  BY AppendProperties
<1>2. DOMAIN s = 1 .. Len(s) /\ DOMAIN Append(s, e) = 1 .. Len(s) + 1 /\ Len(s) \in Nat
  BY <1>1
<1> QED
  BY <1>1, <1>2 DEF Elements

(* A queue has its head and what is in its tail.                           *)
LEMMA ElementsHeadTail ==
  ASSUME NEW S, NEW s \in Seq(S), s # <<>>
  PROVE  /\ Head(s) \in S
         /\ Tail(s) \in Seq(S)
         /\ Len(Tail(s)) = Len(s) - 1
         /\ Elements(s) = {Head(s)} \cup Elements(Tail(s))
<1>1. /\ Head(s) \in S
      /\ Head(s) = s[1]
      /\ Tail(s) \in Seq(S)
      /\ Len(Tail(s)) = Len(s) - 1
      /\ \A i \in 1 .. Len(Tail(s)) : Tail(s)[i] = s[i + 1]
      /\ Len(s) \in Nat \ {0}
  BY HeadTailProperties, EmptySeq
<1>2. DOMAIN s = 1 .. Len(s) /\ DOMAIN Tail(s) = 1 .. Len(s) - 1
  BY <1>1
<1>3. ASSUME NEW i \in 1 .. Len(s)
      PROVE  s[i] \in {Head(s)} \cup Elements(Tail(s))
  <2>1. CASE i = 1
    BY <1>1, <2>1
  <2>2. CASE i # 1
    <3>1. i - 1 \in 1 .. Len(Tail(s))
      BY <1>1, <2>2
    <3>2. s[i] = Tail(s)[i - 1]
      BY <1>1, <3>1
    <3> QED
      BY <1>1, <1>2, <3>1, <3>2 DEF Elements
  <2> QED
    BY <2>1, <2>2
<1>4. ASSUME NEW i \in 1 .. Len(s) - 1
      PROVE  Tail(s)[i] \in Elements(s)
  BY <1>1, <1>2 DEF Elements
<1>5. Head(s) \in Elements(s)
  BY <1>1, <1>2 DEF Elements
<1> QED
  BY <1>1, <1>2, <1>3, <1>4, <1>5 DEF Elements

(* The short ones, place by place.                                         *)
LEMMA ElementsShort ==
  ASSUME NEW S, NEW s \in Seq(S)
  PROVE  /\ s = <<>> => Elements(s) = {}
         /\ Len(s) = 1 => Elements(s) = {s[1]} /\ Head(s) = s[1] /\ Tail(s) = <<>>
         /\ Len(s) = 2 => Elements(s) = {s[1], s[2]}
         /\ \A a \in S : Elements(<<a>>) = {a}
         /\ Elements(s) \subseteq S
<1>1. /\ Len(s) \in Nat
      /\ DOMAIN s = 1 .. Len(s)
      /\ \A i \in 1 .. Len(s) : s[i] \in S
  BY LenProperties, ElementOfSeq
<1>2. Elements(s) = {s[i] : i \in 1 .. Len(s)}
  BY <1>1 DEF Elements
<1>3. s = <<>> => Elements(s) = {}
  BY <1>1, <1>2, EmptySeq
<1>4. ASSUME Len(s) = 1
      PROVE  Elements(s) = {s[1]} /\ Head(s) = s[1] /\ Tail(s) = <<>>
  <2>1. Elements(s) = {s[1]}
    BY <1>2, <1>4
  <2>2. s # <<>>
    BY <1>4, EmptySeq
  <2>3. Head(s) = s[1] /\ Tail(s) \in Seq(S) /\ Len(Tail(s)) = 0
    BY <1>4, <2>2, HeadTailProperties
  <2>4. Tail(s) = <<>>
    BY <2>3, EmptySeq
  <2> QED
    BY <2>1, <2>3, <2>4
<1>5. Len(s) = 2 => Elements(s) = {s[1], s[2]}
  BY <1>2
<1>6. \A a \in S : Elements(<<a>>) = {a}
  BY DEF Elements
<1> QED
  BY <1>1, <1>2, <1>3, <1>4, <1>5, <1>6

(* MatchQueue::Remove takes nobody else out of the queue.                  *)
LEMMA RemoveKeeps ==
  ASSUME ThreadTypeOK, NEW t \in Tiers, NEW u \in Uids, Remove(t, u)
  PROVE  /\ queue' \in [Tiers -> Seq(Uids)]
         /\ \A x \in Tiers : Elements(queue[x]) \subseteq Elements(queue'[x]) \cup {u}
<1> DEFINE q == queue[t]
           keep == {i \in DOMAIN q : q[i] # u}
           n == Cardinality(keep)
<1>1. q \in Seq(Uids) /\ DOMAIN q = 1 .. Len(q) /\ Len(q) \in Nat
  BY DEF ThreadTypeOK
<1>2. n \in Nat
  <2>1. IsFiniteSet(1 .. Len(q))
    BY <1>1, FS_Interval
  <2>2. IsFiniteSet(keep)
    BY <1>1, <2>1, FS_Subset
  <2> QED
    BY <2>2, FS_CardinalityType
<1>3. PICK from \in [1 .. n -> keep] :
        /\ \A k \in keep : \E i \in DOMAIN from : from[i] = k
        /\ queue' = [queue EXCEPT ![t] = [i \in 1 .. n |-> q[from[i]]]]
  BY DEF Remove
<1> DEFINE r == [i \in 1 .. n |-> q[from[i]]]
<1>4. r \in Seq(Uids) /\ DOMAIN r = 1 .. n
  <2>1. \A i \in 1 .. n : q[from[i]] \in Uids
    BY <1>1, ElementOfSeq
  <2>2. r \in [1 .. n -> Uids]
    BY <2>1
  <2>3. Seq(Uids) = UNION {[1 .. m -> Uids] : m \in Nat}
    BY SeqDef
  <2> HIDE DEF r, n
  <2> QED
    BY <1>2, <2>2, <2>3
<1>5. \A k \in keep : q[k] \in Elements(r)
  BY <1>3, <1>4 DEF Elements
<1>6. Elements(q) \subseteq Elements(r) \cup {u}
  BY <1>5 DEF Elements
<1>7. queue' = [queue EXCEPT ![t] = r] /\ queue \in [Tiers -> Seq(Uids)]
  BY <1>3 DEF ThreadTypeOK
<1> HIDE DEF q, r
<1> QED
  BY <1>4, <1>6, <1>7 DEF q

-----------------------------------------------------------------------------
(* A waiting player is looked after in the next state if whoever had him   *)
(* still has him, or somebody else has.                                    *)
LEMMA WaitersStep ==
  ASSUME WaitersNotLost,
         \A u \in Waiting' :
           /\ u \in Waiting
           /\ InHall(u) => InHall(u)'
           /\ \A t \in Tiers : u \in Around(t) => \E x \in Tiers : u \in Around(x)'
  PROVE  WaitersNotLost'
  BY DEF WaitersNotLost, Around

(* What the steps of the thread of queue t have in common: they leave the  *)
(* other threads, the hall and the requests alone.                         *)
ThreadStep(t) ==
  /\ UNCHANGED <<rmVars, starts, seats>>
  /\ wish' = wish
  /\ \A x \in Tiers \ {t} : /\ queue'[x] = queue[x]
                            /\ pc'[x] = pc[x]
                            /\ held'[x] = held[x]
                            /\ dest'[x] = dest[x]

(* A step that leaves the rooms alone leaves who is in the hall.           *)
LEMMA RmStays ==
  ASSUME RmInv, UNCHANGED rmVars
  PROVE  RmInv' /\ \A u \in Uids : InHall(u)' = InHall(u)
  BY RmNextInv DEF rmVars, onlineVars, InHall

(* A step of a thread, if it keeps its hands and loses nobody.             *)
LEMMA ThreadStepInv ==
  ASSUME MatcherInv, NEW t \in Tiers, ThreadStep(t), ThreadTypeOK', Hands(t)',
         \A u \in Waiting : u \in Around(t) => u \in Around(t)'
  PROVE  MatcherInv'
<1>1. RmInv' /\ \A u \in Uids : InHall(u)' = InHall(u)
  BY RmStays DEF MatcherInv, ThreadStep
<1>2. ASSUME NEW x \in Tiers \ {t}
      PROVE  Hands(x)' /\ Around(x)' = Around(x)
  BY DEF MatcherInv, ThreadStep, Hands, Around, Holding
<1>3. \A x \in Tiers : Hands(x)'
  BY <1>2
<1>4. Waiting' = Waiting /\ Waiting \subseteq Uids
  BY DEF ThreadStep, Waiting
<1>5. WaitersNotLost'
  BY <1>1, <1>2, <1>4, WaitersStep DEF MatcherInv
<1> QED
  BY <1>1, <1>3, <1>5 DEF MatcherInv

(* Steps that only move the thread and forget connections.                 *)
LEMMA MoveInv ==
  ASSUME MatcherInv, NEW t \in Tiers,
         Size(t) \/ Wait(t) \/ Spurious(t) \/ Hall1(t) \/ Hall2(t)
  PROVE  MatcherInv'
<1>1. /\ UNCHANGED <<rmVars, queue, held, dest, wish, starts, seats>>
      /\ seen' = seen \/ seen' = [seen EXCEPT ![t] = <<>>]
  BY DEF Size, Wait, Spurious, Hall1, Hall2, HallTest
<1> DEFINE Moves(from, to) ==
             /\ pc[t] \in from
             /\ \E l \in to : pc' = [pc EXCEPT ![t] = l]
<1>2. \/ Moves({"size", "wait", "blocked"}, {"size", "wait", "blocked", "pop1"})
      \/ Moves({"hall1", "hall2"}, {"hall2", "create", "add"})
  BY DEF Size, Wait, Spurious, Hall1, Hall2, HallTest, Goto
<1>3. /\ <<>> \in Seq(Conns)
      /\ ThreadTypeOK
      /\ Hands(t)
  BY EmptySeq DEF MatcherInv
<1>4. PICK l \in PCs : /\ pc' = [pc EXCEPT ![t] = l]
                       /\ pc[t] # "send" /\ l # "send"
  BY <1>2 DEF PCs
<1>5. ThreadTypeOK'
  BY <1>1, <1>3, <1>4 DEF ThreadTypeOK
<1>6. ThreadStep(t)
  BY <1>1, <1>3, <1>4 DEF ThreadStep, ThreadTypeOK
<1>7. Hands(t)'
  <2>1. CASE Moves({"size", "wait", "blocked"}, {"size", "wait", "blocked", "pop1"})
    BY <1>1, <1>3, <2>1 DEF Hands, ThreadTypeOK
  <2>2. CASE Moves({"hall1", "hall2"}, {"hall2", "create", "add"})
    BY <1>1, <1>3, <2>2 DEF Hands, ThreadTypeOK
  <2> QED
    BY <1>2, <2>1, <2>2
<1>8. Around(t)' = Around(t)
  BY <1>1, <1>3, <1>4 DEF Around, Holding, ThreadTypeOK
<1> QED
  BY <1>5, <1>6, <1>7, <1>8, ThreadStepInv

(* Popping: what leaves the queue is in the hands of the thread.           *)
LEMMA PopInv ==
  ASSUME MatcherInv, NEW t \in Tiers, Pop1(t) \/ Pop2(t)
  PROVE  MatcherInv'
<1> DEFINE q == queue[t]
<1>1. /\ ThreadTypeOK
      /\ Hands(t)
      /\ q \in Seq(Uids)
      /\ held[t] \in Seq(Uids)
      /\ UNCHANGED <<rmVars, seen, dest, wish, starts, seats>>
  BY DEF MatcherInv, ThreadTypeOK, Pop1, Pop2
<1>2. CASE /\ UNCHANGED <<queue, held>>
           /\ \/ pc[t] = "pop1" /\ pc' = [pc EXCEPT ![t] = "size"]
              \/ pc[t] = "pop2" /\ pc' = [pc EXCEPT ![t] = "add"]
  <2>2. ThreadTypeOK'
    BY <1>1, <1>2 DEF ThreadTypeOK, PCs
  <2>3. ThreadStep(t)
    BY <1>1, <1>2 DEF ThreadStep, ThreadTypeOK
  <2>4. Hands(t)'
    BY <1>1, <1>2 DEF Hands, ThreadTypeOK
  <2>5. Around(t)' = Around(t)
    BY <1>1, <1>2 DEF Around, Holding, ThreadTypeOK
  <2> QED
    BY <2>2, <2>3, <2>4, <2>5, ThreadStepInv
<1>3. CASE /\ q # <<>>
           /\ queue' = [queue EXCEPT ![t] = Tail(@)]
           /\ \/ /\ pc[t] = "pop1"
                 /\ held' = [held EXCEPT ![t] = <<Head(queue[t])>>]
                 /\ pc' = [pc EXCEPT ![t] = "pop2"]
              \/ /\ pc[t] = "pop2"
                 /\ held' = [held EXCEPT ![t] = Append(@, Head(queue[t]))]
                 /\ pc' = [pc EXCEPT ![t] = "conn1"]
  <2>1. /\ Head(q) \in Uids
        /\ Tail(q) \in Seq(Uids)
        /\ Elements(q) = {Head(q)} \cup Elements(Tail(q))
    BY <1>1, <1>3, ElementsHeadTail
  <2> DEFINE h == held'[t]
  <2>2. /\ h \in Seq(Uids)
        /\ Elements(h) = {Head(q)} \cup Elements(held[t])
        /\ pc[t] = "pop1" => Len(h) = 1
        /\ pc[t] = "pop2" => Len(h) = 2
    <3>1. CASE pc[t] = "pop1"
      <4>1. held[t] = <<>> /\ h = <<Head(q)>>
        BY <1>1, <1>3, <3>1 DEF Hands, ThreadTypeOK
      <4>2. Elements(<<>>) = {} /\ Elements(<<Head(q)>>) = {Head(q)}
        BY <2>1, ElementsShort, EmptySeq
      <4>3. h \in Seq(Uids) /\ Len(h) = 1
        BY <2>1, <4>1
      <4> QED
        BY <3>1, <4>1, <4>2, <4>3
    <3>2. CASE pc[t] = "pop2"
      <4>1. Len(held[t]) = 1 /\ h = Append(held[t], Head(q))
        BY <1>1, <1>3, <3>2 DEF Hands, ThreadTypeOK
      <4> QED
        BY <1>1, <2>1, <3>2, <4>1, ElementsAppend, AppendProperties
    <3> QED
      BY <1>3, <3>1, <3>2
  <2>3. held' = [held EXCEPT ![t] = h]
    BY <1>1, <1>3 DEF ThreadTypeOK
  <2> HIDE DEF h
  <2>4. ThreadTypeOK'
    BY <1>1, <1>3, <2>1, <2>2, <2>3 DEF ThreadTypeOK, PCs
  <2>5. ThreadStep(t)
    BY <1>1, <1>3, <2>3 DEF ThreadStep, ThreadTypeOK
  <2>6. Hands(t)'
    BY <1>1, <1>3, <2>2, <2>3 DEF Hands, ThreadTypeOK
  <2>7. Around(t)' = Around(t)
    BY <1>1, <1>3, <2>1, <2>2, <2>3 DEF Around, Holding, ThreadTypeOK
  <2> QED
    BY <2>4, <2>5, <2>6, <2>7, ThreadStepInv
<1> QED
  BY <1>2, <1>3 DEF Pop1, Pop2, Goto

(* The tests of GetConnFromHall drop only a player who is not in the hall. *)
LEMMA ConnInv ==
  ASSUME MatcherInv, NEW t \in Tiers, Conn1(t) \/ Conn2(t)
  PROVE  MatcherInv'
<1> DEFINE h == held[t]
<1>1. /\ ThreadTypeOK
      /\ Hands(t)
      /\ h \in Seq(Uids)
      /\ pc[t] \in {"conn1", "conn2"}
      /\ UNCHANGED <<rmVars, queue, dest, wish, starts, seats>>
  BY DEF MatcherInv, ThreadTypeOK, Conn1, Conn2
<1>2. /\ Len(h) = 2
      /\ h[1] \in Uids /\ h[2] \in Uids
      /\ Elements(h) = {h[1], h[2]}
  BY <1>1, ElementsShort, ElementOfSeq DEF Hands
<1>3. \A u \in Waiting : InHall(u)
  BY DEF MatcherInv, WaitersNotLost
<1>4. \A u \in Uids : InHall(u) => hallUser[u] \in Conns
  BY DEF MatcherInv, RmInv, RmTypeOK, OnlineTypeOK, Registry, InHall
<1>5. seen' \in [Tiers -> Seq(Conns)]
  <2>1. seen[t] \in Seq(Conns) /\ <<>> \in Seq(Conns)
    BY <1>1, EmptySeq DEF ThreadTypeOK
  <2>2. \A c \in Conns : <<c>> \in Seq(Conns) /\ Append(seen[t], c) \in Seq(Conns)
    BY <2>1, AppendProperties
  <2>3. \/ seen' = seen
        \/ seen' = [seen EXCEPT ![t] = <<>>]
        \/ \E c \in Conns : \/ seen' = [seen EXCEPT ![t] = <<c>>]
                           \/ seen' = [seen EXCEPT ![t] = Append(@, c)]
    BY <1>2, <1>4 DEF Conn1, Conn2
  <2>4. \E n \in Seq(Conns) : seen' = [seen EXCEPT ![t] = n]
    <3>1. seen = [seen EXCEPT ![t] = seen[t]]
      BY <1>1 DEF ThreadTypeOK
    <3> QED
      BY <2>1, <2>2, <2>3, <3>1
  <2> QED
    BY <1>1, <2>4 DEF ThreadTypeOK
<1>6. CASE /\ held' = held
           /\ \E l \in {"conn2", "hall1"} : pc' = [pc EXCEPT ![t] = l]
  <2>1. ThreadTypeOK'
    BY <1>1, <1>5, <1>6 DEF ThreadTypeOK, PCs
  <2>2. ThreadStep(t)
    BY <1>1, <1>6 DEF ThreadStep, ThreadTypeOK
  <2>3. Hands(t)'
    BY <1>1, <1>6 DEF Hands, ThreadTypeOK
  <2>4. Around(t)' = Around(t)
    BY <1>1, <1>6 DEF Around, Holding, ThreadTypeOK
  <2> QED
    BY <2>1, <2>2, <2>3, <2>4, ThreadStepInv
<1>7. ASSUME NEW kept \in Uids, NEW gone \in Uids,
             {h[1], h[2]} = {kept, gone}, ~InHall(gone),
             held' = [held EXCEPT ![t] = <<kept>>],
             pc' = [pc EXCEPT ![t] = "add"]
      PROVE  MatcherInv'
  <2> DEFINE k == <<kept>>
  <2>1. k \in Seq(Uids) /\ Len(k) = 1 /\ held' = [held EXCEPT ![t] = k]
    BY <1>7
  <2>5. Elements(k) = {kept}
    BY <1>1, ElementsShort
  <2> HIDE DEF k
  <2>2. ThreadTypeOK'
    BY <1>1, <1>5, <1>7, <2>1 DEF ThreadTypeOK, PCs
  <2>3. ThreadStep(t)
    BY <1>1, <1>7 DEF ThreadStep, ThreadTypeOK
  <2>4. Hands(t)'
    BY <1>1, <1>7, <2>1 DEF Hands, ThreadTypeOK
  <2>6. \A u \in Waiting : u \in Around(t) => u \in Around(t)'
    <3>1. Holding(t) = h /\ Holding(t)' = k /\ queue'[t] = queue[t]
      BY <1>1, <1>7, <2>1 DEF Holding, ThreadTypeOK
    <3> QED
      BY <1>2, <1>3, <1>7, <2>5, <3>1 DEF Around
  <2> QED
    BY <2>2, <2>3, <2>4, <2>6, ThreadStepInv
<1>8. CASE Conn1(t)
  <2>1. CASE InHall(h[1])
    BY <1>6, <1>8, <2>1 DEF Conn1, Goto
  <2>2. CASE ~InHall(h[1])
    BY <1>2, <1>7, <1>8, <2>2 DEF Conn1, Goto
  <2> QED
    BY <2>1, <2>2
<1>9. CASE Conn2(t)
  <2>1. CASE InHall(h[2])
    BY <1>6, <1>9, <2>1 DEF Conn2, Goto
  <2>2. CASE ~InHall(h[2])
    BY <1>2, <1>7, <1>9, <2>2 DEF Conn2, Goto
  <2> QED
    BY <2>1, <2>2
<1> QED
  BY <1>8, <1>9

(* After match_success the thread looks after nobody any more.             *)
LEMMA SendInv ==
  ASSUME MatcherInv, NEW t \in Tiers, Send(t)
  PROVE  MatcherInv'
<1>1. /\ ThreadTypeOK
      /\ Hands(t)
      /\ pc[t] = "send"
      /\ UNCHANGED <<rmVars, queue, dest, wish, starts, seats>>
      /\ held' = [held EXCEPT ![t] = <<>>]
      /\ seen' = [seen EXCEPT ![t] = <<>>]
      /\ pc' = [pc EXCEPT ![t] = "size"]
  BY DEF MatcherInv, Send, Goto
<1>2. ThreadTypeOK'
  BY <1>1, EmptySeq DEF ThreadTypeOK, PCs
<1>3. ThreadStep(t)
  BY <1>1 DEF ThreadStep, ThreadTypeOK
<1>4. Hands(t)'
  BY <1>1 DEF Hands, ThreadTypeOK
<1>5. Around(t)' = Around(t)
  BY <1>1 DEF Around, Holding, ThreadTypeOK
<1> QED
  BY <1>2, <1>3, <1>4, <1>5, ThreadStepInv

-----------------------------------------------------------------------------
(* Add.  Every score has a queue.                                          *)
LEMMA TierOfPlayer ==
  ASSUME RmInv, NEW u \in Uids
  PROVE  Tier(table[u].score) \in Tiers
  BY DEF RmInv, RmTypeOK, TableTypeOK, Row, Tiers

(* Its query: the player stays in the hands of the thread, or is given up  *)
(* and does not count as waiting any more.                                 *)
LEMMA AddSelectInv ==
  ASSUME MatcherInv, NEW t \in Tiers, AddSelect(t)
  PROVE  MatcherInv'
<1> DEFINE h == held[t]
           uid == Head(h)
<1>1. /\ ThreadTypeOK
      /\ Hands(t)
      /\ h \in Seq(Uids)
      /\ pc[t] = "add"
      /\ UNCHANGED <<rmVars, queue, seen, starts, seats>>
  BY DEF MatcherInv, ThreadTypeOK, AddSelect
<1>2. Len(h) \in 1 .. 2 /\ dest[t] = None
  BY <1>1 DEF Hands
<1>3. /\ uid \in Uids
      /\ Tail(h) \in Seq(Uids)
      /\ Len(Tail(h)) = Len(h) - 1
      /\ Elements(h) = {uid} \cup Elements(Tail(h))
  BY <1>1, <1>2, ElementsHeadTail, EmptySeq
<1>4. CASE /\ dest' = [dest EXCEPT ![t] = Tier(table[uid].score)]
           /\ pc' = [pc EXCEPT ![t] = "push"]
           /\ UNCHANGED <<held, wish>>
  <2>1. Tier(table[uid].score) \in Tiers
    BY <1>3, TierOfPlayer DEF MatcherInv
  <2> DEFINE d == Tier(table[uid].score)
  <2>2. d \in Tiers /\ dest' = [dest EXCEPT ![t] = d]
    BY <1>4, <2>1
  <2> HIDE DEF d
  <2>3. ThreadTypeOK'
    BY <1>1, <1>4, <2>2 DEF ThreadTypeOK, PCs
  <2>4. ThreadStep(t)
    BY <1>1, <1>4, <2>2 DEF ThreadStep, ThreadTypeOK
  <2>5. Hands(t)'
    BY <1>1, <1>4, <2>2, MatcherAssumption DEF Hands, ThreadTypeOK
  <2>6. Around(t)' = Around(t)
    BY <1>1, <1>4 DEF Around, Holding, ThreadTypeOK
  <2> QED
    BY <2>3, <2>4, <2>5, <2>6, ThreadStepInv
<1>5. CASE /\ held' = [held EXCEPT ![t] = Tail(h)]
           /\ pc' = [pc EXCEPT ![t] = IF Len(h) = 1 THEN "size" ELSE "add"]
           /\ wish' = [wish EXCEPT ![uid] = "none"]
           /\ UNCHANGED dest
  <2> DEFINE k == Tail(h)
  <2>1. k \in Seq(Uids) /\ Len(k) = Len(h) - 1 /\ held' = [held EXCEPT ![t] = k]
    BY <1>3, <1>5
  <2>2. Elements(h) = {uid} \cup Elements(k)
    BY <1>3
  <2>3. k = <<>> \/ Len(k) = 1
    <3>1. Len(k) = 0 \/ Len(k) = 1
      BY <1>2, <2>1
    <3> QED
      BY <2>1, <3>1, EmptySeq
  <2> HIDE DEF k, h, uid
  <2>4. ThreadTypeOK'
    BY <1>1, <1>3, <1>5, <2>1 DEF ThreadTypeOK, PCs
  <2>5. Hands(t)'
    <3>1. CASE Len(h) = 1
      <4>1. k = <<>> /\ pc'[t] = "size" /\ held'[t] = k
        BY <1>1, <1>5, <2>1, <2>3, <3>1 DEF ThreadTypeOK
      <4> QED
        BY <1>2, <1>5, <4>1 DEF Hands
    <3>2. CASE Len(h) = 2
      <4>1. Len(k) = 1 /\ pc'[t] = "add" /\ held'[t] = k
        BY <1>1, <1>5, <2>1, <3>2 DEF ThreadTypeOK
      <4>2. dest'[t] = None /\ Len(held'[t]) \in 1 .. 2
        BY <1>2, <1>5, <4>1
      <4> QED
        BY <4>1, <4>2 DEF Hands
    <3> QED
      BY <1>2, <3>1, <3>2
  <2>6. ASSUME NEW x \in Tiers \ {t}
        PROVE  Hands(x)' /\ Around(x)' = Around(x)
    BY <1>1, <1>5, <2>1 DEF MatcherInv, Hands, Around, Holding, ThreadTypeOK
  <2>7. RmInv' /\ \A u \in Uids : InHall(u)' = InHall(u)
    BY <1>1, RmStays DEF MatcherInv
  <2>8. Waiting' \subseteq Waiting \ {uid} /\ Waiting \subseteq Uids
    BY <1>1, <1>3, <1>5 DEF Waiting, ThreadTypeOK
  <2>9. Around(t) \subseteq Around(t)' \cup {uid}
    <3>1. Holding(t) = h /\ Holding(t)' = k /\ queue'[t] = queue[t]
      BY <1>1, <1>5, <2>1 DEF Holding, ThreadTypeOK, h
    <3> QED
      BY <2>2, <3>1 DEF Around
  <2>10. WaitersNotLost'
    BY <2>6, <2>7, <2>8, <2>9, WaitersStep DEF MatcherInv
  <2> QED
    BY <2>4, <2>5, <2>6, <2>7, <2>10 DEF MatcherInv
<1> QED
  BY <1>4, <1>5 DEF AddSelect, Goto

(* Its Push: the player goes from the hands of the thread into a queue,    *)
(* which may be another thread's.                                          *)
LEMMA AddPushInv ==
  ASSUME MatcherInv, NEW t \in Tiers, AddPush(t)
  PROVE  MatcherInv'
<1> DEFINE h == held[t]
           uid == Head(h)
           d == dest[t]
           next == IF Len(h) = 1 THEN "size" ELSE "add"
<1>1. /\ ThreadTypeOK
      /\ Hands(t)
      /\ h \in Seq(Uids)
      /\ pc[t] = "push"
      /\ UNCHANGED <<rmVars, seen, wish, starts, seats>>
      /\ queue' = [queue EXCEPT ![d] = Append(@, uid)]
      /\ held' = [held EXCEPT ![t] = Tail(h)]
      /\ dest' = [dest EXCEPT ![t] = None]
  BY DEF MatcherInv, ThreadTypeOK, AddPush, Pushed
<1>2. Len(h) \in 1 .. 2 /\ d \in Tiers
  BY <1>1 DEF Hands, ThreadTypeOK
<1>3. /\ uid \in Uids
      /\ Tail(h) \in Seq(Uids)
      /\ Len(Tail(h)) = Len(h) - 1
      /\ Elements(h) = {uid} \cup Elements(Tail(h))
  BY <1>1, <1>2, ElementsHeadTail, EmptySeq
<1>4. /\ pc' \in [Tiers -> PCs]
      /\ pc'[t] = next
      /\ \A x \in Tiers \ {t} :
            pc'[x] = pc[x] \/ (pc[x] = "blocked" /\ pc'[x] = "size")
  <2>1. Notified(d) \in [Tiers -> PCs]
    BY <1>1 DEF Notified, ThreadTypeOK, PCs
  <2>2. ASSUME NEW x \in Tiers
        PROVE  \/ Notified(d)[x] = pc[x]
               \/ pc[x] = "blocked" /\ Notified(d)[x] = "size"
    <3>1. Notified(d)[x] = IF x = d /\ pc[x] = "blocked" THEN "size" ELSE pc[x]
      BY <1>1, <1>2 DEF Notified, ThreadTypeOK
    <3> QED
      BY <3>1
  <2>3. pc' = [Notified(d) EXCEPT ![t] = next] /\ next \in PCs
    BY DEF AddPush, PCs
  <2> HIDE DEF next
  <2>4. pc' \in [Tiers -> PCs] /\ pc'[t] = next
    BY <2>1, <2>3
  <2>5. ASSUME NEW x \in Tiers \ {t}
        PROVE  pc'[x] = pc[x] \/ (pc[x] = "blocked" /\ pc'[x] = "size")
    <3>1. pc'[x] = Notified(d)[x]
      BY <2>1, <2>3
    <3> QED
      BY <2>2, <3>1
  <2> QED
    BY <2>4, <2>5
<1> DEFINE k == Tail(h)
           q == Append(queue[d], uid)
<1>5. k \in Seq(Uids) /\ Len(k) = Len(h) - 1 /\ held' = [held EXCEPT ![t] = k]
  BY <1>1, <1>3
<1>6. /\ q \in Seq(Uids)
      /\ Elements(q) = Elements(queue[d]) \cup {uid}
      /\ queue' = [queue EXCEPT ![d] = q]
  <2>1. queue[d] \in Seq(Uids)
    BY <1>1, <1>2 DEF ThreadTypeOK
  <2> QED
    BY <1>1, <1>3, <2>1, AppendProperties, ElementsAppend
<1>7. Elements(h) = {uid} \cup Elements(k)
  BY <1>3
<1>8. k = <<>> \/ Len(k) = 1
  <2>1. Len(k) = 0 \/ Len(k) = 1
    BY <1>2, <1>5
  <2> QED
    BY <1>5, <2>1, EmptySeq
<1> HIDE DEF k, q, h, uid, d
<1>9. ThreadTypeOK'
  BY <1>1, <1>2, <1>4, <1>5, <1>6 DEF ThreadTypeOK
<1>10. Hands(t)'
  <2>1. dest'[t] = None /\ held'[t] = k
    BY <1>1, <1>5 DEF ThreadTypeOK
  <2>2. CASE Len(h) = 1
    BY <1>4, <1>5, <1>8, <2>1, <2>2 DEF Hands
  <2>3. CASE Len(h) = 2
    BY <1>4, <1>5, <2>1, <2>3 DEF Hands
  <2> QED
    BY <1>2, <2>2, <2>3
<1>11. ASSUME NEW x \in Tiers \ {t}
       PROVE  Hands(x)' /\ Holding(x)' = Holding(x)
  <2>1. held'[x] = held[x] /\ dest'[x] = dest[x] /\ Hands(x)
    BY <1>1 DEF MatcherInv, ThreadTypeOK
  <2> QED
    BY <1>4, <2>1 DEF Hands, Holding
<1>12. \A x \in Tiers : Elements(queue[x]) \subseteq Elements(queue'[x])
  BY <1>1, <1>6 DEF ThreadTypeOK
<1>13. /\ Holding(t) = h
       /\ Holding(t)' = k
       /\ uid \in Elements(queue'[d])
  BY <1>1, <1>2, <1>4, <1>5, <1>6 DEF Holding, ThreadTypeOK, h
<1>14. RmInv' /\ \A u \in Uids : InHall(u)' = InHall(u)
  BY <1>1, RmStays DEF MatcherInv
<1>15. Waiting' = Waiting /\ Waiting \subseteq Uids
  BY <1>1 DEF Waiting
<1>16. ASSUME NEW u, NEW x \in Tiers, u \in Around(x)
       PROVE  \E y \in Tiers : u \in Around(y)'
  <2>1. CASE u = uid
    BY <1>2, <1>13, <2>1 DEF Around
  <2>2. CASE u # uid
    <3>1. u \in Around(x)'
      BY <1>7, <1>11, <1>12, <1>13, <1>16, <2>2 DEF Around
    <3> QED
      BY <3>1
  <2> QED
    BY <2>1, <2>2
<1>17. WaitersNotLost'
  BY <1>14, <1>15, <1>16, WaitersStep DEF MatcherInv
<1> QED
  BY <1>9, <1>10, <1>11, <1>14, <1>17 DEF MatcherInv

-----------------------------------------------------------------------------
(* The room: both players get a place and stop waiting.                    *)
LEMMA CreateInv ==
  ASSUME MatcherInv, NEW t \in Tiers, Create(t)
  PROVE  MatcherInv'
<1> DEFINE h == held[t]
<1>1. /\ ThreadTypeOK
      /\ Hands(t)
      /\ h \in Seq(Uids)
      /\ pc[t] = "create"
      /\ InsertRoom(h[1], h[2])
      /\ pc' = [pc EXCEPT ![t] = "send"]
      /\ UNCHANGED <<onlineVars, table, queue, held, seen, dest, starts>>
  BY DEF MatcherInv, ThreadTypeOK, Create, Goto
<1>2. /\ Len(h) = 2
      /\ h[1] \in Uids /\ h[2] \in Uids
      /\ Elements(h) = {h[1], h[2]}
  BY <1>1, ElementsShort, ElementOfSeq DEF Hands
<1>3. RmInv'
  BY <1>1, <1>2, InsertRoomInv DEF MatcherInv
<1>4. wish' = [u \in Uids |-> IF u \in {h[1], h[2]} THEN "none" ELSE wish[u]]
  BY DEF Create
<1>5. seats' \in [Uids -> Nat]
  <2>1. ASSUME NEW u \in Uids
        PROVE  Cardinality({i \in DOMAIN h : h[i] = u}) \in Nat
    <3>1. DOMAIN h = 1 .. Len(h) /\ Len(h) \in Nat
      BY <1>1, LenProperties
    <3>2. IsFiniteSet(1 .. Len(h))
      BY <3>1, FS_Interval
    <3>3. IsFiniteSet({i \in DOMAIN h : h[i] = u})
      BY <3>1, <3>2, FS_Subset
    <3> QED
      BY <3>3, FS_CardinalityType
  <2> DEFINE places == [u \in Uids |-> Cardinality({i \in DOMAIN h : h[i] = u})]
  <2>2. seats' = [u \in Uids |-> seats[u] + places[u]]
    BY DEF Create
  <2>3. places \in [Uids -> Nat]
    BY <2>1
  <2>4. seats \in [Uids -> Nat]
    BY <1>1 DEF ThreadTypeOK
  <2> HIDE DEF places
  <2> QED
    BY <2>2, <2>3, <2>4
<1> HIDE DEF h
<1>6. ThreadTypeOK'
  BY <1>1, <1>4, <1>5 DEF ThreadTypeOK, PCs
<1>7. \A x \in Tiers : Hands(x)'
  BY <1>1 DEF MatcherInv, Hands, ThreadTypeOK
<1>8. Waiting' \subseteq Waiting \ {h[1], h[2]} /\ Waiting \subseteq Uids
  BY <1>4 DEF Waiting
<1>9. \A x \in Tiers \ {t} : Around(x)' = Around(x)
  BY <1>1 DEF Around, Holding, ThreadTypeOK
<1>10. Around(t) \subseteq Around(t)' \cup {h[1], h[2]}
  BY <1>1, <1>2 DEF Around, Holding, ThreadTypeOK, h
<1>11. \A u \in Uids : InHall(u)' = InHall(u)
  BY <1>1 DEF InHall, onlineVars
<1>12. WaitersNotLost'
  BY <1>8, <1>9, <1>10, <1>11, WaitersStep DEF MatcherInv
<1> QED
  BY <1>3, <1>6, <1>7, <1>12 DEF MatcherInv

-----------------------------------------------------------------------------
(* The event loop.  Waking a thread up changes nothing for those it holds. *)
LEMMA NotifiedHands ==
  ASSUME MatcherInv, NEW d \in Tiers, pc' = Notified(d), UNCHANGED <<held, dest>>
  PROVE  /\ pc' \in [Tiers -> PCs]
         /\ \A x \in Tiers : Hands(x)' /\ Holding(x)' = Holding(x)
<1>1. pc \in [Tiers -> PCs]
  BY DEF MatcherInv, ThreadTypeOK
<1>2. pc' \in [Tiers -> PCs]
  BY <1>1 DEF Notified, PCs
<1>3. ASSUME NEW x \in Tiers
      PROVE  Hands(x)' /\ Holding(x)' = Holding(x)
  <2>1. pc'[x] = IF x = d /\ pc[x] = "blocked" THEN "size" ELSE pc[x]
    BY <1>1 DEF Notified
  <2>2. Hands(x) /\ held'[x] = held[x] /\ dest'[x] = dest[x]
    BY DEF MatcherInv
  <2> QED
    BY <2>1, <2>2 DEF Hands, Holding
<1> QED
  BY <1>2, <1>3

(* A request to be matched adds a player, ...                              *)
LEMMA MatchStartInv ==
  ASSUME MatcherInv, NEW uid \in Uids, MatchStart(uid)
  PROVE  MatcherInv'
<1> DEFINE d == Tier(table[uid].score)
<1>1. /\ ThreadTypeOK
      /\ d \in Tiers
      /\ starts' \in [Uids -> Nat]
      /\ UNCHANGED <<rmVars, held, seen, dest, seats>>
  BY TierOfPlayer DEF MatcherInv, ThreadTypeOK, MatchStart
<1>2. RmInv' /\ \A u \in Uids : InHall(u)' = InHall(u)
  BY <1>1, RmStays DEF MatcherInv
<1>3. CASE /\ queue' = Pushed(d, uid)
           /\ pc' = Notified(d)
           /\ wish' = [wish EXCEPT ![uid] = IF InHall(uid) THEN "match" ELSE "none"]
  <2> DEFINE q == Append(queue[d], uid)
  <2>1. /\ q \in Seq(Uids)
        /\ Elements(q) = Elements(queue[d]) \cup {uid}
        /\ queue' = [queue EXCEPT ![d] = q]
    <3>1. queue[d] \in Seq(Uids)
      BY <1>1 DEF ThreadTypeOK
    <3> QED
      BY <1>3, <3>1, AppendProperties, ElementsAppend DEF Pushed
  <2>2. /\ pc' \in [Tiers -> PCs]
        /\ \A x \in Tiers : Hands(x)' /\ Holding(x)' = Holding(x)
    BY <1>1, <1>3, NotifiedHands
  <2> HIDE DEF q, d
  <2>3. ThreadTypeOK'
    BY <1>1, <1>3, <2>1, <2>2 DEF ThreadTypeOK
  <2>4. ASSUME NEW x \in Tiers
        PROVE  /\ Around(x) \subseteq Around(x)'
               /\ x = d => uid \in Around(x)'
    <3>1. Elements(queue[x]) \subseteq Elements(queue'[x])
      <4>1. queue'[x] = IF x = d THEN q ELSE queue[x]
        BY <1>1, <2>1 DEF ThreadTypeOK
      <4> QED
        BY <4>1, <2>1
    <3>2. queue'[d] = q
      BY <1>1, <2>1 DEF ThreadTypeOK
    <3>3. x = d => uid \in Elements(queue'[x])
      BY <2>1, <3>2
    <3>4. Holding(x)' = Holding(x)
      BY <2>2
    <3> QED
      BY <3>1, <3>3, <3>4 DEF Around
  <2>5. /\ Waiting' \subseteq Waiting \cup {uid}
        /\ Waiting \subseteq Uids
        /\ uid \in Waiting' => InHall(uid)
    BY <1>1, <1>3 DEF Waiting, ThreadTypeOK
  <2>6. WaitersNotLost'
    <3>1. ASSUME NEW u \in Waiting'
          PROVE  InHall(u)' /\ \E x \in Tiers : u \in Around(x)'
      BY <1>1, <1>2, <2>4, <2>5 DEF MatcherInv, WaitersNotLost, Around
    <3> QED
      BY <3>1 DEF WaitersNotLost, Around
  <2> QED
    BY <1>2, <2>2, <2>3, <2>6 DEF MatcherInv
<1>4. CASE UNCHANGED <<queue, pc>> /\ wish' = [wish EXCEPT ![uid] = "none"]
  <2>1. ThreadTypeOK'
    BY <1>1, <1>4 DEF ThreadTypeOK
  <2>2. \A x \in Tiers : Hands(x)' /\ Around(x)' = Around(x)
    BY <1>1, <1>4 DEF MatcherInv, Hands, Around, Holding
  <2>3. Waiting' \subseteq Waiting /\ Waiting \subseteq Uids
    BY <1>1, <1>4 DEF Waiting, ThreadTypeOK
  <2>4. WaitersNotLost'
    BY <1>2, <2>2, <2>3, WaitersStep DEF MatcherInv
  <2> QED
    BY <1>2, <2>1, <2>2, <2>4 DEF MatcherInv
<1> QED
  BY <1>3, <1>4 DEF MatchStart

(* ... and one to stop takes him out, who then no longer waits.            *)
LEMMA MatchStopInv ==
  ASSUME MatcherInv, NEW uid \in Uids, MatchStop(uid)
  PROVE  MatcherInv'
<1>1. /\ ThreadTypeOK
      /\ wish' = [wish EXCEPT ![uid] = "none"]
      /\ UNCHANGED <<rmVars, pc, held, seen, dest, starts, seats>>
  BY DEF MatcherInv, MatchStop, threadVars
<1>2. RmInv' /\ \A u \in Uids : InHall(u)' = InHall(u)
  BY <1>1, RmStays DEF MatcherInv
<1>3. /\ queue' \in [Tiers -> Seq(Uids)]
      /\ \A x \in Tiers : Elements(queue[x]) \subseteq Elements(queue'[x]) \cup {uid}
  <2>1. Tier(table[uid].score) \in Tiers
    BY TierOfPlayer DEF MatcherInv
  <2>2. CASE Remove(Tier(table[uid].score), uid)
    BY <1>1, <2>1, <2>2, RemoveKeeps
  <2>3. CASE UNCHANGED queue
    BY <1>1, <2>3 DEF ThreadTypeOK
  <2> QED
    BY <2>2, <2>3 DEF MatchStop
<1>4. ThreadTypeOK'
  BY <1>1, <1>3 DEF ThreadTypeOK
<1>5. \A x \in Tiers : Hands(x)' /\ Around(x) \subseteq Around(x)' \cup {uid}
  BY <1>1, <1>3 DEF MatcherInv, Hands, Around, Holding
<1>6. Waiting' \subseteq Waiting \ {uid} /\ Waiting \subseteq Uids
  BY <1>1 DEF Waiting, ThreadTypeOK
<1>7. WaitersNotLost'
  BY <1>2, <1>5, <1>6, WaitersStep DEF MatcherInv
<1> QED
  BY <1>2, <1>4, <1>5, <1>7 DEF MatcherInv

(* Who leaves the hall gives up; who enters disturbs nobody.               *)
LEMMA HallInv ==
  ASSUME MatcherInv, NEW uid \in Uids,
         LeaveTheHall(uid) \/ \E c \in Conns : EnterTheHall(uid, c)
  PROVE  MatcherInv'
<1>1. /\ ThreadTypeOK
      /\ UNCHANGED <<table, roomVars, queue, threadVars, starts, seats>>
  BY DEF MatcherInv, LeaveTheHall, EnterTheHall, matcherVars
<1>2. RmInv'
  BY <1>1, RegistryTypes, RegistryStep DEF MatcherInv, LeaveTheHall, EnterTheHall
<1>3. \/ wish' = wish /\ \A u \in Uids : InHall(u) => InHall(u)'
      \/ /\ wish' = [wish EXCEPT ![uid] = "none"]
         /\ \A u \in Uids \ {uid} : InHall(u)' = InHall(u)
  <2>1. hallUser \in [Uids -> Conns \cup {NoConn}]
    BY DEF MatcherInv, RmInv, RmTypeOK, OnlineTypeOK, Registry
  <2>2. CASE LeaveTheHall(uid)
    BY <2>1, <2>2 DEF LeaveTheHall, ExitHall, Erased, InHall
  <2>3. CASE \E c \in Conns : EnterTheHall(uid, c)
    BY <2>1, <2>3, NoConnAssumption
    DEF EnterTheHall, EnterHall, Inserted, InHall, matcherVars
  <2> QED
    BY <2>2, <2>3
<1>4. ThreadTypeOK'
  BY <1>1, <1>3 DEF ThreadTypeOK, threadVars
<1>5. \A x \in Tiers : Hands(x)' /\ Around(x)' = Around(x)
  BY <1>1 DEF MatcherInv, Hands, Around, Holding, threadVars
<1>6. \A u \in Waiting' : u \in Waiting /\ InHall(u)'
  <2>1. \A u \in Waiting : u \in Uids /\ InHall(u)
    BY DEF MatcherInv, WaitersNotLost, Waiting
  <2> QED
    BY <1>1, <1>3, <2>1 DEF Waiting, ThreadTypeOK
<1>7. WaitersNotLost'
  BY <1>5, <1>6, WaitersStep DEF MatcherInv
<1> QED
  BY <1>2, <1>4, <1>5, <1>7 DEF MatcherInv

(* What goes on in the rooms does not reach the queues.                    *)
LEMMA InTheRoomsInv ==
  ASSUME MatcherInv, InTheRooms
  PROVE  MatcherInv'
<1>1. UNCHANGED <<hallUser, queue, threadVars, wish, starts, seats>>
  BY DEF InTheRooms, matcherVars, CloseRoom, ExitRoom, OpenRoom, EnterRoom,
         HandleRequest, onlineVars
<1>2. RmInv'
  <2>1. ASSUME NEW u \in Uids, CloseRoom(u)
        PROVE  RmInv'
    BY <2>1, CloseRoomInv DEF MatcherInv
  <2>2. ASSUME NEW u \in Uids, NEW c \in Conns, OpenRoom(u, c)
        PROVE  RmInv'
    BY <2>2, RegistryTypes, RegistryStep DEF MatcherInv, OpenRoom
  <2>3. ASSUME NEW u \in Uids, NEW c \in Cells, HandleRequest(u, c)
        PROVE  RmInv'
    BY <2>3, HandleRequestInv DEF MatcherInv
  <2> QED
    BY <2>1, <2>2, <2>3 DEF InTheRooms
<1>3. ThreadTypeOK'
  BY <1>1 DEF MatcherInv, ThreadTypeOK, threadVars
<1>4. (\A x \in Tiers : Hands(x)') /\ WaitersNotLost'
  BY <1>1 DEF MatcherInv, Hands, WaitersNotLost, Waiting, InHall, Holding,
              threadVars
<1> QED
  BY <1>2, <1>3, <1>4 DEF MatcherInv

-----------------------------------------------------------------------------
(* The initial state.                                                      *)
LEMMA MatcherInitInv == MatcherInit => MatcherInv
<1> SUFFICES ASSUME MatcherInit PROVE MatcherInv
  OBVIOUS
<1>1. RmInv
  BY RmInitInv DEF MatcherInit
<1>2. ThreadTypeOK
  BY EmptySeq DEF MatcherInit, ThreadTypeOK, PCs
<1>3. \A t \in Tiers : Hands(t)
  BY DEF MatcherInit, Hands
<1>4. WaitersNotLost
  BY DEF MatcherInit, WaitersNotLost, Waiting
<1> QED
  BY <1>1, <1>2, <1>3, <1>4 DEF MatcherInv

(* Every step preserves the invariant.                                     *)
LEMMA MatcherNextInv == MatcherInv /\ [MatcherNext]_vars => MatcherInv'
<1> SUFFICES ASSUME MatcherInv, [MatcherNext]_vars
             PROVE  MatcherInv'
  OBVIOUS
<1>1. ASSUME NEW t \in Tiers, Running(t) \/ Spurious(t)
      PROVE  MatcherInv'
  BY <1>1, MoveInv, PopInv, ConnInv, CreateInv, SendInv, AddSelectInv, AddPushInv
  DEF Running
<1>2. ASSUME NEW u \in Uids, MatchStart(u) \/ MatchStop(u) \/ LeaveTheHall(u)
      PROVE  MatcherInv'
  BY <1>2, MatchStartInv, MatchStopInv, HallInv
<1>3. ASSUME NEW u \in Uids, NEW c \in Conns, EnterTheHall(u, c)
      PROVE  MatcherInv'
  BY <1>3, HallInv
<1>4. CASE InTheRooms
  BY <1>4, InTheRoomsInv
<1>5. CASE UNCHANGED vars
  <2>1. UNCHANGED <<rmVars, hallUser, queue, pc, held, seen, dest, wish, starts, seats>>
    BY <1>5 DEF vars, matcherVars, threadVars, rmVars, onlineVars
  <2>2. RmInv'
    BY <2>1, RmStays DEF MatcherInv
  <2>3. ThreadTypeOK' /\ (\A x \in Tiers : Hands(x)') /\ WaitersNotLost'
    BY <2>1 DEF MatcherInv, ThreadTypeOK, Hands, WaitersNotLost, Waiting, InHall,
                Holding
  <2> QED
    BY <2>2, <2>3 DEF MatcherInv
<1> QED
  BY <1>1, <1>2, <1>3, <1>4, <1>5 DEF MatcherNext

(* The inductive invariant holds in every state.                           *)
THEOREM MatcherInvariant == MatcherSpec => []MatcherInv
  BY MatcherInitInv, MatcherNextInv, PTL DEF MatcherSpec

(* Type correctness, and the number of players each thread holds where.    *)
THEOREM MatcherTypeCorrect == MatcherSpec => []MatcherTypeOK
<1>1. MatcherInv => MatcherTypeOK
  BY DEF MatcherInv, RmInv, ThreadTypeOK, MatcherTypeOK
<1> QED
  BY <1>1, MatcherInvariant, PTL

(* Nobody who waits for a match is lost, whatever fails and whoever else   *)
(* comes and goes.                                                         *)
THEOREM NoWaiterIsLost == MatcherSpec => []WaitersNotLost
<1>1. MatcherInv => WaitersNotLost
  BY DEF MatcherInv
<1> QED
  BY <1>1, MatcherInvariant, PTL

-----------------------------------------------------------------------------
(* Where a player lies in a sequence, and how often.                       *)
PlacesIn(s, u) == {i \in DOMAIN s : s[i] = u}

(* Counts are numbers, ...                                                 *)
LEMMA CountType ==
  ASSUME NEW S, NEW s \in Seq(S), NEW u
  PROVE  /\ IsFiniteSet(PlacesIn(s, u))
         /\ Count(s, u) = Cardinality(PlacesIn(s, u))
         /\ Count(s, u) \in Nat
         /\ Count(<<>>, u) = 0
<1>1. DOMAIN s = 1 .. Len(s) /\ Len(s) \in Nat
  BY LenProperties
<1>2. IsFiniteSet(1 .. Len(s))
  BY <1>1, FS_Interval
<1>3. PlacesIn(s, u) \in SUBSET (1 .. Len(s))
  BY <1>1 DEF PlacesIn
<1>4. IsFiniteSet(PlacesIn(s, u))
  BY <1>2, <1>3, FS_Subset
<1>5. \A q : Count(q, u) = Cardinality(PlacesIn(q, u))
  BY DEF Count, PlacesIn
<1>6. PlacesIn(<<>>, u) = {}
  BY DEF PlacesIn
<1> QED
  BY <1>4, <1>5, <1>6, FS_EmptySet, FS_CardinalityType

(* ... an element appended counts for one, ...                             *)
LEMMA CountAppend ==
  ASSUME NEW S, NEW s \in Seq(S), NEW e \in S, NEW u
  PROVE  Count(Append(s, e), u) = Count(s, u) + IF e = u THEN 1 ELSE 0
<1> DEFINE a == Append(s, e)
           n == Len(s) + 1
<1>1. /\ a \in Seq(S)
      /\ DOMAIN s = 1 .. Len(s) /\ Len(s) \in Nat
      /\ DOMAIN a = 1 .. n
      /\ \A i \in 1 .. Len(s) : a[i] = s[i]
      /\ a[n] = e
      /\ 1 .. n = (1 .. Len(s)) \cup {n}
  BY LenProperties, AppendProperties
<1>2. n \notin PlacesIn(s, u)
  BY <1>1 DEF PlacesIn
<1>3. /\ IsFiniteSet(PlacesIn(s, u)) /\ Count(s, u) \in Nat
      /\ Count(s, u) = Cardinality(PlacesIn(s, u))
      /\ Count(a, u) = Cardinality(PlacesIn(a, u))
  BY <1>1, CountType
<1> HIDE DEF a, n
<1>4. CASE e = u
  <2>1. PlacesIn(a, u) = PlacesIn(s, u) \cup {n}
    BY <1>1, <1>4 DEF PlacesIn
  <2> QED
    BY <1>2, <1>3, <1>4, <2>1, FS_AddElement DEF a
<1>5. CASE e # u
  <2>1. PlacesIn(a, u) = PlacesIn(s, u)
    BY <1>1, <1>5 DEF PlacesIn
  <2> QED
    BY <1>3, <1>5, <2>1 DEF a
<1> QED
  BY <1>4, <1>5

(* ... and so does the head.                                               *)
LEMMA CountHeadTail ==
  ASSUME NEW S, NEW s \in Seq(S), s # <<>>, NEW u
  PROVE  Count(s, u) = Count(Tail(s), u) + IF Head(s) = u THEN 1 ELSE 0
<1> DEFINE later == PlacesIn(s, u) \ {1}
           rest  == PlacesIn(Tail(s), u)
           f     == [i \in rest |-> i + 1]
<1>1. /\ Head(s) = s[1]
      /\ Tail(s) \in Seq(S)
      /\ \A i \in 1 .. Len(Tail(s)) : Tail(s)[i] = s[i + 1]
      /\ DOMAIN s = 1 .. Len(s) /\ Len(s) \in Nat \ {0}
      /\ DOMAIN Tail(s) = 1 .. Len(s) - 1 /\ Len(Tail(s)) = Len(s) - 1
  BY HeadTailProperties, EmptySeq
<1>2. /\ IsFiniteSet(PlacesIn(s, u)) /\ IsFiniteSet(rest)
      /\ Count(s, u) \in Nat
      /\ Count(s, u) = Cardinality(PlacesIn(s, u))
      /\ Count(Tail(s), u) = Cardinality(rest)
  BY <1>1, CountType
<1>3. /\ \A i \in rest : i \in Int /\ i + 1 \in later
      /\ \A j \in later : j - 1 \in rest /\ j = (j - 1) + 1
  BY <1>1 DEF PlacesIn
<1>4. 1 \in PlacesIn(s, u) <=> Head(s) = u
  BY <1>1 DEF PlacesIn
<1>5. Cardinality(later) = Count(s, u) - IF Head(s) = u THEN 1 ELSE 0
  <2>1. Cardinality(later) = IF 1 \in PlacesIn(s, u)
                             THEN Cardinality(PlacesIn(s, u)) - 1
                             ELSE Cardinality(PlacesIn(s, u))
    BY <1>2, FS_RemoveElement
  <2> HIDE DEF later
  <2> QED
    BY <1>2, <1>4, <2>1
<1> HIDE DEF later, rest
<1>6. f \in Bijection(rest, later)
  <2>1. f \in [rest -> later]
    BY <1>3
  <2>2. \A i, j \in rest : f[i] = f[j] => i = j
    BY <1>3
  <2>3. \A j \in later : \E i \in rest : f[i] = j
    BY <1>3
  <2> HIDE DEF f
  <2> QED
    BY <2>1, <2>2, <2>3, Fun_IsBij
<1>7. Cardinality(later) = Cardinality(rest)
  BY <1>2, <1>6, FS_Bijection DEF ExistsBijection
<1> QED
  BY <1>2, <1>5, <1>7

(* Of two players who are held, one is kept.                               *)
LEMMA CountShort ==
  ASSUME NEW S, NEW s \in Seq(S), Len(s) = 2, NEW u, NEW i \in 1 .. 2
  PROVE  Count(<<s[i]>>, u) <= Count(s, u)
<1>1. s[1] \in S /\ s[2] \in S /\ DOMAIN s = 1 .. 2
  BY ElementOfSeq, LenProperties
<1>2. <<>> \in Seq(S) /\ Append(<<>>, s[i]) = <<s[i]>> /\ s[i] \in S
  BY <1>1, EmptySeq
<1>3. Count(<<>>, u) = 0
  BY CountType
<1>4. Count(<<s[i]>>, u) = IF s[i] = u THEN 1 ELSE 0
  <2> DEFINE e == s[i]
             o == <<>>
  <2>1. o \in Seq(S) /\ e \in S
    BY <1>2
  <2> HIDE DEF e, o
  <2>2. Count(Append(o, e), u) = Count(o, u) + IF e = u THEN 1 ELSE 0
    BY <2>1, CountAppend
  <2> QED
    BY <1>2, <1>3, <2>2 DEF e, o
<1>5. /\ Count(s, u) \in Nat
      /\ Count(s, u) = Cardinality(PlacesIn(s, u))
      /\ IsFiniteSet(PlacesIn(s, u))
  BY CountType
<1>6. s[i] = u => PlacesIn(s, u) # {}
  BY <1>1 DEF PlacesIn
<1>7. s[i] = u => Count(s, u) # 0
  BY <1>5, <1>6, FS_EmptySet
<1> QED
  BY <1>4, <1>5, <1>7

(* MatchQueue::Remove multiplies nobody.                                   *)
LEMMA RemoveCount ==
  ASSUME ThreadTypeOK, NEW t \in Tiers, NEW uid \in Uids, Remove(t, uid),
         queue' \in [Tiers -> Seq(Uids)], NEW u, NEW x \in Tiers
  PROVE  Count(queue'[x], u) <= Count(queue[x], u)
<1> DEFINE q == queue[t]
           keep == {i \in DOMAIN q : q[i] # uid}
           n == Cardinality(keep)
<1>1. /\ q \in Seq(Uids) /\ queue[x] \in Seq(Uids) /\ queue'[x] \in Seq(Uids)
      /\ DOMAIN q = 1 .. Len(q) /\ Len(q) \in Nat
      /\ queue \in [Tiers -> Seq(Uids)]
  BY DEF ThreadTypeOK
<1>2. n \in Nat
  <2>1. IsFiniteSet(1 .. Len(q))
    BY <1>1, FS_Interval
  <2>2. IsFiniteSet(keep)
    BY <1>1, <2>1, FS_Subset
  <2> QED
    BY <2>2, FS_CardinalityType
<1>3. PICK from \in [1 .. n -> keep] :
        /\ \A i, j \in DOMAIN from : i < j => from[i] < from[j]
        /\ queue' = [queue EXCEPT ![t] = [i \in 1 .. n |-> q[from[i]]]]
  BY DEF Remove
<1> DEFINE r == [i \in 1 .. n |-> q[from[i]]]
<1>4. queue'[x] = IF x = t THEN r ELSE queue[x]
  <2>1. queue' = [queue EXCEPT ![t] = r]
    BY <1>3
  <2> HIDE DEF r
  <2> QED
    BY <1>1, <2>1
<1>5. /\ Count(queue[x], u) = Cardinality(PlacesIn(queue[x], u))
      /\ Count(queue'[x], u) = Cardinality(PlacesIn(queue'[x], u))
      /\ Count(queue[x], u) \in Nat
      /\ IsFiniteSet(PlacesIn(queue[x], u))
  BY <1>1, CountType
<1>6. CASE x = t
  <2> DEFINE new == PlacesIn(r, u)
             old == PlacesIn(q, u)
             f   == [i \in new |-> from[i]]
  <2>1. \A i, j \in 1 .. n : from[i] = from[j] => i = j
    <3>1. keep \subseteq Int /\ 1 .. n \subseteq Int
      BY <1>1, <1>2
    <3>2. DOMAIN from = 1 .. n /\ \A i \in 1 .. n : from[i] \in Int
      BY <3>1
    <3> HIDE DEF n, keep
    <3> QED
      BY <1>3, <3>1, <3>2
  <2>2. /\ \A i \in new : from[i] \in old
        /\ new \subseteq 1 .. n
    BY DEF PlacesIn
  <2> HIDE DEF new, old, n
  <2>3. f \in [new -> old]
    BY <2>2
  <2>4. \A i, j \in new : f[i] = f[j] => i = j
    BY <2>1, <2>2
  <2> HIDE DEF f
  <2>5. f \in Injection(new, old)
    BY <2>3, <2>4, Fun_IsInj
  <2>6. Cardinality(new) <= Cardinality(old)
    BY <1>5, <1>6, <2>5, FS_Injection DEF old
  <2> QED
    BY <1>4, <1>5, <1>6, <2>6 DEF new, old
<1>7. CASE x # t
  BY <1>4, <1>5, <1>7
<1> QED
  BY <1>6, <1>7

-----------------------------------------------------------------------------
(* The counts in queues and hands are numbers.                             *)
LEMMA CopiesType ==
  ASSUME ThreadTypeOK, NEW u
  PROVE  \A t \in Tiers : /\ Count(queue[t], u) \in Nat
                          /\ Holding(t) \in Seq(Uids)
                          /\ Count(Holding(t), u) \in Nat
<1> SUFFICES ASSUME NEW t \in Tiers
             PROVE  /\ Count(queue[t], u) \in Nat
                    /\ Holding(t) \in Seq(Uids)
                    /\ Count(Holding(t), u) \in Nat
  OBVIOUS
<1>1. queue[t] \in Seq(Uids) /\ Holding(t) \in Seq(Uids)
  BY EmptySeq DEF ThreadTypeOK, Holding
<1> QED
  BY <1>1, CountType

(* A step is right if what it adds to queue d is taken from the hands of   *)
(* thread t or was asked for, and no other queue or thread gains anything. *)
LEMMA SeatsStep ==
  ASSUME ThreadTypeOK, ThreadTypeOK', SeatsWereAskedFor,
         NEW d \in Tiers, NEW t \in Tiers,
         \A u \in Uids :
           /\ \A x \in Tiers \ {d} : Count(queue'[x], u) <= Count(queue[x], u)
           /\ \A x \in Tiers \ {t} : Count(Holding(x)', u) <= Count(Holding(x), u)
           /\ Count(queue'[d], u) + Count(Holding(t)', u) + seats'[u] + starts[u]
                <= Count(queue[d], u) + Count(Holding(t), u) + seats[u] + starts'[u]
  PROVE  SeatsWereAskedFor'
<1> SUFFICES ASSUME NEW u \in Uids
             PROVE  Copies("bronze", u)' + Copies("silver", u)' + Copies("gold", u)'
                      + seats'[u] <= starts'[u]
  BY DEF SeatsWereAskedFor
<1> DEFINE Q(x)  == IF x \in Tiers THEN Count(queue[x], u) ELSE 0
           Q1(x) == IF x \in Tiers THEN Count(queue'[x], u) ELSE 0
           H(x)  == IF x \in Tiers THEN Count(Holding(x), u) ELSE 0
           H1(x) == IF x \in Tiers THEN Count(Holding(x)', u) ELSE 0
<1>1. \A x \in Tiers : /\ Count(queue[x], u) \in Nat
                       /\ Count(Holding(x), u) \in Nat
                       /\ Count(queue'[x], u) \in Nat
                       /\ Count(Holding(x)', u) \in Nat
  <2>1. \A x \in Tiers : Count(queue[x], u) \in Nat /\ Count(Holding(x), u) \in Nat
    BY CopiesType
  <2>2. \A x \in Tiers : Count(queue'[x], u) \in Nat /\ Count(Holding(x)', u) \in Nat
    <3>1. \A x \in Tiers : queue'[x] \in Seq(Uids) /\ Holding(x)' \in Seq(Uids)
      BY EmptySeq DEF ThreadTypeOK, Holding
    <3> QED
      BY <3>1, CountType
  <2> QED
    BY <2>1, <2>2
<1>2. ASSUME NEW x
      PROVE  /\ Q(x) \in Nat /\ Q1(x) \in Nat /\ H(x) \in Nat /\ H1(x) \in Nat
             /\ Copies(x, u) = Q(x) + H(x)
             /\ Copies(x, u)' = Q1(x) + H1(x)
             /\ x # d => Q1(x) <= Q(x)
             /\ x # t => H1(x) <= H(x)
  <2>1. CASE x \in Tiers
    BY <1>1, <2>1 DEF Copies
  <2>2. CASE x \notin Tiers
    BY <2>2 DEF Copies
  <2> QED
    BY <2>1, <2>2
<1>3. Q1(d) + H1(t) + seats'[u] + starts[u] <= Q(d) + H(t) + seats[u] + starts'[u]
  OBVIOUS
<1>4. /\ seats[u] \in Nat /\ seats'[u] \in Nat
      /\ starts[u] \in Nat /\ starts'[u] \in Nat
  BY DEF ThreadTypeOK
<1>5. d \in {"bronze", "silver", "gold"} /\ t \in {"bronze", "silver", "gold"}
  BY DEF Tiers, Tier
<1>6. Copies("bronze", u) + Copies("silver", u) + Copies("gold", u) + seats[u]
        <= starts[u]
  BY DEF SeatsWereAskedFor
<1> HIDE DEF Q, Q1, H, H1
<1>7. Q("bronze") + Q("silver") + Q("gold") + H("bronze") + H("silver") + H("gold")
        + seats[u] <= starts[u]
  BY <1>2, <1>4, <1>6
<1>8. Q1("bronze") + Q1("silver") + Q1("gold") + H1("bronze") + H1("silver")
        + H1("gold") + seats'[u] <= starts'[u]
  <2>1. \A x \in {"bronze", "silver", "gold"} :
          /\ Q(x) \in Nat /\ Q1(x) \in Nat /\ H(x) \in Nat /\ H1(x) \in Nat
          /\ x # d => Q1(x) <= Q(x)
          /\ x # t => H1(x) <= H(x)
    BY <1>2
  <2>2. Q1("bronze") + Q1("silver") + Q1("gold") - Q1(d)
          <= Q("bronze") + Q("silver") + Q("gold") - Q(d)
    BY <2>1, <1>5
  <2>3. H1("bronze") + H1("silver") + H1("gold") - H1(t)
          <= H("bronze") + H("silver") + H("gold") - H(t)
    BY <2>1, <1>5
  <2>4. Q(d) \in Nat /\ Q1(d) \in Nat /\ H(t) \in Nat /\ H1(t) \in Nat
    BY <1>2
  <2> QED
    BY <2>1, <2>2, <2>3, <2>4, <1>3, <1>4, <1>7
<1>9. /\ Copies("bronze", u)' = Q1("bronze") + H1("bronze")
      /\ Copies("silver", u)' = Q1("silver") + H1("silver")
      /\ Copies("gold", u)' = Q1("gold") + H1("gold")
      /\ \A x : Q1(x) \in Nat /\ H1(x) \in Nat
  BY <1>2
<1> QED
  BY <1>4, <1>8, <1>9

(* Most steps leave queues and requests alone.                             *)
LEMMA SeatsKept ==
  ASSUME ThreadTypeOK, ThreadTypeOK', SeatsWereAskedFor, NEW t \in Tiers,
         UNCHANGED <<queue, starts>>,
         \A u \in Uids :
           /\ \A x \in Tiers \ {t} : Count(Holding(x)', u) <= Count(Holding(x), u)
           /\ Count(Holding(t)', u) + seats'[u] <= Count(Holding(t), u) + seats[u]
  PROVE  SeatsWereAskedFor'
<1> SUFFICES ASSUME NEW u \in Uids
             PROVE  /\ \A x \in Tiers \ {t} : Count(queue'[x], u) <= Count(queue[x], u)
                    /\ Count(queue'[t], u) + Count(Holding(t)', u) + seats'[u] + starts[u]
                         <= Count(queue[t], u) + Count(Holding(t), u) + seats[u] + starts'[u]
  BY SeatsStep
<1>1. \A x \in Tiers : Count(queue[x], u) \in Nat /\ Count(Holding(x), u) \in Nat
  BY CopiesType
<1>2. Count(Holding(t)', u) \in Nat
  <2>1. Holding(t)' \in Seq(Uids)
    BY EmptySeq DEF ThreadTypeOK, Holding
  <2> QED
    BY <2>1, CountType
<1>3. /\ seats[u] \in Nat /\ seats'[u] \in Nat
      /\ starts[u] \in Nat /\ starts' = starts /\ queue' = queue
  BY DEF ThreadTypeOK
<1> QED
  BY <1>1, <1>2, <1>3

(* A thread that moves on, finds somebody gone, gives up a player whose    *)
(* query failed, or has told both players.                                 *)
LEMMA HandsSeats ==
  ASSUME MatcherInv, ThreadTypeOK', SeatsWereAskedFor, NEW t \in Tiers,
         \/ Size(t) \/ Wait(t) \/ Spurious(t) \/ Conn1(t) \/ Conn2(t)
         \/ Hall1(t) \/ Hall2(t) \/ Send(t) \/ AddSelect(t)
  PROVE  SeatsWereAskedFor'
<1> DEFINE h == held[t]
<1>1. /\ ThreadTypeOK /\ Hands(t)
      /\ h \in Seq(Uids)
      /\ UNCHANGED <<queue, starts, seats>>
  BY DEF MatcherInv, ThreadTypeOK, Size, Wait, Spurious, Conn1, Conn2, Hall1, Hall2,
         HallTest, Send, AddSelect
<1>2. /\ \E l \in PCs : pc' = [pc EXCEPT ![t] = l]
      /\ \E k \in Seq(Uids) : held' = [held EXCEPT ![t] = k]
  <2>1. held' \in [Tiers -> Seq(Uids)]
    BY DEF ThreadTypeOK
  <2>2. \E k : held' = [held EXCEPT ![t] = k]
    <3>1. held = [held EXCEPT ![t] = h]
      BY <1>1 DEF ThreadTypeOK
    <3> QED
      BY <3>1 DEF Size, Wait, Spurious, Conn1, Conn2, Hall1, Hall2, HallTest, Send,
                  AddSelect
  <2>3. \E k \in Seq(Uids) : held' = [held EXCEPT ![t] = k]
    BY <1>1, <2>1, <2>2 DEF ThreadTypeOK
  <2> QED
    BY <2>3 DEF Size, Wait, Spurious, Conn1, Conn2, Hall1, Hall2, HallTest, Send,
                AddSelect, Goto, PCs
<1>3. \A x \in Tiers \ {t} : Holding(x)' = Holding(x)
  BY <1>1, <1>2 DEF Holding, ThreadTypeOK
<1>4. \/ held' = held /\ pc'[t] # "send" /\ pc[t] # "send"
      \/ Send(t)
      \/ \E i \in 1 .. 2 : /\ pc[t] \in {"conn1", "conn2"} /\ pc'[t] = "add"
                           /\ held'[t] = <<h[i]>>
      \/ /\ pc[t] = "add" /\ pc'[t] \in {"size", "add"}
         /\ held'[t] = Tail(h)
  <2>1. CASE Size(t) \/ Wait(t) \/ Spurious(t) \/ Hall1(t) \/ Hall2(t)
    BY <1>1, <2>1 DEF Size, Wait, Spurious, Hall1, Hall2, HallTest, Goto, ThreadTypeOK
  <2>2. CASE Conn1(t) \/ Conn2(t)
    BY <1>1, <2>2 DEF Conn1, Conn2, Goto, ThreadTypeOK
  <2>3. CASE AddSelect(t)
    BY <1>1, <2>3 DEF AddSelect, Goto, ThreadTypeOK
  <2> QED
    BY <2>1, <2>2, <2>3
<1>5. ASSUME NEW u \in Uids
      PROVE  Count(Holding(t)', u) <= Count(Holding(t), u)
  <2>1. Count(Holding(t), u) \in Nat /\ Count(h, u) \in Nat
    BY <1>1, CopiesType, CountType
  <2>2. CASE held' = held /\ pc'[t] # "send" /\ pc[t] # "send"
    BY <2>1, <2>2 DEF Holding
  <2>3. CASE Send(t)
    <3>1. Holding(t)' = <<>> /\ Holding(t) = <<>>
      BY <1>1, <2>3 DEF Send, Holding, Goto, ThreadTypeOK
    <3> QED
      BY <2>1, <3>1
  <2>4. ASSUME NEW i \in 1 .. 2, pc[t] \in {"conn1", "conn2"}, pc'[t] = "add",
               held'[t] = <<h[i]>>
        PROVE  Count(Holding(t)', u) <= Count(Holding(t), u)
    <3>1. Len(h) = 2 /\ Holding(t) = h /\ Holding(t)' = <<h[i]>>
      BY <1>1, <2>4 DEF Hands, Holding
    <3> QED
      BY <1>1, <3>1, CountShort
  <2>5. CASE /\ pc[t] = "add" /\ pc'[t] \in {"size", "add"}
             /\ held'[t] = Tail(h)
    <3>1. Holding(t) = h /\ Holding(t)' = Tail(h) /\ Len(h) \in 1 .. 2
      BY <1>1, <2>5 DEF Hands, Holding
    <3>4. h # <<>>
      <4>1. Len(<<>>) = 0 /\ Len(h) # 0
        BY <3>1
      <4> HIDE DEF h
      <4> QED
        BY <4>1
    <3>2. Count(h, u) = Count(Tail(h), u) + IF Head(h) = u THEN 1 ELSE 0
      BY <1>1, <3>4, CountHeadTail
    <3>3. Count(Tail(h), u) \in Nat
      BY <1>1, <3>4, ElementsHeadTail, CountType
    <3> QED
      BY <3>1, <3>2, <3>3
  <2> QED
    BY <1>4, <2>2, <2>3, <2>4, <2>5
<1>6. ASSUME NEW u \in Uids
      PROVE  /\ \A x \in Tiers \ {t} : Count(Holding(x)', u) <= Count(Holding(x), u)
             /\ Count(Holding(t)', u) + seats'[u] <= Count(Holding(t), u) + seats[u]
  <2>1. \A x \in Tiers : Count(Holding(x), u) \in Nat
    BY <1>1, CopiesType
  <2>2. Holding(t)' \in Seq(Uids)
    BY EmptySeq DEF ThreadTypeOK, Holding
  <2>3. Count(Holding(t)', u) \in Nat /\ seats[u] \in Nat /\ seats' = seats
    BY <1>1, <2>2, CountType DEF ThreadTypeOK
  <2> QED
    BY <1>3, <1>5, <2>1, <2>3
<1> QED
  BY <1>1, <1>6, SeatsKept

(* Pop moves a player from the queue into the hands of its thread.         *)
LEMMA PopSeats ==
  ASSUME MatcherInv, ThreadTypeOK', SeatsWereAskedFor, NEW t \in Tiers,
         Pop1(t) \/ Pop2(t)
  PROVE  SeatsWereAskedFor'
<1> DEFINE q == queue[t]
           h == held[t]
<1>1. /\ ThreadTypeOK /\ Hands(t)
      /\ q \in Seq(Uids) /\ h \in Seq(Uids)
      /\ UNCHANGED <<starts, seats>>
      /\ pc[t] = "pop1" => h = <<>>
  BY DEF MatcherInv, ThreadTypeOK, Hands, Pop1, Pop2
<1>2. \A x \in Tiers \ {t} : Holding(x)' = Holding(x) /\ queue'[x] = queue[x]
  BY <1>1 DEF Pop1, Pop2, Goto, Holding, ThreadTypeOK
<1>3. Holding(t) = h /\ Holding(t)' = held'[t]
  BY <1>1 DEF Pop1, Pop2, Goto, Holding, ThreadTypeOK
<1>4. \/ queue' = queue /\ held' = held
      \/ /\ q # <<>> /\ queue'[t] = Tail(q)
         /\ \/ held'[t] = Append(h, Head(q))
            \/ h = <<>> /\ held'[t] = <<Head(q)>>
  BY <1>1 DEF Pop1, Pop2, ThreadTypeOK
<1>5. ASSUME NEW u \in Uids
      PROVE  Count(queue'[t], u) + Count(Holding(t)', u) = Count(q, u) + Count(h, u)
  <2>1. CASE queue' = queue /\ held' = held
    BY <1>3, <2>1
  <2>2. CASE /\ q # <<>> /\ queue'[t] = Tail(q)
             /\ \/ held'[t] = Append(h, Head(q))
                \/ h = <<>> /\ held'[t] = <<Head(q)>>
    <3>1. Head(q) \in Uids /\ Tail(q) \in Seq(Uids)
      BY <1>1, <2>2, ElementsHeadTail
    <3>2. Count(q, u) = Count(Tail(q), u) + IF Head(q) = u THEN 1 ELSE 0
      BY <1>1, <2>2, CountHeadTail
    <3>3. held'[t] = Append(h, Head(q))
      <4>1. \A e : Append(<<>>, e) = <<e>>
        OBVIOUS
      <4> QED
        BY <2>2, <4>1
    <3>4. Count(held'[t], u) = Count(h, u) + IF Head(q) = u THEN 1 ELSE 0
      BY <1>1, <3>1, <3>3, CountAppend
    <3>5. Count(Tail(q), u) \in Nat /\ Count(h, u) \in Nat
      BY <1>1, <3>1, CountType
    <3> HIDE DEF q, h
    <3> QED
      BY <1>3, <2>2, <3>2, <3>4, <3>5
  <2> QED
    BY <1>4, <2>1, <2>2
<1>6. ASSUME NEW u \in Uids
      PROVE  /\ \A x \in Tiers \ {t} : Count(queue'[x], u) <= Count(queue[x], u)
             /\ \A x \in Tiers \ {t} : Count(Holding(x)', u) <= Count(Holding(x), u)
             /\ Count(queue'[t], u) + Count(Holding(t)', u) + seats'[u] + starts[u]
                  <= Count(queue[t], u) + Count(Holding(t), u) + seats[u] + starts'[u]
  <2>1. \A x \in Tiers : Count(queue[x], u) \in Nat /\ Count(Holding(x), u) \in Nat
    BY <1>1, CopiesType
  <2>2. seats[u] \in Nat /\ starts[u] \in Nat /\ seats' = seats /\ starts' = starts
    BY <1>1 DEF ThreadTypeOK
  <2> QED
    BY <1>2, <1>3, <1>5, <2>1, <2>2
<1> QED
  BY <1>1, <1>6, SeatsStep

(* A room takes the two players its thread held.                           *)
LEMMA CreateSeats ==
  ASSUME MatcherInv, ThreadTypeOK', SeatsWereAskedFor, NEW t \in Tiers, Create(t)
  PROVE  SeatsWereAskedFor'
<1>1. /\ ThreadTypeOK
      /\ pc[t] = "create" /\ pc' = [pc EXCEPT ![t] = "send"]
      /\ UNCHANGED <<queue, starts, held>>
  BY DEF MatcherInv, Create, Goto
<1>2. seats' = [u \in Uids |-> seats[u] + Count(held[t], u)]
  BY DEF Create, Count
<1>3. /\ \A x \in Tiers \ {t} : Holding(x)' = Holding(x)
      /\ Holding(t) = held[t] /\ Holding(t)' = <<>>
  BY <1>1 DEF Holding, ThreadTypeOK
<1>4. ASSUME NEW u \in Uids
      PROVE  /\ \A x \in Tiers \ {t} : Count(Holding(x)', u) <= Count(Holding(x), u)
             /\ Count(Holding(t)', u) + seats'[u] <= Count(Holding(t), u) + seats[u]
  <2>1. \A x \in Tiers : Count(Holding(x), u) \in Nat
    BY <1>1, CopiesType
  <2>2. Count(<<>>, u) = 0
    BY EmptySeq, CountType
  <2>3. seats[u] \in Nat /\ seats'[u] = seats[u] + Count(Holding(t), u)
    BY <1>1, <1>2, <1>3 DEF ThreadTypeOK
  <2> QED
    BY <1>3, <2>1, <2>2, <2>3
<1> QED
  BY <1>1, <1>4, SeatsKept

(* Push in Add of a thread: out of its hands into queue dest[t].           *)
LEMMA AddPushSeats ==
  ASSUME MatcherInv, ThreadTypeOK', SeatsWereAskedFor, NEW t \in Tiers, AddPush(t)
  PROVE  SeatsWereAskedFor'
<1> DEFINE h == held[t]
           d == dest[t]
           uid == Head(h)
<1>1. /\ ThreadTypeOK /\ Hands(t)
      /\ h \in Seq(Uids) /\ pc[t] = "push"
      /\ UNCHANGED <<starts, seats>>
      /\ queue' = [queue EXCEPT ![d] = Append(@, uid)]
      /\ held' = [held EXCEPT ![t] = Tail(h)]
      /\ pc' = [Notified(d) EXCEPT ![t] = IF Len(h) = 1 THEN "size" ELSE "add"]
  BY DEF MatcherInv, ThreadTypeOK, AddPush, Pushed
<1>2. d \in Tiers /\ Len(h) \in 1 .. 2
  BY <1>1 DEF Hands, ThreadTypeOK
<1>3. h # <<>> /\ uid \in Uids /\ Tail(h) \in Seq(Uids) /\ queue[d] \in Seq(Uids)
  <2>1. h # <<>>
    <3> HIDE DEF h, d
    <3>1. Len(h) # 0
      BY <1>2
    <3>2. Len(<<>>) = 0
      OBVIOUS
    <3> QED
      BY <3>1, <3>2
  <2> QED
    BY <1>1, <1>2, <2>1, ElementsHeadTail DEF ThreadTypeOK
<1>4. /\ \A x \in Tiers \ {d} : queue'[x] = queue[x]
      /\ queue'[d] = Append(queue[d], uid)
  BY <1>1, <1>2 DEF ThreadTypeOK
<1>5. \A x \in Tiers : pc[x] # "blocked" /\ x # t => pc'[x] = pc[x]
  BY <1>1 DEF Notified, ThreadTypeOK
<1>6. \A x \in Tiers : pc[x] = "blocked" /\ x # t => pc'[x] \in {"size", "blocked"}
  BY <1>1 DEF Notified, ThreadTypeOK
<1>7. \A x \in Tiers \ {t} : Holding(x)' = Holding(x)
  BY <1>1, <1>5, <1>6 DEF Holding, ThreadTypeOK
<1>8. Holding(t) = h /\ Holding(t)' = Tail(h)
  <2>1. pc'[t] # "send"
    BY <1>1 DEF Notified, ThreadTypeOK
  <2> QED
    BY <1>1, <2>1 DEF Holding, ThreadTypeOK
<1>9. ASSUME NEW u \in Uids
      PROVE  /\ \A x \in Tiers \ {d} : Count(queue'[x], u) <= Count(queue[x], u)
             /\ \A x \in Tiers \ {t} : Count(Holding(x)', u) <= Count(Holding(x), u)
             /\ Count(queue'[d], u) + Count(Holding(t)', u) + seats'[u] + starts[u]
                  <= Count(queue[d], u) + Count(Holding(t), u) + seats[u] + starts'[u]
  <2>1. \A x \in Tiers : Count(queue[x], u) \in Nat /\ Count(Holding(x), u) \in Nat
    BY <1>1, CopiesType
  <2>2. seats[u] \in Nat /\ starts[u] \in Nat /\ seats' = seats /\ starts' = starts
    BY <1>1 DEF ThreadTypeOK
  <2>3. Count(queue'[d], u) = Count(queue[d], u) + IF uid = u THEN 1 ELSE 0
    BY <1>3, <1>4, CountAppend
  <2>4. Count(h, u) = Count(Tail(h), u) + IF uid = u THEN 1 ELSE 0
    BY <1>1, <1>3, CountHeadTail
  <2>5. Count(Tail(h), u) \in Nat
    BY <1>3, CountType
  <2> HIDE DEF h, d, uid
  <2>6. /\ \A x \in Tiers \ {d} : Count(queue'[x], u) <= Count(queue[x], u)
        /\ \A x \in Tiers \ {t} : Count(Holding(x)', u) <= Count(Holding(x), u)
    BY <1>4, <1>7, <2>1
  <2> QED
    BY <1>2, <1>8, <2>1, <2>2, <2>3, <2>4, <2>5, <2>6
<1> QED
  BY <1>1, <1>2, <1>9, SeatsStep

(* match_start asks for one more place, and adds at most one entry.        *)
LEMMA MatchStartSeats ==
  ASSUME MatcherInv, ThreadTypeOK', SeatsWereAskedFor, NEW uid \in Uids, MatchStart(uid)
  PROVE  SeatsWereAskedFor'
<1>0. PICK d \in Tiers : d = Tier(table[uid].score)
  BY TierOfPlayer DEF MatcherInv
<1>1. /\ ThreadTypeOK
      /\ starts' = [starts EXCEPT ![uid] = @ + 1]
      /\ UNCHANGED <<held, seats>>
  BY DEF MatcherInv, MatchStart
<1>2. queue' = Pushed(d, uid) \/ queue' = queue
  BY <1>0 DEF MatchStart
<1>3. pc' = Notified(d) \/ pc' = pc
  BY <1>0 DEF MatchStart
<1>4. \A x \in Tiers : pc'[x] = "send" <=> pc[x] = "send"
  BY <1>1, <1>3 DEF Notified, ThreadTypeOK
<1>5. \A x \in Tiers : Holding(x)' = Holding(x)
  BY <1>1, <1>4 DEF Holding
<1>6. /\ \A x \in Tiers \ {d} : queue'[x] = queue[x]
      /\ queue'[d] = queue[d] \/ queue'[d] = Append(queue[d], uid)
      /\ queue[d] \in Seq(Uids)
  BY <1>1, <1>2 DEF Pushed, ThreadTypeOK
<1>7. ASSUME NEW u \in Uids
      PROVE  /\ \A x \in Tiers \ {d} : Count(queue'[x], u) <= Count(queue[x], u)
             /\ \A x \in Tiers \ {d} : Count(Holding(x)', u) <= Count(Holding(x), u)
             /\ Count(queue'[d], u) + Count(Holding(d)', u) + seats'[u] + starts[u]
                  <= Count(queue[d], u) + Count(Holding(d), u) + seats[u] + starts'[u]
  <2>1. \A x \in Tiers : Count(queue[x], u) \in Nat /\ Count(Holding(x), u) \in Nat
    BY <1>1, CopiesType
  <2>2. /\ seats[u] \in Nat /\ starts[u] \in Nat /\ seats' = seats
        /\ starts'[u] = starts[u] + IF uid = u THEN 1 ELSE 0
    BY <1>1 DEF ThreadTypeOK
  <2>3. \/ Count(queue'[d], u) = Count(queue[d], u)
        \/ Count(queue'[d], u) = Count(queue[d], u) + IF uid = u THEN 1 ELSE 0
    <3>1. CASE queue'[d] = queue[d]
      BY <3>1
    <3>2. CASE queue'[d] = Append(queue[d], uid)
      BY <1>6, <3>2, CountAppend
    <3> QED
      BY <1>6, <3>1, <3>2
  <2> QED
    BY <1>1, <1>5, <1>6, <2>1, <2>2, <2>3
<1> QED
  BY <1>1, <1>7, SeatsStep

(* match_stop takes out of a queue only.                                   *)
LEMMA MatchStopSeats ==
  ASSUME MatcherInv, ThreadTypeOK', SeatsWereAskedFor, NEW uid \in Uids, MatchStop(uid)
  PROVE  SeatsWereAskedFor'
<1>0. PICK d \in Tiers : d = Tier(table[uid].score)
  BY TierOfPlayer DEF MatcherInv
<1>1. /\ ThreadTypeOK
      /\ UNCHANGED <<held, pc, starts, seats>>
      /\ Remove(d, uid) \/ queue' = queue
  BY <1>0 DEF MatcherInv, MatchStop, threadVars
<1>2. \A x \in Tiers : Holding(x)' = Holding(x)
  BY <1>1 DEF Holding
<1>3. queue' \in [Tiers -> Seq(Uids)]
  BY DEF ThreadTypeOK
<1>4. ASSUME NEW u \in Uids
      PROVE  /\ \A x \in Tiers \ {d} : Count(queue'[x], u) <= Count(queue[x], u)
             /\ \A x \in Tiers \ {d} : Count(Holding(x)', u) <= Count(Holding(x), u)
             /\ Count(queue'[d], u) + Count(Holding(d)', u) + seats'[u] + starts[u]
                  <= Count(queue[d], u) + Count(Holding(d), u) + seats[u] + starts'[u]
  <2>1. \A x \in Tiers : Count(queue[x], u) \in Nat /\ Count(Holding(x), u) \in Nat
    BY <1>1, CopiesType
  <2>2. /\ seats[u] \in Nat /\ starts[u] \in Nat
        /\ seats' = seats /\ starts' = starts
    BY <1>1 DEF ThreadTypeOK
  <2>3. \A x \in Tiers : Count(queue'[x], u) <= Count(queue[x], u)
    <3>1. CASE Remove(d, uid)
      BY <1>1, <1>3, <3>1, RemoveCount
    <3>2. CASE queue' = queue
      BY <2>1, <3>2
    <3> QED
      BY <1>1, <3>1, <3>2
  <2>4. Count(queue'[d], u) \in Nat
    BY <1>1, <1>3, CountType
  <2> QED
    BY <1>1, <1>2, <2>1, <2>2, <2>3, <2>4
<1> QED
  BY <1>1, <1>4, SeatsStep

(* At first nobody asked, and nobody has a seat.                           *)
LEMMA SeatsInitially == MatcherInit => SeatsWereAskedFor
<1> SUFFICES ASSUME MatcherInit, NEW u \in Uids
             PROVE  Copies("bronze", u) + Copies("silver", u) + Copies("gold", u)
                      + seats[u] <= starts[u]
  BY DEF SeatsWereAskedFor
<1>1. \A t \in Tiers : queue[t] = <<>> /\ Holding(t) = <<>>
  BY DEF MatcherInit, Holding
<1>2. Count(<<>>, u) = 0
  BY EmptySeq, CountType
<1>3. \A t : Copies(t, u) = 0
  BY <1>1, <1>2 DEF Copies
<1>4. seats[u] = 0 /\ starts[u] = 0
  BY DEF MatcherInit
<1> QED
  BY <1>3, <1>4

(* Every step keeps the balance of requests and seats.                     *)
LEMMA SeatsNext ==
  MatcherInv /\ MatcherInv' /\ SeatsWereAskedFor /\ [MatcherNext]_vars
    => SeatsWereAskedFor'
<1> SUFFICES ASSUME MatcherInv, ThreadTypeOK', SeatsWereAskedFor, [MatcherNext]_vars
             PROVE  SeatsWereAskedFor'
  BY DEF MatcherInv
<1>1. ASSUME NEW t \in Tiers, Running(t) \/ Spurious(t)
      PROVE  SeatsWereAskedFor'
  BY <1>1, HandsSeats, PopSeats, CreateSeats, AddPushSeats DEF Running
<1>2. ASSUME NEW u \in Uids, MatchStart(u) \/ MatchStop(u)
      PROVE  SeatsWereAskedFor'
  BY <1>2, MatchStartSeats, MatchStopSeats
<1>3. CASE UNCHANGED <<queue, threadVars, starts, seats>>
  BY <1>3 DEF SeatsWereAskedFor, Copies, Holding, threadVars
<1>4. \/ \E t \in Tiers : Running(t) \/ Spurious(t)
      \/ \E u \in Uids : MatchStart(u) \/ MatchStop(u)
      \/ UNCHANGED <<queue, threadVars, starts, seats>>
  BY DEF MatcherNext, LeaveTheHall, EnterTheHall, InTheRooms, vars, matcherVars
<1> QED
  BY <1>1, <1>2, <1>3, <1>4

(* matcher.hpp: whatever is popped, given back, added twice or dropped, no *)
(* player gets more places in rooms than he asked for.                     *)
THEOREM NobodyIsMultiplied == MatcherSpec => []SeatsWereAskedFor
  BY SeatsInitially, SeatsNext, MatcherInvariant, PTL DEF MatcherSpec

-----------------------------------------------------------------------------
(* What threads and handlers do to the rooms are steps of RoomManager, the *)
(* creation of a room after one of its players has left the hall included. *)
LEMMA MatcherStepsRooms ==
  MatcherInv /\ [MatcherNext]_vars => [RmNext]_rmVars
<1> SUFFICES ASSUME MatcherInv, [MatcherNext]_vars
             PROVE  RmNext \/ UNCHANGED rmVars
  OBVIOUS
<1>1. ASSUME NEW t \in Tiers, Create(t) PROVE RmNext
  <2>1. held[t] \in Seq(Uids) /\ Len(held[t]) = 2
    BY <1>1 DEF MatcherInv, ThreadTypeOK, Hands, Create
  <2>2. held[t][1] \in Uids /\ held[t][2] \in Uids
    BY <2>1
  <2>3. CreateRoom(held[t][1], held[t][2])
    BY <1>1 DEF Create, CreateRoom
  <2> QED
    BY <2>2, <2>3 DEF RmNext
<1>2. ASSUME NEW t \in Tiers, Running(t) \/ Spurious(t), ~Create(t)
      PROVE  UNCHANGED rmVars
  BY <1>2 DEF Running, Spurious, Size, Wait, Pop1, Pop2, Conn1, Conn2, Hall1,
              Hall2, HallTest, Send, AddSelect, AddPush
<1>3. ASSUME NEW u \in Uids, MatchStart(u) \/ MatchStop(u)
      PROVE  UNCHANGED rmVars
  BY <1>3 DEF MatchStart, MatchStop
<1>4. ASSUME NEW u \in Uids, LeaveTheHall(u) PROVE UNCHANGED rmVars \/ RmNext
  <2>1. CASE Conns = {}
    <3>1. hallUser[u] = NoConn
      BY <2>1 DEF MatcherInv, RmInv, RmTypeOK, OnlineTypeOK, Registry
    <3> QED
      BY <1>4, <3>1 DEF LeaveTheHall, InHall
  <2>2. ASSUME NEW c \in Conns PROVE RmNext
    <3>1. Hall(u, c)
      BY <1>4 DEF LeaveTheHall, Hall
    <3> QED
      BY <3>1 DEF RmNext
  <2> QED
    BY <2>1, <2>2
<1>5. ASSUME NEW u \in Uids, NEW c \in Conns, EnterTheHall(u, c) PROVE RmNext
  <2>1. Hall(u, c)
    BY <1>5 DEF EnterTheHall, Hall
  <2> QED
    BY <2>1 DEF RmNext
<1>6. ASSUME InTheRooms PROVE RmNext
  BY <1>6 DEF InTheRooms, RmNext
<1>7. CASE UNCHANGED vars
  BY <1>7 DEF vars
<1> QED
  BY <1>1, <1>2, <1>3, <1>4, <1>5, <1>6, <1>7 DEF MatcherNext

(* Matching implements the specification of the rooms: the theorems of     *)
(* RoomManagerProofs hold while matching threads are at work.              *)
THEOREM MatcherImplementsRooms == MatcherSpec => RmSpec
<1>1. MatcherInit => RmInit
  BY DEF MatcherInit
<1> QED
  BY <1>1, MatcherStepsRooms, MatcherInvariant, PTL DEF MatcherSpec, RmSpec

=============================================================================
