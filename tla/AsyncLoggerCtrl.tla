-------------------------- MODULE AsyncLoggerCtrl ---------------------------
(***************************************************************************)
(* Class AsyncLoggerCtrl (mylog/asyncLoggerCtrl.hpp) with its two buffers  *)
(* (mylog/asyncLoggerCharBuf.hpp): threads push messages into one buffer,  *)
(* a consumer thread swaps it with the other one and hands that to the     *)
(* sinks.  Both sides wait on condition variables under one mutex; the     *)
(* destructor stops the consumer without taking the mutex.                 *)
(*                                                                         *)
(* Under the mutex nothing waits but the condition variables, so a         *)
(* critical section is one step.  The exception is the consumer between    *)
(* the test of its predicate and its falling asleep: the destructor may    *)
(* come in between, the producers, who need the mutex, may not.            *)
(***************************************************************************)
EXTENDS Naturals, Sequences

CONSTANTS Threads,     \* the threads that log
          Msgs, NoMsg, \* the formatted messages, and none
          SizeOf,      \* length of a message
          BufferLen    \* DEFAULT_BUFFER_LEN

ASSUME AsyncAssumption ==
  /\ NoMsg \notin Msgs
  /\ SizeOf \in [Msgs -> Nat \ {0}]
  /\ BufferLen \in Nat \ {0}

VARIABLES produceBuf,  \* _produceBuf
          consumeBuf,  \* _consumeBuf
          stoped,      \* _stoped
          cpc,         \* where the consumer is in threadRunning
          dpc,         \* how far the destructor is
          ppc,         \* where each thread is in push
          msg,         \* its argument logMsg
          out,         \* the messages given to the sinks
          atStop,      \* history: how many messages were accepted before _stoped
          unheard      \* history: the destructor notified a consumer that was
                       \*   about to fall asleep

bufVars  == <<produceBuf, consumeBuf>>
stopVars == <<stoped, dpc, atStop, unheard>>
pushVars == <<ppc, msg>>
ctrlVars == <<bufVars, stopVars, pushVars, cpc, out>>

-----------------------------------------------------------------------------
(* A buffer: its messages and _wptr, the bytes they take.  _rptr is always *)
(* 0.                                                                      *)
EmptyBuf == [data |-> <<>>, wptr |-> 0]

writableSize(buf) == BufferLen - buf.wptr

BufPush(buf, m) == [data |-> Append(buf.data, m), wptr |-> buf.wptr + SizeOf[m]]

empty(buf) == buf.wptr = 0

CtrlInit ==
  /\ produceBuf = EmptyBuf /\ consumeBuf = EmptyBuf
  /\ stoped = FALSE
  /\ cpc = "sleep"
  /\ dpc = "alive"
  /\ ppc = [t \in Threads |-> "idle"]
  /\ msg = [t \in Threads |-> NoMsg]
  /\ out = <<>>
  /\ atStop = 0
  /\ unheard = FALSE

-----------------------------------------------------------------------------
(* push                                                                    *)

Call(t, m) ==
  /\ ppc[t] = "idle"
  /\ ppc' = [ppc EXCEPT ![t] = "test"]
  /\ msg' = [msg EXCEPT ![t] = m]
  /\ UNCHANGED <<bufVars, stopVars, cpc, out>>

(* if(_stoped) return;  read without the mutex.                            *)
TestStoped(t) ==
  /\ ppc[t] = "test"
  /\ ppc' = [ppc EXCEPT ![t] = IF stoped THEN "idle" ELSE "wait"]
  /\ msg' = [msg EXCEPT ![t] = IF stoped THEN NoMsg ELSE @]
  /\ UNCHANGED <<bufVars, stopVars, cpc, out>>

(* The consumer holds _mtx.                                                *)
Locked == cpc = "decided"

(* Variant for the mutation runs: any space left will do.                  *)
FitsSome(m) == writableSize(produceBuf) > 0

Fits(m) == writableSize(produceBuf) >= SizeOf[m]

(* The wait for space, which sees it,                                      *)
PushData(t) ==
  /\ ppc[t] = "wait"
  /\ ~Locked
  /\ Fits(msg[t])
  /\ produceBuf' = BufPush(produceBuf, msg[t])
  /\ ppc' = [ppc EXCEPT ![t] = "notify"]
  /\ msg' = [msg EXCEPT ![t] = NoMsg]
  /\ UNCHANGED <<consumeBuf, stopVars, cpc, out>>

(* or blocks.                                                              *)
WaitForSpace(t) ==
  /\ ppc[t] = "wait"
  /\ ~Locked
  /\ ~Fits(msg[t])
  /\ ppc' = [ppc EXCEPT ![t] = "blocked"]
  /\ UNCHANGED <<bufVars, stopVars, msg, cpc, out>>

(* notify_all on _consumeCond: who waits there tests his predicate again.  *)
ConsumerNotified == IF cpc = "blocked" THEN "lock" ELSE cpc

(* Variant for the mutation runs: nobody is told.                          *)
NotifyNobody(t) ==
  /\ ppc[t] = "notify"
  /\ ppc' = [ppc EXCEPT ![t] = "idle"]
  /\ UNCHANGED <<bufVars, stopVars, msg, cpc, out>>

NotifyConsumer(t) ==
  /\ ppc[t] = "notify"
  /\ cpc' = ConsumerNotified
  /\ ppc' = [ppc EXCEPT ![t] = "idle"]
  /\ UNCHANGED <<bufVars, stopVars, msg, out>>

Push(t) == TestStoped(t) \/ PushData(t) \/ WaitForSpace(t) \/ NotifyConsumer(t)

-----------------------------------------------------------------------------
(* threadRunning                                                           *)

(* Variant for the mutation runs: the buffer is not looked at.             *)
EndAtOnce ==
  /\ cpc = "sleep"
  /\ cpc' = IF stoped THEN "ended" ELSE "lock"
  /\ UNCHANGED <<bufVars, stopVars, pushVars, out>>

(* After the sleep: if(_stoped && _produceBuf.empty()) return;  read       *)
(* without the mutex.                                                      *)
TestEnd ==
  /\ cpc = "sleep"
  /\ cpc' = IF stoped /\ empty(produceBuf) THEN "ended" ELSE "lock"
  /\ UNCHANGED <<bufVars, stopVars, pushVars, out>>

(* Variant for the mutation runs: the end is not looked for.               *)
HasMessages == ~empty(produceBuf)

HasWork == ~empty(produceBuf) \/ stoped

(* The predicate of the wait holds: the buffers are swapped.               *)
Swap ==
  /\ cpc = "lock"
  /\ HasWork
  /\ produceBuf' = consumeBuf
  /\ consumeBuf' = produceBuf
  /\ cpc' = "notify"
  /\ UNCHANGED <<stopVars, pushVars, out>>

(* It does not: first the decision, then the sleep, which releases _mtx.   *)
Decide ==
  /\ cpc = "lock"
  /\ ~HasWork
  /\ cpc' = "decided"
  /\ UNCHANGED <<bufVars, stopVars, pushVars, out>>

Block ==
  /\ cpc = "decided"
  /\ cpc' = "blocked"
  /\ UNCHANGED <<bufVars, stopVars, pushVars, out>>

(* Variant for the mutation runs: no producer is told.                     *)
NotifyNoProducer ==
  /\ cpc = "notify"
  /\ cpc' = "sink"
  /\ UNCHANGED <<bufVars, stopVars, pushVars, out>>

(* notify_all on _produceCond.                                             *)
NotifyProducers ==
  /\ cpc = "notify"
  /\ cpc' = "sink"
  /\ ppc' = [t \in Threads |-> IF ppc[t] = "blocked" THEN "wait" ELSE ppc[t]]
  /\ UNCHANGED <<bufVars, stopVars, msg, out>>

(* Variant for the mutation runs: the buffer is not cleared.               *)
SinkUncleared ==
  /\ cpc = "sink"
  /\ out' = out \o consumeBuf.data
  /\ cpc' = "sleep"
  /\ UNCHANGED <<bufVars, stopVars, pushVars>>

(* _sink(_consumeBuf), then clear.  No other thread touches this buffer.   *)
Sink ==
  /\ cpc = "sink"
  /\ out' = out \o consumeBuf.data
  /\ consumeBuf' = EmptyBuf
  /\ cpc' = "sleep"
  /\ UNCHANGED <<produceBuf, stopVars, pushVars>>

Consumer ==
  TestEnd \/ Swap \/ Decide \/ Block \/ NotifyProducers \/ Sink

(* A condition variable may wake up without a notification.                *)
SpuriousWakeup ==
  \/ /\ cpc = "blocked"
     /\ cpc' = "lock"
     /\ UNCHANGED <<bufVars, stopVars, pushVars, out>>
  \/ /\ \E t \in Threads : /\ ppc[t] = "blocked"
                           /\ ppc' = [ppc EXCEPT ![t] = "wait"]
     /\ UNCHANGED <<bufVars, stopVars, msg, cpc, out>>

-----------------------------------------------------------------------------
(* The destructor: _stoped, notify_all, join.                              *)

(* What push has accepted so far.                                          *)
Accepted == out \o consumeBuf.data \o produceBuf.data

Stop ==
  /\ dpc = "alive"
  /\ stoped' = TRUE
  /\ dpc' = "notify"
  /\ atStop' = Len(Accepted)
  /\ UNCHANGED <<bufVars, pushVars, cpc, out, unheard>>

NotifyStop ==
  /\ dpc = "notify"
  /\ cpc' = ConsumerNotified
  /\ unheard' = Locked
  /\ dpc' = "join"
  /\ UNCHANGED <<bufVars, pushVars, stoped, atStop, out>>

Join ==
  /\ dpc = "join"
  /\ cpc = "ended"
  /\ dpc' = "joined"
  /\ UNCHANGED <<bufVars, pushVars, stoped, atStop, unheard, cpc, out>>

(* The controller among threads that call push whenever they like, also    *)
(* after the destructor has begun.                                         *)
CtrlNext ==
  \/ \E t \in Threads : Push(t) \/ \E m \in Msgs : Call(t, m)
  \/ Consumer \/ SpuriousWakeup
  \/ Stop \/ NotifyStop \/ Join

CtrlSpec == CtrlInit /\ [][CtrlNext]_ctrlVars

-----------------------------------------------------------------------------
(* Every variable keeps its type, and only a thread inside push has an     *)
(* argument.                                                               *)
Bufs == [data : Seq(Msgs), wptr : Nat]

CtrlTypeOK ==
  /\ produceBuf \in Bufs /\ consumeBuf \in Bufs
  /\ stoped \in BOOLEAN /\ unheard \in BOOLEAN
  /\ cpc \in {"sleep", "lock", "decided", "blocked", "notify", "sink", "ended"}
  /\ dpc \in {"alive", "notify", "join", "joined"}
  /\ ppc \in [Threads -> {"idle", "test", "wait", "blocked", "notify"}]
  /\ msg \in [Threads -> Msgs \cup {NoMsg}]
  /\ \A t \in Threads : ppc[t] \in {"test", "wait", "blocked"} <=> msg[t] # NoMsg
  /\ out \in Seq(Msgs)
  /\ atStop \in Nat

(* Whatever the threads do, _wptr stays inside the vector of each buffer,  *)
(* so that the assert of AsyncLoggerCharBuf::push holds; the test of       *)
(* emptiness tells the truth; and the buffer to be swapped in is empty,    *)
(* or messages would come out twice or in the wrong order.                 *)
BuffersFit ==
  /\ \A buf \in {produceBuf, consumeBuf} :
       buf.wptr <= BufferLen /\ (empty(buf) <=> buf.data = <<>>)
  /\ cpc \notin {"notify", "sink"} => empty(consumeBuf)

(* The consumer ends only when everything accepted before the destructor   *)
(* began has been given to the sinks, although it reads the buffer without *)
(* the mutex.                                                              *)
EndedMeansWritten == cpc = "ended" => stoped /\ Len(out) >= atStop

(* The two buffers and the waiting implement a channel: each message comes *)
(* out once, in the order of the pushes, and all that is owed comes out.   *)
Channel == INSTANCE LogChannel WITH accepted <- Accepted,
                                    written  <- Len(out),
                                    closed   <- stoped,
                                    atClose  <- atStop

ImplementsChannelSafe == Channel!ChannelSafe
ImplementsChannel     == Channel!ChannelSpec

=============================================================================
