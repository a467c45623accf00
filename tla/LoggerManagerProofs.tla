------------------------ MODULE LoggerManagerProofs -------------------------
(***************************************************************************)
(* Proofs about modules AsyncLoggerCtrl and LoggerManager, for any         *)
(* threads, names, levels, messages and buffer length.  The controller by  *)
(* itself: the buffers fit, nothing accepted before the destructor is      *)
(* lost, and it implements the channel of LogChannel.  In the program the  *)
(* controller behaves as module AsyncLoggerCtrl says, so that all this     *)
(* holds here; its destructor runs when nobody can reach it; a name means  *)
(* one logger for good; and the sinks of a logger never disagree about its *)
(* messages.                                                               *)
(***************************************************************************)
EXTENDS LoggerManager, SequenceTheorems, Induction

(* What was accepted before the destructor began has been accepted, and    *)
(* once the consumer has ended it has been written.                        *)
NothingForgotten ==
  /\ dpc = "alive" <=> ~stoped
  /\ ~stoped => atStop = 0
  /\ atStop <= Len(Accepted)
  /\ EndedMeansWritten

CtrlInv == CtrlTypeOK /\ BuffersFit /\ NothingForgotten

(* A step leaves alone what has been accepted, or appends one message.     *)
Accepts ==
  \/ Accepted' = Accepted
  \/ \E m \in Msgs : Accepted' = Append(Accepted, m)

-----------------------------------------------------------------------------
(* The operations of a buffer.                                             *)
LEMMA AppendToConcat ==
  ASSUME NEW s \in Seq(Msgs), NEW t \in Seq(Msgs), NEW e \in Msgs
  PROVE  s \o Append(t, e) = Append(s \o t, e)
<1>1. Append(t, e) = t \o <<e>> /\ <<e>> \in Seq(Msgs)
  BY AppendProperties
<1>2. s \o t \in Seq(Msgs)
  BY ConcatProperties
<1>3. Append(s \o t, e) = (s \o t) \o <<e>>
  BY <1>2, AppendProperties
<1> QED
  BY <1>1, <1>3, ConcatAssociative

(* What was accepted is a sequence as long as its three parts.             *)
LEMMA AcceptedType ==
  ASSUME CtrlTypeOK
  PROVE  /\ out \o consumeBuf.data \in Seq(Msgs)
         /\ Accepted \in Seq(Msgs)
         /\ Len(Accepted) = Len(out) + Len(consumeBuf.data) + Len(produceBuf.data)
         /\ Len(out) \in Nat /\ Len(Accepted) \in Nat
<1>1. /\ out \in Seq(Msgs) /\ consumeBuf.data \in Seq(Msgs)
      /\ produceBuf.data \in Seq(Msgs)
  BY DEF CtrlTypeOK, Bufs
<1>2. /\ out \o consumeBuf.data \in Seq(Msgs)
      /\ Len(out \o consumeBuf.data) = Len(out) + Len(consumeBuf.data)
  BY <1>1, ConcatProperties
<1>3. /\ Accepted \in Seq(Msgs)
      /\ Len(Accepted) = Len(out \o consumeBuf.data) + Len(produceBuf.data)
  BY <1>1, <1>2, ConcatProperties DEF Accepted
<1> QED
  BY <1>1, <1>2, <1>3, LenProperties

(* A message that fits is the last in the buffer, within its bytes.        *)
LEMMA BufPushFits ==
  ASSUME NEW buf \in Bufs, NEW m \in Msgs, writableSize(buf) >= SizeOf[m]
  PROVE  /\ BufPush(buf, m) \in Bufs
         /\ BufPush(buf, m).data = Append(buf.data, m)
         /\ BufPush(buf, m).data # <<>>
         /\ BufPush(buf, m).wptr <= BufferLen
         /\ ~empty(BufPush(buf, m))
<1>1. SizeOf[m] \in Nat \ {0} /\ BufferLen \in Nat
  BY AsyncAssumption
<1>2. buf.data \in Seq(Msgs) /\ buf.wptr \in Nat
  BY DEF Bufs
<1>3. Append(buf.data, m) \in Seq(Msgs) /\ Append(buf.data, m) # <<>>
  BY <1>2, AppendProperties
<1>4. buf.wptr + SizeOf[m] \in Nat /\ buf.wptr + SizeOf[m] # 0
  BY <1>1, <1>2
<1> QED
  BY <1>1, <1>2, <1>3, <1>4 DEF BufPush, Bufs, writableSize, empty

(* An empty buffer is one.                                                 *)
LEMMA EmptyBufType ==
  EmptyBuf \in Bufs /\ EmptyBuf.data = <<>> /\ EmptyBuf.wptr = 0
  BY EmptySeq DEF EmptyBuf, Bufs

-----------------------------------------------------------------------------
(* At first the buffers are empty.                                         *)
LEMMA CtrlInitInv == CtrlInit => CtrlInv
<1> SUFFICES ASSUME CtrlInit PROVE CtrlInv
  OBVIOUS
<1>1. CtrlTypeOK
  BY EmptyBufType, EmptySeq, AsyncAssumption DEF CtrlInit, CtrlTypeOK
<1>2. BuffersFit
  BY EmptyBufType, AsyncAssumption DEF CtrlInit, BuffersFit, empty
<1>3. NothingForgotten
  BY <1>1, AcceptedType DEF CtrlInit, NothingForgotten, EndedMeansWritten
<1> QED
  BY <1>1, <1>2, <1>3 DEF CtrlInv

(* Steps that touch neither buffers nor sinks keep what was accepted.      *)
LEMMA Quiet ==
  ASSUME UNCHANGED <<produceBuf, consumeBuf, out>>
  PROVE  Accepted' = Accepted
  BY DEF Accepted

(* One step of the controller at a time: types and buffers.                *)
LEMMA CtrlTypeStep ==
  ASSUME CtrlTypeOK, BuffersFit, [CtrlNext]_ctrlVars
  PROVE  CtrlTypeOK' /\ BuffersFit'
<1> USE DEF ctrlVars, bufVars, stopVars, pushVars
<1>1. ASSUME NEW t \in Threads, NEW m \in Msgs, Call(t, m)
      PROVE  CtrlTypeOK' /\ BuffersFit'
  BY <1>1, AsyncAssumption DEF Call, CtrlTypeOK, BuffersFit, empty
<1>2. ASSUME NEW t \in Threads, TestStoped(t)
      PROVE  CtrlTypeOK' /\ BuffersFit'
  BY <1>2, AsyncAssumption DEF TestStoped, CtrlTypeOK, BuffersFit, empty
<1>3. ASSUME NEW t \in Threads, PushData(t)
      PROVE  CtrlTypeOK' /\ BuffersFit'
  <2>1. msg[t] \in Msgs /\ produceBuf \in Bufs
    BY <1>3 DEF PushData, CtrlTypeOK
  <2>2. /\ produceBuf' \in Bufs /\ produceBuf'.data # <<>>
        /\ produceBuf'.wptr <= BufferLen /\ ~empty(produceBuf')
    BY <1>3, <2>1, BufPushFits DEF PushData, Fits
  <2>3. CtrlTypeOK'
    BY <1>3, <2>2, AsyncAssumption DEF PushData, CtrlTypeOK
  <2>4. BuffersFit'
    BY <1>3, <2>2 DEF PushData, BuffersFit, empty
  <2> QED
    BY <2>3, <2>4
<1>4. ASSUME NEW t \in Threads, WaitForSpace(t)
      PROVE  CtrlTypeOK' /\ BuffersFit'
  BY <1>4 DEF WaitForSpace, CtrlTypeOK, BuffersFit, empty
<1>5. ASSUME NEW t \in Threads, NotifyConsumer(t)
      PROVE  CtrlTypeOK' /\ BuffersFit'
  BY <1>5 DEF NotifyConsumer, ConsumerNotified, CtrlTypeOK, BuffersFit, empty
<1>6. ASSUME TestEnd PROVE CtrlTypeOK' /\ BuffersFit'
  BY <1>6 DEF TestEnd, CtrlTypeOK, BuffersFit, empty
<1>7. ASSUME Swap PROVE CtrlTypeOK' /\ BuffersFit'
  BY <1>7 DEF Swap, CtrlTypeOK, BuffersFit, empty
<1>8. ASSUME Decide \/ Block PROVE CtrlTypeOK' /\ BuffersFit'
  BY <1>8 DEF Decide, Block, CtrlTypeOK, BuffersFit, empty
<1>9. ASSUME NotifyProducers PROVE CtrlTypeOK' /\ BuffersFit'
  BY <1>9 DEF NotifyProducers, CtrlTypeOK, BuffersFit, empty
<1>10. ASSUME Sink PROVE CtrlTypeOK' /\ BuffersFit'
  <2>1. out' \in Seq(Msgs)
    BY <1>10, AcceptedType DEF Sink
  <2>2. CtrlTypeOK'
    BY <1>10, <2>1, EmptyBufType DEF Sink, CtrlTypeOK
  <2>3. BuffersFit'
    BY <1>10, EmptyBufType, AsyncAssumption DEF Sink, BuffersFit, empty
  <2> QED
    BY <2>2, <2>3
<1>11. ASSUME SpuriousWakeup PROVE CtrlTypeOK' /\ BuffersFit'
  BY <1>11 DEF SpuriousWakeup, CtrlTypeOK, BuffersFit, empty
<1>12. ASSUME Stop PROVE CtrlTypeOK' /\ BuffersFit'
  <2>1. Len(Accepted) \in Nat
    BY AcceptedType
  <2> QED
    BY <1>12, <2>1 DEF Stop, CtrlTypeOK, BuffersFit, empty
<1>13. ASSUME NotifyStop PROVE CtrlTypeOK' /\ BuffersFit'
  BY <1>13 DEF NotifyStop, Locked, ConsumerNotified, CtrlTypeOK, BuffersFit, empty
<1>14. ASSUME Join PROVE CtrlTypeOK' /\ BuffersFit'
  BY <1>14 DEF Join, CtrlTypeOK, BuffersFit, empty
<1>15. ASSUME UNCHANGED ctrlVars PROVE CtrlTypeOK' /\ BuffersFit'
  BY <1>15 DEF CtrlTypeOK, BuffersFit, empty
<1> QED
  BY <1>1, <1>2, <1>3, <1>4, <1>5, <1>6, <1>7, <1>8, <1>9, <1>10, <1>11,
     <1>12, <1>13, <1>14, <1>15 DEF CtrlNext, Push, Consumer

-----------------------------------------------------------------------------
(* What a step does to the sequence of accepted messages.                  *)
LEMMA SwapKeepsAccepted ==
  ASSUME CtrlTypeOK, BuffersFit, Swap
  PROVE  Accepted' = Accepted
<1>1. /\ out \in Seq(Msgs) /\ produceBuf.data \in Seq(Msgs)
      /\ consumeBuf.data = <<>>
  BY DEF CtrlTypeOK, Bufs, BuffersFit, Swap
<1>2. /\ out \o <<>> = out
      /\ (out \o produceBuf.data) \in Seq(Msgs)
  BY <1>1, ConcatEmptySeq, ConcatProperties
<1>3. Accepted = out \o produceBuf.data
  BY <1>1, <1>2 DEF Accepted
<1>4. Accepted' = (out \o produceBuf.data) \o <<>>
  BY <1>1 DEF Accepted, Swap
<1> QED
  BY <1>2, <1>3, <1>4, ConcatEmptySeq

(* Writing what was consumed accepts nothing, ...                          *)
LEMMA SinkKeepsAccepted ==
  ASSUME CtrlTypeOK, Sink
  PROVE  Accepted' = Accepted
<1>1. out \o consumeBuf.data \in Seq(Msgs)
  BY AcceptedType
<1>2. (out \o consumeBuf.data) \o <<>> = out \o consumeBuf.data
  BY <1>1, ConcatEmptySeq
<1> QED
  BY <1>2, EmptyBufType DEF Accepted, Sink

(* ... a push accepts its message, ...                                     *)
LEMMA PushAccepts ==
  ASSUME CtrlTypeOK, NEW t \in Threads, PushData(t)
  PROVE  msg[t] \in Msgs /\ Accepted' = Append(Accepted, msg[t])
<1>1. msg[t] \in Msgs /\ produceBuf.data \in Seq(Msgs)
  BY DEF CtrlTypeOK, Bufs, PushData
<1>2. out \o consumeBuf.data \in Seq(Msgs)
  BY AcceptedType
<1>3. Accepted' = (out \o consumeBuf.data) \o Append(produceBuf.data, msg[t])
  BY DEF Accepted, PushData, BufPush
<1>4. (out \o consumeBuf.data) \o Append(produceBuf.data, msg[t])
        = Append((out \o consumeBuf.data) \o produceBuf.data, msg[t])
  BY <1>1, <1>2, AppendToConcat
<1> QED
  BY <1>1, <1>3, <1>4 DEF Accepted

(* ... and no other step anything.                                         *)
LEMMA StepAccepts ==
  ASSUME CtrlTypeOK, BuffersFit, [CtrlNext]_ctrlVars
  PROVE  Accepts
<1>1. ASSUME NEW t \in Threads, PushData(t) PROVE Accepts
  BY <1>1, PushAccepts DEF Accepts
<1>2. CASE Swap
  BY <1>2, SwapKeepsAccepted DEF Accepts
<1>3. CASE Sink
  BY <1>3, SinkKeepsAccepted DEF Accepts
<1>4. ASSUME NEW t \in Threads,
             (\E m \in Msgs : Call(t, m)) \/ TestStoped(t) \/ WaitForSpace(t)
               \/ NotifyConsumer(t)
      PROVE  Accepts
  BY <1>4, Quiet
  DEF Call, TestStoped, WaitForSpace, NotifyConsumer, bufVars, Accepts
<1>5. CASE TestEnd \/ Decide \/ Block \/ NotifyProducers \/ SpuriousWakeup
  BY <1>5, Quiet
  DEF TestEnd, Decide, Block, NotifyProducers, SpuriousWakeup, bufVars, Accepts
<1>6. CASE Stop \/ NotifyStop \/ Join
  BY <1>6, Quiet DEF Stop, NotifyStop, Join, bufVars, Accepts
<1>7. CASE UNCHANGED ctrlVars
  BY <1>7, Quiet DEF ctrlVars, bufVars, Accepts
<1> QED
  BY <1>1, <1>2, <1>3, <1>4, <1>5, <1>6, <1>7 DEF CtrlNext, Push, Consumer

(* What is accepted never gets less.                                       *)
LEMMA NeverLess ==
  ASSUME CtrlTypeOK, Accepts
  PROVE  /\ Len(Accepted) \in Nat /\ Len(Accepted') \in Nat
         /\ Len(Accepted) <= Len(Accepted')
<1>1. Accepted \in Seq(Msgs) /\ Len(Accepted) \in Nat
  BY AcceptedType
<1>2. ASSUME NEW m \in Msgs
      PROVE  Len(Append(Accepted, m)) = Len(Accepted) + 1
  BY <1>1, AppendProperties
<1> QED
  BY <1>1, <1>2 DEF Accepts

(* What was accepted at the stop stays accepted.                           *)
LEMMA NothingForgottenStep ==
  ASSUME CtrlInv, [CtrlNext]_ctrlVars
  PROVE  NothingForgotten'
<1>1. /\ Len(Accepted) <= Len(Accepted')
      /\ Len(Accepted) \in Nat /\ Len(Accepted') \in Nat /\ atStop \in Nat
      /\ Len(out) \in Nat /\ atStop <= Len(Accepted)
  BY StepAccepts, NeverLess, AcceptedType
  DEF CtrlInv, CtrlTypeOK, NothingForgotten
<1>2. CASE Stop
  <2>1. Accepted' = Accepted
    BY <1>2, Quiet DEF Stop, bufVars
  <2> QED
    BY <1>1, <1>2, <2>1
    DEF Stop, CtrlInv, CtrlTypeOK, NothingForgotten, EndedMeansWritten
<1>3. CASE TestEnd
  <2>1. Accepted' = Accepted
    BY <1>3, Quiet DEF TestEnd, bufVars
  <2>2. empty(produceBuf) => Len(out) = Len(Accepted)
    <3>1. SUFFICES ASSUME empty(produceBuf) PROVE Len(out) = Len(Accepted)
      OBVIOUS
    <3>2. consumeBuf.data = <<>> /\ produceBuf.data = <<>>
      BY <1>3, <3>1 DEF TestEnd, CtrlInv, BuffersFit
    <3> QED
      BY <3>2, AcceptedType, EmptySeq DEF CtrlInv
  <2>3. NothingForgotten
    BY DEF CtrlInv
  <2> QED
    BY <1>1, <1>3, <2>1, <2>2, <2>3
    DEF TestEnd, stopVars, NothingForgotten, EndedMeansWritten
<1>4. CASE Sink
  <2>1. cpc' # "ended" /\ UNCHANGED stopVars
    BY <1>4 DEF Sink
  <2> QED
    BY <1>1, <2>1 DEF stopVars, CtrlInv, NothingForgotten, EndedMeansWritten
<1>5. CASE NotifyStop \/ Join
  <2>1. /\ UNCHANGED <<stoped, atStop, out>>
        /\ cpc' = "ended" <=> cpc = "ended"
        /\ dpc # "alive" /\ dpc' # "alive"
    BY <1>5 DEF NotifyStop, Join, ConsumerNotified
  <2> QED
    BY <1>1, <2>1 DEF CtrlInv, NothingForgotten, EndedMeansWritten
<1>6. ASSUME /\ UNCHANGED <<stoped, dpc, atStop, out>>
             /\ cpc' = "ended" <=> cpc = "ended"
      PROVE  NothingForgotten'
  BY <1>1, <1>6 DEF CtrlInv, NothingForgotten, EndedMeansWritten
<1>7. ASSUME NEW t \in Threads, Push(t) \/ \E m \in Msgs : Call(t, m)
      PROVE  NothingForgotten'
  BY <1>6, <1>7
  DEF Push, Call, TestStoped, PushData, WaitForSpace, NotifyConsumer,
      ConsumerNotified, stopVars
<1>8. CASE Swap \/ Decide \/ Block \/ NotifyProducers \/ SpuriousWakeup
  BY <1>6, <1>8
  DEF Swap, Decide, Block, NotifyProducers, SpuriousWakeup, stopVars
<1>9. CASE UNCHANGED ctrlVars
  BY <1>6, <1>9 DEF ctrlVars, stopVars
<1> QED
  BY <1>2, <1>3, <1>4, <1>5, <1>7, <1>8, <1>9 DEF CtrlNext, Consumer

-----------------------------------------------------------------------------
(* Every step keeps the invariant of the controller, ...                   *)
LEMMA CtrlInvStep ==
  ASSUME CtrlInv, [CtrlNext]_ctrlVars
  PROVE  CtrlInv'
  BY CtrlTypeStep, NothingForgottenStep DEF CtrlInv

(* ... which therefore holds of its two buffers, whatever the threads do.  *)
THEOREM CtrlInvariant == CtrlSpec => []CtrlInv
  BY CtrlInitInv, CtrlInvStep, PTL DEF CtrlSpec

(* The types are kept, and only a thread inside push has an argument.      *)
THEOREM CtrlTypeCorrect == CtrlSpec => []CtrlTypeOK
<1>1. CtrlInv => CtrlTypeOK
  BY DEF CtrlInv
<1> QED
  BY <1>1, CtrlInvariant, PTL

(* asyncLoggerCharBuf.hpp: the assert of push holds, whatever the lengths  *)
(* of the messages and of the buffer.                                      *)
THEOREM BuffersAlwaysFit == CtrlSpec => []BuffersFit
<1>1. CtrlInv => BuffersFit
  BY DEF CtrlInv
<1> QED
  BY <1>1, CtrlInvariant, PTL

(* threadRunning: nothing accepted before the destructor is lost.          *)
THEOREM EndedAlwaysMeansWritten == CtrlSpec => []EndedMeansWritten
<1>1. CtrlInv => EndedMeansWritten
  BY DEF CtrlInv, NothingForgotten
<1> QED
  BY <1>1, CtrlInvariant, PTL

-----------------------------------------------------------------------------
(* The refinement.                                                         *)
LEMMA ChannelStarts == CtrlInit => Channel!ChannelInit
<1> SUFFICES ASSUME CtrlInit PROVE Channel!ChannelInit
  OBVIOUS
<1>1. <<>> \o <<>> = <<>> /\ Len(<<>>) = 0
  BY ConcatEmptySeq, EmptySeq
<1> QED
  BY <1>1 DEF CtrlInit, EmptyBuf, Accepted, Channel!ChannelInit

(* Some of what waits is at least one and at most all.                     *)
LEMMA SomeOfIt ==
  ASSUME NEW i \in Nat, NEW j \in Nat, NEW k \in Nat, j # 0
  PROVE  i + j \in i + 1 .. i + j + k
  OBVIOUS

(* A step of the controller is one of the channel, or none.                *)
LEMMA ChannelStep ==
  ASSUME CtrlInv, [CtrlNext]_ctrlVars
  PROVE  [Channel!ChannelNext]_(Channel!channel)
<1>1. CtrlTypeOK /\ BuffersFit
  BY DEF CtrlInv
<1> USE DEF Channel!channel, Channel!ChannelNext
<1>2. ASSUME UNCHANGED <<Accepted, out, stoped, atStop>>
      PROVE  UNCHANGED Channel!channel
  BY <1>2
<1>3. ASSUME NEW t \in Threads, PushData(t)
      PROVE  [Channel!ChannelNext]_(Channel!channel)
  BY <1>1, <1>3, PushAccepts DEF PushData, stopVars, Channel!Accept
<1>4. CASE Swap
  BY <1>1, <1>2, <1>4, SwapKeepsAccepted DEF Swap, stopVars
<1>5. CASE Sink
  <2>1. Accepted' = Accepted /\ UNCHANGED stopVars
    BY <1>1, <1>5, SinkKeepsAccepted DEF Sink
  <2>2. /\ out \in Seq(Msgs) /\ consumeBuf.data \in Seq(Msgs)
        /\ produceBuf.data \in Seq(Msgs)
    BY <1>1 DEF CtrlTypeOK, Bufs
  <2>3. Len(out') = Len(out) + Len(consumeBuf.data)
    BY <1>5, <2>2, ConcatProperties DEF Sink
  <2>4. /\ Len(out) \in Nat /\ Len(consumeBuf.data) \in Nat
        /\ Len(produceBuf.data) \in Nat
    BY <2>2, LenProperties
  <2>5. Len(Accepted) = Len(out) + Len(consumeBuf.data) + Len(produceBuf.data)
    BY <1>1, AcceptedType
  <2>6. CASE Len(consumeBuf.data) = 0
    BY <2>1, <2>3, <2>4, <2>6 DEF stopVars
  <2>7. CASE Len(consumeBuf.data) # 0
    <3>1. Len(out') \in Len(out) + 1 .. Len(Accepted)
      BY <2>3, <2>4, <2>5, <2>7, SomeOfIt
    <3> QED
      BY <2>1, <3>1 DEF stopVars, Channel!Write
  <2> QED
    BY <2>6, <2>7
<1>6. CASE Stop
  <2>1. Accepted' = Accepted /\ out' = out
    BY <1>6, Quiet DEF Stop, bufVars
  <2>2. ~stoped
    BY <1>6 DEF Stop, CtrlInv, NothingForgotten
  <2> QED
    BY <1>6, <2>1, <2>2 DEF Stop, Channel!Close
<1>7. ASSUME NEW t \in Threads,
             (\E m \in Msgs : Call(t, m)) \/ TestStoped(t) \/ WaitForSpace(t)
               \/ NotifyConsumer(t)
      PROVE  UNCHANGED Channel!channel
  BY <1>2, <1>7, Quiet
  DEF Call, TestStoped, WaitForSpace, NotifyConsumer, bufVars, stopVars
<1>8. CASE TestEnd \/ Decide \/ Block \/ NotifyProducers \/ SpuriousWakeup
  BY <1>2, <1>8, Quiet
  DEF TestEnd, Decide, Block, NotifyProducers, SpuriousWakeup, bufVars, stopVars
<1>9. CASE NotifyStop \/ Join
  BY <1>2, <1>9, Quiet DEF NotifyStop, Join, bufVars
<1>10. CASE UNCHANGED ctrlVars
  BY <1>2, <1>10, Quiet DEF ctrlVars, bufVars, stopVars
<1> QED
  BY <1>3, <1>4, <1>5, <1>6, <1>7, <1>8, <1>9, <1>10
  DEF CtrlNext, Push, Consumer

(* AsyncLoggerCtrl is a channel: each message that push accepts goes to    *)
(* the sinks at most once, in the order of acceptance.                     *)
THEOREM CtrlIsChannel == CtrlSpec => ImplementsChannelSafe
<1>1. CtrlInv /\ [CtrlNext]_ctrlVars => [Channel!ChannelNext]_(Channel!channel)
  BY ChannelStep
<1> QED
  BY <1>1, ChannelStarts, CtrlInvariant, PTL
  DEF CtrlSpec, ImplementsChannelSafe, Channel!ChannelSafe

-----------------------------------------------------------------------------
(* Who can be reached has been built, and so has what is destroyed.        *)
ReachableMeansMade ==
  /\ Default \in made
  /\ stoped => Async \in made
  /\ \A t \in Threads : handle[t] # Nobody => handle[t] \in made
  /\ \A n \in Names : loggers[n] # Nobody => loggers[n] \in made

LogInv == LogTypeOK /\ ReachableMeansMade /\ StopFindsNobodyInside

-----------------------------------------------------------------------------
(* Every step is one of the controller or leaves the controller alone.     *)
LEMMA LogStepIsCtrlStep ==
  ASSUME [LogNext]_logVars
  PROVE  [CtrlNext]_ctrlVars
<1>1. ASSUME NEW t \in Threads, Registry(t) \/ OutPut(t) \/ Drop(t)
      PROVE  UNCHANGED ctrlVars
  BY <1>1
  DEF Registry, DefaultConsoleLogger, GetListed, GetUnlisted, BuildLocal,
      BuildGlobal, OutPut, LockSinks, RunSinker, UnlockSinks, Drop
<1>2. ASSUME NEW t \in Threads, NEW m \in Msgs, LogAsync(t, m) \/ LogSync(t, m)
      PROVE  Call(t, m) \/ UNCHANGED ctrlVars
  BY <1>2 DEF LogAsync, LogSync
<1>3. ASSUME NEW t \in Threads, DropLast(t) \/ Destroy(t) \/ InCtrl(Push(t))
      PROVE  Stop \/ NotifyStop \/ Join \/ Push(t)
  BY <1>3 DEF DropLast, Destroy, InCtrl
<1>4. CASE Background \/ InCtrl(SpuriousWakeup)
  BY <1>4 DEF Background, InCtrl, CtrlNext
<1>5. CASE UNCHANGED logVars
  BY <1>5 DEF logVars
<1> QED
  BY <1>1, <1>2, <1>3, <1>4, <1>5 DEF LogNext, Continue, CtrlNext

(* The program uses the controller as module AsyncLoggerCtrl has it.       *)
THEOREM LoggersUseTheController == LogSpec => CtrlSpec
<1>1. LogInit => CtrlInit
  BY DEF LogInit
<1> QED
  BY <1>1, LogStepIsCtrlStep, PTL DEF LogSpec, CtrlSpec

-----------------------------------------------------------------------------
(* The three loggers are different ones, and two of them built.            *)
LEMMA Names3 ==
  /\ Default # Sync /\ Default # Async /\ Sync # Async
  /\ Built = {Sync, Async}
  /\ Nobody \notin {Default, Sync, Async}
  BY LoggerAssumption DEF Default, Sync, Async, Built

(* At first there is no logger.                                            *)
LEMMA LogInitInv == LogInit => LogInv
<1> SUFFICES ASSUME LogInit PROVE LogInv
  OBVIOUS
<1>1. CtrlTypeOK
  BY CtrlInitInv DEF LogInit, CtrlInv
<1>2. /\ ~stoped /\ msg = [t \in Threads |-> NoMsg]
      /\ ppc = [t \in Threads |-> "idle"]
  BY DEF LogInit, CtrlInit
<1>3. RegTypeOK
  BY Names3 DEF LogInit, RegTypeOK
<1>4. SyncTypeOK
  BY EmptySeq, Names3 DEF LogInit, SyncTypeOK, Nothing
<1>5. InOnePlace
  BY <1>2 DEF LogInit, InOnePlace, Nothing
<1> QED
  BY <1>1, <1>2, <1>3, <1>4, <1>5, Names3
  DEF LogInit, LogInv, LogTypeOK, ReachableMeansMade, StopFindsNobodyInside

-----------------------------------------------------------------------------
(* The steps, in groups that touch the same part of the state.             *)

(* The registry: a thread outside every call gets a pointer to a logger    *)
(* that has been made, or gets stuck.                                      *)
LEMMA RegistryStep ==
  ASSUME LogInv, NEW t \in Threads, Registry(t)
  PROVE  RegTypeOK' /\ SyncTypeOK' /\ InOnePlace'
           /\ ReachableMeansMade' /\ StopFindsNobodyInside'
<1> USE Names3 DEF LogInv, LogTypeOK
<1>1. /\ at[t] = "idle" /\ ppc[t] = "idle" /\ handle[t] = Nobody
      /\ UNCHANGED <<ctrlVars, syncVars, calls>>
  BY DEF Registry, DefaultConsoleLogger, GetListed, GetUnlisted, BuildLocal,
         BuildGlobal, Free, syncVars
<1>2. UNCHANGED <<ppc, msg, stoped, owner, todo, lines, calls>>
  BY <1>1 DEF ctrlVars, pushVars, stopVars, syncVars
<1>3. CASE DefaultConsoleLogger(t)
  BY <1>1, <1>2, <1>3
  DEF DefaultConsoleLogger, regVars, RegTypeOK, SyncTypeOK, InOnePlace,
      ReachableMeansMade, StopFindsNobodyInside
<1>4. ASSUME NEW n \in Names, GetListed(t, n)
      PROVE  RegTypeOK' /\ SyncTypeOK' /\ InOnePlace'
               /\ ReachableMeansMade' /\ StopFindsNobodyInside'
  BY <1>1, <1>2, <1>4
  DEF GetListed, regVars, RegTypeOK, SyncTypeOK, InOnePlace,
      ReachableMeansMade, StopFindsNobodyInside
<1>5. ASSUME NEW n \in Names, GetUnlisted(t, n)
      PROVE  RegTypeOK' /\ SyncTypeOK' /\ InOnePlace'
               /\ ReachableMeansMade' /\ StopFindsNobodyInside'
  BY <1>1, <1>2, <1>5
  DEF GetUnlisted, RegTypeOK, SyncTypeOK, InOnePlace, ReachableMeansMade,
      StopFindsNobodyInside
<1>6. ASSUME NEW l \in Built, BuildLocal(t, l)
      PROVE  RegTypeOK' /\ SyncTypeOK' /\ InOnePlace'
               /\ ReachableMeansMade' /\ StopFindsNobodyInside'
  BY <1>1, <1>2, <1>6
  DEF BuildLocal, RegTypeOK, SyncTypeOK, InOnePlace, ReachableMeansMade,
      StopFindsNobodyInside
<1>7. ASSUME NEW l \in Built, BuildGlobal(t, l)
      PROVE  RegTypeOK' /\ SyncTypeOK' /\ InOnePlace'
               /\ ReachableMeansMade' /\ StopFindsNobodyInside'
  <2>1. NameOf[l] \in Names
    BY LoggerAssumption
  <2>2. /\ loggers' = [loggers EXCEPT ![NameOf[l]] =
                         IF loggers[NameOf[l]] = Nobody THEN l ELSE loggers[NameOf[l]]]
        /\ made' = made \cup {l}
        /\ handle' = [handle EXCEPT ![t] = l]
        /\ UNCHANGED <<mutex, at>>
        /\ l \notin made
    BY <1>7 DEF BuildGlobal, InsertedFirst
  <2>3. RegTypeOK'
    BY <2>1, <2>2 DEF RegTypeOK
  <2>4. SyncTypeOK' /\ InOnePlace'
    BY <1>1, <1>2, <2>2 DEF RegTypeOK, SyncTypeOK, InOnePlace
  <2>5. ReachableMeansMade'
    BY <1>2, <2>1, <2>2 DEF RegTypeOK, ReachableMeansMade
  <2>6. StopFindsNobodyInside'
    BY <1>2, <2>1, <2>2 DEF RegTypeOK, ReachableMeansMade, StopFindsNobodyInside
  <2> QED
    BY <2>3, <2>4, <2>5, <2>6
<1> QED
  BY <1>3, <1>4, <1>5, <1>6, <1>7 DEF Registry

(* A message begins its way into a queue or to the sinks.                  *)
LEMMA LogCallStep ==
  ASSUME LogInv, NEW t \in Threads, NEW m \in Msgs,
         LogAsync(t, m) \/ LogSync(t, m)
  PROVE  RegTypeOK' /\ SyncTypeOK' /\ InOnePlace'
           /\ ReachableMeansMade' /\ StopFindsNobodyInside'
<1> USE Names3 DEF LogInv, LogTypeOK
<1>1. CASE LogAsync(t, m)
  BY <1>1
  DEF LogAsync, Call, stopVars, regVars, syncVars, CtrlTypeOK, RegTypeOK,
      SyncTypeOK, InOnePlace, ReachableMeansMade, StopFindsNobodyInside
<1>2. CASE LogSync(t, m)
  <2>1. SinksOf[handle[t]] \in Seq({"console", "file"})
    <3>1. /\ <<"console">> \in Seq({"console", "file"})
          /\ <<"console", "file">> \in Seq({"console", "file"})
      OBVIOUS
    <3>2. handle[t] \in {Default, Sync}
      BY <1>2 DEF LogSync
    <3> QED
      BY <3>1, <3>2 DEF SinksOf
  <2>2. /\ handle[t] \in {Default, Sync} /\ ppc[t] = "idle"
        /\ at' = [at EXCEPT ![t] = "lock"]
        /\ todo' = [todo EXCEPT ![t] = [m |-> m, sinks |-> SinksOf[handle[t]]]]
        /\ calls' = calls + 1
        /\ UNCHANGED <<ppc, msg, stoped, mutex, loggers, made, handle, owner,
                       lines>>
    BY <1>2 DEF LogSync, Free, ctrlVars, pushVars, stopVars, regVars
  <2>3. m # NoMsg
    BY AsyncAssumption
  <2>4. RegTypeOK' /\ ReachableMeansMade' /\ StopFindsNobodyInside'
    BY <2>2 DEF RegTypeOK, ReachableMeansMade, StopFindsNobodyInside
  <2>5. SyncTypeOK'
    BY <2>1, <2>2 DEF SyncTypeOK
  <2>6. InOnePlace'
    BY <2>2, <2>3 DEF SyncTypeOK, InOnePlace
  <2> QED
    BY <2>4, <2>5, <2>6
<1> QED
  BY <1>1, <1>2

(* SyncLogger::outPut.                                                     *)
LEMMA OutPutStep ==
  ASSUME LogInv, NEW t \in Threads, OutPut(t)
  PROVE  RegTypeOK' /\ SyncTypeOK' /\ InOnePlace'
           /\ ReachableMeansMade' /\ StopFindsNobodyInside'
<1> USE Names3 DEF LogInv, LogTypeOK
<1>1. /\ at[t] \in {"lock", "sinks"} /\ handle[t] \in {Default, Sync}
      /\ todo[t].m \in Msgs /\ ppc[t] = "idle"
      /\ UNCHANGED <<ppc, msg, stoped, mutex, loggers, made, handle, calls>>
  BY DEF OutPut, LockSinks, RunSinker, UnlockSinks, ctrlVars, pushVars,
         stopVars, regVars, SyncTypeOK, InOnePlace
<1>2. RegTypeOK' /\ ReachableMeansMade' /\ StopFindsNobodyInside'
  BY <1>1 DEF RegTypeOK, ReachableMeansMade, StopFindsNobodyInside
<1>3. CASE LockSinks(t)
  BY <1>1, <1>2, <1>3 DEF LockSinks, SyncTypeOK, InOnePlace
<1>4. CASE RunSinker(t)
  <2> DEFINE s == Head(todo[t].sinks)
  <2>1. todo[t].sinks \in Seq({"console", "file"}) /\ todo[t].sinks # <<>>
    BY <1>4 DEF RunSinker, SyncTypeOK
  <2>2. s \in {"console", "file"} /\ Tail(todo[t].sinks) \in Seq({"console", "file"})
    BY <2>1, HeadTailProperties
  <2>3. lines[s] \in Seq({Default, Sync} \X Msgs)
    BY <2>2 DEF SyncTypeOK
  <2>4. Append(lines[s], <<handle[t], todo[t].m>>) \in Seq({Default, Sync} \X Msgs)
    BY <1>1, <2>3, AppendProperties
  <2>5. lines' \in [{"console", "file"} -> Seq({Default, Sync} \X Msgs)]
    BY <1>4, <2>2, <2>4 DEF RunSinker, SyncTypeOK
  <2>6. todo' \in [Threads -> [m : Msgs \cup {NoMsg},
                              sinks : Seq({"console", "file"})]]
    <3>1. [todo[t] EXCEPT !.sinks = Tail(todo[t].sinks)]
            \in [m : Msgs \cup {NoMsg}, sinks : Seq({"console", "file"})]
      BY <2>2 DEF SyncTypeOK
    <3>2. todo' = [todo EXCEPT ![t] =
                     [todo[t] EXCEPT !.sinks = Tail(todo[t].sinks)]]
      BY <1>4 DEF RunSinker
    <3> QED
      BY <3>1, <3>2 DEF SyncTypeOK
  <2>8. SyncTypeOK'
    BY <1>1, <1>4, <2>5, <2>6 DEF RunSinker, SyncTypeOK
  <2>7. InOnePlace'
    BY <1>1, <1>4 DEF RunSinker, SyncTypeOK, InOnePlace
  <2> QED
    BY <1>2, <2>7, <2>8
<1>5. CASE UnlockSinks(t)
  <2>1. SyncTypeOK'
    BY <1>1, <1>5, EmptySeq DEF UnlockSinks, SyncTypeOK, Nothing
  <2>2. InOnePlace'
    BY <1>1, <1>5 DEF UnlockSinks, SyncTypeOK, InOnePlace, Nothing
  <2> QED
    BY <1>2, <2>1, <2>2
<1> QED
  BY <1>3, <1>4, <1>5 DEF OutPut

(* A pointer goes; the last one to the AsyncLogger starts the destructor.  *)
LEMMA DropStep ==
  ASSUME LogInv, NEW t \in Threads, Drop(t) \/ DropLast(t) \/ Destroy(t)
  PROVE  RegTypeOK' /\ SyncTypeOK' /\ InOnePlace'
           /\ ReachableMeansMade' /\ StopFindsNobodyInside'
<1> USE Names3 DEF LogInv, LogTypeOK
<1>1. CASE Drop(t)
  BY <1>1
  DEF Drop, Free, ctrlVars, pushVars, stopVars, regVars, syncVars, RegTypeOK,
      SyncTypeOK, InOnePlace, ReachableMeansMade, StopFindsNobodyInside
<1>2. CASE DropLast(t)
  <2>1. /\ at[t] = "idle" /\ ppc[t] = "idle" /\ handle[t] = Async
        /\ \A u \in Threads : handle[u] = Async => u = t
        /\ \A n \in Names : loggers[n] # Async
        /\ handle' = [handle EXCEPT ![t] = Nobody]
        /\ at' = [at EXCEPT ![t] = "destroy"]
        /\ UNCHANGED <<ppc, msg, mutex, loggers, made, owner, todo, lines, calls>>
    BY <1>2
    DEF DropLast, Free, Last, Holders, Stop, pushVars, regVars, syncVars
  <2>2. RegTypeOK' /\ SyncTypeOK'
    BY <2>1 DEF RegTypeOK, SyncTypeOK
  <2>3. InOnePlace'
    BY <2>1 DEF RegTypeOK, SyncTypeOK, InOnePlace
  <2>4. ReachableMeansMade'
    BY <2>1 DEF RegTypeOK, ReachableMeansMade
  <2>5. StopFindsNobodyInside'
    BY <2>1 DEF RegTypeOK, InOnePlace, StopFindsNobodyInside
  <2> QED
    BY <2>2, <2>3, <2>4, <2>5
<1>3. CASE Destroy(t)
  <2>1. /\ at[t] = "destroy" /\ at' \in {at, [at EXCEPT ![t] = "idle"]}
        /\ UNCHANGED <<ppc, msg, stoped, mutex, loggers, made, handle, owner,
                       todo, lines, calls>>
    BY <1>3
    DEF Destroy, NotifyStop, Join, bufVars, pushVars, regVars, syncVars
  <2> QED
    BY <2>1
    DEF RegTypeOK, SyncTypeOK, InOnePlace, ReachableMeansMade,
        StopFindsNobodyInside
<1> QED
  BY <1>1, <1>2, <1>3

(* The controller at work: a thread inside push stays the one it is.       *)
LEMMA ControllerStep ==
  ASSUME LogInv,
         \/ \E t \in Threads : InCtrl(Push(t))
         \/ Background
         \/ InCtrl(SpuriousWakeup)
  PROVE  RegTypeOK' /\ SyncTypeOK' /\ InOnePlace'
           /\ ReachableMeansMade' /\ StopFindsNobodyInside'
<1> USE DEF LogInv, LogTypeOK
<1>1. UNCHANGED <<mutex, loggers, made, handle, at, owner, todo, lines, calls>>
  BY DEF InCtrl, Background, regVars, syncVars
<1>2. UNCHANGED stoped
  BY DEF InCtrl, Background, Push, TestStoped, PushData, WaitForSpace,
         NotifyConsumer, Consumer, TestEnd, Swap, Decide, Block,
         NotifyProducers, Sink, SpuriousWakeup, stopVars
<1>3. \A u \in Threads : ppc'[u] # "idle" => ppc[u] # "idle"
  <2>1. ASSUME NEW t \in Threads, Push(t)
        PROVE  \A u \in Threads : ppc'[u] # "idle" => ppc[u] # "idle"
    BY <2>1
    DEF Push, TestStoped, PushData, WaitForSpace, NotifyConsumer, CtrlTypeOK
  <2>2. ASSUME Consumer \/ SpuriousWakeup
        PROVE  \A u \in Threads : ppc'[u] # "idle" => ppc[u] # "idle"
    BY <2>2
    DEF Consumer, TestEnd, Swap, Decide, Block, NotifyProducers, Sink,
        SpuriousWakeup, pushVars, CtrlTypeOK
  <2> QED
    BY <2>1, <2>2 DEF InCtrl, Background
<1> QED
  BY <1>1, <1>2, <1>3
  DEF RegTypeOK, SyncTypeOK, InOnePlace, ReachableMeansMade,
      StopFindsNobodyInside, CtrlTypeOK

(* Every step keeps the invariant of the loggers, ...                      *)
LEMMA LogInvStep ==
  ASSUME LogInv, CtrlTypeOK', [LogNext]_logVars
  PROVE  LogInv'
<1> SUFFICES RegTypeOK' /\ SyncTypeOK' /\ InOnePlace'
               /\ ReachableMeansMade' /\ StopFindsNobodyInside'
  BY DEF LogInv, LogTypeOK
<1>1. CASE UNCHANGED logVars
  BY <1>1
  DEF logVars, ctrlVars, pushVars, stopVars, regVars, syncVars, LogInv,
      LogTypeOK, RegTypeOK, SyncTypeOK, InOnePlace, ReachableMeansMade,
      StopFindsNobodyInside
<1>2. CASE LogNext
  BY <1>2, RegistryStep, LogCallStep, OutPutStep, DropStep, ControllerStep
  DEF LogNext, Continue
<1> QED
  BY <1>1, <1>2

-----------------------------------------------------------------------------
(* ... which therefore holds: who logs through a logger has a pointer to   *)
(* it.                                                                     *)
THEOREM LogInvariant == LogSpec => []LogInv
  BY LogInitInv, LogInvStep, LoggersUseTheController, CtrlTypeCorrect, PTL
  DEF LogSpec

(* The types are kept.                                                     *)
THEOREM LogTypeCorrect == LogSpec => []LogTypeOK
<1>1. LogInv => LogTypeOK
  BY DEF LogInv
<1> QED
  BY <1>1, LogInvariant, PTL

(* ~AsyncLoggerCtrl runs when no thread is inside push or could get there. *)
THEOREM StopAlwaysFindsNobodyInside == LogSpec => []StopFindsNobodyInside
<1>1. LogInv => StopFindsNobodyInside
  BY DEF LogInv
<1> QED
  BY <1>1, LogInvariant, PTL

(* The loggers of a program keep the controller's promises.                *)
THEOREM LoggersLoseNothing ==
  LogSpec => [](BuffersFit /\ EndedMeansWritten) /\ ImplementsChannelSafe
  BY LoggersUseTheController, BuffersAlwaysFit, EndedAlwaysMeansWritten,
     CtrlIsChannel, PTL

(* LoggerManager::add: unordered_map::insert never replaces an entry.      *)
THEOREM NamesAlwaysStay == LogSpec => NamesStay
<1>1. ASSUME LogInv, [LogNext]_logVars
      PROVE  [\A n \in Names : loggers[n] # Nobody => loggers'[n] = loggers[n]]_logVars
  <2>1. CASE UNCHANGED loggers
    BY <2>1
  <2>2. ASSUME NEW t \in Threads, NEW l \in Built, BuildGlobal(t, l)
        PROVE  \A n \in Names : loggers[n] # Nobody => loggers'[n] = loggers[n]
    BY <2>2 DEF BuildGlobal, InsertedFirst, LogInv, LogTypeOK, RegTypeOK
  <2>3. CASE UNCHANGED logVars
    BY <2>3
  <2> QED
    BY <1>1, <2>1, <2>2, <2>3
    DEF LogNext, Registry, DefaultConsoleLogger, GetListed, GetUnlisted,
        BuildLocal, Drop, DropLast, Continue, OutPut, LockSinks, RunSinker,
        UnlockSinks, Destroy, Background, InCtrl, LogAsync, LogSync, regVars
<1> QED
  BY <1>1, LogInvariant, PTL DEF LogSpec, NamesStay

-----------------------------------------------------------------------------
(* What OfSync has after each line.                                        *)
Kept(seq, of) ==
  [i \in 0 .. Len(seq) |->
     IF i = 0 THEN <<>>
     ELSE IF seq[i][1] = Sync THEN Append(of[i - 1], seq[i]) ELSE of[i - 1]]

(* It depends on the lines so far only.                                    *)
LEMMA KeptAgree ==
  ASSUME NEW s, NEW r, Len(s) \in Nat, Len(r) \in Nat, Len(s) <= Len(r),
         NEW f, NEW g
  PROVE  (/\ \A i \in 1 .. Len(s) : r[i] = s[i]
          /\ f = Kept(s, f) /\ g = Kept(r, g))
         => \A i \in 0 .. Len(s) : f[i] = g[i]
<1> DEFINE n == Len(s)
<1>1. ASSUME \A i \in 1 .. n : r[i] = s[i], f = Kept(s, f), g = Kept(r, g)
      PROVE  \A i \in 0 .. n : f[i] = g[i]
  <2>1. \A i \in 0 .. n : f[i] = IF i = 0 THEN <<>>
                                 ELSE IF s[i][1] = Sync THEN Append(f[i - 1], s[i])
                                 ELSE f[i - 1]
    BY <1>1 DEF Kept
  <2>2. \A i \in 0 .. n : g[i] = IF i = 0 THEN <<>>
                                 ELSE IF r[i][1] = Sync THEN Append(g[i - 1], r[i])
                                 ELSE g[i - 1]
    <3>1. n \in Nat /\ \A i \in 0 .. n : i \in 0 .. Len(r)
      OBVIOUS
    <3> QED
      BY <1>1, <3>1 DEF Kept
  <2>3. n \in Nat
    OBVIOUS
  <2> HIDE DEF n
  <2>4. f[0] = g[0]
    BY <2>1, <2>2, <2>3
  <2>5. ASSUME NEW i \in 1 .. n, f[i - 1] = g[i - 1] PROVE f[i] = g[i]
    <3>1. i \in 0 .. n /\ i # 0
      BY <2>3
    <3> QED
      BY <1>1, <2>1, <2>2, <2>5, <3>1
  <2>6. GoTogether(n, f, g)
    BY <2>4, <2>5 DEF GoTogether
  <2> QED
    BY <2>3, <2>6, StepwiseEqual
<1> QED
  BY <1>1

(* The lines of the logger are what is kept after all lines, ...           *)
LEMMA OfSyncEquation ==
  ASSUME NEW T, NEW seq \in Seq(T)
  PROVE  /\ \E of \in [0 .. Len(seq) -> Seq(T)] :
              of = Kept(seq, of) /\ OfSync(seq) = of[Len(seq)]
         /\ OfSync(seq) \in Seq(T)
<1> DEFINE n == Len(seq)
           step == [i \in 1 .. n |-> [s \in Seq(T) |->
                      IF seq[i][1] = Sync THEN Append(s, seq[i]) ELSE s]]
<1>1. n \in Nat /\ \A i \in 1 .. n : seq[i] \in T
  OBVIOUS
<1> HIDE DEF n
<1>2. step \in [1 .. n -> [Seq(T) -> Seq(T)]]
  BY <1>1, AppendProperties
<1>3. \A i \in 1 .. n, s \in Seq(T) :
        step[i][s] = IF seq[i][1] = Sync THEN Append(s, seq[i]) ELSE s
  OBVIOUS
<1> HIDE DEF step
<1>4. <<>> \in Seq(T)
  OBVIOUS
<1>5. PICK g \in [0 .. n -> Seq(T)] :
        g[0] = <<>> /\ \A i \in 1 .. n : g[i] = step[i][g[i - 1]]
  <2> DEFINE V == Seq(T)
             first == <<>>
  <2>1. first \in V /\ step \in [1 .. n -> [V -> V]]
    BY <1>2, <1>4
  <2> HIDE DEF V, first
  <2>2. \E g \in [0 .. n -> V] : Follows(g, n, first, step)
    <3>1. n \in Nat
      BY <1>1
    <3>2. first \in V
      BY <2>1
    <3>3. step \in Steps(n, V)
      BY <2>1 DEF Steps
    <3> QED
      BY <3>1, <3>2, <3>3, StepwiseExists
  <2> QED
    BY <2>2 DEF V, first, Follows
<1>6. \A i \in 0 .. n : g[i] = IF i = 0 THEN <<>>
                               ELSE IF seq[i][1] = Sync THEN Append(g[i - 1], seq[i])
                               ELSE g[i - 1]
  <2>1. g[0] = <<>>
    BY <1>5
  <2>2. ASSUME NEW i \in 1 .. n
        PROVE  g[i] = IF seq[i][1] = Sync THEN Append(g[i - 1], seq[i]) ELSE g[i - 1]
    <3>1. i - 1 \in 0 .. n /\ g[i - 1] \in Seq(T)
      BY <1>1, <1>5
    <3>2. g[i] = step[i][g[i - 1]]
      BY <1>5
    <3> QED
      BY <1>3, <3>1, <3>2
  <2>3. \A i \in 0 .. n : i # 0 => i \in 1 .. n
    BY <1>1
  <2> QED
    BY <2>1, <2>2, <2>3
<1>7. g = Kept(seq, g)
  BY <1>6 DEF Kept, n
<1> DEFINE of == CHOOSE f : f = Kept(seq, f)
<1>8. of = Kept(seq, of)
  BY <1>7
<1>9. OfSync(seq) = of[Len(seq)]
  BY DEF OfSync, Kept
<1> HIDE DEF of
<1>10. \A i \in 0 .. n : of[i] = g[i]
  BY <1>1, <1>7, <1>8, KeptAgree DEF n
<1>11. of \in [0 .. n -> Seq(T)]
  <2>1. of = [i \in 0 .. n |-> of[i]]
    BY <1>8 DEF Kept, n
  <2> QED
    BY <1>10, <2>1
<1>12. OfSync(seq) \in Seq(T)
  BY <1>1, <1>9, <1>11 DEF n
<1> QED
  BY <1>8, <1>9, <1>11, <1>12 DEF n

(* ... none of none, ...                                                   *)
LEMMA OfSyncEmpty == OfSync(<<>>) = <<>>
<1>1. PICK of \in [0 .. Len(<<>>) -> Seq({})] :
        of = Kept(<<>>, of) /\ OfSync(<<>>) = of[Len(<<>>)]
  <2>1. <<>> \in Seq({})
    OBVIOUS
  <2> QED
    BY <2>1, OfSyncEquation
<1>2. Len(<<>>) = 0 /\ 0 \in 0 .. 0
  OBVIOUS
<1>3. of[0] = <<>>
  BY <1>1, <1>2 DEF Kept
<1> QED
  BY <1>1, <1>2, <1>3

(* A line is added to the lines of the logger it comes from.               *)
LEMMA OfSyncAppend ==
  ASSUME NEW T, NEW seq \in Seq(T), NEW line \in T
  PROVE  /\ OfSync(seq) \in Seq(T)
         /\ OfSync(Append(seq, line)) =
              IF line[1] = Sync THEN Append(OfSync(seq), line) ELSE OfSync(seq)
<1> DEFINE n == Len(seq)
           more == Append(seq, line)
<1>1. /\ n \in Nat /\ Len(more) = n + 1 /\ more \in Seq(T)
      /\ more[n + 1] = line
      /\ \A i \in 1 .. n : more[i] = seq[i]
  BY AppendProperties
<1>2. PICK f \in [0 .. n -> Seq(T)] :
        f = Kept(seq, f) /\ OfSync(seq) = f[n]
  BY OfSyncEquation
<1> HIDE DEF more
<1>3. PICK g \in [0 .. Len(more) -> Seq(T)] :
        g = Kept(more, g) /\ OfSync(more) = g[Len(more)]
  BY <1>1, OfSyncEquation
<1>4. \A i \in 0 .. n : f[i] = g[i]
  BY <1>1, <1>2, <1>3, KeptAgree
<1>5. g[n + 1] = IF line[1] = Sync THEN Append(g[n], line) ELSE g[n]
  <2>1. n + 1 \in 0 .. Len(more) /\ n + 1 # 0 /\ (n + 1) - 1 = n
    BY <1>1
  <2> HIDE DEF n
  <2> QED
    BY <1>1, <1>3, <2>1 DEF Kept
<1> HIDE DEF n
<1>6. g[n] = f[n]
  BY <1>1, <1>4
<1> QED
  BY <1>1, <1>2, <1>3, <1>5, <1>6, OfSyncEquation DEF more

-----------------------------------------------------------------------------
(* Whoever writes to the sinks of a logger owns its mutex, and the other   *)
(* way round.                                                              *)
OwnersWrite ==
  /\ \A t \in Threads : at[t] = "sinks" => owner[handle[t]] = t
  /\ \A l \in {Default, Sync} : owner[l] # Nobody =>
       at[owner[l]] = "sinks" /\ handle[owner[l]] = l

(* What is left to write: all of the sinks, or the last of them, or none.  *)
LeftToWrite ==
  \A t \in Threads :
    /\ at[t] = "lock" => todo[t].sinks = SinksOf[handle[t]]
    /\ at[t] = "sinks" =>
         todo[t].sinks \in
           IF handle[t] = Sync THEN {<<"console", "file">>, <<"file">>, <<>>}
           ELSE {<<"console">>, <<>>}

(* The file has what the console has, but for a message whose thread is    *)
(* between the two.                                                        *)
InStep ==
  LET console == OfSync(lines["console"])
      file    == OfSync(lines["file"])
      t       == owner[Sync]
  IN  IF t # Nobody /\ todo[t].sinks = <<"file">>
      THEN console = Append(file, <<Sync, todo[t].m>>)
      ELSE console = file

SinksInv == OwnersWrite /\ LeftToWrite /\ InStep

(* At first nothing is written.                                            *)
LEMMA LogInitSinks == LogInit => SinksInv
<1> SUFFICES ASSUME LogInit PROVE SinksInv
  OBVIOUS
<1>1. OwnersWrite /\ LeftToWrite
  BY Names3 DEF LogInit, OwnersWrite, LeftToWrite
<1>2. InStep
  BY Names3 DEF LogInit, InStep
<1> QED
  BY <1>1, <1>2 DEF SinksInv

(* What the other steps leave alone.                                       *)
LEMMA ElsewhereSinks ==
  ASSUME LogInv, SinksInv, UNCHANGED <<owner, todo, lines>>,
         \A t \in Threads :
           \/ at'[t] = at[t] /\ handle'[t] = handle[t]
           \/ {at[t], at'[t]} \cap {"lock", "sinks"} = {}
  PROVE  SinksInv'
<1>1. OwnersWrite'
  <2>1. \A l \in {Default, Sync} : owner[l] \in Threads \cup {Nobody}
    BY DEF LogInv, LogTypeOK, SyncTypeOK
  <2> QED
    BY <2>1 DEF SinksInv, OwnersWrite
<1>2. LeftToWrite'
  BY DEF SinksInv, LeftToWrite
<1>3. InStep'
  BY DEF SinksInv, InStep
<1> QED
  BY <1>1, <1>2, <1>3 DEF SinksInv

(* SyncLogger::outPut and the call that leads to it.                       *)
LEMMA LogSyncSinks ==
  ASSUME LogInv, SinksInv, NEW t \in Threads, NEW m \in Msgs, LogSync(t, m)
  PROVE  SinksInv'
<1>1. /\ at[t] = "idle" /\ handle[t] \in {Default, Sync}
      /\ at' = [at EXCEPT ![t] = "lock"]
      /\ todo' = [todo EXCEPT ![t] = [m |-> m, sinks |-> SinksOf[handle[t]]]]
      /\ UNCHANGED <<handle, owner, lines>>
  BY DEF LogSync, Free
<1>2. /\ at \in [Threads -> {"idle", "stuck", "lock", "sinks", "destroy"}]
      /\ todo \in [Threads -> [m : Msgs \cup {NoMsg}, sinks : Seq({"console", "file"})]]
      /\ \A l \in {Default, Sync} : owner[l] \in Threads \cup {Nobody}
  BY DEF LogInv, LogTypeOK, SyncTypeOK
<1>3. \A l \in {Default, Sync} : owner[l] # t
  BY <1>1, LoggerAssumption DEF SinksInv, OwnersWrite
<1>4. OwnersWrite'
  BY <1>1, <1>2, <1>3 DEF SinksInv, OwnersWrite
<1>5. LeftToWrite'
  BY <1>1, <1>2 DEF SinksInv, LeftToWrite
<1>6. InStep'
  <2>1. owner[Sync] # Nobody => todo'[owner[Sync]] = todo[owner[Sync]]
    BY <1>1, <1>2, <1>3
  <2> QED
    BY <1>1, <2>1 DEF SinksInv, InStep
<1> QED
  BY <1>4, <1>5, <1>6 DEF SinksInv

(* A thread that gets the mutex has all sinks before it, ...               *)
LEMMA LockSinksSinks ==
  ASSUME LogInv, SinksInv, NEW t \in Threads, LockSinks(t)
  PROVE  SinksInv'
<1>1. /\ at[t] = "lock" /\ owner[handle[t]] = Nobody
      /\ owner' = [owner EXCEPT ![handle[t]] = t]
      /\ at' = [at EXCEPT ![t] = "sinks"]
      /\ UNCHANGED <<handle, todo, lines>>
  BY DEF LockSinks
<1>2. /\ at \in [Threads -> {"idle", "stuck", "lock", "sinks", "destroy"}]
      /\ owner \in [{Default, Sync} -> Threads \cup {Nobody}]
      /\ handle[t] \in {Default, Sync}
      /\ Nobody \notin Threads
  BY <1>1, LoggerAssumption DEF LogInv, LogTypeOK, SyncTypeOK, InOnePlace
<1>3. \A l \in {Default, Sync} : owner[l] # t
  BY <1>1, <1>2 DEF SinksInv, OwnersWrite
<1>4. OwnersWrite'
  BY <1>1, <1>2, <1>3 DEF SinksInv, OwnersWrite
<1>5. todo[t].sinks = SinksOf[handle[t]]
  BY <1>1 DEF SinksInv, LeftToWrite
<1>6. /\ SinksOf[Sync] = <<"console", "file">>
      /\ SinksOf[Default] = <<"console">>
      /\ <<"console", "file">> # <<"file">>
  BY Names3 DEF SinksOf
<1>7. LeftToWrite'
  BY <1>1, <1>2, <1>5, <1>6 DEF SinksInv, LeftToWrite
<1>8. InStep'
  <2>1. CASE handle[t] = Sync
    BY <1>1, <1>2, <1>5, <1>6, <2>1 DEF SinksInv, InStep
  <2>2. CASE handle[t] = Default
    BY <1>1, <1>2, <2>2, Names3 DEF SinksInv, InStep
  <2> QED
    BY <1>2, <2>1, <2>2
<1> QED
  BY <1>4, <1>7, <1>8 DEF SinksInv

(* ... with each it writes the console, then the file, ...                 *)
LEMMA RunSinkerSinks ==
  ASSUME LogInv, SinksInv, NEW t \in Threads, RunSinker(t)
  PROVE  SinksInv'
<1> DEFINE sink == Head(todo[t].sinks)
           line == <<handle[t], todo[t].m>>
<1>1. /\ at[t] = "sinks" /\ todo[t].sinks # <<>>
      /\ lines' = [lines EXCEPT ![sink] = Append(lines[sink], line)]
      /\ todo' = [todo EXCEPT ![t].sinks = Tail(@)]
      /\ UNCHANGED <<handle, at, owner>>
  BY DEF RunSinker
<1>2. /\ todo \in [Threads -> [m : Msgs \cup {NoMsg}, sinks : Seq({"console", "file"})]]
      /\ handle[t] \in {Default, Sync}
      /\ todo[t].m \in Msgs
      /\ Nobody \notin Threads
  BY <1>1, LoggerAssumption DEF LogInv, LogTypeOK, SyncTypeOK, InOnePlace
<1> DEFINE T == {Default, Sync} \X Msgs
<1>3. /\ line \in T /\ line[1] = handle[t]
      /\ lines["console"] \in Seq(T)
      /\ lines["file"] \in Seq(T)
      /\ DOMAIN lines = {"console", "file"}
  BY <1>2 DEF LogInv, LogTypeOK, SyncTypeOK
<1>4. owner[handle[t]] = t
  BY <1>1 DEF SinksInv, OwnersWrite
<1>5. OwnersWrite'
  BY <1>1 DEF SinksInv, OwnersWrite
<1>6. /\ \A u \in Threads : u # t => todo'[u] = todo[u]
      /\ todo'[t].m = todo[t].m
      /\ todo'[t].sinks = Tail(todo[t].sinks)
  BY <1>1, <1>2
<1>7. /\ handle[t] = Sync => todo[t].sinks \in {<<"console", "file">>, <<"file">>}
      /\ handle[t] # Sync => todo[t].sinks = <<"console">>
  BY <1>1 DEF SinksInv, LeftToWrite
<1>8. /\ Tail(<<"console", "file">>) = <<"file">> /\ Head(<<"console", "file">>) = "console"
      /\ Tail(<<"file">>) = <<>> /\ Head(<<"file">>) = "file"
      /\ Tail(<<"console">>) = <<>> /\ Head(<<"console">>) = "console"
      /\ <<"console", "file">> # <<"file">> /\ <<"file">> # <<>>
  OBVIOUS
<1> HIDE DEF sink, line, T
<1>9. LeftToWrite'
  <2>1. todo'[t].sinks \in IF handle[t] = Sync THEN {<<"console", "file">>, <<"file">>, <<>>}
                           ELSE {<<"console">>, <<>>}
    BY <1>6, <1>7, <1>8
  <2> QED
    BY <1>1, <1>6, <2>1 DEF SinksInv, LeftToWrite
<1>10. InStep'
  <2>1. CASE handle[t] = Sync /\ todo[t].sinks = <<"console", "file">>
    <3>1. /\ lines'["console"] = Append(lines["console"], line)
          /\ lines'["file"] = lines["file"]
      BY <1>1, <1>3, <1>8, <2>1 DEF sink
    <3>2. OfSync(lines'["console"]) = Append(OfSync(lines["console"]), line)
      BY <1>3, <2>1, <3>1, OfSyncAppend
    <3>3. OfSync(lines["console"]) = OfSync(lines["file"])
      BY <1>4, <1>8, <2>1 DEF SinksInv, InStep
    <3> QED
      BY <1>1, <1>2, <1>4, <1>6, <1>8, <2>1, <3>1, <3>2, <3>3 DEF InStep, line
  <2>2. CASE handle[t] = Sync /\ todo[t].sinks = <<"file">>
    <3>1. /\ lines'["file"] = Append(lines["file"], line)
          /\ lines'["console"] = lines["console"]
      BY <1>1, <1>3, <1>8, <2>2 DEF sink
    <3>2. OfSync(lines'["file"]) = Append(OfSync(lines["file"]), line)
      BY <1>3, <2>2, <3>1, OfSyncAppend
    <3>3. OfSync(lines["console"]) = Append(OfSync(lines["file"]), line)
      BY <1>2, <1>4, <2>2 DEF SinksInv, InStep, line
    <3> QED
      BY <1>1, <1>2, <1>4, <1>6, <1>8, <2>2, <3>1, <3>2, <3>3 DEF InStep
  <2>3. CASE handle[t] = Default
    <3>1. /\ lines'["console"] = Append(lines["console"], line)
          /\ lines'["file"] = lines["file"]
      BY <1>1, <1>3, <1>7, <1>8, <2>3, Names3 DEF sink
    <3>2. OfSync(lines'["console"]) = OfSync(lines["console"])
      BY <1>3, <2>3, <3>1, OfSyncAppend, Names3
    <3>3. owner[Sync] # t
      BY <1>2, <2>3, Names3 DEF SinksInv, OwnersWrite
    <3>4. owner[Sync] # Nobody => todo'[owner[Sync]] = todo[owner[Sync]]
      BY <1>6, <3>3 DEF LogInv, LogTypeOK, SyncTypeOK
    <3> QED
      BY <1>1, <3>1, <3>2, <3>4 DEF SinksInv, InStep
  <2> QED
    BY <1>2, <1>7, <2>1, <2>2, <2>3
<1> QED
  BY <1>5, <1>9, <1>10 DEF SinksInv

(* ... and has written both when it lets go.                               *)
LEMMA UnlockSinksSinks ==
  ASSUME LogInv, SinksInv, NEW t \in Threads, UnlockSinks(t)
  PROVE  SinksInv'
<1>1. /\ at[t] = "sinks" /\ todo[t].sinks = <<>>
      /\ owner' = [owner EXCEPT ![handle[t]] = Nobody]
      /\ todo' = [todo EXCEPT ![t] = Nothing]
      /\ at' = [at EXCEPT ![t] = "idle"]
      /\ UNCHANGED <<handle, lines>>
  BY DEF UnlockSinks
<1>2. /\ at \in [Threads -> {"idle", "stuck", "lock", "sinks", "destroy"}]
      /\ owner \in [{Default, Sync} -> Threads \cup {Nobody}]
      /\ todo \in [Threads -> [m : Msgs \cup {NoMsg}, sinks : Seq({"console", "file"})]]
      /\ handle[t] \in {Default, Sync}
      /\ Nobody \notin Threads
  BY <1>1, LoggerAssumption DEF LogInv, LogTypeOK, SyncTypeOK, InOnePlace
<1>3. \A l \in {Default, Sync} : owner[l] = t <=> l = handle[t]
  BY <1>1, <1>2 DEF SinksInv, OwnersWrite
<1>4. OwnersWrite'
  BY <1>1, <1>2, <1>3 DEF SinksInv, OwnersWrite
<1>5. LeftToWrite'
  BY <1>1, <1>2 DEF SinksInv, LeftToWrite
<1>6. InStep'
  <2>1. CASE handle[t] = Sync
    <3>1. <<"file">> # <<>>
      OBVIOUS
    <3>2. OfSync(lines["console"]) = OfSync(lines["file"])
      BY <1>1, <1>3, <2>1, <3>1 DEF SinksInv, InStep
    <3> QED
      BY <1>1, <1>2, <2>1, <3>2 DEF InStep
  <2>2. CASE handle[t] = Default
    <3>1. owner'[Sync] = owner[Sync] /\ owner[Sync] # t
      BY <1>1, <1>2, <1>3, <2>2, Names3
    <3>2. owner[Sync] # Nobody => todo'[owner[Sync]] = todo[owner[Sync]]
      BY <1>1, <1>2, <3>1
    <3> QED
      BY <1>1, <3>1, <3>2 DEF SinksInv, InStep
  <2> QED
    BY <1>2, <2>1, <2>2
<1> QED
  BY <1>4, <1>5, <1>6 DEF SinksInv

(* Every step keeps the sinks in step.                                     *)
LEMMA SinksStep ==
  ASSUME LogInv, SinksInv, [LogNext]_logVars
  PROVE  SinksInv'
<1> USE DEF LogInv, LogTypeOK
<1>1. ASSUME NEW t \in Threads,
             Registry(t) \/ Drop(t) \/ DropLast(t) \/ Destroy(t)
      PROVE  /\ UNCHANGED <<owner, todo, lines>>
             /\ \A u \in Threads :
                  \/ at'[u] = at[u] /\ handle'[u] = handle[u]
                  \/ {at[u], at'[u]} \cap {"lock", "sinks"} = {}
  <2>1. /\ at \in [Threads -> {"idle", "stuck", "lock", "sinks", "destroy"}]
        /\ handle \in [Threads -> Built \cup {Default, Nobody}]
    BY DEF SyncTypeOK, RegTypeOK
  <2>2. /\ at[t] \in {"idle", "destroy"}
        /\ UNCHANGED <<owner, todo, lines>>
        /\ \/ at' = at
           \/ at' = [at EXCEPT ![t] = "stuck"]
           \/ at' = [at EXCEPT ![t] = "destroy"]
           \/ at' = [at EXCEPT ![t] = "idle"]
        /\ handle' = handle \/ \E l : handle' = [handle EXCEPT ![t] = l]
    BY <1>1
    DEF Registry, DefaultConsoleLogger, GetListed, GetUnlisted, BuildLocal,
        BuildGlobal, Drop, DropLast, Destroy, Free, syncVars
  <2> QED
    BY <2>1, <2>2
<1>2. ASSUME UNCHANGED <<handle, at, syncVars>>
      PROVE  SinksInv'
  BY <1>2, ElsewhereSinks DEF syncVars
<1>3. ASSUME NEW t \in Threads, NEW m \in Msgs, LogAsync(t, m)
      PROVE  SinksInv'
  BY <1>2, <1>3 DEF LogAsync
<1>4. ASSUME NEW t \in Threads, OutPut(t)
      PROVE  SinksInv'
  BY <1>4, LockSinksSinks, RunSinkerSinks, UnlockSinksSinks DEF OutPut
<1>5. ASSUME NEW t \in Threads,
             Registry(t) \/ Drop(t) \/ DropLast(t) \/ Destroy(t)
      PROVE  SinksInv'
  BY <1>1, <1>5, ElsewhereSinks
<1>6. CASE LogNext
  BY <1>2, <1>3, <1>4, <1>5, <1>6, LogSyncSinks
  DEF LogNext, Continue, InCtrl, Background
<1>7. CASE UNCHANGED logVars
  BY <1>2, <1>7 DEF logVars
<1> QED
  BY <1>6, <1>7

(* The mutex around all sinks is enough: however threads log, the file has *)
(* what the console has in the same order, and lags behind by at most one. *)
THEOREM SinksAlwaysAgree == LogSpec => []SinksAgree
<1>1. ASSUME LogInv, SinksInv PROVE SinksAgree
  <2> DEFINE T == {Default, Sync} \X Msgs
             console == OfSync(lines["console"])
             file == OfSync(lines["file"])
  <2>1. console \in Seq(T) /\ file \in Seq(T)
    <3>1. lines["console"] \in Seq(T) /\ lines["file"] \in Seq(T)
      BY <1>1 DEF LogInv, LogTypeOK, SyncTypeOK
    <3> QED
      BY <3>1, OfSyncEquation
  <2>2. CASE console = file
    BY <2>1, <2>2, SubSeqFull DEF SinksAgree
  <2>3. CASE owner[Sync] # Nobody /\ \E x : console = Append(file, x)
    BY <2>1, <2>3 DEF SinksAgree
  <2> QED
    BY <1>1, <2>2, <2>3 DEF SinksInv, InStep
<1> QED
  BY <1>1, LogInitSinks, SinksStep, LogInvariant, PTL DEF LogSpec

=============================================================================
