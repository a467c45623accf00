----------------------------- MODULE LogChannel -----------------------------
(***************************************************************************)
(* What an asynchronous logger promises, without its buffers: messages are *)
(* accepted in some order and come out in that order, none of them twice.  *)
(* The channel may be closed; what was accepted before that is owed, what  *)
(* slips in later may come out or not.                                     *)
(***************************************************************************)
EXTENDS Naturals, Sequences

CONSTANT Msgs

VARIABLES accepted,  \* the messages, in the order of their acceptance
          written,   \* how many of them have come out
          closed,    \* whether the channel has been closed
          atClose    \* how many had been accepted by then, 0 before

channel == <<accepted, written, closed, atClose>>

ChannelInit ==
  /\ accepted = <<>>
  /\ written = 0
  /\ closed = FALSE
  /\ atClose = 0

Accept(m) ==
  /\ accepted' = Append(accepted, m)
  /\ UNCHANGED <<written, closed, atClose>>

(* Some of what is waiting comes out, oldest first.                        *)
Write ==
  /\ written' \in written + 1 .. Len(accepted)
  /\ UNCHANGED <<accepted, closed, atClose>>

Close ==
  /\ ~closed
  /\ closed' = TRUE
  /\ atClose' = Len(accepted)
  /\ UNCHANGED <<accepted, written>>

ChannelNext == Write \/ Close \/ \E m \in Msgs : Accept(m)

Owed == IF closed THEN atClose ELSE Len(accepted)

WriteOwed == written < Owed /\ Write

ChannelSafe == ChannelInit /\ [][ChannelNext]_channel

(* What is owed comes out.                                                 *)
ChannelSpec == ChannelSafe /\ WF_channel(WriteOwed)

=============================================================================
