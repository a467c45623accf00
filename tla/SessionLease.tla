---------------------------- MODULE SessionLease ----------------------------
(***************************************************************************)
(* What the session management of src/session.hpp promises, without timers *)
(* and callbacks: a login is granted a lease; the lease is temporary or,   *)
(* in the hall and in a room, permanent; a temporary lease ends when it is *)
(* not renewed, a permanent one does not end, and an ended one never comes *)
(* back.                                                                   *)
(***************************************************************************)
EXTENDS Integers

CONSTANT MaxSids     \* bound: logins

Sids == 1 .. MaxSids

VARIABLE lease       \* sid -> "none", "timeout", "forever" or "gone"

Terms == {"timeout", "forever"}

LeaseTypeOK == lease \in [Sids -> Terms \cup {"none", "gone"}]

LeaseInit == lease = [s \in Sids |-> "none"]

Grant(s)    == lease[s] = "none" /\ lease' = [lease EXCEPT ![s] = "timeout"]
Renew(s, m) == lease[s] \in Terms /\ lease' = [lease EXCEPT ![s] = m]
End(s)      == lease[s] = "timeout" /\ lease' = [lease EXCEPT ![s] = "gone"]

LeaseNext ==
  \E s \in Sids : Grant(s) \/ End(s) \/ \E m \in Terms : Renew(s, m)

LeaseSafe == LeaseInit /\ [][LeaseNext]_lease

(* A lease that stays temporary ends.  A renewal that leaves it temporary  *)
(* is no step here: of a client who renews for ever this asks too much.    *)
LeaseSpec == LeaseSafe /\ \A s \in Sids : WF_lease(End(s))

=============================================================================
