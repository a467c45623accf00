--------------------------- MODULE SessionManager ---------------------------
(***************************************************************************)
(* Class SessionManager (src/session.hpp) with the timers it sets on the   *)
(* event loop.  Everything runs on the thread of that loop: a handler of   *)
(* the server, or a timer callback, is one step.                           *)
(*                                                                         *)
(* Cancelling a timer does not keep its callback from running: the loop    *)
(* runs it with an error code, which std::bind drops, so RemoveSession is  *)
(* called all the same, some steps later.  SetSessionTime makes up for it  *)
(* with a timer of 0 ms that inserts the session again.  removals and      *)
(* appends count the callbacks of both kinds that have not run yet.        *)
(***************************************************************************)
EXTENDS Integers

CONSTANTS MaxSids,   \* bound: logins
          MaxCalls   \* bound: calls of SetSessionTime per session

ASSUME SessionAssumption == MaxSids \in Nat /\ MaxCalls \in Nat

Sids == 1 .. MaxSids

SESSION_FOREVER == "forever"
SESSION_TIMEOUT == "timeout"
Times == {SESSION_FOREVER, SESSION_TIMEOUT}

VARIABLES nextSid,   \* _nextSid
          session,   \* _session: the sids it has
          tp,        \* the sids whose session has a timer, one not cancelled
          removals,  \* cancelled timers whose RemoveSession is yet to run
          appends,   \* 0 ms timers whose AppendSession is yet to run
          term,      \* history: the last time set on a session, "none" before
          calls      \* history: how often a time was set on it again

history == <<term, calls>>
smVars == <<nextSid, session, tp, removals, appends, history>>

SmInit ==
  /\ nextSid = 1
  /\ session = {}
  /\ tp = {}
  /\ removals = [s \in Sids |-> 0]
  /\ appends = [s \in Sids |-> 0]
  /\ term = [s \in Sids |-> "none"]
  /\ calls = [s \in Sids |-> 0]

-----------------------------------------------------------------------------
(* LoginHandler: CreateSession, and a first timer for the session.         *)
Login ==
  /\ nextSid \in Sids
  /\ nextSid' = nextSid + 1
  /\ session' = session \cup {nextSid}
  /\ tp' = tp \cup {nextSid}
  /\ term' = [term EXCEPT ![nextSid] = SESSION_TIMEOUT]
  /\ UNCHANGED <<removals, appends, calls>>

(* Variant for the mutation runs: cancel() taken at its name.              *)
CancelOnly(sid) ==
  /\ removals' = [removals EXCEPT ![sid] = @ + 1]
  /\ UNCHANGED appends

(* tp->cancel(), and a 0 ms timer to undo the effect.                      *)
Cancel(sid) ==
  /\ removals' = [removals EXCEPT ![sid] = @ + 1]
  /\ appends' = [appends EXCEPT ![sid] = @ + 1]

(* Variant for the mutation runs: a session that has no timer gets none.   *)
SetSessionTimeUntimed(sid, ms) ==
  /\ sid \in session
  /\ calls[sid] < MaxCalls                            \* bound
  /\ calls' = [calls EXCEPT ![sid] = @ + 1]
  /\ term' = [term EXCEPT ![sid] = ms]
  /\ tp' = IF ms = SESSION_FOREVER THEN tp \ {sid} ELSE tp
  /\ \/ sid \in tp /\ Cancel(sid)
     \/ sid \notin tp /\ UNCHANGED <<removals, appends>>
  /\ UNCHANGED <<nextSid, session>>

(* SetSessionTime, in its four cases, called by a handler that has found   *)
(* the session: a request renews it, a connection that opens makes it      *)
(* permanent, one that closes temporary.  A handler that does not find the *)
(* session gives up.                                                       *)
SetSessionTime(sid, ms) ==
  /\ sid \in session
  /\ calls[sid] < MaxCalls                            \* bound
  /\ calls' = [calls EXCEPT ![sid] = @ + 1]
  /\ term' = [term EXCEPT ![sid] = ms]
  /\ tp' = IF ms = SESSION_FOREVER THEN tp \ {sid} ELSE tp \cup {sid}
  /\ \/ sid \in tp /\ Cancel(sid)
     \/ sid \notin tp /\ UNCHANGED <<removals, appends>>
  /\ UNCHANGED <<nextSid, session>>

(* The callback of a cancelled timer.                                      *)
RunRemove(sid) ==
  /\ removals[sid] > 0
  /\ removals' = [removals EXCEPT ![sid] = @ - 1]
  /\ session' = session \ {sid}
  /\ UNCHANGED <<nextSid, tp, appends, history>>

(* Variant for the mutation runs: AppendSession is a repeated task.        *)
RunAppendAgain(sid) ==
  /\ appends[sid] >= removals[sid]
  /\ appends' = [appends EXCEPT ![sid] = @ - 1]
  /\ session' = session \cup {sid}
  /\ UNCHANGED <<nextSid, tp, removals, history>>

(* The callback of a 0 ms timer, which was set after the timer was         *)
(* cancelled and runs after its callback.                                  *)
RunAppend(sid) ==
  /\ appends[sid] > removals[sid]
  /\ appends' = [appends EXCEPT ![sid] = @ - 1]
  /\ session' = session \cup {sid}
  /\ UNCHANGED <<nextSid, tp, removals, history>>

(* Variant for the mutation runs: RemoveSession forgets to erase.          *)
ExpireOnly(sid) ==
  /\ sid \in tp
  /\ removals[sid] = 0 /\ appends[sid] = 0
  /\ tp' = tp \ {sid}
  /\ UNCHANGED <<nextSid, session, removals, appends, history>>

(* SESSION_TIMEOUT has passed since the timer was set, so every earlier    *)
(* callback has run.  The session is destroyed with its timer.             *)
Expire(sid) ==
  /\ sid \in tp
  /\ removals[sid] = 0 /\ appends[sid] = 0
  /\ session' = session \ {sid}
  /\ tp' = tp \ {sid}
  /\ UNCHANGED <<nextSid, removals, appends, history>>

SmNext ==
  \/ Login
  \/ \E s \in Sids, ms \in Times : SetSessionTime(s, ms)
  \/ \E s \in Sids : RunRemove(s) \/ RunAppend(s) \/ Expire(s)

SmSpec == SmInit /\ [][SmNext]_smVars

(* The event loop runs the callbacks that are due, and time passes.        *)
FairSmSpec ==
  /\ SmSpec
  /\ \A s \in Sids : /\ WF_smVars(RunRemove(s))
                     /\ WF_smVars(RunAppend(s))
                     /\ WF_smVars(Expire(s))

-----------------------------------------------------------------------------
(* Every variable keeps its type.                                          *)
SmTypeOK ==
  /\ nextSid \in 1 .. MaxSids + 1
  /\ session \subseteq Sids
  /\ tp \subseteq Sids
  /\ removals \in [Sids -> Nat]
  /\ appends \in [Sids -> Nat]
  /\ term \in [Sids -> Times \cup {"none"}]
  /\ calls \in [Sids -> Nat]

(* A session is alive in the map, or about to be inserted into it again.   *)
Alive(s) == s \in session \/ appends[s] > 0

(* The callbacks of cancelled timers never win over those that repair      *)
(* their effect: a session set to live forever is in the map or coming     *)
(* back to it, and with a timer in no state but the timed one.             *)
ForeverIsAlive ==
  \A s \in Sids : term[s] = SESSION_FOREVER => Alive(s) /\ s \notin tp

(* No session that is timed stays without a timer that will end it,        *)
(* whichever of the four cases of SetSessionTime it went through.          *)
TimedHasTimer ==
  \A s \in Sids : term[s] = SESSION_TIMEOUT /\ Alive(s) => s \in tp

(* SetSessionTime implements leases: seen from where sessions are alive,   *)
(* cancelled timers, late callbacks and re-insertions do not exist.        *)
Lease == INSTANCE SessionLease
  WITH lease <- [s \in Sids |->
                   IF s >= nextSid THEN "none"
                   ELSE IF Alive(s) THEN term[s] ELSE "gone"]

ImplementsLeaseSafe == Lease!LeaseSafe
ImplementsLease == Lease!LeaseSpec

=============================================================================
