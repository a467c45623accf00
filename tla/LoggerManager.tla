--------------------------- MODULE LoggerManager ----------------------------
(***************************************************************************)
(* The loggers of mylog/logger.hpp and their registry LoggerManager: the   *)
(* threads of a program build loggers, look them up by name, log through   *)
(* them and drop them.  Three loggers: the default one and one more are    *)
(* SyncLoggers, which write to their sinks under a mutex of their own; the *)
(* third is an AsyncLogger, whose controller is module AsyncLoggerCtrl's.  *)
(*                                                                         *)
(* A logger lives as long as the registry or a thread has a pointer to it. *)
(* The last pointer to the AsyncLogger that goes runs the destructor of    *)
(* its controller, in the thread that dropped it.                          *)
(***************************************************************************)
EXTENDS AsyncLoggerCtrl

CONSTANTS Names,     \* the names of loggers
          NameOf,    \* the name each logger that is not the default is built with
          LevelOf,   \* Level::Value of a message
          MinLevel,  \* _minLevel of a logger
          MaxCalls,  \* bound: messages logged in all
          Nobody     \* no thread, no logger

Default == "default"
Sync    == "sync"
Async   == "async"
Built   == {Sync, Async}

(* The sinks of the two SyncLoggers; the AsyncLogger's are module          *)
(* AsyncLoggerCtrl's out.                                                  *)
SinksOf == [l \in {Default, Sync} |->
              IF l = Default THEN <<"console">> ELSE <<"console", "file">>]

ASSUME LoggerAssumption ==
  /\ NameOf \in [Built -> Names]
  /\ LevelOf \in [Msgs -> 0..4]
  /\ MinLevel \in [Built \cup {Default} -> 0..5]
  /\ MaxCalls \in Nat
  /\ Nobody \notin Threads \cup Built \cup {Default}

VARIABLES mutex,    \* _mtx of the registry: who holds it for ever, if anybody
          loggers,  \* _loggers: name -> logger, Nobody where absent
          made,     \* the loggers that have been built
          handle,   \* the logger each thread has a pointer to
          at,       \* what each thread does apart from AsyncLoggerCtrl::push
          owner,    \* _mutex of each SyncLogger: the thread in outPut
          todo,     \* what a thread in outPut still writes: logMsg and sinks
          calls,    \* number of messages logged
          lines     \* what the console and the file got: <<logger, message>>

regVars  == <<mutex, loggers, made>>
syncVars == <<owner, todo, lines>>
logVars  == <<ctrlVars, regVars, handle, at, syncVars, calls>>

Nothing == [m |-> NoMsg, sinks |-> <<>>]

LogInit ==
  /\ CtrlInit
  /\ mutex = Nobody
  /\ loggers = [n \in Names |-> Nobody]
  /\ made = {Default}
  /\ handle = [t \in Threads |-> Nobody]
  /\ at = [t \in Threads |-> "idle"]
  /\ owner = [l \in {Default, Sync} |-> Nobody]
  /\ todo = [t \in Threads |-> Nothing]
  /\ calls = 0
  /\ lines = [s \in {"console", "file"} |-> <<>>]

Free(t) == at[t] = "idle" /\ ppc[t] = "idle"

Unlocked == mutex = Nobody

-----------------------------------------------------------------------------
(* The registry.  A call holds _mtx and waits for nothing, so it is one    *)
(* step, but for the one that locks _mtx again.                            *)

(* defaultLogger() of mylog.h                                              *)
DefaultConsoleLogger(t) ==
  /\ Free(t) /\ handle[t] = Nobody
  /\ Unlocked
  /\ handle' = [handle EXCEPT ![t] = Default]
  /\ UNCHANGED <<ctrlVars, regVars, at, syncVars, calls>>

(* getLogger(n) of mylog.h, for a name that is listed,                     *)
GetListed(t, n) ==
  /\ Free(t) /\ handle[t] = Nobody
  /\ Unlocked
  /\ loggers[n] # Nobody
  /\ handle' = [handle EXCEPT ![t] = loggers[n]]
  /\ UNCHANGED <<ctrlVars, regVars, at, syncVars, calls>>

(* and for one that is not: get calls defaultConsoleLogger with _mtx in    *)
(* its hands, which waits for _mtx.                                        *)
GetUnlisted(t, n) ==
  /\ Free(t) /\ handle[t] = Nobody
  /\ Unlocked
  /\ loggers[n] = Nobody
  /\ mutex' = t
  /\ at' = [at EXCEPT ![t] = "stuck"]
  /\ UNCHANGED <<ctrlVars, loggers, made, handle, syncVars, calls>>

(* LocalLoggerBuilder::build gives the logger to its caller only,          *)
BuildLocal(t, l) ==
  /\ Free(t) /\ handle[t] = Nobody
  /\ l \notin made
  /\ made' = made \cup {l}
  /\ handle' = [handle EXCEPT ![t] = l]
  /\ UNCHANGED <<ctrlVars, mutex, loggers, at, syncVars, calls>>

(* unordered_map::insert keeps an older logger of the same name.           *)
InsertedFirst(l) ==
  [loggers EXCEPT ![NameOf[l]] = IF @ = Nobody THEN l ELSE @]

(* and GlobalLoggerBuilder::build lists it, too.                           *)
BuildGlobal(t, l) ==
  /\ Free(t) /\ handle[t] = Nobody
  /\ l \notin made
  /\ Unlocked
  /\ made' = made \cup {l}
  /\ loggers' = InsertedFirst(l)
  /\ handle' = [handle EXCEPT ![t] = l]
  /\ UNCHANGED <<ctrlVars, mutex, at, syncVars, calls>>

Registry(t) ==
  \/ DefaultConsoleLogger(t)
  \/ \E n \in Names : GetListed(t, n) \/ GetUnlisted(t, n)
  \/ \E l \in Built : BuildLocal(t, l) \/ BuildGlobal(t, l)

-----------------------------------------------------------------------------
(* debug, info, warn, error and fatal: a message below the level of the    *)
(* logger goes no further, the others are formatted and put out.           *)
levelAvailable(l, m) == LevelOf[m] >= MinLevel[l]

LogAsync(t, m) ==
  /\ at[t] = "idle"
  /\ handle[t] = Async
  /\ levelAvailable(Async, m)
  /\ calls < MaxCalls                                 \* bound
  /\ calls' = calls + 1
  /\ Call(t, m)
  /\ UNCHANGED <<regVars, handle, at, syncVars>>

LogSync(t, m) ==
  /\ Free(t)
  /\ handle[t] \in {Default, Sync}
  /\ levelAvailable(handle[t], m)
  /\ calls < MaxCalls                                 \* bound
  /\ calls' = calls + 1
  /\ at' = [at EXCEPT ![t] = "lock"]
  /\ todo' = [todo EXCEPT ![t] = [m |-> m, sinks |-> SinksOf[handle[t]]]]
  /\ UNCHANGED <<ctrlVars, regVars, handle, owner, lines>>

(* Variant for the mutation runs: the mutex is not taken.                  *)
LockNothing(t) ==
  /\ at[t] = "lock"
  /\ at' = [at EXCEPT ![t] = "sinks"]
  /\ UNCHANGED <<ctrlVars, regVars, handle, owner, todo, lines, calls>>

(* SyncLogger::outPut                                                      *)
LockSinks(t) ==
  /\ at[t] = "lock"
  /\ owner[handle[t]] = Nobody
  /\ owner' = [owner EXCEPT ![handle[t]] = t]
  /\ at' = [at EXCEPT ![t] = "sinks"]
  /\ UNCHANGED <<ctrlVars, regVars, handle, todo, lines, calls>>

RunSinker(t) ==
  /\ at[t] = "sinks"
  /\ todo[t].sinks # <<>>
  /\ lines' = [lines EXCEPT ![Head(todo[t].sinks)] =
                 Append(@, <<handle[t], todo[t].m>>)]
  /\ todo' = [todo EXCEPT ![t].sinks = Tail(@)]
  /\ UNCHANGED <<ctrlVars, regVars, handle, at, owner, calls>>

UnlockSinks(t) ==
  /\ at[t] = "sinks"
  /\ todo[t].sinks = <<>>
  /\ owner' = [owner EXCEPT ![handle[t]] = Nobody]
  /\ todo' = [todo EXCEPT ![t] = Nothing]
  /\ at' = [at EXCEPT ![t] = "idle"]
  /\ UNCHANGED <<ctrlVars, regVars, handle, lines, calls>>

OutPut(t) == LockSinks(t) \/ RunSinker(t) \/ UnlockSinks(t)

-----------------------------------------------------------------------------
(* A thread lets go of its pointer.                                        *)
Holders(l) == {t \in Threads : handle[t] = l}

(* The last pointer to the AsyncLogger.                                    *)
Last(t, l) == Holders(l) = {t} /\ \A n \in Names : loggers[n] # l

(* Variant for the mutation runs: in the middle of a call.                 *)
DropInside(t) ==
  /\ handle[t] # Nobody
  /\ ~(handle[t] = Async /\ Last(t, Async))
  /\ handle' = [handle EXCEPT ![t] = Nobody]
  /\ UNCHANGED <<ctrlVars, regVars, at, syncVars, calls>>

Drop(t) ==
  /\ Free(t) /\ handle[t] # Nobody
  /\ ~(handle[t] = Async /\ Last(t, Async))
  /\ handle' = [handle EXCEPT ![t] = Nobody]
  /\ UNCHANGED <<ctrlVars, regVars, at, syncVars, calls>>

(* Variant for the mutation runs: the destructor does not wait for other   *)
(* threads that have a pointer.                                            *)
DropAnyway(t) ==
  /\ Free(t)
  /\ handle[t] = Async
  /\ Stop
  /\ handle' = [handle EXCEPT ![t] = Nobody]
  /\ at' = [at EXCEPT ![t] = "destroy"]
  /\ UNCHANGED <<regVars, syncVars, calls>>

DropLast(t) ==
  /\ Free(t)
  /\ handle[t] = Async
  /\ Last(t, Async)
  /\ Stop
  /\ handle' = [handle EXCEPT ![t] = Nobody]
  /\ at' = [at EXCEPT ![t] = "destroy"]
  /\ UNCHANGED <<regVars, syncVars, calls>>

Destroy(t) ==
  /\ at[t] = "destroy"
  /\ \/ NotifyStop /\ UNCHANGED at
     \/ Join /\ at' = [at EXCEPT ![t] = "idle"]
  /\ UNCHANGED <<regVars, handle, syncVars, calls>>

-----------------------------------------------------------------------------

InCtrl(A) == A /\ UNCHANGED <<regVars, handle, at, syncVars, calls>>

(* What a thread does without being asked: its calls go on.                *)
Continue(t) == InCtrl(Push(t)) \/ OutPut(t) \/ Destroy(t)

(* The consumer's thread is started by the constructor.                    *)
Background == Async \in made /\ InCtrl(Consumer)

LogNext ==
  \/ \E t \in Threads :
       \/ Registry(t) \/ Drop(t) \/ DropLast(t) \/ Continue(t)
       \/ \E m \in Msgs : LogAsync(t, m) \/ LogSync(t, m)
  \/ Background
  \/ InCtrl(SpuriousWakeup)

LogSpec == LogInit /\ [][LogNext]_logVars

(* Every thread that can go on does; the program's own calls are its own   *)
(* business.  Nobody counts on spurious wakeups, and they do not come for  *)
(* ever, which could keep _mtx from a producer for ever.                   *)
FairLogSpec ==
  /\ LogSpec
  /\ <>[][~SpuriousWakeup]_logVars
  /\ WF_logVars(Background)
  /\ \A t \in Threads : WF_logVars(Continue(t))

-----------------------------------------------------------------------------
(* Every variable keeps its type, and a thread is in one place at a time.  *)
RegTypeOK ==
  /\ mutex \in Threads \cup {Nobody}
  /\ loggers \in [Names -> Built \cup {Nobody}]
  /\ made \subseteq Built \cup {Default}
  /\ handle \in [Threads -> Built \cup {Default, Nobody}]

SyncTypeOK ==
  /\ at \in [Threads -> {"idle", "stuck", "lock", "sinks", "destroy"}]
  /\ owner \in [{Default, Sync} -> Threads \cup {Nobody}]
  /\ todo \in [Threads -> [m : Msgs \cup {NoMsg}, sinks : Seq({"console", "file"})]]
  /\ lines \in [{"console", "file"} -> Seq({Default, Sync} \X Msgs)]
  /\ calls \in Nat

InOnePlace ==
  \A t \in Threads :
    /\ ppc[t] # "idle" => at[t] = "idle" /\ handle[t] = Async
    /\ at[t] \in {"lock", "sinks"} => handle[t] \in {Default, Sync}
    /\ todo[t].m # NoMsg <=> at[t] \in {"lock", "sinks"}

LogTypeOK == CtrlTypeOK /\ RegTypeOK /\ SyncTypeOK /\ InOnePlace

(* Pointers keep the controller alive: while its destructor runs nobody is *)
(* inside push, nor can anybody get there.                                 *)
StopFindsNobodyInside ==
  stoped => /\ \A t \in Threads : ppc[t] = "idle" /\ handle[t] # Async
            /\ \A n \in Names : loggers[n] # Async

(* The lines that came from the SyncLogger of two sinks.                   *)
OfSync(seq) ==
  LET of[i \in 0 .. Len(seq)] ==
        IF i = 0 THEN <<>>
        ELSE IF seq[i][1] = Sync THEN Append(of[i - 1], seq[i]) ELSE of[i - 1]
  IN  of[Len(seq)]

(* All sinks of a SyncLogger get the same messages in the same order,      *)
(* whoever logs through it at the same time; the one that is written to    *)
(* just now may lag behind by one.                                         *)
SinksAgree ==
  LET console == OfSync(lines["console"])
      file    == OfSync(lines["file"])
  IN  /\ Len(console) - Len(file) \in {0, 1}
      /\ file = SubSeq(console, 1, Len(file))
      /\ owner[Sync] = Nobody => Len(file) = Len(console)

(* A name means one logger for good.  (A second builder with the same name *)
(* gets a logger that nobody will find under it.)                          *)
NamesStay ==
  [][\A n \in Names : loggers[n] # Nobody => loggers'[n] = loggers[n]]_logVars

(* A thread that logs comes back whatever it meets in queues and mutexes,  *)
(* unless its message is longer than the buffer.                           *)
CallsReturn ==
  \A t \in Threads :
    at[t] \in {"lock", "sinks"} \/ (ppc[t] # "idle" /\ msg[t] # NoMsg)
      ~> \/ Free(t)
         \/ msg[t] # NoMsg /\ SizeOf[msg[t]] > BufferLen

(* A destructor that has begun comes to its end, unless it notifies in the *)
(* very moment in which the consumer has decided to sleep.                 *)
JoinsUnlessUnheard == dpc = "notify" ~> dpc = "joined" \/ unheard

=============================================================================
