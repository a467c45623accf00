-------------------------- MODULE MCLoggerManager ---------------------------
(* Instances of LoggerManager for TLC.                                     *)
EXTENDS LoggerManager

CONSTANTS t1, t2, short, long, huge, n1, n2

Two == {t1, t2}

(* A buffer of two bytes: two short messages or a long one; the huge one   *)
(* never fits.                                                             *)
AllMsgs   == {short, long, huge}
Sizes     == [m \in Msgs |-> CASE m = short -> 1 [] m = long -> 2 [] m = huge -> 3]
Levels    == [m \in Msgs |-> IF m = huge THEN 0 ELSE 1]

(* Both loggers claim the same name; n2 is nobody's.                       *)
TwoNames  == {n1, n2}
SameName  == [l \in Built |-> n1]
MinLevels == [l \in Built \cup {Default} |-> IF l = Sync THEN 1 ELSE 0]

=============================================================================
