--------------------------- MODULE MCTableHandle ----------------------------
(* Instances of TableHandle for TLC.                                       *)
EXTENDS TableHandle

CONSTANTS u1, u2, t1, t2

Two      == {u1, u2}
OneTier  == {t1}
TwoTiers == {t1, t2}

(* Small stand-ins for the numbers: a player who can fall below zero, and  *)
(* scores on both sides of BRONZE_SCORE.                                   *)
Band == {-20, 10, 40, 70, 1000, 1030, 970}

(* u1 has lost many games; u2 is not registered yet.                       *)
OneLoser ==
  [u \in Uids |-> IF u = u1 THEN [score |-> 10, pkCnt |-> 33, winCnt |-> 0]
                  ELSE Nothing]

=============================================================================
