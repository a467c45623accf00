---------------------------- MODULE MCGamePages -----------------------------
(* Instances of GamePages for TLC.                                         *)
EXTENDS GamePages

CONSTANTS u1, u2, c1, c2, c3

Two == {u1, u2}

(* The first player has a second page, which he opens after the first, or  *)
(* while that closes.                                                      *)
Three  == {c1, c2, c3}
Owners == [c \in Conns |-> IF c = c2 THEN u2 ELSE u1]

(* Wide enough that no run meets its ends.                                 *)
Band == {1000 + 30 * k : k \in -10 .. 10}

=============================================================================
