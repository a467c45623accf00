--------------------------- MODULE MCGomokuServer ---------------------------
(* Instances of GomokuServer for TLC.                                      *)
EXTENDS GomokuServer, TLC

CONSTANTS u1, u2, c1, c2, c3, c4, c5

Two == {u1, u2}

Three == {c1, c2, c3}
Five  == {c1, c2, c3, c4, c5}

Band == {1000 + 30 * k : k \in -3 .. 3}

(* Bound: at most one cancelled timer waits for its callbacks.  In module  *)
(* SessionManager's own run several of them overlap.                       *)
OneCancelPending ==
  \A s, t \in Sids :
    /\ appends[s] <= 1
    /\ appends[s] > 0 /\ appends[t] > 0 => s = t

Permuted == Permutations(Conns) \cup Permutations(Uids)

=============================================================================
