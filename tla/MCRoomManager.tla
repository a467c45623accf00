--------------------------- MODULE MCRoomManager ----------------------------
(* Instances of RoomManager for TLC.                                       *)
EXTENDS RoomManager, TLC

CONSTANTS u1, u2, u3, conn

Two   == {u1, u2}
Three == {u1, u2, u3}

OneConn == {conn}

(* Wide enough that no run meets its ends.                                 *)
Band == {1000 + 30 * k : k \in -6 .. 6}

Permuted == Permutations(Uids)

=============================================================================
