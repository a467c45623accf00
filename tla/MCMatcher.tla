----------------------------- MODULE MCMatcher ------------------------------
(* Instances of Matcher for TLC.                                           *)
EXTENDS Matcher, TLC

CONSTANTS u1, u2, u3, c1, c2

Two   == {u1, u2}
Three == {u1, u2, u3}

OneConn  == {c1}
TwoConns == {c1, c2}

(* The scores of players who have won or lost once; 1000 and above is      *)
(* silver, below is bronze.                                                *)
Band == {970, 1000, 1030}

(* Nobody ever changes queue.                                              *)
Flat == {1000}

Permuted == Permutations(Uids)

=============================================================================
