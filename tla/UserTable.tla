----------------------------- MODULE UserTable ------------------------------
(***************************************************************************)
(* Class UserTable (src/database.hpp): the MySQL table of the players, as  *)
(* far as a finished game and the matching of players read or change it.   *)
(* A row holds the score and the numbers of games played and won.          *)
(***************************************************************************)
EXTENDS Integers, UserIds

CONSTANTS Scores,    \* the scores a row may hold (a bound on the play modelled)
          DbMayFail  \* whether a query may fail (util::mysql::exec returns false)

ASSUME UserTableAssumption ==
  /\ 1000 \in Scores
  /\ Scores \subseteq Int
  /\ DbMayFail \in BOOLEAN

VARIABLE table       \* uid -> row of table "user"

Row == [score : Scores, pkCnt : Nat, winCnt : Nat]

TableTypeOK == table \in [Uids -> Row]

(* AddtUser inserts (1000, 0, 0).                                          *)
NewUser == [score |-> 1000, pkCnt |-> 0, winCnt |-> 0]

TableInit == table = [u \in Uids |-> NewUser]

-----------------------------------------------------------------------------

(* Whether a query succeeds.                                               *)
QueryResults == IF DbMayFail THEN BOOLEAN ELSE {TRUE}

(* "score=score+30, pk_cnt=pk_cnt+1, win_cnt=win_cnt+1 where id=%ld"       *)
Win(t, id) ==
  [t EXCEPT ![id] = [score |-> @.score + 30, pkCnt |-> @.pkCnt + 1,
                     winCnt |-> @.winCnt + 1]]

(* Variant for the mutation runs: a lost game is not counted.              *)
LoseUncounted(t, id) == [t EXCEPT ![id].score = @ - 30]

(* "score=score-30, pk_cnt=pk_cnt+1 where id=%ld"                          *)
Lose(t, id) ==
  [t EXCEPT ![id] = [score |-> @.score - 30, pkCnt |-> @.pkCnt + 1,
                     winCnt |-> @.winCnt]]

=============================================================================
