------------------------------ MODULE UserIds -------------------------------
(* The user ids, shared by the components that keep something per user.    *)
(* MySQL's auto_increment starts at 1: no user has the id 0 that the code  *)
(* uses for "nobody".                                                      *)

EXTENDS FiniteSets

CONSTANT Uids

(* They are the rows of a table.                                           *)
ASSUME UidsAssumption == IsFiniteSet(Uids)

=============================================================================
