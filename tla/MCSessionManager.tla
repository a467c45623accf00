-------------------------- MODULE MCSessionManager --------------------------
(* Instances of SessionManager for TLC: three logins, each session set up  *)
(* to a bounded number of times.                                           *)
EXTENDS SessionManager

=============================================================================
