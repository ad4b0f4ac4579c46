------------------------------ MODULE MCDrive ------------------------------
(* Small delays for TLC: each phase of a start and of a stop takes a call or  *)
(* two of the handler, and a timer can be at its limit, below it or past it.  *)
EXTENDS Drive
=============================================================================
