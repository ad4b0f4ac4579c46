------------------------------- MODULE MCErsd -------------------------------
(* Small delays for TLC: each is below, at and past its limit. *)
EXTENDS Ersd
=============================================================================
