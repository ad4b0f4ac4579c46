--------------------------- MODULE MCFaultHistory ---------------------------
(* Instances of FaultHistory for TLC: four faults, so that a fault is moved to
   the front from the middle, from the end and from the head of a list. *)
EXTENDS FaultHistory
=============================================================================
