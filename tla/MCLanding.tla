----------------------------- MODULE MCLanding -----------------------------
(* Three floors, a car whose ramps fit in half a floor.                       *)
EXTENDS Landing
=============================================================================
