------------------------------- MODULE MCLink -------------------------------
(* The instance of Link that TLC checks: two floors, one button that is pressed
   and one station that answers for sure; a reply has one millisecond to come. *)
EXTENDS Link
MCreply_timeout == [c \in Channel |-> 2]
=============================================================================
