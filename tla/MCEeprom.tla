------------------------------ MODULE MCEeprom ------------------------------
(* The instance of EepromQueue that TLC checks: a write of three parts, one that
   ends with its page, one of a single byte, and a read over several pages. *)
EXTENDS EepromQueue
MCOperation == {[rw |-> 0, start |-> 1, len |-> 4], [rw |-> 0, start |-> 2, len |-> 2],
                [rw |-> 0, start |-> 5, len |-> 1], [rw |-> 1, start |-> 0, len |-> 5]}
=============================================================================
