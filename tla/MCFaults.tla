------------------------------ MODULE MCFaults ------------------------------
(* An instance of Faults for TLC: a fault of each class the firmware uses, set
   at the levels that set it there. *)
EXTENDS Faults

\* fault_sc_idx, fault_oc_idx and fault_ctb_idx, for instance; the fourth finds
\* the table full, as fault_dis_dev_idx does.
MCRegistrations ==
  << [type |-> "STOP_IMMEDIATE", timeout |-> 1],
     [type |-> "T_STOP_IMMEDIATE", timeout |-> 1],
     [type |-> "T_POS_FAULT", timeout |-> 1],
     [type |-> "T_POS_FAULT", timeout |-> 1] >>

\* The main loop, the current loop with the speed loop, and the PWM faults: the
\* short circuit is found both in the current readings and by the PWM's input.
MCMaySet == << {3, 4}, {1, 2}, {1} >>
=============================================================================
