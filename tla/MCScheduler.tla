---------------------------- MODULE MCScheduler ----------------------------
(* Instances of Scheduler for TLC. *)
EXTENDS Scheduler

\* One registration of each kind main() makes: periodic with overdue
\* (vfd_states_handler), periodic without (inverter_check_dcbus_val_handler),
\* one-off (speedLoop_init_timer), and request_init_selector, which deletes
\* itself; delay 0 is that of ST1_LED and u_glcd_screen_updater.
MCRegistrations ==
  << [delay |-> 0, period |-> 2, overdue |-> TRUE],
     [delay |-> 1, period |-> 1, overdue |-> FALSE],
     [delay |-> 1, period |-> 0, overdue |-> TRUE],
     [delay |-> 0, period |-> 3, overdue |-> TRUE] >>

MCSelfDeleting == {4}
=============================================================================
