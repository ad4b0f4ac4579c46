------------------------------- MODULE MCLift -------------------------------
(* Three floors; what may disturb the service of calls, and what may happen   *)
(* under inspection and rescue.                                               *)
EXTENDS Lift

Normal == {{}}
AllModes == SUBSET {"mnt", "ersin"}
InService == {"Estop", "lock", "h_open", "h_close", "light_curtain", "device_off", "ow",
              "fast", "slow", "stopping", "cam", "fault", "power", "reopen"}
InMaintenance == {"lock", "isEnabled", "fw", "stopping", "ersc_toff", "fault"}
=============================================================================
