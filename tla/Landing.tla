------------------------------ MODULE Landing ------------------------------
(* Direct landing (DIRECT_STOP): the car decelerates at points computed from  *)
(* the encoder (Lift/EMCM/EMCM.c) instead of by switches in the shaft.  The   *)
(* interrupt TC8 compares the position with the points and commands the       *)
(* drive; tasks of the main loop choose the destination, compute the points,  *)
(* correct the position at the limits and follow the states of auto_state.c.  *)
(* An operator takes the record of variables it works on to the record it     *)
(* leaves: c the lift's (Calls), x EMCM's with the encoder and the drive's    *)
(* references.  A chain of stores that the interrupt can come into is one     *)
(* step each (step).  The shaft is learned, and the encoder counts upwards.   *)
EXTENDS Calls

CONSTANTS
    SPAN,           \* positions from a floor to the next
    PLATE,          \* the level's plate reaches this far on both sides
    DECEL,          \* positions from full speed to the level
    DECEL2,         \* positions from creep speed to standstill
    ACCEL,          \* positions to full speed
    MARGIN,         \* enc_count_per_meter / 2
    LIMIT,          \* the direction limits are this far inside the end floors
    FINAL,          \* the final limits are this far outside
    TRIGGER,        \* forced_decel_error_trig
    ERROR,          \* the encoder's error at the start, at most
    COAST,          \* positions the car coasts under the brake, at most
    RELEVEL,        \* RELEVEL_DELAY_DSTOP, calls of auto_update
    MaxStops        \* emergency stops in a behaviour (a bound of the model)

ASSUME LandingAssumption ==
    /\ SPAN \in Nat \ {0} /\ DECEL \in Nat \ {0} /\ RELEVEL \in Nat \ {0}
    /\ {PLATE, DECEL2, ACCEL, MARGIN, LIMIT, FINAL, TRIGGER, ERROR, COAST, MaxStops} \subseteq Nat

VARIABLES
    lift,       \* the calls, the selector and the state of the lift
    emcm,       \* EMCM's variables, the encoder's theta, the drive's references
    step,       \* the store the main loop's task makes next, "none" between tasks
    temp,       \* temp_dest_floor
    pos,        \* where the car is: floor i is level at i * SPAN
    going,      \* the direction it moves in: -1, 0 or 1
    mstop,      \* the plate's terminal, as the inputs' task has read it
    due,        \* the tasks to come before the car has moved on by a position
    ticked,     \* the interrupt has come since the last step of a task
    stops,      \* how many emergency stops there were
    planned     \* the run began at a level, with an exact encoder, and has had
                \* room for every destination since (a history variable)

vars == <<lift, emcm, step, temp, pos, going, mstop, due, ticked, stops, planned>>

Sign(n) == IF n < 0 THEN -1 ELSE IF n > 0 THEN 1 ELSE 0
Abs(n) == IF n < 0 THEN -n ELSE n
Level(f) == f * SPAN
dirUplimit0 == Level(f_max) - LIMIT
dirDnlimit0 == LIMIT
upfl == pos >= Level(f_max) + FINAL
dnfl == pos <= -FINAL
\* the buffers
Shaft == (-FINAL - 1)..(Level(f_max) + FINAL + 1)
OnPlate == \E f \in Floors : Abs(pos - Level(f)) <= PLATE

\* reference speeds, with the sign of the direction
RELEVEL_SPEED == 1
CREEP_SPEED == 2
HIGH_SPEED == 3

----------------------------------------------------------------------------
(* The drive, as far as the landing sees it.                                  *)
vfd_set_ref_speed(x, r) ==
    [x EXCEPT !.ref = r, !.coast = IF r = 0 THEN DECEL2 ELSE 0,
              !.ramp = IF Abs(r) = HIGH_SPEED THEN ACCEL ELSE 0]
vfd_estop(x) ==
    [x EXCEPT !.ref = 0, !.coast = IF x.ref = 0 THEN @ ELSE COAST, !.ramp = 0]
vfd_is_constant_speed(x) == x.ref # 0 /\ x.ramp = 0
\* a short run reaches less speed and needs less to decelerate
vfd_get_Max_possible_speed(d) ==
    Sign(d) * (IF Abs(d) \div 2 < DECEL THEN Abs(d) \div 2 ELSE DECEL)

----------------------------------------------------------------------------
(* The interrupt.                                                             *)
Reached(x, point) ==
    IF x.speed_sign < 0 THEN x.enc_pos <= point ELSE x.enc_pos >= point
decelToStop(x) ==
    IF ~x.exit_hspd
    THEN IF Reached(x, x.decel_point)
         THEN [vfd_set_ref_speed(x, x.speed_sign * CREEP_SPEED) EXCEPT !.exit_hspd = TRUE]
         ELSE x
    ELSE IF ~x.exit_lspd /\ Reached(x, x.decel_point2)
         THEN [vfd_set_ref_speed(x, 0) EXCEPT !.exit_lspd = TRUE]
         ELSE x

\* the plate is met: its edge gives the position
mstp_met(x, f) ==
    LET y == [x EXCEPT !.theta = Level(f) - x.speed_sign * PLATE, !.correct_at_stop = FALSE]
    IN IF ~x.correct_at_stop THEN x
       ELSE IF x.stop_after_correction
            THEN [vfd_set_ref_speed(y, 0) EXCEPT !.stop_after_correction = FALSE]
            ELSE y

\* the car and its encoder go on by d; a task's steps are shorter than the time
\* between two interrupts
EMCM_decel_point_watch(d, way, coast) ==
    LET x == [emcm EXCEPT !.theta = @ + d, !.enc_pos = emcm.theta + d, !.coast = coast,
                          !.ramp = IF d # 0 /\ @ > 0 THEN @ - 1 ELSE @]
        met == lift.auto_counter = "lspd" /\ mstop
    IN /\ step = "none" \/ ~ticked
       /\ emcm' = IF met THEN mstp_met(decelToStop(x), get_current_floor(lift))
                  ELSE decelToStop(x)
       /\ lift' = [lift EXCEPT !.lspd_mstp_met = @ \/ met]
       /\ pos' = pos + d /\ going' = way
       /\ ticked' = (step # "none")
       /\ due' = IF d # 0 THEN {"EMCM_handler", "auto_update"} ELSE due \ {"TC8"}
       /\ UNCHANGED <<step, temp, mstop, stops, planned>>

\* the car moves by at most one position between two calls of a task, and not
\* before the interrupt has seen the plate
Driven ==
    LET way == IF emcm.ref # 0 THEN Sign(emcm.ref) ELSE going
    IN /\ way # 0 /\ due = {} /\ mstop = OnPlate /\ pos + way \in Shaft
       /\ emcm.ref = 0 => emcm.coast > 0
       /\ EMCM_decel_point_watch(way, way,
              IF emcm.ref = 0 THEN emcm.coast - 1 ELSE emcm.coast)
Stands ==
    /\ emcm.ref = 0 /\ going # 0
    /\ EMCM_decel_point_watch(0, 0, 0)
Watch == EMCM_decel_point_watch(0, going, emcm.coast)

----------------------------------------------------------------------------
(* EMCM_handler: the selector, and a new destination under way.               *)
\* from floor c, the levels passed one after another, then half a floor
\* (the half left out is a mutant)
SelectorWithoutMiddle(c, e) ==
    IF e >= Level(c) THEN Max({c} \cup {k \in Floors : k > c /\ e > Level(k)})
    ELSE Min({c} \cup {k \in Floors : k < c /\ e < Level(k)})
virsual_selector_conrol(c, e) ==
    LET up == Max({c} \cup {k \in Floors : k > c /\ e > Level(k)})
        down == Min({c} \cup {k \in Floors : k < c /\ e < Level(k)})
    IN IF e >= Level(c)
       THEN IF up < f_max /\ e > (Level(up) + Level(up + 1)) \div 2 THEN up + 1 ELSE up
       ELSE IF down > 0 /\ e < (Level(down) + Level(down - 1)) \div 2 THEN down - 1 ELSE down

Step(s, next) == step = s /\ step' = next /\ ticked' = FALSE
\* temp is a local variable
Store ==
    /\ temp' = IF step' = "none" THEN NoFloor ELSE temp
    /\ UNCHANGED <<pos, going, mstop, due, stops>>

EMCM_handler ==
    LET f == virsual_selector_conrol(get_current_floor(lift), emcm.enc_pos)
        s == get_scheduled_floor([lift EXCEPT !.selector_counter = 2 * f], FALSE)
        changes == s.floor >= 0 /\ ~emcm.exit_hspd /\ ~emcm.exit_lspd
    IN /\ Step("none", IF changes THEN "constant" ELSE "none")
       /\ lift' = s.c
       /\ temp' = IF changes THEN s.floor ELSE NoFloor
       /\ due' = due \ {"EMCM_handler"}
       /\ UNCHANGED <<emcm, pos, going, mstop, stops, planned>>

change_dest_floor_constant ==
    /\ Step("constant", IF vfd_is_constant_speed(emcm) /\ temp # emcm.dest_floor
                        THEN "room" ELSE "none")
    /\ Store /\ UNCHANGED <<lift, emcm, planned>>

Room(x) ==
    Abs(Level(x.dest_floor) - x.theta) > Abs(x.decel_displacement) + MARGIN
change_dest_floor_room ==
    /\ Step("room", IF Room(emcm) THEN "dest" ELSE "none")
    /\ Store /\ UNCHANGED <<lift, emcm, planned>>

\* the way to floor f, in the direction of the run
Ahead(x, f) == x.speed_sign * (Level(f) - x.theta)
change_dest_floor_dest ==
    /\ Step("dest", "point")
    /\ emcm' = [emcm EXCEPT !.dest_floor = temp]
    /\ planned' = (planned /\ Ahead(emcm, temp) >= Abs(emcm.decel_displacement))
    /\ Store /\ UNCHANGED lift
change_dest_floor_point ==
    /\ Step("point", "point2")
    /\ emcm' = [emcm EXCEPT !.decel_point = Level(emcm.dest_floor) - emcm.decel_displacement]
    /\ Store /\ UNCHANGED <<lift, planned>>
\* the second point stays (a mutant)
Point2Forgotten ==
    /\ Step("point2", "none")
    /\ Store /\ UNCHANGED <<lift, emcm, planned>>
change_dest_floor_point2 ==
    /\ Step("point2", "none")
    /\ emcm' = [emcm EXCEPT !.decel_point2 = Level(emcm.dest_floor) - emcm.decel_displacement2]
    /\ Store /\ UNCHANGED <<lift, planned>>

change_dest_floor ==
    \/ change_dest_floor_constant \/ change_dest_floor_room \/ change_dest_floor_dest
    \/ change_dest_floor_point \/ change_dest_floor_point2

----------------------------------------------------------------------------
(* auto_update: the states' functions, then direction_limits_check.           *)
auto_lspd_enter(c) == [c EXCEPT !.auto_counter = "lspd", !.relevel_counter = 0]
set_correct_atStop(x) == [x EXCEPT !.correct_at_stop = TRUE]

Becomes(c, x) == lift' = c /\ emcm' = x
Stop(c) == Becomes([c EXCEPT !.auto_counter = "stop"], vfd_estop(emcm))
Updated ==
    /\ due' = due \ {"auto_update"}
    /\ UNCHANGED <<temp, pos, going, mstop>>
Goes == UNCHANGED <<stops, planned>>

\* a wait that is longer than the brake takes, and in which the other tasks have
\* and the interrupt have seen where the car is
Settled ==
    /\ going = 0 /\ due \subseteq {"auto_update"}
    /\ mstop = OnPlate /\ emcm.enc_pos = emcm.theta
    /\ virsual_selector_conrol(get_current_floor(lift), emcm.enc_pos) = get_current_floor(lift)

\* stop and idle: a call starts the cam, with the drive stopped
auto_idle_exe ==
    LET s == get_scheduled_floor(lift, FALSE)
    IN /\ lift.auto_counter = "stop"
       /\ IF s.floor >= 0
          THEN Becomes([s.c EXCEPT !.auto_counter = "camtest"], vfd_estop(emcm))
          ELSE Becomes(s.c, emcm)
       /\ Step("none", "none") /\ Updated /\ Goes

\* the car is nearest to its destination: no profile, relevelling is to find it
auto_camtest_level ==
    LET s == get_scheduled_floor(lift, FALSE)
    IN /\ lift.auto_counter = "camtest" /\ Settled
       /\ s.floor = get_current_floor(lift)
       /\ Becomes(auto_lspd_enter(s.c), set_correct_atStop(emcm))
       /\ planned' = FALSE
       /\ Step("none", "limits") /\ Updated /\ UNCHANGED stops
\* a run: set_Hspeed_profile computes the points, ...
auto_hspd_enter ==
    LET s == get_scheduled_floor(lift, FALSE)
        d == Level(s.floor) - emcm.enc_pos
        displacement == vfd_get_Max_possible_speed(d)
        stopping == Sign(d) * DECEL2
    IN /\ lift.auto_counter = "camtest" /\ Settled
       /\ s.floor \in Floors \ {get_current_floor(lift)}
       /\ Becomes([s.c EXCEPT !.auto_counter = "hspd", !.lspd_mstp_met = FALSE],
                  [emcm EXCEPT !.dest_floor = s.floor,
                               !.decel_displacement = displacement,
                               !.decel_displacement2 = stopping,
                               !.decel_point = Level(s.floor) - displacement,
                               !.decel_point2 = Level(s.floor) - stopping])
       /\ planned' = (mstop /\ emcm.theta = pos)
       /\ Step("none", "accel") /\ Updated /\ UNCHANGED stops
\* ... then commands the drive, and then lets the interrupt look for them
set_Hspeed_profile_accel ==
    LET s == Sign(emcm.decel_displacement)
    IN /\ Step("accel", "clear")
       /\ emcm' = vfd_set_ref_speed([emcm EXCEPT !.speed_sign = s], s * HIGH_SPEED)
       /\ Store /\ UNCHANGED <<lift, planned>>
set_Hspeed_profile_clear ==
    /\ Step("clear", "limits")
    /\ Becomes([lift EXCEPT !.Dstop_speed_sign = emcm.speed_sign],
               [emcm EXCEPT !.exit_hspd = FALSE, !.exit_lspd = FALSE, !.corrected = FALSE,
                            !.correct_at_stop = FALSE])
    /\ Store /\ UNCHANGED planned

Runs == lift.auto_counter \in {"hspd", "lspd", "stopping"}
\* the door's contact opens
EmergencyStop ==
    /\ Runs /\ stops < MaxStops
    /\ Stop(lift)
    /\ Step("none", "none") /\ Updated
    /\ stops' = stops + 1 /\ planned' = FALSE
FinalLimit == IF lift.direction_up THEN upfl ELSE dnfl
FinalStop ==
    /\ Runs /\ FinalLimit
    /\ Stop(drop_all_req(lift))
    /\ Step("none", "none") /\ Updated
    /\ planned' = FALSE /\ UNCHANGED stops

auto_hspd_exe ==
    LET s == get_scheduled_floor(lift, FALSE)
    IN /\ lift.auto_counter = "hspd" /\ ~FinalLimit
       /\ IF s.floor < 0 THEN Becomes(pos_next_floor(s.c), emcm)
          ELSE IF s.floor = get_current_floor(lift) /\ emcm.exit_hspd
               THEN Becomes(auto_lspd_enter(s.c), set_correct_atStop(emcm))
               ELSE Becomes(s.c, emcm)
       /\ Step("none", "limits") /\ Updated /\ Goes

\* at the plate the lift stops; beside it, the lift waits, longer than the drive
\* takes to stop, and relevels
auto_lspd_exe ==
    LET dropped == drop_req(lift, get_current_floor(lift))
        back == IF lift.lspd_mstp_met THEN -1 ELSE 1
    IN /\ lift.auto_counter = "lspd" /\ ~FinalLimit
       /\ IF mstop
          THEN Becomes([dropped EXCEPT !.auto_counter = "stopping"], emcm)
               /\ Step("none", "none")
          ELSE IF emcm.ref # 0 THEN Becomes(lift, emcm) /\ Step("none", "limits")
          ELSE IF lift.relevel_counter < RELEVEL
          THEN Becomes([dropped EXCEPT !.relevel_counter = @ + 1], set_correct_atStop(emcm))
               /\ Step("none", "stop_after")
          ELSE Becomes(lift, vfd_set_ref_speed(emcm,
                           RELEVEL_SPEED * lift.Dstop_speed_sign * back))
               /\ Step("none", "limits") /\ Settled
       /\ Updated /\ Goes
set_Stop_afterCorrection ==
    /\ Step("stop_after", "limits")
    /\ emcm' = [emcm EXCEPT !.stop_after_correction = TRUE]
    /\ Store /\ UNCHANGED <<lift, planned>>

\* vfd_states_isStopping: the drive is active, or on its way to stop
auto_stopping_exe ==
    /\ lift.auto_counter = "stopping" /\ ~FinalLimit
    /\ IF emcm.ref = 0 /\ going = 0 THEN Stop(lift) ELSE Becomes(lift, emcm)
    /\ Step("none", "none") /\ Updated /\ Goes

StoppingTimeout ==
    /\ lift.auto_counter = "stopping"
    /\ Stop(lift)
    /\ Step("none", "none") /\ Updated
    /\ planned' = FALSE /\ UNCHANGED stops

\* a direction limit is met where the encoder does not expect it: creep to the
\* plate, and stop there (the last store is set_Stop_afterCorrection's)
limit0 == IF lift.direction_up THEN dirUplimit0 ELSE dirDnlimit0
limit0_met == IF lift.direction_up THEN pos >= dirUplimit0 ELSE pos <= dirDnlimit0
direction_limits_check ==
    LET check == lift.auto_counter \in {"hspd", "lspd"} /\ limit0_met /\ ~emcm.corrected
        forced == check /\ Abs(emcm.enc_pos - limit0) >= TRIGGER
    IN /\ Step("limits", IF forced THEN "exit_lspd" ELSE "none")
       /\ emcm' = IF forced THEN [emcm EXCEPT !.exit_hspd = TRUE]
                  ELSE IF check THEN [emcm EXCEPT !.corrected = TRUE] ELSE emcm
       /\ planned' = (planned /\ ~forced)
       /\ Store /\ UNCHANGED lift
l0decel_exit_lspd ==
    /\ Step("exit_lspd", "theta")
    /\ emcm' = [emcm EXCEPT !.exit_lspd = TRUE]
    /\ Store /\ UNCHANGED <<lift, planned>>
l0decel_theta ==
    /\ Step("theta", "creep")
    /\ emcm' = [emcm EXCEPT !.theta = limit0]
    /\ Store /\ UNCHANGED <<lift, planned>>
l0decel_creep ==
    /\ Step("creep", "corrected")
    /\ emcm' = vfd_set_ref_speed(emcm, emcm.speed_sign * CREEP_SPEED)
    /\ Store /\ UNCHANGED <<lift, planned>>
l0decel_corrected ==
    /\ Step("corrected", "stop_after")
    /\ emcm' = [emcm EXCEPT !.corrected = TRUE, !.correct_at_stop = TRUE]
    /\ Store /\ UNCHANGED <<lift, planned>>

l0decel == l0decel_exit_lspd \/ l0decel_theta \/ l0decel_creep \/ l0decel_corrected

----------------------------------------------------------------------------
io_interface_handler ==
    /\ Step("none", "none") /\ mstop' = OnPlate
    /\ due' = IF mstop = OnPlate THEN due ELSE due \cup {"TC8"}
    /\ UNCHANGED <<lift, emcm, temp, pos, going, stops, planned>>
Press(i) ==
    /\ Step("none", "none") /\ lift' = req_scan(lift, "i", i)
    /\ UNCHANGED <<emcm, temp, pos, going, mstop, due, stops, planned>>

\* at level 0; the first interrupts have found the car past the points, both 0,
\* unless the encoder shows less
Init ==
    \E e \in -ERROR..ERROR :
    /\ lift = [auto_counter |-> "stop", ireq |-> {}, ereq |-> {}, eereq |-> {},
               direction_up |-> FALSE, selector_counter |-> 0, req_enabled |-> TRUE,
               cf_press |-> FALSE, lspd_mstp_met |-> FALSE, relevel_counter |-> 0,
               Dstop_speed_sign |-> 1]
    /\ emcm = [dest_floor |-> 0, decel_displacement |-> 0, decel_displacement2 |-> 0,
               decel_point |-> 0, decel_point2 |-> 0, speed_sign |-> 1,
               exit_hspd |-> e >= 0, exit_lspd |-> e >= 0, corrected |-> FALSE,
               correct_at_stop |-> FALSE, stop_after_correction |-> FALSE,
               theta |-> e, enc_pos |-> e, ref |-> 0, ramp |-> 0, coast |-> 0]
    /\ step = "none" /\ temp = NoFloor /\ pos = 0 /\ going = 0 /\ mstop = TRUE
    /\ due = {} /\ ticked = FALSE /\ stops = 0 /\ planned = FALSE

profile == set_Hspeed_profile_accel \/ set_Hspeed_profile_clear
auto_update ==
    \/ auto_idle_exe \/ auto_camtest_level \/ auto_hspd_enter \/ FinalStop
    \/ auto_hspd_exe \/ auto_lspd_exe \/ auto_stopping_exe
    \/ StoppingTimeout
Rest == change_dest_floor \/ profile \/ set_Stop_afterCorrection \/ direction_limits_check \/ l0decel

Next ==
    \/ Driven \/ Stands \/ Watch
    \/ EMCM_handler \/ auto_update \/ Rest
    \/ io_interface_handler \/ EmergencyStop \/ \E i \in Floors : Press(i)

Spec == Init /\ [][Next]_vars

----------------------------------------------------------------------------
(* Properties.                                                                *)

(* A run that began at a level, the encoder exact, is given a new destination *)
(* only with room to decelerate for it (EMCM.c:66), although the test is of   *)
(* the room to the old one: the ramps fit in half a floor, and the selector   *)
(* names the next floor from there on.                                        *)
NewFloorHasRoom ==
    [][step = "dest" /\ step' # step /\ planned => planned']_vars

(* Such a run ends with the car at the plate of its last destination, by the  *)
(* interrupt's points and corrections, wherever in the tasks' stores the      *)
(* interrupt comes (EMCM.c, decelToStop, mstp_met; auto_state.c,              *)
(* auto_stopping_exit).                                                       *)
StopsAtDestination ==
    lift.auto_counter = "stop" /\ planned => Abs(pos - Level(emcm.dest_floor)) <= PLATE
=============================================================================
