------------------------------- MODULE Drive -------------------------------
(* The drive's state machine (VFD/vfd states/vfdstates.c) with what it        *)
(* commands: the inverter's output override, the brake and the motor          *)
(* contactor (VFD/VFD IO/motor_excitation.c).                                 *)
(*                                                                            *)
(* Three contexts run it.  The main loop calls the handlers and the commands  *)
(* of the lift one at a time; a call is a sequence of operations kept in      *)
(* todo, the first of which runs in one step and may put others in front of   *)
(* the rest.  The speed loop (TC8) moves desired_speed.  The protections of   *)
(* the inverter (PWM0, AFEC0: the highest priority) call vfd_trip, which      *)
(* nothing preempts, so a trip is one step; Preemptive says whether it may    *)
(* come between two operations of the main loop or only between two calls.    *)
(* Speeds are abstracted to "is not zero", brake is the BRKS output (TRUE     *)
(* opens it), main the output of the motor's main contactor.                  *)
EXTENDS Naturals, Sequences

CONSTANTS
    SC_STEPS,       \* handler calls of a short-circuit check
    HOLD, MOVE, RELEASE, DCBREAK, DECAY,  \* the delays of the brake menu
    CATCH_UP,       \* most handler calls between two ticks of the speed loop
    VectorControl,  \* m_control_mode > 0
    Preemptive,     \* protections interrupt the calls of the main loop
    MainFeedback,   \* values mConFB may have while the contactor is released
    EnableLevels,   \* values vfd_enable_isEnabled can return
    Tunable         \* values of the tune settings

ASSUME DriveAssumption ==
    /\ {SC_STEPS, HOLD, MOVE, RELEASE, DCBREAK, DECAY} \subseteq Nat
    /\ SC_STEPS > 0 /\ CATCH_UP \in 1..SC_STEPS
    /\ {VectorControl, Preemptive} \subseteq BOOLEAN
    /\ MainFeedback \subseteq BOOLEAN /\ Tunable \subseteq BOOLEAN
    /\ TRUE \in EnableLevels /\ EnableLevels \subseteq BOOLEAN

VARIABLES
    vfdstate,     \* vfdstate_ptr: the handler of the current state
    ref, desired, \* ref_speed # 0, desired_speed # 0
    override, brake, is_stopping, sc_testing, sc_steps, timer, motor,
    fault,        \* the worst fault vfd_states_faults looks at
    softcharge, enabled, tuning,
    todo,         \* operations the main loop's current call has left
    late          \* handler calls since the speed loop last ran

speeds == <<ref, desired>>
power == <<override, brake>>
check == <<sc_testing, sc_steps>>
inputs == <<fault, softcharge, enabled>>
vars == <<vfdstate, speeds, power, is_stopping, check, timer, motor, inputs, tuning, todo, late>>

States == {"init_exe", "active_exe", "stop_exe", "trip_exe", "csc_exe", "tune_exe"}
Ops == States \cup {"set_override", "clear_override", "open_brake", "close_brake",
    "connect_motor", "disconnect_motor", "stop_enter", "csc_enter", "scCheck_exe", "stop_exit",
    "hold", "permission", "move", "active_enter", "activate", "active_exit", "tune_enter",
    "tune", "tune_state", "tune_exit", "estop", "clear_stopping", "clear_speed"}

Ready == [hold |-> 0, move |-> 0, release |-> 0, dcbreak |-> 0, decay |-> 0]
Released == [stage |-> 0, connect |-> FALSE, disconnect |-> FALSE, connected |-> FALSE,
             main |-> FALSE]

Init ==
    /\ vfdstate = "init_exe" /\ ref = FALSE /\ desired = FALSE
    /\ override = TRUE /\ brake = FALSE /\ is_stopping = FALSE
    /\ sc_testing = FALSE /\ sc_steps = 0 /\ timer = Ready /\ motor = Released
    /\ fault = "none" /\ softcharge = FALSE /\ enabled = TRUE /\ tuning \in Tunable
    /\ todo = <<>> /\ late = 0

----------------------------------------------------------------------------
(* The operations of the main loop. *)
Idle == todo = <<>>
At(op) == ~Idle /\ Head(todo) = op
Then(ops) == todo' = ops \o Tail(todo)
If(c, ops) == IF c THEN ops ELSE <<>>

Outputs ==
    /\ ~Idle
    /\ UNCHANGED <<vfdstate, speeds, is_stopping, check, timer, inputs, tuning, late>>
    /\ Then(<<>>)
    /\ \/ At("set_override") /\ override' = TRUE /\ UNCHANGED <<brake, motor>>
       \/ At("clear_override") /\ override' = FALSE /\ UNCHANGED <<brake, motor>>
       \/ At("open_brake") /\ brake' = TRUE /\ UNCHANGED <<override, motor>>
       \/ At("close_brake") /\ brake' = FALSE /\ UNCHANGED <<override, motor>>
       \/ /\ At("connect_motor")
          /\ motor' = [motor EXCEPT !.connect = TRUE, !.disconnect = @ /\ motor.connect]
          /\ UNCHANGED power
       \/ /\ At("disconnect_motor")
          /\ motor' = [motor EXCEPT !.connect = @ /\ motor.disconnect, !.disconnect = TRUE]
          /\ UNCHANGED power

\* the end of the wait for the inverter's voltages; staying is a stutter
init_exe ==
    /\ At("init_exe")
    /\ \/ Then(<<"stop_enter">>)
       \/ Then(<<>>)
    /\ UNCHANGED <<vfdstate, speeds, power, is_stopping, check, timer, motor, inputs, tuning, late>>

stop_enter ==
    /\ At("stop_enter")
    /\ vfdstate' = "stop_exe"
    /\ is_stopping' = TRUE
    /\ timer' = IF desired THEN [timer EXCEPT !.hold = 0, !.move = 0] ELSE Ready
    /\ Then(If(desired, <<"set_override", "disconnect_motor", "close_brake">>))
    /\ UNCHANGED <<speeds, power, check, motor, inputs, tuning, late>>

\* the brake closes first, then the current may decay, then the inverter lets go
stop_exe ==
    /\ At("stop_exe")
    /\ LET decaying == VectorControl /\ (timer.decay = 0 \/ timer.decay < DECAY)
           letGo == <<"set_override", "disconnect_motor", "clear_stopping">>
       IN IF timer.release < RELEASE
          THEN timer' = [timer EXCEPT !.release = @ + 1] /\ Then(<<"csc_enter">>)
          ELSE IF timer.dcbreak # DCBREAK
          THEN /\ timer' = [timer EXCEPT !.dcbreak = IF @ < DCBREAK THEN @ + 1 ELSE @]
               /\ Then(<<"close_brake", "csc_enter">>)
          ELSE /\ timer' = IF decaying THEN [timer EXCEPT !.decay = @ + 1]
                                       ELSE [timer EXCEPT !.dcbreak = @ + 1]
               /\ Then(<<"close_brake">> \o If(~decaying, letGo) \o <<"csc_enter">>)
    /\ UNCHANGED <<vfdstate, speeds, power, is_stopping, check, motor, inputs, tuning, late>>

csc_enter ==
    /\ At("csc_enter")
    /\ vfdstate' = IF ref THEN "csc_exe" ELSE vfdstate
    /\ sc_testing' = (ref \/ sc_testing)
    /\ sc_steps' = IF ref THEN 0 ELSE sc_steps
    /\ Then(<<>>)
    /\ UNCHANGED <<speeds, power, is_stopping, timer, motor, inputs, tuning, late>>

csc_exe ==
    /\ At("csc_exe")
    /\ sc_testing' = (ref /\ sc_testing)
    /\ Then(IF ref THEN <<"clear_override", "scCheck_exe">> ELSE <<"stop_enter">>)
    /\ UNCHANGED <<vfdstate, speeds, power, is_stopping, sc_steps, timer, motor, inputs, tuning, late>>

CheckIgnored ==  \* mutant
    /\ At("scCheck_exe")
    /\ LET done == sc_steps + 1 >= SC_STEPS
       IN /\ sc_steps' = IF done THEN SC_STEPS ELSE sc_steps + 1
          /\ sc_testing' = (sc_testing /\ ~done)
    /\ Then(<<"stop_exit">>)
    /\ UNCHANGED <<vfdstate, speeds, power, is_stopping, timer, motor, inputs, tuning, late>>

scCheck_exe ==
    /\ At("scCheck_exe")
    /\ LET done == sc_steps + 1 >= SC_STEPS
       IN /\ sc_steps' = IF done THEN SC_STEPS ELSE sc_steps + 1
          /\ sc_testing' = (sc_testing /\ ~done)
          /\ Then(If(done, IF tuning THEN <<"tune_enter">> ELSE <<"stop_exit">>))
    /\ UNCHANGED <<vfdstate, speeds, power, is_stopping, timer, motor, inputs, tuning, late>>

stop_exit ==
    /\ At("stop_exit")
    /\ timer' = IF ref THEN timer ELSE [timer EXCEPT !.hold = 0]
    /\ Then(If(ref, <<"connect_motor", "hold">>))
    /\ UNCHANGED <<vfdstate, speeds, power, is_stopping, check, motor, inputs, tuning, late>>

HoldUnconnected ==  \* mutant
    /\ At("hold")
    /\ timer' = IF timer.hold < HOLD THEN [timer EXCEPT !.hold = @ + 1] ELSE timer
    /\ Then(<<"clear_override">> \o If(timer.hold >= HOLD, <<"permission">>))
    /\ UNCHANGED <<vfdstate, speeds, power, is_stopping, check, motor, inputs, tuning, late>>

\* torque against the closed brake
hold ==
    /\ At("hold")
    /\ LET holding == motor.connected /\ timer.hold < HOLD
       IN /\ timer' = IF holding THEN [timer EXCEPT !.hold = @ + 1] ELSE timer
          /\ Then(If(motor.connected, <<"clear_override">> \o If(~holding, <<"permission">>)))
    /\ UNCHANGED <<vfdstate, speeds, power, is_stopping, check, motor, inputs, tuning, late>>

permission ==
    /\ At("permission")
    /\ \/ Then(<<"open_brake", "move">>)
       \/ Then(<<>>)
    /\ UNCHANGED <<vfdstate, speeds, power, is_stopping, check, timer, motor, inputs, tuning, late>>

move ==
    /\ At("move")
    /\ timer' = IF timer.move <= MOVE THEN [timer EXCEPT !.move = @ + 1] ELSE timer
    /\ Then(If(timer.move = MOVE, <<"active_enter">>))
    /\ UNCHANGED <<vfdstate, speeds, power, is_stopping, check, motor, inputs, tuning, late>>

\* a drive that is not enabled stops, and then goes on to the active state
active_enter ==
    /\ At("active_enter")
    /\ Then(If(~enabled, <<"stop_enter">>) \o <<"activate">>)
    /\ UNCHANGED <<vfdstate, speeds, power, is_stopping, check, timer, motor, inputs, tuning, late>>

activate ==
    /\ At("activate")
    /\ vfdstate' = "active_exe"
    /\ is_stopping' = TRUE
    /\ timer' = [timer EXCEPT !.hold = 0]
    /\ Then(<<"clear_override", "open_brake">>)
    /\ UNCHANGED <<speeds, power, check, motor, inputs, tuning, late>>

active_exe ==
    /\ At("active_exe")
    /\ Then(If(~enabled, <<"stop_enter">>) \o <<"active_exit">>)
    /\ UNCHANGED <<vfdstate, speeds, power, is_stopping, check, timer, motor, inputs, tuning, late>>

ActiveExitTooEager ==  \* mutant
    /\ At("active_exit")
    /\ Then(If(~ref /\ desired, <<"stop_enter">>))
    /\ UNCHANGED <<vfdstate, speeds, power, is_stopping, check, timer, motor, inputs, tuning, late>>

active_exit ==
    /\ At("active_exit")
    /\ Then(If(~ref /\ ~desired, <<"stop_enter">>))
    /\ UNCHANGED <<vfdstate, speeds, power, is_stopping, check, timer, motor, inputs, tuning, late>>

TripForgetsFaults ==  \* mutant
    /\ At("trip_exe")
    /\ Then(If(~softcharge, <<"stop_enter">>))
    /\ UNCHANGED <<vfdstate, speeds, power, is_stopping, check, timer, motor, inputs, tuning, late>>

trip_exe ==
    /\ At("trip_exe")
    /\ Then(If(fault = "none" /\ ~softcharge, <<"stop_enter">>))
    /\ UNCHANGED <<vfdstate, speeds, power, is_stopping, check, timer, motor, inputs, tuning, late>>

tune_enter ==
    /\ At("tune_enter")
    /\ Then(If(~enabled, <<"stop_enter">>) \o <<"tune">>)
    /\ UNCHANGED <<vfdstate, speeds, power, is_stopping, check, timer, motor, inputs, tuning, late>>

tune ==
    /\ At("tune")
    /\ is_stopping' = FALSE
    /\ Then(<<"clear_override", "connect_motor", "tune_state">>)
    /\ UNCHANGED <<vfdstate, speeds, power, check, timer, motor, inputs, tuning, late>>

tune_state ==
    /\ At("tune_state")
    /\ vfdstate' = "tune_exe"
    /\ Then(<<>>)
    /\ UNCHANGED <<speeds, power, is_stopping, check, timer, motor, inputs, tuning, late>>

tune_exe ==
    /\ At("tune_exe")
    /\ tuning' = (tuning /\ enabled)
    /\ Then(If(~enabled, <<"stop_enter">>) \o <<"tune_exit">>)
    /\ UNCHANGED <<vfdstate, speeds, power, is_stopping, check, timer, motor, inputs, late>>

tune_exit ==
    /\ At("tune_exit")
    /\ tuning' = (tuning /\ (ref \/ desired))
    /\ Then(If(~ref /\ ~desired, <<"stop_enter">>))
    /\ UNCHANGED <<vfdstate, speeds, power, is_stopping, check, timer, motor, inputs, late>>

estop ==
    /\ At("estop")
    /\ Then(If(vfdstate \notin {"trip_exe", "stop_exe"}, <<"stop_enter">>))
    /\ UNCHANGED <<vfdstate, speeds, power, is_stopping, check, timer, motor, inputs, tuning, late>>

clear_stopping ==
    /\ At("clear_stopping")
    /\ is_stopping' = FALSE
    /\ Then(<<>>)
    /\ UNCHANGED <<vfdstate, speeds, power, check, timer, motor, inputs, tuning, late>>

clear_speed ==
    /\ At("clear_speed")
    /\ ref' = FALSE /\ desired' = FALSE
    /\ Then(<<>>)
    /\ UNCHANGED <<vfdstate, power, is_stopping, check, timer, motor, inputs, tuning, late>>

Operation ==
    \/ Outputs \/ init_exe \/ stop_enter \/ stop_exe \/ csc_enter \/ csc_exe \/ scCheck_exe
    \/ stop_exit \/ hold \/ permission \/ move \/ active_enter \/ activate \/ active_exe
    \/ active_exit \/ trip_exe \/ tune_enter \/ tune \/ tune_state \/ tune_exe \/ tune_exit
    \/ estop \/ clear_stopping \/ clear_speed

----------------------------------------------------------------------------
(* The calls of the main loop. *)
vfd_states_handler ==
    /\ Idle /\ late < CATCH_UP
    /\ todo' = <<vfdstate>>
    /\ late' = late + 1
    /\ UNCHANGED <<vfdstate, speeds, power, is_stopping, check, timer, motor, inputs, tuning>>

states_estop == <<"set_override", "close_brake", "estop", "clear_stopping">>

\* the lift stops at once: the stop, idle and camtest states enter with it
vfd_estop ==
    /\ Idle
    /\ todo' = states_estop \o <<"clear_speed">>
    /\ UNCHANGED <<vfdstate, speeds, power, is_stopping, check, timer, motor, inputs, tuning, late>>

\* the lift sets the car going, only from a closed brake, and stops it by ramp
Run ==
    /\ Idle /\ ~ref /\ ~brake
    /\ ref' = TRUE
    /\ UNCHANGED <<vfdstate, desired, power, is_stopping, check, timer, motor, inputs, tuning, todo,
                   late>>

Stop ==
    /\ Idle /\ ref
    /\ ref' = FALSE
    /\ UNCHANGED <<vfdstate, desired, power, is_stopping, check, timer, motor, inputs, tuning, todo,
                   late>>

TripKeepsMotor ==  \* mutant
    /\ vfdstate' = "trip_exe"
    /\ override' = TRUE /\ brake' = FALSE
    /\ UNCHANGED motor

\* vfd_states_trip: everything lets go, in the order of the code, in one step
states_trip ==
    /\ vfdstate' = "trip_exe"
    /\ override' = TRUE /\ brake' = FALSE
    /\ motor' = [motor EXCEPT !.connect = @ /\ motor.disconnect, !.disconnect = TRUE]

\* a protection: vfd_trip and the fault, if it is one that keeps the drive tripped
vfd_trip ==
    /\ Idle \/ Preemptive
    /\ IF vfdstate # "init_exe" THEN states_trip ELSE UNCHANGED <<vfdstate, power, motor>>
    /\ ref' = FALSE /\ desired' = FALSE
    /\ fault' \in {fault, "timed", "latched"} /\ (fault = "latched" => fault' = fault)
    /\ UNCHANGED <<is_stopping, check, timer, softcharge, enabled, tuning, todo, late>>

\* a short circuit found by the test vectors: the speeds are left alone
scCheck_current_handler ==
    /\ Idle \/ Preemptive
    /\ vfdstate = "csc_exe" /\ sc_testing
    /\ states_trip /\ fault' = "latched"
    /\ UNCHANGED <<speeds, is_stopping, check, timer, softcharge, enabled, tuning, todo, late>>

\* the enable inputs disagree for long (a trip) or are both off (a stop)
vfd_enableCheck ==
    /\ Idle /\ ~enabled
    /\ \/ states_trip /\ UNCHANGED todo
       \/ todo' = states_estop /\ UNCHANGED <<vfdstate, power, motor>>
    /\ UNCHANGED <<speeds, is_stopping, check, timer, inputs, tuning, late>>

\* the emergency supply recharges the bus with the drive tripped
Softcharge ==
    /\ Idle /\ ~softcharge
    /\ softcharge' = TRUE
    /\ IF vfdstate # "init_exe" THEN states_trip /\ ref' = FALSE /\ desired' = FALSE
                                ELSE UNCHANGED <<vfdstate, power, motor, speeds>>
    /\ UNCHANGED <<is_stopping, check, timer, fault, enabled, tuning, todo, late>>

motor_excitation_handler ==
    /\ Idle
    /\ \/ /\ motor.stage = 0
          /\ motor' = [motor EXCEPT !.main = FALSE]
       \/ /\ motor.stage = 0 /\ motor.connect
          /\ motor' = [motor EXCEPT !.stage = 1, !.connected = FALSE, !.connect = FALSE, !.main = TRUE]
       \/ /\ motor.stage = 1 /\ motor.disconnect
          /\ motor' \in {[motor EXCEPT !.main = FALSE, !.connected = FALSE],
                         [motor EXCEPT !.main = FALSE, !.connected = FALSE, !.stage = 0,
                                       !.disconnect = FALSE]}
       \/ /\ motor.stage = 1 /\ ~motor.disconnect
          /\ \E mConFB \in IF motor.main THEN BOOLEAN ELSE MainFeedback :
                motor' = [motor EXCEPT !.connected = @ \/ mConFB]
    /\ UNCHANGED <<vfdstate, speeds, power, is_stopping, check, timer, inputs, tuning, todo, late>>

----------------------------------------------------------------------------
(* The speed loop and the world outside. *)
vfd_scurve_exe ==
    /\ desired' \in IF vfdstate = "active_exe" THEN {desired, ref} ELSE {FALSE}
    /\ late' = 0
    /\ UNCHANGED <<vfdstate, ref, power, is_stopping, check, timer, motor, inputs, tuning, todo>>

Environment ==
    /\ Idle
    /\ \/ fault = "timed" /\ fault' = "none" /\ UNCHANGED <<softcharge, enabled>>
       \/ softcharge /\ softcharge' = FALSE /\ UNCHANGED <<fault, enabled>>
       \/ enabled' \in EnableLevels \ {enabled} /\ UNCHANGED <<fault, softcharge>>
    /\ UNCHANGED <<vfdstate, speeds, power, is_stopping, check, timer, motor, tuning, todo, late>>

Next ==
    \/ Operation \/ vfd_states_handler \/ vfd_estop \/ Run \/ Stop \/ vfd_trip
    \/ scCheck_current_handler \/ vfd_enableCheck \/ Softcharge \/ motor_excitation_handler
    \/ vfd_scurve_exe \/ Environment

Spec == Init /\ [][Next]_vars

(* The main loop runs a call to its end, the scheduler calls the handler and  *)
(* the timer fires the speed loop; a ramp of the S-curve comes to its end.    *)
Ramp == vfd_scurve_exe /\ desired' = (vfdstate = "active_exe" /\ ref)

FairSpec ==
    Spec /\ WF_vars(Operation) /\ WF_vars(vfd_states_handler) /\ WF_vars(Ramp)

----------------------------------------------------------------------------
Timers == [hold : 0..HOLD, move : 0..(MOVE + 1), release : 0..RELEASE,
           dcbreak : 0..(DCBREAK + 1), decay : 0..(DECAY + 1)]
Contactor == [stage : {0, 1}, connect : BOOLEAN, disconnect : BOOLEAN, connected : BOOLEAN,
              main : BOOLEAN]

(* The states and values the code keeps. *)
TypeOK ==
    /\ vfdstate \in States
    /\ ref \in BOOLEAN /\ desired \in BOOLEAN /\ override \in BOOLEAN /\ brake \in BOOLEAN
    /\ is_stopping \in BOOLEAN /\ sc_testing \in BOOLEAN
    /\ sc_steps \in 0..SC_STEPS
    /\ timer \in Timers
    /\ motor \in Contactor
    /\ fault \in {"none", "timed", "latched"}
    /\ softcharge \in BOOLEAN /\ enabled \in BOOLEAN /\ tuning \in BOOLEAN
    /\ todo \in Seq(Ops)
    /\ late \in 0..CATCH_UP

(* Whenever the main loop is between two calls, a tripped drive has its       *)
(* inverter overridden, its brake closed and its motor being disconnected:    *)
(* "protective function to immediately stop the motor and release the break"  *)
(* (vfd.c, vfd_trip).                                                         *)
TripIsSafe ==
    Idle /\ vfdstate = "trip_exe" =>
        override /\ ~brake /\ ~motor.connect /\ (motor.stage = 1 => motor.disconnect)

(* Whenever the main loop is between two calls and the brake is open, the car *)
(* is held by the motor: the inverter drives it and the main contactor is     *)
(* closed (vfd_states_stop_exit opens the brake only after the hold time, and *)
(* every way to stop closes it before the inverter lets go).                  *)
BrakeOpenMotorHolds ==
    Idle /\ brake => ~override /\ motor.connected /\ motor.main

(* The test vectors of the short-circuit check are applied only behind a      *)
(* closed brake, and the brake opens only after a complete check.             *)
BrakeOpenChecked ==
    brake => sc_steps = SC_STEPS /\ ~sc_testing

(* A drive tripped by a fault stays tripped while the fault is there, whatever *)
(* the lift commands: no call in progress brings it back.                      *)
TripLatched ==
    [][vfdstate = "trip_exe" /\ fault # "none" => vfdstate' = "trip_exe"]_vars

(* A ramp to zero ends with the brake closed, unless the speed is set again.  *)
StopClosesBrake == ~ref ~> (~brake \/ ref)

=============================================================================
