--------------------------------- MODULE Ersd ---------------------------------
(***************************************************************************)
(* VFD/ERSD/ersdstates.c: the emergency supply.  When the mains fail the   *)
(* signal ersin comes, the drive is tripped, its bus is charged from the   *)
(* battery through a resistor (soft charge), and the car is moved to a     *)
(* floor in the light direction; when the signal goes the battery is       *)
(* switched off and the bus is charged again.                              *)
(*                                                                         *)
(* ersdstates_handler (1 ms), the drive's handler and the lift's           *)
(* auto_update (40 ms) are tasks of the main loop, each one step.  Here    *)
(* the drive is one of init, stop, run (check, motion and tuning) and trip *)
(* with what it does to the relay that bridges the resistor; Drive has its *)
(* states in detail.  The lift is what it calls: ersd_stop with vfd_estop, *)
(* ersd_move, and the two that force the battery off and allow it again.   *)
(***************************************************************************)
EXTENDS Naturals

CONSTANTS
  INIT_DELAY,               \* 5000 calls
  ERSD_EXIT_AUTO_DELAY,     \* 1500
  ERSD_TURNING_OFF_DELAY,   \* settings; the battery goes at a quarter of it
  ERSD_LDIR_TEST_TIME,
  ERSD_LDIR_WAIT_TIME,
  ColdStart                 \* the mains may be missing before the drive is initialised

ASSUME ErsdAssumption ==
  /\ {INIT_DELAY, ERSD_EXIT_AUTO_DELAY, ERSD_TURNING_OFF_DELAY,
      ERSD_LDIR_TEST_TIME, ERSD_LDIR_WAIT_TIME} \subseteq Nat
  /\ ColdStart \in BOOLEAN

VARIABLES
  ersdstate,                \* ersdstate_ptr
  counter,                  \* of the delay of this state (three variables of the code)
  ersd_test_ldir_counter, stage,
  prev_ersin, ersd_exitingAuto,
  m_ers,                    \* the battery's contactor
  inverter_uv_ignore,
  ersin, turnoff_battery_mode,
  vfdstate, moving,         \* moving: ref_speed # 0
  softcharge, relay,        \* relay: SCRELAY, on bridges the resistor
  fault,                    \* a fault keeps the drive tripped
  MOTOR_PM_CVC,             \* a setting
  seen,                     \* ersin as state_check last saw it
  cleared                   \* the lift has found the supply ready and sets off

supply == <<ersdstate, counter, ersd_test_ldir_counter, stage, prev_ersin,
            ersd_exitingAuto, m_ers, inverter_uv_ignore>>
drive == <<vfdstate, moving, softcharge, relay>>
lift == <<turnoff_battery_mode, seen, cleared>>
vars == <<supply, ersin, drive, fault, MOTOR_PM_CVC, lift>>

On == ersin /\ ~turnoff_battery_mode        \* ERSD_TURNING_ON_SIG
Initialized == vfdstate # "init"            \* vfd_states_initialized

Init ==
  /\ ersdstate = "off" /\ counter = 0 /\ ersd_test_ldir_counter = 0 /\ stage = 0
  /\ prev_ersin = 0 /\ ersd_exitingAuto = 0
  /\ m_ers = 0 /\ inverter_uv_ignore = 0
  /\ ersin = FALSE /\ turnoff_battery_mode = FALSE
  /\ vfdstate = "init" /\ moving = FALSE /\ softcharge = 0 /\ relay = FALSE
  /\ fault = FALSE /\ MOTOR_PM_CVC \in BOOLEAN
  /\ seen = FALSE /\ cleared = FALSE

-----------------------------------------------------------------------------
\* What the supply calls of the drive: vfd_trip, with or without the soft
\* charge, vfd_estop and vfd_set_ref_speed.
TripToCharge ==
  /\ vfdstate' = IF Initialized THEN "trip" ELSE vfdstate
  /\ moving' = IF Initialized THEN FALSE ELSE moving
  /\ softcharge' = 1 /\ relay' = FALSE

Estop ==
  /\ vfdstate' = IF vfdstate = "trip" THEN "trip" ELSE "stop"
  /\ relay' = (relay \/ vfdstate \in {"init", "run"})
  /\ moving' = FALSE
  /\ UNCHANGED softcharge

Moves == moving' = TRUE /\ UNCHANGED <<vfdstate, softcharge, relay>>

Goto(s) == ersdstate' = s

-----------------------------------------------------------------------------
\* The states; each is one call of ersdstates_handler.

\* ersdstates_off_exe: with the signal the drive is tripped and after a delay
\* the battery comes; a signal that goes in between turns the supply off again.
OffExitUntripped ==  \* mutant
  /\ ersdstate = "off" /\ On /\ ersd_exitingAuto = 0
  /\ prev_ersin' = 1 /\ ersd_exitingAuto' = 1 /\ counter' = 0
  /\ inverter_uv_ignore' = 1
  /\ softcharge' = 1 /\ relay' = FALSE
  /\ UNCHANGED <<ersdstate, ersd_test_ldir_counter, stage, m_ers, vfdstate, moving>>

OffExit ==
  /\ ersdstate = "off" /\ On /\ ersd_exitingAuto = 0
  /\ prev_ersin' = 1 /\ ersd_exitingAuto' = 1 /\ counter' = 0
  /\ inverter_uv_ignore' = 1
  /\ TripToCharge
  /\ UNCHANGED <<ersdstate, ersd_test_ldir_counter, stage, m_ers>>

Exiting ==
  /\ ersdstate = "off" /\ On /\ ersd_exitingAuto = 1
  /\ prev_ersin' = 1
  /\ IF counter + 1 > ERSD_EXIT_AUTO_DELAY
     THEN m_ers' = 1 /\ Goto("init") /\ counter' = 0
     ELSE counter' = counter + 1 /\ UNCHANGED <<m_ers, ersdstate>>
  /\ UNCHANGED <<ersd_test_ldir_counter, stage, ersd_exitingAuto, inverter_uv_ignore, drive>>

OffForgets ==  \* mutant
  /\ ersdstate = "off" /\ ~On /\ prev_ersin = 1
  /\ ersd_exitingAuto' = 0
  /\ UNCHANGED <<ersdstate, counter, ersd_test_ldir_counter, stage, prev_ersin, m_ers,
                 inverter_uv_ignore, drive>>

OffAgain ==
  /\ ersdstate = "off" /\ ~On /\ prev_ersin = 1
  /\ Goto("turningOff") /\ counter' = 0
  /\ IF Initialized THEN TripToCharge ELSE UNCHANGED drive
  /\ UNCHANGED <<ersd_test_ldir_counter, stage, prev_ersin, ersd_exitingAuto, m_ers,
                 inverter_uv_ignore>>

\* ersdstates_init_exe: the bus has time to charge.
Charged ==
  /\ ersdstate = "init"
  /\ IF counter > INIT_DELAY
     THEN Goto("idle") /\ softcharge' = 0 /\ UNCHANGED counter
     ELSE counter' = counter + 1 /\ UNCHANGED <<ersdstate, softcharge>>
  /\ UNCHANGED <<ersd_test_ldir_counter, stage, prev_ersin, ersd_exitingAuto, m_ers,
                 inverter_uv_ignore, vfdstate, moving, relay>>

\* ersdstates_idle_exe
TurnOffUntripped ==  \* mutant
  /\ ersdstate = "idle" /\ ~On
  /\ Goto("turningOff") /\ counter' = 0
  /\ UNCHANGED <<ersd_test_ldir_counter, stage, prev_ersin, ersd_exitingAuto, m_ers,
                 inverter_uv_ignore, drive>>

TurnOff ==
  /\ ersdstate = "idle" /\ ~On
  /\ Goto("turningOff") /\ counter' = 0
  /\ IF Initialized THEN TripToCharge ELSE UNCHANGED drive
  /\ UNCHANGED <<ersd_test_ldir_counter, stage, prev_ersin, ersd_exitingAuto, m_ers,
                 inverter_uv_ignore>>

\* ersdstates_turningOff_exe: the contactor opens at a quarter of the delay, and
\* again at its end (ersdstates_off_enter).
TurningOff ==
  /\ ersdstate = "turningOff"
  /\ IF counter + 1 = ERSD_TURNING_OFF_DELAY \div 4
     THEN /\ m_ers' = 0 /\ counter' = counter + 1
          /\ UNCHANGED <<ersdstate, softcharge, prev_ersin, ersd_exitingAuto, inverter_uv_ignore>>
     ELSE IF counter + 1 > ERSD_TURNING_OFF_DELAY
     THEN /\ Goto("off") /\ softcharge' = 0 /\ m_ers' = 0 /\ counter' = 0
          /\ prev_ersin' = 0 /\ ersd_exitingAuto' = 0 /\ inverter_uv_ignore' = 0
     ELSE /\ counter' = counter + 1
          /\ UNCHANGED <<ersdstate, softcharge, prev_ersin, ersd_exitingAuto, m_ers,
                         inverter_uv_ignore>>
  /\ UNCHANGED <<ersd_test_ldir_counter, stage, vfdstate, moving, relay>>

\* ersdstates_find_ldir_exe with a synchronous motor: the torque tells the
\* direction as soon as the drive moves (vfd_get_l_dir).
FoundByTorque ==
  /\ ersdstate = "find_ldir" /\ MOTOR_PM_CVC /\ vfdstate = "run"
  /\ Goto("move") /\ Moves
  /\ UNCHANGED <<counter, ersd_test_ldir_counter, stage, prev_ersin, ersd_exitingAuto, m_ers,
                 inverter_uv_ignore>>

\* ... and with another one: up, a pause, down, and the better of both.
\* find_ldir_enter does not reset the counter: a test that is not the first is
\* short.  It is only compared with the two times, and is capped above them.
Count(c) == IF c > ERSD_LDIR_TEST_TIME /\ c > ERSD_LDIR_WAIT_TIME THEN c ELSE c + 1
StageTime == IF stage \in {1, 3} THEN ERSD_LDIR_WAIT_TIME ELSE ERSD_LDIR_TEST_TIME

FindByCurrent ==
  /\ ersdstate = "find_ldir" /\ ~MOTOR_PM_CVC
  /\ IF ersd_test_ldir_counter + 1 <= StageTime
     THEN /\ ersd_test_ldir_counter' = Count(ersd_test_ldir_counter)
          /\ UNCHANGED <<ersdstate, stage, drive>>
     ELSE \/ /\ stage = 0
             /\ stage' = 1 /\ ersd_test_ldir_counter' = Count(ersd_test_ldir_counter)
             /\ Estop /\ UNCHANGED ersdstate
          \/ /\ stage = 1
             /\ stage' = 2 /\ ersd_test_ldir_counter' = 0
             /\ Moves /\ UNCHANGED ersdstate
          \/ /\ stage = 2   \* the second direction
             /\ Goto("move") /\ ersd_test_ldir_counter' = Count(ersd_test_ldir_counter)
             /\ UNCHANGED <<stage, drive>>
          \/ /\ stage = 2   \* or the first one, after another pause
             /\ stage' = 3 /\ ersd_test_ldir_counter' = 0
             /\ Estop /\ UNCHANGED ersdstate
          \/ /\ stage = 3
             /\ Goto("move") /\ ersd_test_ldir_counter' = Count(ersd_test_ldir_counter)
             /\ Moves /\ UNCHANGED stage
  /\ UNCHANGED <<counter, prev_ersin, ersd_exitingAuto, m_ers, inverter_uv_ignore>>

ersdstates_handler ==
  /\ \/ OffExit \/ Exiting \/ OffAgain \/ Charged \/ TurnOff \/ TurningOff
     \/ FoundByTorque \/ FindByCurrent
  /\ UNCHANGED <<ersin, fault, MOTOR_PM_CVC, lift>>

-----------------------------------------------------------------------------
\* The lift.  auto_stop_enter stops the drive and the supply; ersd_stop leaves
\* alone only a supply that is off or charging.
Unstoppable(s) == s \in {"off", "init"}

auto_stop_enter ==
  /\ ersdstate' = IF Unstoppable(ersdstate) THEN ersdstate ELSE "idle"
  /\ Estop
  /\ turnoff_battery_mode' \in {turnoff_battery_mode, FALSE}
  /\ cleared' = FALSE
  /\ UNCHANGED <<counter, ersd_test_ldir_counter, stage, prev_ersin, ersd_exitingAuto, m_ers,
                 inverter_uv_ignore, ersin, fault, MOTOR_PM_CVC>>

\* state_check: the lift stops when the signal has changed; it stops for many
\* other reasons.
state_check == seen # ersin /\ seen' = ersin /\ auto_stop_enter
Stops == UNCHANGED seen /\ auto_stop_enter

\* The lift sets off when the supply is ready; later it calls ersd_move without
\* looking again (the test of ersd_isReady lacks its call parentheses).
SetsOff ==
  /\ seen /\ ersdstate = "idle" /\ ~cleared
  /\ cleared' = TRUE
  /\ UNCHANGED <<supply, ersin, drive, fault, MOTOR_PM_CVC, turnoff_battery_mode, seen>>

ersd_move ==
  /\ cleared /\ seen
  /\ cleared' = FALSE
  /\ Goto("find_ldir") /\ stage' = 0
  /\ Moves
  /\ UNCHANGED <<counter, ersd_test_ldir_counter, prev_ersin, ersd_exitingAuto, m_ers,
                 inverter_uv_ignore, ersin, fault, MOTOR_PM_CVC, turnoff_battery_mode, seen>>

\* ersd_force_turn_off, ersd_allowTo_turn_on
ForceOrAllow ==
  /\ turnoff_battery_mode' = ~turnoff_battery_mode
  /\ turnoff_battery_mode' => seen
  /\ UNCHANGED <<supply, ersin, drive, fault, MOTOR_PM_CVC, seen, cleared>>

\* The drive: it initialises, goes when it has a speed, stops, and leaves the
\* trip state without fault and soft charge; a protection trips it.
Entered(s) == vfdstate' = s /\ relay' = (relay \/ s = "stop") /\ UNCHANGED softcharge

vfd_states_handler ==
  /\ \/ vfdstate = "init" /\ Entered("stop")
     \/ vfdstate = "stop" /\ moving /\ Entered("run")
     \/ vfdstate = "run" /\ ~moving /\ Entered("stop")
     \/ vfdstate = "trip" /\ ~fault /\ softcharge = 0 /\ Entered("stop")
  /\ UNCHANGED <<supply, ersin, moving, fault, MOTOR_PM_CVC, lift>>

Protection ==
  /\ fault' = ~fault
  /\ IF fault' /\ Initialized
     THEN vfdstate' = "trip" /\ moving' = FALSE /\ relay' \in {relay, FALSE}
     ELSE UNCHANGED <<vfdstate, moving, relay>>
  /\ UNCHANGED <<supply, ersin, softcharge, MOTOR_PM_CVC, lift>>

Mains ==
  /\ Initialized \/ ColdStart
  /\ ersin' = ~ersin
  /\ UNCHANGED <<supply, drive, fault, MOTOR_PM_CVC, lift>>

Next ==
  \/ ersdstates_handler \/ state_check \/ Stops \/ SetsOff \/ ersd_move \/ ForceOrAllow
  \/ vfd_states_handler \/ Protection \/ Mains

Spec == Init /\ [][Next]_vars

\* The scheduler calls the three tasks again and again.
FairSpec == Spec /\ WF_vars(ersdstates_handler) /\ WF_vars(state_check) /\ WF_vars(vfd_states_handler)

-----------------------------------------------------------------------------
\* While the bus is charged the initialised drive is tripped and the resistor is
\* not bridged, whatever the lift commands and whichever faults come and go
\* (ersdstates_off_exit, vfd_states_trip_exit).
ChargingHeld == softcharge = 1 => vfdstate \in {"init", "trip"} /\ ~relay

\* The battery's contactor changes only with the drive tripped, so it neither
\* connects an empty bus to the battery nor breaks the motor's current.
BatterySwitched == [][m_ers' # m_ers => vfdstate = "trip"]_vars

\* When the mains are back for good and the lift does not stop again and again,
\* the supply ends off: battery disconnected, undervoltage no longer ignored,
\* and the drive not held for charging, so that normal service can go on.
ServiceResumes ==
  <>[]~ersin /\ <>[][~Stops]_vars =>
    <>[](ersdstate = "off" /\ m_ers = 0 /\ softcharge = 0 /\ inverter_uv_ignore = 0)
=============================================================================
