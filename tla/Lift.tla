-------------------------------- MODULE Lift --------------------------------
(* The lift: the states of Lift/states/auto_state.c with the floor counter    *)
(* and the limits (floor_counter.c), the calls (Calls) and the delays         *)
(* (timers.c), in a shaft with a car, doors, a drive and an emergency supply. *)
(* A function of the code is an operator from the record c of the variables   *)
(* it works on, and the terminals t it reads, to the record it leaves; the    *)
(* main loop runs one call at a time.  Direct landing and the learning of the *)
(* shaft are switched off (DIRECT_STOP = 0, HW_LRN = 0).                      *)
EXTENDS Calls

CONSTANTS
    m_door_type,            \* 0: manual, 1: automatic, 2: closes by itself, 3: external
    final_limits,           \* whether the final limits are connected to terminals
    m_ins_stopping_mode,    \* 0: inspection runs stop at once, 1: by a ramp
    PRE_SPD,                \* calls of auto_update with the pre-speed, 0: none
    STOP_DELAY,             \* calls of auto_update from the level to the stop
    CAM_LOCK_WAIT,          \* calls of auto_update from the lock to the start
    CAM_TRIALS,
    parking_floor,
    Modes,                  \* what the switches of inspection and rescue may show
    Disturbances,           \* what may happen besides
    MaxDisturbances         \* and how often (a bound of the model)

ASSUME LiftAssumption ==
    /\ final_limits \in BOOLEAN
    /\ m_door_type \in 0..3 /\ m_ins_stopping_mode \in {0, 1}
    /\ PRE_SPD \in Nat /\ STOP_DELAY \in Nat /\ CAM_LOCK_WAIT \in Nat \ {0}
    /\ CAM_TRIALS \in Nat \ {0} /\ parking_floor \in Nat
    /\ Modes \subseteq SUBSET {"mnt", "ersin"} /\ {} \in Modes
    /\ MaxDisturbances \in Nat

\* Terminals that are off their usual level, and time-outs, in one call.
Inputs == {"Estop", "shk", "lock", "isEnabled", "h_open", "h_close", "light_curtain",
           "device_off", "ow", "fw", "fast", "slow", "stopping", "cam", "ersc_toff"}

VARIABLES
    lift,       \* the variables of the lift's controller and the drive's reports
    faults,     \* "stop": one that stops immediately, "pos": one that bars calls
    mode,       \* terminals mnt and ersin
    hand,       \* terminals mup and mdwn, the buttons of inspection
    pos,        \* the car's position: floor i is level at 4 * i + 1
    sel,        \* the latched edge of the selector's terminal
    travelled,  \* the car has moved since the last auto_update
    doors,      \* "closed" or "open"
    disturbed   \* how many disturbances there were

vars == <<lift, faults, mode, hand, pos, sel, travelled, doors, disturbed>>

external_auto == m_door_type \in {2, 3}
door_auto_close == m_door_type = 2
door_is_auto == m_door_type # 0

----------------------------------------------------------------------------
(* The shaft and what the terminals show of it.                               *)
Level(p) == p % 4 = 1
Top == 4 * f_max + 2
\* the selector: even in a floor's zone, of three positions, odd between two
Zone(p) == IF p % 4 = 3 THEN 2 * (p \div 4) + 1 ELSE 2 * (p \div 4)

Terminals(in) ==
    [in |-> in, mode |-> mode, hand |-> hand, sel |-> sel,
     level |-> Level(pos), upfdl0 |-> pos >= 4 * f_max, dnfdl0 |-> pos <= 2,
     upfl |-> final_limits /\ pos = Top, dnfl |-> final_limits /\ pos = 0,
     shk |-> "shk" \notin in /\ (door_is_auto \/ doors = "closed"),
     lock |-> "lock" \notin in /\ doors = "closed" /\ (door_is_auto \/ lift.cam),
     s_i_err |-> "stop" \in faults]

----------------------------------------------------------------------------
(* The controller: pieces shared by the states.                               *)
INS(c) == "mnt" \in c.auto_state
ARD(c) == c.auto_state = {"ersin"}
ARDINS(c) == c.auto_state = {"mnt", "ersin"}

Set(c, state) == [c EXCEPT !.auto_counter = state]
Err(c, f) == [c EXCEPT !.errors = @ \cup {f}]
Reference(c) == [c EXCEPT !.ref = IF c.direction_up THEN "up" ELSE "down"]
vfd_estop(c) == [c EXCEPT !.ref = "zero", !.moving = "still"]
ersd_stop(c) == IF c.ersd \in {"off", "exit", "init"} THEN c ELSE [c EXCEPT !.ersd = "idle"]
force_turn_off(c, f) == [c EXCEPT !.turnoff_battery_mode = f]
open_doors(c) == [c EXCEPT !.door = "open"]
close_doors(c) == [c EXCEPT !.door = "closed"]
march_set(c) == close_doors([c EXCEPT !.cam = TRUE])

\* the drive is left running (a mutant)
StopKeepsDrive(c, t) ==
    LET s == ersd_stop(Set(c, "stop"))
    IN [s EXCEPT !.saved = IF c.floor_counter_save THEN c.selector_counter ELSE @,
                 !.floor_counter_save = FALSE,
                 !.stop_idle_run = @ \/ ~(INS(c) \/ ARD(c)),
                 !.cam = FALSE]
auto_stop_enter(c, t) ==
    LET s == ersd_stop(vfd_estop(Set(c, "stop")))
    IN [s EXCEPT !.saved = IF c.floor_counter_save THEN c.selector_counter ELSE @,
                 !.floor_counter_save = FALSE,
                 !.turnoff_battery_mode = @ /\ ~(ARD(c) /\ ~t.level),
                 !.stop_idle_run = @ \/ ~(INS(c) \/ ARD(c)),
                 !.cam = FALSE]
Stop_dropping(c, t) == drop_all_req(auto_stop_enter(c, t))

auto_idle_enter(c, t) ==
    LET i == [vfd_estop(Set(c, "idle")) EXCEPT
                 !.idle_camt_run = FALSE, !.cf_press = FALSE, !.cam = FALSE,
                 !.turnoff_battery_mode = @ /\ ~(ARD(c) /\ ~t.level)]
    IN IF door_auto_close THEN close_doors(i) ELSE IF c.onfloor THEN open_doors(i) ELSE i

auto_stopping_enter(c) ==
    force_turn_off([Set(c, "stopping") EXCEPT !.ref = "zero"], FALSE)

\* under rescue the emergency supply commands the drive
auto_lspd_enter(c) ==
    LET l == march_set(force_turn_off([Set(c, "lspd") EXCEPT
                 !.onfloor = FALSE, !.stop_delay_counter = STOP_DELAY], FALSE))
    IN IF ARD(c) THEN [l EXCEPT !.ersd = "find0", !.direction_up = TRUE, !.ref = "up"]
       ELSE Reference(l)
auto_hspd_enter(c) == Reference(march_set(Set(c, "hspd")))
auto_prespd_enter(c) ==
    Reference(march_set([Set(c, "prespd") EXCEPT !.pre_spd_counter = PRE_SPD]))
\* the run to come does not mark the selector for saving (a mutant)
CamtestForgetsSave(c) == march_set(vfd_estop(force_turn_off(Set(c, "camtest"), FALSE)))
auto_camtest_enter(c) ==
    march_set(vfd_estop(force_turn_off(
        [Set(c, "camtest") EXCEPT !.floor_counter_save = TRUE], FALSE)))

----------------------------------------------------------------------------
(* stop and idle                                                              *)
auto_stop_exit(c, t) ==
    IF ~t.shk \/ t.s_i_err \/ "h_open" \in t.in THEN c
    ELSE IF INS(c) /\ t.hand # {} THEN auto_idle_enter(c, t)
    ELSE IF ARD(c) /\ c.ersd = "idle" THEN auto_idle_enter(c, t) ELSE c

auto_stop_exe(c, t) ==
    LET a == IF ARDINS(c) THEN force_turn_off(c, TRUE)
             ELSE IF ARD(c) THEN force_turn_off(c, t.level) ELSE c
        b == IF ~t.shk THEN [a EXCEPT !.stop_idle_run = @ \/ ~external_auto]
             ELSE IF "light_curtain" \notin t.in THEN auto_stop_exit(a, t) ELSE a
        d == IF b.onfloor THEN open_doors(b)
             ELSE IF ~t.level THEN close_doors(b)
             ELSE IF ~INS(b) THEN open_doors([b EXCEPT !.onfloor = TRUE]) ELSE b
        closing == /\ "h_close" \in t.in /\ external_auto /\ ~t.s_i_err
                   /\ "light_curtain" \notin t.in
    IN auto_stop_exit(IF closing THEN auto_idle_enter(a, t) ELSE d, t)

auto_idle_exit(c, t) ==
    IF ~t.shk \/ "Estop" \in t.in \/ (INS(c) /\ t.hand = {}) THEN auto_stop_enter(c, t)
    ELSE IF "ow" \in t.in THEN auto_idle_enter(c, t) ELSE auto_camtest_enter(c)

\* inspection goes as far as the final limit fl, or the last level without one
Last(t, fl) == IF final_limits THEN fl ELSE t.level
Limited(t) ==
    \/ "up" \in t.hand /\ t.upfdl0 /\ Last(t, t.upfl)
    \/ "down" \in t.hand /\ t.dnfdl0 /\ Last(t, t.dnfl)

\* a reason to move, and the direction that get_scheduled_floor has chosen
Wanted(c, t) ==
    LET next == get_scheduled_floor(c, "fw" \in t.in)
        start(d) == [d EXCEPT !.idle_camt_run = TRUE]
    IN IF ARD(c) /\ c.ersd = "idle" THEN IF t.level THEN c ELSE start(c)
       ELSE IF INS(c) /\ t.hand # {} THEN IF Limited(t) THEN c ELSE start(c)
       ELSE IF next.floor # NoFloor /\ c.auto_state = {} /\ c.ersd \in {"off", "exit"}
            THEN start(next.c) ELSE next.c

auto_idle_exe(c, t) ==
    LET a == IF "ersc_toff" \in t.in /\ (ARDINS(c) \/ (ARD(c) /\ t.level))
             THEN force_turn_off(c, TRUE) ELSE c
        b == IF door_auto_close THEN close_doors(a)
             ELSE IF a.onfloor THEN open_doors(a) ELSE a
        open == \/ t.in \cap {"h_open", "light_curtain"} # {}
                \/ c.cf_press /\ "h_close" \notin t.in
    IN IF \/ "device_off" \in t.in /\ ~INS(c)
          \/ t.s_i_err
          \/ "ersin" \in c.auto_state /\ c.ersd # "idle"
       THEN auto_stop_enter(c, t)
       ELSE IF open /\ door_is_auto THEN auto_stop_enter(b, t)
       ELSE IF ~t.shk THEN auto_idle_exit(b, t)
       ELSE Wanted(b, t)

----------------------------------------------------------------------------
(* camtest: the cam is drawn and the doors are locked, or it is tried again   *)
Depart(c, t) ==
    LET next == get_scheduled_floor(c, "fw" \in t.in)
    IN IF ARD(c) THEN IF t.level THEN auto_stop_enter(c, t) ELSE auto_lspd_enter(c)
       ELSE IF INS(c)
       THEN IF t.hand = {} THEN auto_stop_enter(c, t)
            ELSE auto_lspd_enter([c EXCEPT !.direction_up = "up" \in t.hand])
       ELSE IF next.floor = NoFloor THEN auto_stop_enter(next.c, t)
       ELSE IF infloorzone(c) /\ next.floor = get_current_floor(c)
       THEN auto_lspd_enter(next.c)
       ELSE IF PRE_SPD > 0 THEN auto_prespd_enter(next.c) ELSE auto_hspd_enter(next.c)

auto_camtest_exit(c, t) ==
    LET a == [c EXCEPT !.cam_trial_counter = 0]
        wait == ~INS(c) /\ c.cam_lock_wait + 1 < CAM_LOCK_WAIT
    IN IF ~t.shk \/ "Estop" \in t.in THEN auto_stop_enter(c, t)
       ELSE IF ~t.lock THEN c
       ELSE IF wait THEN [a EXCEPT !.cam_lock_wait = @ + 1]
       ELSE Depart([a EXCEPT !.cam_lock_wait = 0], t)

auto_camtest_exe(c, t) ==
    LET trials == c.cam_trial_counter + 1
    IN IF t.s_i_err THEN Stop_dropping(c, t)
       ELSE IF INS(c) /\ t.hand = {}
       THEN auto_stop_enter([c EXCEPT !.cam_trial_counter = 0], t)
       ELSE IF ~t.shk THEN auto_stop_enter(c, t)
       ELSE IF t.lock THEN auto_camtest_exit(c, t)
       ELSE IF "cam" \notin t.in THEN c
       ELSE IF trials < CAM_TRIALS
       THEN auto_idle_enter([c EXCEPT !.cam_trial_counter = trials], t)
       ELSE Err(auto_stop_enter(drop_all_req([c EXCEPT !.cam_trial_counter = 0]), t), "stop")

----------------------------------------------------------------------------
(* The states of a run.  Each notes what is wrong with the doors and goes on  *)
(* when the drive is not enabled, although it has entered stop.               *)
Unsafe(t) == "Estop" \in t.in \/ ~t.shk \/ ~t.lock
Checked(c, t) ==
    LET a == IF "isEnabled" \in t.in THEN auto_stop_enter(c, t) ELSE c
    IN IF Unsafe(t) THEN Err(a, "stop") ELSE a
Overrun(c, t) == IF c.direction_up THEN t.upfl ELSE t.dnfl
\* a fault set by Checked counts at once
Halted(t) == t.s_i_err \/ Unsafe(t)

auto_prespd_exit(c) ==
    IF c.pre_spd_counter = 0 THEN auto_hspd_enter(c)
    ELSE IF c.moving = "still" THEN c ELSE [c EXCEPT !.pre_spd_counter = @ - 1]

auto_prespd_exe(c, t) ==
    LET a == force_turn_off(Checked(c, t), FALSE)
    IN IF Halted(t) THEN Stop_dropping(a, t)
       ELSE IF INS(c) THEN auto_stop_enter(a, t) ELSE auto_prespd_exit(a)

auto_hspd_exit(c, t) ==
    LET next == get_scheduled_floor(c, "fw" \in t.in)
    IN IF next.floor = NoFloor THEN pos_next_floor(next.c)
       ELSE IF /\ next.floor \notin {0, f_max} /\ infloorzone(next.c)
               /\ next.floor = get_current_floor(next.c)
       THEN auto_lspd_enter(next.c) ELSE next.c

auto_hspd_exe(c, t) ==
    LET a == force_turn_off(Checked(c, t), FALSE)
        b == IF INS(c) THEN auto_stop_enter(a, t) ELSE auto_hspd_exit(a, t)
        late == auto_stop_enter(Err(Err(drop_all_req(b), "pos"), "stop"), t)
    IN IF Overrun(c, t) THEN Err(Stop_dropping(a, t), "stop")
       ELSE IF Halted(t) THEN Stop_dropping(a, t)
       ELSE IF "fast" \in t.in /\ ~INS(c) THEN late ELSE b

auto_lspd_exit(c, t) ==
    IF ~t.level THEN c
    ELSE IF c.stop_delay_counter > 0 THEN [c EXCEPT !.stop_delay_counter = @ - 1]
    ELSE auto_stopping_enter(drop_req(c, get_current_floor(c)))

\* under inspection either button goes on (a mutant)
LspdEitherButton(c, t) ==
    LET a == Checked(c, t)
        b == IF ARD(c) /\ t.level THEN auto_stopping_enter(a) ELSE a
    IN IF Halted(t) THEN Stop_dropping(b, t)
       ELSE IF ~INS(c) THEN auto_lspd_exit(b, t)
       ELSE IF t.hand # {} THEN b ELSE auto_stopping_enter(b)
auto_lspd_exe(c, t) ==
    LET a == Checked(c, t)
        b == IF ARD(c) /\ t.level THEN auto_stopping_enter(a) ELSE a
        held == (IF c.direction_up THEN "up" ELSE "down") \in t.hand
        slow == "slow" \in t.in /\ c.auto_state = {}
    IN IF slow THEN Err(Stop_dropping(b, t), "stop")
       ELSE IF Halted(t) THEN Stop_dropping(b, t)
       ELSE IF ~INS(c)
       THEN IF Overrun(c, t) THEN Err(Stop_dropping(b, t), "stop") ELSE auto_lspd_exit(b, t)
       ELSE IF held THEN b
       ELSE IF m_ins_stopping_mode = 0 THEN auto_stop_enter(b, t) ELSE auto_stopping_enter(b)

auto_stopping_exe(c, t) ==
    LET a == Checked(c, t)
        b == IF "stopping" \in t.in THEN auto_stop_enter(a, t) ELSE a
    IN IF ~INS(c) /\ Overrun(c, t) THEN Err(Stop_dropping(b, t), "stop")
       ELSE IF Halted(t) THEN Stop_dropping(b, t)
       ELSE IF b.moving = "still" THEN auto_stop_enter(b, t) ELSE b

----------------------------------------------------------------------------
(* auto_update: counts, executes the state, checks mode and limits            *)
selector_count(c, t) ==
    LET counts == c.auto_counter = "hspd" \/ (c.auto_counter = "lspd" /\ "mnt" \in t.mode)
    IN IF ~t.sel \/ ~counts THEN c
       ELSE IF c.direction_up
       THEN [c EXCEPT !.selector_counter = IF @ < 2 * f_max THEN @ + 1 ELSE @]
       ELSE [c EXCEPT !.selector_counter = IF @ > 0 THEN @ - 1 ELSE @]

execute(c, t) ==
    CASE c.auto_counter = "stop" -> auto_stop_exe(c, t)
      [] c.auto_counter = "idle" -> auto_idle_exe(c, t)
      [] c.auto_counter = "camtest" -> auto_camtest_exe(c, t)
      [] c.auto_counter = "prespd" -> auto_prespd_exe(c, t)
      [] c.auto_counter = "hspd" -> auto_hspd_exe(c, t)
      [] c.auto_counter = "lspd" -> auto_lspd_exe(c, t)
      [] c.auto_counter = "stopping" -> auto_stopping_exe(c, t)

state_check(c, t) ==
    LET a == [c EXCEPT !.auto_state = t.mode]
    IN IF t.mode # c.auto_state \/ ARDINS(a) THEN auto_stop_enter(a, t) ELSE a

\* one end of the shaft: its limit l, its final limit fl, the selector there,
\* whether a car leaving it has a selector that belongs elsewhere
At_limit(c, t, l, fl, up, there, strange) ==
    LET a == [c EXCEPT !.selector_counter = there]
    IN IF ~l THEN c
       ELSE IF c.direction_up # up
       THEN IF strange THEN Err(auto_stop_enter(drop_all_req(c), t), "stop") ELSE c
       ELSE IF "mnt" \notin t.mode
       THEN IF a.auto_counter = "hspd" THEN auto_lspd_enter(a) ELSE a
       ELSE IF Last(t, fl) THEN auto_stopping_enter(a) ELSE Reference(a)
\* the final limits are not looked at (a mutant)
FinalIgnored(c, t, fl, up) == c
At_final(c, t, fl, up) ==
    IF ~fl \/ c.direction_up # up THEN c
    ELSE auto_stopping_enter(IF "mnt" \in t.mode THEN c ELSE Err(c, "stop"))

\* the limits are not looked at (a mutant)
LimitsIgnored(c, t) == c
direction_limits_check(c, t) ==
    LET select == c.selector_counter
        dn == At_limit(c, t, t.dnfdl0, t.dnfl, FALSE, 0, select > 2)
        up == At_limit(dn, t, t.upfdl0, t.upfl, TRUE, 2 * f_max, select < 2 * f_max - 3)
        wrong == (t.dnfdl0 /\ select > 1) \/ (t.upfdl0 /\ select < 2 * f_max - 1)
    IN IF c.auto_counter \in {"hspd", "lspd"}
       THEN At_final(At_final(up, t, t.dnfl, FALSE), t, t.upfl, TRUE)
       ELSE IF wrong THEN Err(c, "stop") ELSE c

auto_lift_states_monitor(c, t) ==
    LET a == IF c.auto_state = {} THEN c ELSE drop_all_req(c)
    IN [a EXCEPT !.req_enabled = c.auto_state = {} /\ faults \cup c.errors = {}]

\* the edge is counted when the state has been executed (a mutant)
UpdateCountsLast(c, t) ==
    LET a == state_check(selector_count(execute(c, t), t), t)
    IN auto_lift_states_monitor(direction_limits_check(a, t), t)
auto_update(c, t) ==
    LET a == state_check(execute(selector_count(c, t), t), t)
    IN auto_lift_states_monitor(direction_limits_check(a, t), t)

----------------------------------------------------------------------------
(* The state after power-up: the selector that was saved, corrected at an end *)
(* of the shaft (auto_stop_enter, then dir_limit_startup).                    *)
Boot(p, saved) ==
    [auto_counter |-> "stop", auto_state |-> {}, ireq |-> {}, ereq |-> {}, eereq |-> {},
     req_enabled |-> FALSE, direction_up |-> FALSE,
     selector_counter |-> IF p >= 4 * f_max THEN 2 * f_max ELSE IF p <= 2 THEN 0 ELSE saved,
     onfloor |-> FALSE, door |-> "closed", cam |-> FALSE, stop_idle_run |-> TRUE,
     idle_camt_run |-> FALSE, cf_press |-> FALSE, cam_lock_wait |-> 0,
     cam_trial_counter |-> 0, stop_delay_counter |-> 0, pre_spd_counter |-> 0,
     saved |-> saved, floor_counter_save |-> FALSE, turnoff_battery_mode |-> FALSE,
     ersd |-> "off", ref |-> "zero", moving |-> "still", errors |-> {}]

Init ==
    /\ pos \in {4 * i + 1 : i \in Floors}
    /\ lift = Boot(pos, Zone(pos))
    /\ faults = {} /\ mode = {} /\ hand = {}
    /\ sel = FALSE /\ travelled = FALSE /\ doors = "closed" /\ disturbed = 0

Disturbed(n) == disturbed + n <= MaxDisturbances /\ disturbed' = disturbed + n
\* at most one terminal of a set is off in one call
Off(terminals) == {{}} \cup {{x} : x \in terminals \cap Disturbances}
\* a call is over: the faults that it has set are in the table
Result(c) == lift' = [c EXCEPT !.errors = {}] /\ faults' = faults \cup c.errors

----------------------------------------------------------------------------
(* The tasks of the main loop.                                                *)
AutoUpdate(in) ==
    /\ Disturbed(Cardinality(in))
    /\ Result(auto_update(lift, Terminals(in)))
    /\ sel' = FALSE /\ travelled' = FALSE
    /\ UNCHANGED <<mode, hand, pos, doors>>

\* sph_timer_handler: the time to wait in stop is over
StopIdleTimeout ==
    /\ lift.stop_idle_run
    /\ LET c == [lift EXCEPT !.stop_idle_run = FALSE]
       IN Result(IF c.auto_counter = "stop" THEN auto_idle_enter(c, Terminals({})) ELSE c)
    /\ UNCHANGED <<mode, hand, pos, sel, travelled, doors, disturbed>>

\* timer_count_handler: the delay from idle to camtest is over
IdleCamtTimeout(in) ==
    /\ lift.idle_camt_run
    /\ Disturbed(Cardinality(in))
    /\ LET c == IF lift.auto_counter = "idle" THEN auto_idle_exit(lift, Terminals(in)) ELSE lift
       IN Result([c EXCEPT !.idle_camt_run = FALSE])
    /\ UNCHANGED <<mode, hand, pos, sel, travelled, doors>>

\* the lift's stations and the parking time
Press(b, i) ==
    /\ lift' = req_scan(lift, b, i)
    /\ IF lift'.cf_press /\ ~lift.cf_press
       THEN "reopen" \in Disturbances /\ Disturbed(1) ELSE UNCHANGED disturbed
    /\ UNCHANGED <<faults, mode, hand, pos, sel, travelled, doors>>
Park ==
    /\ lift' = parking_check(lift, parking_floor)
    /\ UNCHANGED <<faults, mode, hand, pos, sel, travelled, doors, disturbed>>

\* the main screen shows the floor that comes next
Display(in) ==
    /\ "mnt" \notin mode /\ lift.ersd \in {"off", "exit"}
    /\ Disturbed(Cardinality(in))
    /\ lift' = get_scheduled_floor(lift, "fw" \in in).c
    /\ UNCHANGED <<faults, mode, hand, pos, sel, travelled, doors>>

----------------------------------------------------------------------------
(* The drive, the emergency supply, the car and its doors.                    *)
DriveStart ==
    /\ lift.ref # "zero" /\ lift' = [lift EXCEPT !.moving = lift.ref]
    /\ UNCHANGED <<faults, mode, hand, pos, sel, travelled, doors, disturbed>>
DriveStop ==
    /\ lift.ref = "zero" /\ lift' = [lift EXCEPT !.moving = "still"]
    /\ UNCHANGED <<faults, mode, hand, pos, sel, travelled, doors, disturbed>>

\* ersdstates_handler: waits for the supply, tries both directions, and trips
\* the drive when it comes on and when it goes off
ErsdStep ==
    LET on == "ersin" \in mode /\ ~lift.turnoff_battery_mode
        to(s) == [lift EXCEPT !.ersd = s]
        up(c, b) == [c EXCEPT !.direction_up = b]
        next == CASE lift.ersd = "off" -> IF on THEN {vfd_estop(to("exit"))} ELSE {}
                  [] lift.ersd = "exit" -> {IF on THEN to("init") ELSE vfd_estop(to("turningOff"))}
                  [] lift.ersd = "init" -> {to("idle")}
                  [] lift.ersd = "idle" -> IF on THEN {} ELSE {vfd_estop(to("turningOff"))}
                  [] lift.ersd = "find0" ->
                       {vfd_estop(to("find1"))} \cup {Reference(up(to("move"), b)) : b \in BOOLEAN}
                  [] lift.ersd = "find1" -> {Reference(up(to("find2"), FALSE))}
                  [] lift.ersd = "find2" -> {to("move"), vfd_estop(up(to("find3"), TRUE))}
                  [] lift.ersd = "find3" -> {Reference(to("move"))}
                  [] lift.ersd = "move" -> {}
                  [] lift.ersd = "turningOff" -> {to("off")}
    IN /\ lift' \in next
       /\ UNCHANGED <<faults, mode, hand, pos, sel, travelled, doors, disturbed>>

\* The car moves by at most one position between two calls of auto_update, at
\* creep speed no further than the level it is to stop at, and not while it is
\* being stopped at a level.
Travel ==
    /\ lift.moving # "still" /\ ~travelled
    /\ "mnt" \in mode \/ (lift.ref # "zero" /\ ~(lift.auto_counter = "lspd" /\ Level(pos)))
    /\ pos' = IF lift.moving = "up" THEN pos + 1 ELSE pos - 1
    /\ pos' \in 0..Top
    /\ sel' = (sel \/ Zone(pos') # Zone(pos))
    /\ travelled' = TRUE
    /\ UNCHANGED <<lift, faults, mode, hand, doors, disturbed>>

\* automatic doors follow their command; a person opens manual ones where the
\* cam allows it
DoorStep ==
    /\ doors' = IF door_is_auto THEN lift.door
                ELSE IF doors = "closed" /\ ~lift.cam /\ Level(pos) THEN "open" ELSE "closed"
    /\ UNCHANGED <<lift, faults, mode, hand, pos, sel, travelled, disturbed>>

----------------------------------------------------------------------------
(* Disturbances.                                                              *)
\* a fault that another part of the system sets; one that trips the drive stops
\* immediately
FaultRaised(f, trip) ==
    /\ "fault" \in Disturbances /\ Disturbed(1)
    /\ trip => f = "stop"
    /\ faults' = faults \cup {f}
    /\ lift' = IF trip THEN vfd_estop(lift) ELSE lift
    /\ UNCHANGED <<mode, hand, pos, sel, travelled, doors>>
\* the shortest lasts 0.8 s, in which auto_update has been called and has stopped
FaultClears ==
    /\ faults # {} /\ faults' = {}
    /\ "stop" \in faults => lift.auto_counter \in {"stop", "idle"}
    /\ UNCHANGED <<lift, mode, hand, pos, sel, travelled, doors, disturbed>>

ModeChange ==
    /\ mode' \in Modes \ {mode} /\ hand' = {} /\ Disturbed(1)
    /\ UNCHANGED <<lift, faults, pos, sel, travelled, doors>>
HandButton ==
    /\ "mnt" \in mode /\ hand' \in SUBSET {"up", "down"}
    /\ UNCHANGED <<lift, faults, mode, pos, sel, travelled, doors, disturbed>>

\* the supply fails while the lift stands in stop or idle
PowerCycle ==
    /\ "power" \in Disturbances /\ lift.auto_counter \in {"stop", "idle"} /\ Disturbed(1)
    /\ lift' = Boot(pos, lift.saved)
    /\ faults' = {} /\ sel' = FALSE
    /\ UNCHANGED <<mode, hand, pos, travelled, doors>>

----------------------------------------------------------------------------
Next ==
    \/ \E in \in Off(Inputs) : AutoUpdate(in)
    \/ \E in \in Off({"shk", "Estop", "ow"}) : IdleCamtTimeout(in)
    \/ \E in \in Off({"fw"}) : Display(in)
    \/ StopIdleTimeout
    \/ \E b \in Buttons, i \in Floors : Press(b, i)
    \/ Park
    \/ DriveStart \/ DriveStop \/ ErsdStep \/ Travel \/ DoorStep
    \/ \E f \in {"stop", "pos"}, trip \in BOOLEAN : FaultRaised(f, trip)
    \/ FaultClears \/ ModeChange \/ HandButton \/ PowerCycle

Spec == Init /\ [][Next]_vars

\* a call of auto_update with every terminal at its level would change something
AutoUpdateActs ==
    LET c == auto_update(lift, Terminals({}))
    IN sel \/ travelled \/ c # lift \/ ~(c.errors \subseteq faults)

\* The tasks are called, the delays end, the drive and the doors obey, and a
\* fault is cleared when it is no longer set.  The first conjunct is
\* WF_vars(AutoUpdate({})) with what enables the step written out.
Fairness ==
    /\ []<>~AutoUpdateActs \/ []<><<AutoUpdate({})>>_vars
    /\ WF_vars(StopIdleTimeout) /\ WF_vars(IdleCamtTimeout({}))
    /\ WF_vars(DriveStart) /\ WF_vars(DriveStop) /\ WF_vars(ErsdStep)
    /\ WF_vars(Travel) /\ WF_vars(DoorStep) /\ WF_vars(FaultClears)

FairSpec == Spec /\ Fairness

----------------------------------------------------------------------------
(* Properties.                                                                *)

(* The car moves only with its doors closed: they are commanded to open in    *)
(* stop and idle, which the lift enters with the drive stopped (auto_state.c, *)
(* open_doors, auto_stop_enter).                                              *)
DoorsShutInMotion == lift.moving # "still" => doors = "closed"

(* With the edges of the selector that are counted, the selector shows where  *)
(* the car is, but for an edge that the next call will count (floor_counter.c,*)
(* selector_count), after emergency stops and restarts as well.               *)
PositionKnown ==
    sel \/ lift.selector_counter = Zone(pos)

(* When the lift has stopped, the EEPROM holds the selector, so that it can   *)
(* be switched off (auto_state.c, auto_stop_enter, floor_counter_save).       *)
SavedWhenStopped ==
    lift.auto_counter \in {"stop", "idle"} => lift.saved = lift.selector_counter

(* The direction is not changed under a moving car, whatever calls come and   *)
(* however often the next floor is computed (service_priority_organizer.c).   *)
DirectionHeld == lift.moving # "still" => (lift.moving = "up") = lift.direction_up

(* A normal run ends at a floor: no final limit is met (floor_counter.c,      *)
(* direction_limits_check).                                                   *)
NoOverrun == pos \notin {0, Top}

(* At high speed the car does not run past a floor called from inside         *)
(* (auto_state.c, auto_hspd_exit; service_priority_organizer.c).              *)
NoneMissed ==
    [][pos' # pos /\ lift.auto_counter = "hspd" =>
          \A i \in lift.ireq : pos # 4 * i + 1]_vars

(* Every call, from inside or from a hall for either direction, is served in  *)
(* the end, or dropped with an error, whatever is called meanwhile            *)
(* (service_priority_organizer.c, all_coll; requests.c, drop_req).            *)
CallServed ==
    \A i \in Floors : /\ i \in lift.ireq ~> i \notin lift.ireq
                      /\ i \in lift.ereq ~> i \notin lift.ereq
                      /\ i \in lift.eereq ~> i \notin lift.eereq

\* a call of auto_update
Updates == \E in \in Off(Inputs) : AutoUpdate(in)

(* Under inspection the car is commanded only in a direction whose button is  *)
(* held (auto_state.c, auto_lspd_exe).                                        *)
HoldToRun ==
    [][Updates /\ "mnt" \in mode => lift'.ref = "zero" \/ lift'.ref \in hand]_vars

(* In no mode does a call leave the drive commanded towards a final limit on  *)
(* which the car is, but for the pre-speed, whose state checks no limits      *)
(* (floor_counter.c, direction_limits_check; the checks in auto_state.c).     *)
FinalLimitStops ==
    [][Updates /\ lift'.auto_counter # "prespd" =>
          /\ pos = 0 => lift'.ref # "down"
          /\ pos = Top => lift'.ref # "up"]_vars
=============================================================================
