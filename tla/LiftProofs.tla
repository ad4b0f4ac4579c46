---------------------------- MODULE LiftProofs ----------------------------
(* Proofs about the lift (Lift): the car moves only behind closed doors, it   *)
(* runs under inspection only with a button held, no call leaves the drive    *)
(* commanded into a final limit, and the direction is held while the car      *)
(* moves.  The four follow from one invariant of the record of the            *)
(* controller's variables; every function of the code has a lemma that says   *)
(* what it leaves of it.  A section does the same for the selector and its    *)
(* copy in the EEPROM: where the lift has stopped the two are equal.  The     *)
(* last two follow the car through the shaft: the selector is right, called   *)
(* floors are not run past, and no final limit is met.                        *)
EXTENDS Lift, WellFoundedInduction, TLAPS

-----------------------------------------------------------------------------
(***************************************************************************)
(* The record of the controller's variables.                               *)
(***************************************************************************)
Watched == {"auto_counter", "auto_state", "direction_up", "door", "cam", "ersd", "ref", "moving"}
Fields ==
    Watched \cup
    {"ireq", "ereq", "eereq", "req_enabled", "selector_counter", "onfloor", "stop_idle_run",
     "idle_camt_run", "cf_press", "cam_lock_wait", "cam_trial_counter", "stop_delay_counter",
     "pre_spd_counter", "saved", "floor_counter_save", "turnoff_battery_mode", "errors"}
Rec(c) == c = [x \in Fields |-> c[x]]

\* d is c but for the variables in S and those that the proofs do not follow.
But(d, c, S) == Rec(d) /\ \A x \in Watched \ S : d[x] = c[x]

-----------------------------------------------------------------------------
(***************************************************************************)
(* What the functions of the code change.                                  *)
(***************************************************************************)
\* Nothing that the proofs follow.
LEMMA Unwatched ==
    ASSUME NEW c, Rec(c), NEW x \in Fields \ Watched, NEW e
    PROVE  But([c EXCEPT ![x] = e], c, {})
BY DEF Rec, But, Fields, Watched

\* Noting a fault changes no variable that the proofs follow.
LEMMA ErrChanges ==
    ASSUME NEW c, Rec(c), NEW f
    PROVE  But(Err(c, f), c, {})
BY DEF Rec, But, Fields, Watched, Err

\* Nor does the switch of the emergency supply.
LEMMA TurnOffChanges ==
    ASSUME NEW c, Rec(c), NEW f
    PROVE  But(force_turn_off(c, f), c, {})
BY DEF Rec, But, Fields, Watched, force_turn_off

\* Nor does dropping every call, or those of one floor.
LEMMA DropAllChanges ==
    ASSUME NEW c, Rec(c)
    PROVE  But(drop_all_req(c), c, {})
BY DEF Rec, But, Fields, Watched, drop_all_req

\* The calls of the floor where the car arrives (requests.c, drop_req).
LEMMA DropChanges ==
    ASSUME NEW c, Rec(c), NEW f
    PROVE  But(drop_req(c, f), c, {})
<1> DEFINE further == IF c.direction_up THEN {i \in Calls(c) \ {f} : i > f}
                                        ELSE {i \in Calls(c) \ {f} : i < f}
           keep == collect = 2 /\ f \notin {0, f_max} /\ further # {}
<1>2. drop_req(c, f) = [c EXCEPT !.ireq = @ \ {f},
                 !.ereq = IF keep /\ c.direction_up THEN @ ELSE @ \ {f},
                 !.eereq = IF keep /\ ~c.direction_up THEN @ ELSE @ \ {f}]
  BY DEF drop_req
<1> HIDE DEF keep
<1> QED
  BY <1>2 DEF Rec, But, Fields, Watched

\* The call that a car at high speed gives itself (pos_next_floor).
LEMMA NextFloorChanges ==
    ASSUME NEW c, Rec(c)
    PROVE  But(pos_next_floor(c), c, {})
<1> DEFINE f == get_current_floor(c)
           next == IF c.direction_up THEN IF f < f_max THEN f + 1 ELSE f_max
                   ELSE IF infloorzone(c) /\ f > 0 THEN f - 1 ELSE f
<1>3. CASE c.auto_counter = "hspd"
  <2>1. pos_next_floor(c) = [c EXCEPT !.ireq = {next}, !.ereq = {}]
    BY Zenon, <1>3 DEF pos_next_floor
  <2> HIDE DEF next
  <2> QED
    BY <2>1 DEF Rec, But, Fields, Watched
<1>4. CASE c.auto_counter # "hspd"
  BY <1>4 DEF pos_next_floor, But
<1> QED
  BY <1>3, <1>4

\* The state of the lift.
LEMMA SetChanges ==
    ASSUME NEW c, Rec(c), NEW s
    PROVE  But(Set(c, s), c, {"auto_counter"}) /\ Set(c, s).auto_counter = s
BY DEF Rec, But, Fields, Watched, Set

\* The direction.
LEMMA DirectionChanges ==
    ASSUME NEW c, Rec(c), NEW u
    PROVE  /\ But([c EXCEPT !.direction_up = u], c, {"direction_up"})
           /\ [c EXCEPT !.direction_up = u].direction_up = u
BY DEF Rec, But, Fields, Watched

Dir(up) == IF up THEN "up" ELSE "down"

\* The command to the drive is that of the direction.
LEMMA ReferenceChanges ==
    ASSUME NEW c, Rec(c)
    PROVE  But(Reference(c), c, {"ref"}) /\ Reference(c).ref = Dir(c.direction_up)
<1>1. CASE c.direction_up
  BY <1>1 DEF Reference, Dir, Rec, But, Fields, Watched
<1>2. CASE ~c.direction_up
  BY <1>2 DEF Reference, Dir, Rec, But, Fields, Watched
<1> QED
  BY <1>1, <1>2

\* vfd_estop takes the command away and the car stands.
LEMMA DriveStopChanges ==
    ASSUME NEW c, Rec(c)
    PROVE  /\ But(vfd_estop(c), c, {"ref", "moving"})
           /\ vfd_estop(c).ref = "zero" /\ vfd_estop(c).moving = "still"
<1> DEFINE a == [c EXCEPT !.ref = "zero"]
           b == [a EXCEPT !.moving = "still"]
<1>1. But(a, c, {"ref"}) /\ a.ref = "zero"
  BY DEF Rec, But, Fields, Watched
<1>2. But(b, a, {"moving"}) /\ b.moving = "still"
  <2> HIDE DEF a
  <2> QED
    BY <1>1 DEF Rec, But, Fields, Watched
<1>3. vfd_estop(c) = b
  BY DEF vfd_estop
<1> HIDE DEF a, b
<1> QED
  BY <1>1, <1>2, <1>3 DEF But, Watched

\* The emergency supply is left in a state in which it tries nothing.
LEMMA SupplyStopChanges ==
    ASSUME NEW c, Rec(c)
    PROVE  /\ But(ersd_stop(c), c, {"ersd"})
           /\ ersd_stop(c).ersd \in {"off", "exit", "init", "idle"}
           /\ c.ersd = "off" => ersd_stop(c).ersd = "off"
<1>1. CASE c.ersd \in {"off", "exit", "init"}
  <2>1. ersd_stop(c) = c
    BY <1>1 DEF ersd_stop
  <2> QED
    BY <1>1, <2>1 DEF But
<1>2. CASE c.ersd \notin {"off", "exit", "init"}
  <2>1. ersd_stop(c) = [c EXCEPT !.ersd = "idle"]
    BY <1>2 DEF ersd_stop
  <2> QED
    BY <1>2, <2>1 DEF Rec, But, Fields, Watched
<1> QED
  BY <1>1, <1>2

\* The command of the doors.
LEMMA DoorChanges ==
    ASSUME NEW c, Rec(c)
    PROVE  /\ But(open_doors(c), c, {"door"}) /\ But(close_doors(c), c, {"door"})
           /\ close_doors(c).door = "closed"
BY DEF Rec, But, Fields, Watched, open_doors, close_doors

\* Before a run the doors are commanded closed and the cam is drawn.
LEMMA MarchChanges ==
    ASSUME NEW c, Rec(c)
    PROVE  /\ But(march_set(c), c, {"door", "cam"})
           /\ march_set(c).door = "closed" /\ march_set(c).cam = TRUE
<1>1. march_set(c) = [[c EXCEPT !.cam = TRUE] EXCEPT !.door = "closed"]
  BY DEF march_set, close_doors
<1> QED
  BY <1>1 DEF Rec, But, Fields, Watched


\* The choice of the next floor changes the direction at most, and never that
\* of a car at high or creep speed.
LEMMA ScheduleChanges ==
    ASSUME NEW c, Rec(c), c.direction_up \in BOOLEAN, NEW fw
    PROVE  LET d == get_scheduled_floor(c, fw).c
           IN /\ But(d, c, {"direction_up"}) /\ d.direction_up \in BOOLEAN
              /\ \/ c.auto_counter \in {"hspd", "lspd"}
                 \/ collect = 2 /\ c.auto_counter = "stopping"
                 => d.direction_up = c.direction_up
<1> DEFINE Kept(d) ==
             /\ But(d, c, {"direction_up"}) /\ d.direction_up \in BOOLEAN
             /\ \/ c.auto_counter \in {"hspd", "lspd"}
                \/ collect = 2 /\ c.auto_counter = "stopping"
                => d.direction_up = c.direction_up
<1>1. \A f, u : Going(f, c, u).c = [c EXCEPT !.direction_up = u]
  BY DEF Going
<1>2. \A u \in BOOLEAN : But([c EXCEPT !.direction_up = u], c, {"direction_up"})
                         /\ [c EXCEPT !.direction_up = u].direction_up = u
  BY DirectionChanges
<1>3. ASSUME NEW f, NEW u \in BOOLEAN,
             \/ u = c.direction_up
             \/ /\ c.auto_counter \notin {"hspd", "lspd"}
                /\ collect = 2 => c.auto_counter # "stopping"
      PROVE  Kept(Going(f, c, u).c)
  <2>1. Going(f, c, u).c = [c EXCEPT !.direction_up = u]
    BY <1>1
  <2> QED
    BY <1>2, <1>3, <2>1
<1> SUFFICES Kept(get_scheduled_floor(c, fw).c)
  OBVIOUS
<1>4. CASE collect = 2
  <2> DEFINE ext == get_highest_floor(c.ereq)
             eext == get_lowest_floor(c.eereq)
             above == IF fw THEN get_nearest_floor(c, TRUE, c.ireq)
                      ELSE Or(get_nearest_floor(c, TRUE, c.ireq \cup c.eereq),
                              IF ext < get_current_floor(c) THEN NoFloor ELSE ext)
             below == IF fw THEN get_nearest_floor(c, FALSE, c.ireq)
                      ELSE Or(get_nearest_floor(c, FALSE, c.ireq \cup c.ereq),
                              IF eext > get_current_floor(c) THEN NoFloor ELSE eext)
             none == c.ireq = {} /\ (fw \/ c.ereq \cup c.eereq = {})
  <2>1. get_scheduled_floor(c, fw) =
          IF none THEN Going(NoFloor, c, c.direction_up)
          ELSE IF c.direction_up /\ above # NoFloor THEN Going(above, c, TRUE)
          ELSE IF c.direction_up /\ in_motion(c) THEN Going(NoFloor, c, TRUE)
          ELSE IF below # NoFloor THEN Going(below, c, FALSE)
          ELSE IF in_motion(c) THEN Going(NoFloor, c, c.direction_up)
          ELSE Going(NotAFloor, c, TRUE)
    BY <1>4, Zenon DEF get_scheduled_floor, all_coll
  <2> HIDE DEF none, above, below, Kept
  <2> QED
    BY <1>3, <1>4, <2>1 DEF in_motion
<1>5. CASE collect # 2
  <2> DEFINE int == get_nearest_floor(c, TRUE, c.ireq)
             ext == IF fw THEN NoFloor ELSE get_nearest_floor(c, TRUE, c.ereq)
             above == Or(int, IF ext = NoFloor THEN NoFloor
                              ELSE get_highest_floor(c.ireq \cup c.ereq))
             below == get_nearest_floor(c, FALSE, c.ireq \cup c.ereq)
             beyond == get_current_floor(c) > f_max
             none == c.ireq \cup c.ereq = {} \/ (fw /\ c.ireq = {})
             lost == [floor |-> NoFloor, c |-> drop_all_req([c EXCEPT !.selector_counter = 0])]
             moving == c.auto_counter \in {"hspd", "lspd"}
  <2>1. get_scheduled_floor(c, fw) =
          IF beyond THEN lost
          ELSE IF none THEN Going(NoFloor, c, c.direction_up)
          ELSE IF c.direction_up /\ above # NoFloor THEN Going(above, c, TRUE)
          ELSE IF ~c.direction_up /\ below # NoFloor THEN Going(below, c, FALSE)
          ELSE IF moving THEN Going(NoFloor, c, c.direction_up)
          ELSE IF below # NoFloor THEN Going(below, c, FALSE)
          ELSE IF above # NoFloor THEN Going(above, c, TRUE)
          ELSE Going(Endless, c, c.direction_up)
    BY <1>5, Zenon DEF get_scheduled_floor, down_coll
  <2>2. Kept(lost.c)
    <3> DEFINE a == [c EXCEPT !.selector_counter = 0]
    <3>1. But(a, c, {})
      BY DEF Rec, But, Fields, Watched
    <3>2. But(drop_all_req(a), a, {})
      BY <3>1, DropAllChanges DEF But
    <3> HIDE DEF a
    <3>3. But(drop_all_req(a), c, {})
      BY <3>1, <3>2 DEF But
    <3>4. lost.c = drop_all_req(a)
      BY DEF a
    <3> QED
      BY <3>3, <3>4 DEF But, Watched
  <2> HIDE DEF beyond, none, above, below, lost, Kept
  <2> QED
    BY <1>3, <1>5, <2>1, <2>2
<1> QED
  BY <1>4, <1>5

\* Entering stop halts the drive and ends what the emergency supply tries.
LEMMA StopChanges ==
    ASSUME NEW c, Rec(c), NEW t
    PROVE  LET d == auto_stop_enter(c, t)
           IN /\ But(d, c, {"auto_counter", "ref", "moving", "ersd", "cam"})
              /\ d.auto_counter = "stop" /\ d.ref = "zero" /\ d.moving = "still"
              /\ d.ersd \in {"off", "exit", "init", "idle"}
              /\ c.ersd = "off" => d.ersd = "off"
<1> DEFINE a == Set(c, "stop")
           b == vfd_estop(a)
           s == ersd_stop(b)
<1>1. But(a, c, {"auto_counter"}) /\ a.auto_counter = "stop"
  BY SetChanges
<1>2. But(b, a, {"ref", "moving"}) /\ b.ref = "zero" /\ b.moving = "still"
  BY <1>1, DriveStopChanges DEF But
<1>3. /\ But(s, b, {"ersd"}) /\ s.ersd \in {"off", "exit", "init", "idle"}
      /\ b.ersd = "off" => s.ersd = "off"
  BY <1>2, SupplyStopChanges DEF But
<1> HIDE DEF s
<1> DEFINE v == IF c.floor_counter_save THEN c.selector_counter ELSE s.saved
           f == s.turnoff_battery_mode /\ ~(ARD(c) /\ ~t.level)
           r == s.stop_idle_run \/ ~(INS(c) \/ ARD(c))
           d == auto_stop_enter(c, t)
<1>4. d = [s EXCEPT !.saved = IF c.floor_counter_save THEN c.selector_counter ELSE @,
                    !.floor_counter_save = FALSE,
                    !.turnoff_battery_mode = @ /\ ~(ARD(c) /\ ~t.level),
                    !.stop_idle_run = @ \/ ~(INS(c) \/ ARD(c)),
                    !.cam = FALSE]
  BY DEF auto_stop_enter, s
<1>5. But(d, s, {"cam"})
  BY <1>3, <1>4 DEF Rec, But, Fields, Watched
<1> HIDE DEF a, b, d
<1> QED
  BY <1>1, <1>2, <1>3, <1>5 DEF But, Watched, d


\* Entering idle halts the drive; the doors may be commanded either way.
LEMMA IdleChanges ==
    ASSUME NEW c, Rec(c), NEW t
    PROVE  LET d == auto_idle_enter(c, t)
           IN /\ But(d, c, {"auto_counter", "ref", "moving", "door", "cam"})
              /\ d.auto_counter = "idle" /\ d.ref = "zero" /\ d.moving = "still"
<1> DEFINE a == Set(c, "idle")
           b == vfd_estop(a)
           i == [b EXCEPT !.idle_camt_run = FALSE, !.cf_press = FALSE, !.cam = FALSE,
                          !.turnoff_battery_mode = @ /\ ~(ARD(c) /\ ~t.level)]
           d == auto_idle_enter(c, t)
<1>1. But(a, c, {"auto_counter"}) /\ a.auto_counter = "idle"
  BY SetChanges
<1>2. But(b, a, {"ref", "moving"}) /\ b.ref = "zero" /\ b.moving = "still"
  BY <1>1, DriveStopChanges DEF But
<1>3. But(i, b, {"cam"})
  <2> HIDE DEF b
  <2> DEFINE j == [b EXCEPT !.idle_camt_run = FALSE]
             k == [j EXCEPT !.cf_press = FALSE]
             l == [k EXCEPT !.cam = FALSE]
  <2>1. But(j, b, {})
    BY <1>2, Unwatched DEF But, Fields, Watched
  <2>2. But(k, j, {})
    <3> HIDE DEF j
    <3> QED
      BY <2>1, Unwatched DEF But, Fields, Watched
  <2>3. But(l, k, {"cam"})
    <3> HIDE DEF k
    <3> QED
      BY <2>2 DEF Rec, But, Fields, Watched
  <2>4. i = [l EXCEPT !.turnoff_battery_mode = @ /\ ~(ARD(c) /\ ~t.level)]
    OBVIOUS
  <2> HIDE DEF i, l
  <2>5. But(i, l, {})
    BY <2>3, <2>4 DEF Rec, But, Fields, Watched
  <2> QED
    BY <2>1, <2>2, <2>3, <2>5 DEF But, Watched
<1>4. d = close_doors(i) \/ d = open_doors(i) \/ d = i
  BY Zenon DEF auto_idle_enter
<1> HIDE DEF i, d
<1>5. But(d, i, {"door"})
  BY <1>3, <1>4, DoorChanges DEF But
<1> HIDE DEF a, b
<1> QED
  BY <1>1, <1>2, <1>3, <1>5 DEF But, Watched, d

\* Entering stopping takes the command away; the car may still move.
LEMMA StoppingChanges ==
    ASSUME NEW c, Rec(c)
    PROVE  LET d == auto_stopping_enter(c)
           IN /\ But(d, c, {"auto_counter", "ref"})
              /\ d.auto_counter = "stopping" /\ d.ref = "zero"
<1> DEFINE a == Set(c, "stopping")
           b == [a EXCEPT !.ref = "zero"]
<1>1. But(a, c, {"auto_counter"}) /\ a.auto_counter = "stopping"
  BY SetChanges
<1> HIDE DEF a
<1>2. But(b, a, {"ref"}) /\ b.ref = "zero"
  BY <1>1 DEF Rec, But, Fields, Watched
<1> HIDE DEF b
<1>3. But(force_turn_off(b, FALSE), b, {})
  BY <1>2, TurnOffChanges DEF But
<1>4. auto_stopping_enter(c) = force_turn_off(b, FALSE)
  BY DEF auto_stopping_enter, a, b
<1> QED
  BY <1>1, <1>2, <1>3, <1>4 DEF But, Watched

\* Entering a state of a run closes the doors and draws the cam; the reference
\* is that of the direction.
LEMMA LspdChanges ==
    ASSUME NEW c, Rec(c)
    PROVE  LET d == auto_lspd_enter(c)
           IN /\ But(d, c, {"auto_counter", "door", "cam", "ersd", "direction_up", "ref"})
              /\ d.auto_counter = "lspd" /\ d.door = "closed" /\ d.cam = TRUE
              /\ d.ref = Dir(d.direction_up)
              /\ ARD(c) => d.ersd = "find0" /\ d.direction_up = TRUE
              /\ ~ARD(c) => d.ersd = c.ersd /\ d.direction_up = c.direction_up
<1> DEFINE a == Set(c, "lspd")
           b == [a EXCEPT !.onfloor = FALSE, !.stop_delay_counter = STOP_DELAY]
           f == force_turn_off(b, FALSE)
           l == march_set(f)
           d == auto_lspd_enter(c)
<1>1. But(a, c, {"auto_counter"}) /\ a.auto_counter = "lspd"
  BY SetChanges
<1>2. But(b, a, {})
  <2> HIDE DEF a
  <2> QED
    BY <1>1 DEF Rec, But, Fields, Watched
<1>3. But(f, b, {})
  BY <1>2, TurnOffChanges DEF But
<1>4. But(l, f, {"door", "cam"}) /\ l.door = "closed" /\ l.cam = TRUE
  BY <1>3, MarchChanges DEF But
<1>5. But(l, c, {"auto_counter", "door", "cam"}) /\ l.auto_counter = "lspd"
  <2> HIDE DEF a, b, f, l
  <2> QED
    BY <1>1, <1>2, <1>3, <1>4 DEF But, Watched
<1>6. CASE ARD(c)
  <2>1. d = [l EXCEPT !.ersd = "find0", !.direction_up = TRUE, !.ref = "up"]
    BY <1>6, Zenon DEF auto_lspd_enter
  <2> DEFINE j == [l EXCEPT !.ersd = "find0"]
             k == [j EXCEPT !.direction_up = TRUE]
  <2> HIDE DEF l, d
  <2>2. But(j, l, {"ersd"}) /\ j.ersd = "find0"
    BY <1>5 DEF Rec, But, Fields, Watched
  <2>3. d = [k EXCEPT !.ref = "up"]
    BY <2>1
  <2> HIDE DEF j
  <2>4. But(k, j, {"direction_up"}) /\ k.direction_up = TRUE
    BY <2>2, DirectionChanges DEF But
  <2> HIDE DEF k
  <2>5. But(d, k, {"ref"}) /\ d.ref = "up"
    BY <2>4, <2>3 DEF Rec, But, Fields, Watched
  <2> QED
    BY <1>4, <1>5, <1>6, <2>2, <2>4, <2>5 DEF But, Watched, Dir, d
<1>7. CASE ~ARD(c)
  <2>1. d = Reference(l)
    BY <1>7, Zenon DEF auto_lspd_enter
  <2> HIDE DEF l, d
  <2>2. But(d, l, {"ref"}) /\ d.ref = Dir(l.direction_up)
    BY <1>5, <2>1, ReferenceChanges DEF But
  <2> QED
    BY <1>4, <1>5, <1>7, <2>2 DEF But, Watched, d
<1> QED
  BY <1>6, <1>7

\* Entering the high speed.
LEMMA HspdChanges ==
    ASSUME NEW c, Rec(c)
    PROVE  LET d == auto_hspd_enter(c)
           IN /\ But(d, c, {"auto_counter", "door", "cam", "ref"})
              /\ d.auto_counter = "hspd" /\ d.door = "closed" /\ d.cam = TRUE
              /\ d.ref = Dir(c.direction_up)
<1> DEFINE a == Set(c, "hspd")
           l == march_set(a)
<1>1. But(a, c, {"auto_counter"}) /\ a.auto_counter = "hspd"
  BY SetChanges
<1>2. But(l, a, {"door", "cam"}) /\ l.door = "closed" /\ l.cam = TRUE
  BY <1>1, MarchChanges DEF But
<1>3. But(Reference(l), l, {"ref"}) /\ Reference(l).ref = Dir(l.direction_up)
  BY <1>2, ReferenceChanges DEF But
<1>4. auto_hspd_enter(c) = Reference(l)
  BY DEF auto_hspd_enter
<1> HIDE DEF a, l
<1> QED
  BY <1>1, <1>2, <1>3, <1>4 DEF But, Watched

\* Entering the pre-speed.
LEMMA PrespdChanges ==
    ASSUME NEW c, Rec(c)
    PROVE  LET d == auto_prespd_enter(c)
           IN /\ But(d, c, {"auto_counter", "door", "cam", "ref"})
              /\ d.auto_counter = "prespd" /\ d.door = "closed" /\ d.cam = TRUE
<1> DEFINE a == Set(c, "prespd")
           b == [a EXCEPT !.pre_spd_counter = PRE_SPD]
           l == march_set(b)
<1>1. But(a, c, {"auto_counter"}) /\ a.auto_counter = "prespd"
  BY SetChanges
<1> HIDE DEF a
<1>2. But(b, a, {})
  BY <1>1 DEF Rec, But, Fields, Watched
<1>3. But(l, b, {"door", "cam"}) /\ l.door = "closed" /\ l.cam = TRUE
  BY <1>2, MarchChanges DEF But
<1>4. But(Reference(l), l, {"ref"})
  BY <1>3, ReferenceChanges DEF But
<1>5. auto_prespd_enter(c) = Reference(l)
  BY DEF auto_prespd_enter, a
<1> HIDE DEF b, l
<1> QED
  BY <1>1, <1>2, <1>3, <1>4, <1>5 DEF But, Watched

\* Entering camtest halts the drive, closes the doors and draws the cam.
LEMMA CamtestChanges ==
    ASSUME NEW c, Rec(c)
    PROVE  LET d == auto_camtest_enter(c)
           IN /\ But(d, c, {"auto_counter", "door", "cam", "ref", "moving"})
              /\ d.auto_counter = "camtest" /\ d.door = "closed" /\ d.cam = TRUE
              /\ d.ref = "zero" /\ d.moving = "still"
<1> DEFINE a == Set(c, "camtest")
           b == [a EXCEPT !.floor_counter_save = TRUE]
           f == force_turn_off(b, FALSE)
           v == vfd_estop(f)
           l == march_set(v)
<1>2. But(a, c, {"auto_counter"}) /\ a.auto_counter = "camtest"
  BY SetChanges
<1> HIDE DEF a
<1>3. But(b, a, {})
  BY <1>2 DEF Rec, But, Fields, Watched
<1>4. But(f, b, {})
  BY <1>3, TurnOffChanges DEF But
<1>5. But(v, f, {"ref", "moving"}) /\ v.ref = "zero" /\ v.moving = "still"
  BY <1>4, DriveStopChanges DEF But
<1>6. But(l, v, {"door", "cam"}) /\ l.door = "closed" /\ l.cam = TRUE
  BY <1>5, MarchChanges DEF But
<1>7. auto_camtest_enter(c) = l
  BY DEF auto_camtest_enter, a
<1> HIDE DEF b, f, v, l
<1> QED
  BY <1>2, <1>3, <1>4, <1>5, <1>6, <1>7 DEF But, Watched


-----------------------------------------------------------------------------
(***************************************************************************)
(* The invariant of the controller's variables.                            *)
(***************************************************************************)
\* The emergency supply has the drive try a direction, or run.
Trying(c) == c.ersd \in {"find0", "find1", "find2", "find3", "move"}
\* The car moves, or may be made to move.
Hot(c) == c.ref # "zero" \/ c.moving # "still" \/ Trying(c)
SupplyStates == {"off", "exit", "init", "idle", "turningOff",
                 "find0", "find1", "find2", "find3", "move"}
States == {"stop", "idle", "camtest", "prespd", "hspd", "lspd", "stopping"}
\* Calls are collected both ways, no run begins at the pre-speed, and there is
\* no rescue: the direction of a moving car is then never chosen anew.
Steady == collect = 2 /\ PRE_SPD = 0 /\ \A m \in Modes : "ersin" \notin m

Ready(c) ==
    /\ Rec(c) /\ c.direction_up \in BOOLEAN /\ c.auto_state \in Modes
    /\ c.ersd \in SupplyStates /\ (Trying(c) => ARD(c))
    /\ Steady => c.ersd = "off" /\ c.moving \in {"still", Dir(c.direction_up)}
Good(c) ==
    /\ Ready(c) /\ c.auto_counter \in States
    /\ Hot(c) \/ c.auto_counter \in {"camtest", "prespd", "hspd", "lspd"} =>
          c.door = "closed" /\ c.cam = TRUE
    /\ Hot(c) \/ c.auto_counter \in {"prespd", "hspd", "lspd"} => doors = "closed"
    /\ Hot(c) => c.auto_counter \in {"prespd", "hspd", "lspd", "stopping"}
    /\ Trying(c) => c.auto_counter \in {"lspd", "stopping"}
    /\ c.auto_counter # "prespd" => c.ref \in {"zero", Dir(c.direction_up)}
    /\ c.auto_counter = "stopping" /\ c.ref # "zero" => Trying(c)
    /\ Steady => c.auto_counter # "prespd"

\* Good does not depend on the variables that the proofs do not follow.
LEMMA GoodAlike ==
    ASSUME NEW c, NEW d, But(d, c, {})
    PROVE  /\ Good(c) => Good(d)
           /\ Ready(c) => Ready(d)
           /\ d.auto_state = c.auto_state /\ d.auto_counter = c.auto_counter
           /\ d.ref = c.ref /\ d.direction_up = c.direction_up /\ d.ersd = c.ersd
           /\ d.moving = c.moving
<1>1. /\ Rec(d) /\ d.auto_counter = c.auto_counter /\ d.auto_state = c.auto_state
      /\ d.direction_up = c.direction_up /\ d.door = c.door /\ d.cam = c.cam
      /\ d.ersd = c.ersd /\ d.ref = c.ref /\ d.moving = c.moving
  BY DEF But, Watched
<1> QED
  BY <1>1 DEF Good, Ready, Trying, Hot, ARD

\* Stop may be entered in any state of the supply and of the drive, and
\* when the mode has just changed.
LEMMA StopEntered ==
    ASSUME NEW c, Rec(c), c.direction_up \in BOOLEAN, c.auto_state \in Modes,
           Steady => c.ersd = "off", NEW t
    PROVE  LET d == auto_stop_enter(c, t)
           IN /\ Good(d) /\ d.auto_state = c.auto_state
              /\ d.auto_counter = "stop" /\ d.ref = "zero"
<1> DEFINE d == auto_stop_enter(c, t)
<1>1. /\ But(d, c, {"auto_counter", "ref", "moving", "ersd", "cam"})
      /\ d.auto_counter = "stop" /\ d.ref = "zero" /\ d.moving = "still"
      /\ d.ersd \in {"off", "exit", "init", "idle"}
      /\ c.ersd = "off" => d.ersd = "off"
  BY StopChanges
<1> HIDE DEF d
<1>2. Rec(d) /\ d.auto_state = c.auto_state /\ d.direction_up = c.direction_up
  BY <1>1 DEF But, Watched
<1>3. ~Trying(d) /\ ~Hot(d)
  BY <1>1 DEF Trying, Hot
<1>4. Ready(d)
  BY <1>1, <1>2, <1>3 DEF Ready, SupplyStates
<1> QED
  BY <1>1, <1>2, <1>3, <1>4 DEF Good, States, d

\* In particular from any state that keeps the invariant.
LEMMA StopGood ==
    ASSUME NEW c, Ready(c), NEW t
    PROVE  LET d == auto_stop_enter(c, t)
           IN /\ Good(d) /\ d.auto_state = c.auto_state
              /\ d.auto_counter = "stop" /\ d.ref = "zero"
BY StopEntered DEF Ready

\* Stop with the calls dropped.
LEMMA DroppingGood ==
    ASSUME NEW c, Ready(c), NEW t
    PROVE  LET d == Stop_dropping(c, t)
           IN /\ Good(d) /\ d.auto_state = c.auto_state
              /\ d.auto_counter = "stop" /\ d.ref = "zero"
<1> DEFINE a == auto_stop_enter(c, t)
<1>1. /\ Good(a) /\ a.auto_state = c.auto_state
      /\ a.auto_counter = "stop" /\ a.ref = "zero"
  BY StopGood
<1> HIDE DEF a
<1>2. But(drop_all_req(a), a, {})
  BY <1>1, DropAllChanges DEF Good, Ready
<1> QED
  BY <1>1, <1>2, GoodAlike DEF Stop_dropping, a

\* Idle may be entered while the supply tries nothing.
LEMMA IdleGood ==
    ASSUME NEW c, Ready(c), ~Trying(c), NEW t
    PROVE  LET d == auto_idle_enter(c, t)
           IN /\ Good(d) /\ d.auto_state = c.auto_state
              /\ d.auto_counter = "idle" /\ d.ref = "zero" /\ d.ersd = c.ersd
<1> DEFINE d == auto_idle_enter(c, t)
<1>1. /\ But(d, c, {"auto_counter", "ref", "moving", "door", "cam"})
      /\ d.auto_counter = "idle" /\ d.ref = "zero" /\ d.moving = "still"
  BY IdleChanges DEF Ready
<1> HIDE DEF d
<1>2. /\ Rec(d) /\ d.auto_state = c.auto_state /\ d.direction_up = c.direction_up
      /\ d.ersd = c.ersd
  BY <1>1 DEF But, Watched
<1>3. ~Trying(d) /\ ~Hot(d)
  BY <1>1, <1>2 DEF Trying, Hot
<1>4. Ready(d)
  BY <1>1, <1>2, <1>3 DEF Ready
<1> QED
  BY <1>1, <1>2, <1>3, <1>4 DEF Good, States, d

\* So may camtest.
LEMMA CamtestGood ==
    ASSUME NEW c, Ready(c), ~Trying(c)
    PROVE  LET d == auto_camtest_enter(c)
           IN /\ Good(d) /\ d.auto_state = c.auto_state
              /\ d.auto_counter = "camtest" /\ d.ref = "zero"
<1> DEFINE d == auto_camtest_enter(c)
<1>1. /\ But(d, c, {"auto_counter", "door", "cam", "ref", "moving"})
      /\ d.auto_counter = "camtest" /\ d.door = "closed" /\ d.cam = TRUE
      /\ d.ref = "zero" /\ d.moving = "still"
  BY CamtestChanges DEF Ready
<1> HIDE DEF d
<1>2. /\ Rec(d) /\ d.auto_state = c.auto_state /\ d.direction_up = c.direction_up
      /\ d.ersd = c.ersd
  BY <1>1 DEF But, Watched
<1>3. ~Trying(d) /\ ~Hot(d)
  BY <1>1, <1>2 DEF Trying, Hot
<1>4. Ready(d)
  BY <1>1, <1>2, <1>3 DEF Ready
<1> QED
  BY <1>1, <1>2, <1>3, <1>4 DEF Good, States, d

\* Stopping may be entered while the car moves: its doors are closed already.
LEMMA StoppingGood ==
    ASSUME NEW c, Good(c)
    PROVE  LET d == auto_stopping_enter(c)
           IN /\ Good(d) /\ d.auto_state = c.auto_state
              /\ d.auto_counter = "stopping" /\ d.ref = "zero"
              /\ d.direction_up = c.direction_up
<1> DEFINE d == auto_stopping_enter(c)
<1>1. /\ But(d, c, {"auto_counter", "ref"})
      /\ d.auto_counter = "stopping" /\ d.ref = "zero"
  BY StoppingChanges DEF Good, Ready
<1> HIDE DEF d
<1>2. /\ Rec(d) /\ d.auto_state = c.auto_state /\ d.direction_up = c.direction_up
      /\ d.ersd = c.ersd /\ d.moving = c.moving /\ d.door = c.door /\ d.cam = c.cam
  BY <1>1 DEF But, Watched
<1>3. /\ Trying(d) => Trying(c)
      /\ Hot(d) => Hot(c)
  BY <1>1, <1>2 DEF Trying, Hot
<1>4. Ready(d)
  BY <1>1, <1>2, <1>3 DEF Good, Ready, ARD
<1> QED
  BY <1>1, <1>2, <1>3, <1>4 DEF Good, States, d

\* A run at creep speed may begin in any state once the doors are closed.
LEMMA LspdGood ==
    ASSUME NEW c, Ready(c), doors = "closed"
    PROVE  LET d == auto_lspd_enter(c)
           IN /\ Good(d) /\ d.auto_state = c.auto_state
              /\ d.auto_counter = "lspd"
              /\ ~ARD(c) => d.direction_up = c.direction_up
              /\ d.ref = Dir(d.direction_up)
<1> DEFINE d == auto_lspd_enter(c)
<1>1. /\ But(d, c, {"auto_counter", "door", "cam", "ersd", "direction_up", "ref"})
      /\ d.auto_counter = "lspd" /\ d.door = "closed" /\ d.cam = TRUE
      /\ d.ref = Dir(d.direction_up)
      /\ ARD(c) => d.ersd = "find0" /\ d.direction_up = TRUE
      /\ ~ARD(c) => d.ersd = c.ersd /\ d.direction_up = c.direction_up
  BY LspdChanges DEF Ready
<1> HIDE DEF d
<1>2. Rec(d) /\ d.auto_state = c.auto_state /\ d.moving = c.moving
  BY <1>1 DEF But, Watched
<1>3. Trying(d) => ARD(d)
  BY <1>1, <1>2 DEF Trying, Ready, ARD
<1>4. Steady => ~ARD(c)
  BY DEF Steady, ARD, Ready
<1>5. Ready(d)
  BY <1>1, <1>2, <1>3, <1>4 DEF Ready, SupplyStates
<1> QED
  BY <1>1, <1>2, <1>3, <1>5 DEF Good, States, d

\* A run at high speed needs closed doors and no rescue.
LEMMA HspdGood ==
    ASSUME NEW c, Ready(c), ~Trying(c), doors = "closed"
    PROVE  LET d == auto_hspd_enter(c)
           IN /\ Good(d) /\ d.auto_state = c.auto_state /\ d.auto_counter = "hspd"
<1> DEFINE d == auto_hspd_enter(c)
<1>1. /\ But(d, c, {"auto_counter", "door", "cam", "ref"})
      /\ d.auto_counter = "hspd" /\ d.door = "closed" /\ d.cam = TRUE
      /\ d.ref = Dir(c.direction_up)
  BY HspdChanges DEF Ready
<1> HIDE DEF d
<1>2. /\ Rec(d) /\ d.auto_state = c.auto_state /\ d.moving = c.moving
      /\ d.ersd = c.ersd /\ d.direction_up = c.direction_up
  BY <1>1 DEF But, Watched
<1>3. ~Trying(d)
  BY <1>2 DEF Trying
<1>4. Ready(d)
  BY <1>1, <1>2, <1>3 DEF Ready
<1> QED
  BY <1>1, <1>2, <1>3, <1>4 DEF Good, States, d

\* So does a run at the pre-speed, where there is one.
LEMMA PrespdGood ==
    ASSUME NEW c, Ready(c), ~Trying(c), doors = "closed", PRE_SPD # 0
    PROVE  LET d == auto_prespd_enter(c)
           IN /\ Good(d) /\ d.auto_state = c.auto_state /\ d.auto_counter = "prespd"
<1> DEFINE d == auto_prespd_enter(c)
<1>1. /\ But(d, c, {"auto_counter", "door", "cam", "ref"})
      /\ d.auto_counter = "prespd" /\ d.door = "closed" /\ d.cam = TRUE
  BY PrespdChanges DEF Ready
<1> HIDE DEF d
<1>2. /\ Rec(d) /\ d.auto_state = c.auto_state /\ d.moving = c.moving
      /\ d.ersd = c.ersd /\ d.direction_up = c.direction_up
  BY <1>1 DEF But, Watched
<1>3. ~Trying(d)
  BY <1>2 DEF Trying
<1>4. Ready(d) /\ ~Steady
  BY <1>1, <1>2, <1>3 DEF Ready, Steady
<1> QED
  BY <1>1, <1>2, <1>3, <1>4 DEF Good, States, d

\* The direction is chosen anew only where the car is at rest, or keeps it.
LEMMA ScheduleGood ==
    ASSUME NEW c, Good(c), ~Trying(c), NEW fw
    PROVE  LET d == get_scheduled_floor(c, fw).c
           IN /\ Good(d) /\ d.auto_state = c.auto_state /\ d.auto_counter = c.auto_counter
              /\ d.ref = c.ref /\ ~Trying(d)
<1> DEFINE d == get_scheduled_floor(c, fw).c
<1>1. /\ But(d, c, {"direction_up"}) /\ d.direction_up \in BOOLEAN
      /\ \/ c.auto_counter \in {"hspd", "lspd"}
         \/ collect = 2 /\ c.auto_counter = "stopping"
         => d.direction_up = c.direction_up
  BY ScheduleChanges DEF Good, Ready
<1> HIDE DEF d
<1>2. /\ Rec(d) /\ d.auto_state = c.auto_state /\ d.moving = c.moving
      /\ d.ersd = c.ersd /\ d.auto_counter = c.auto_counter /\ d.door = c.door
      /\ d.cam = c.cam /\ d.ref = c.ref
  BY <1>1 DEF But, Watched
<1>3. ~Trying(d) /\ (Hot(d) => Hot(c))
  BY <1>2 DEF Trying, Hot
<1>4. Ready(d)
  BY <1>1, <1>2, <1>3 DEF Good, Ready, Steady, Hot
<1> QED
  BY <1>1, <1>2, <1>3, <1>4 DEF Good, States, Hot, d


-----------------------------------------------------------------------------
(***************************************************************************)
(* The states at rest: stop, idle and camtest.                             *)
(***************************************************************************)
\* What the proofs use of the terminals.
Seen(t) ==
    /\ t.hand = hand /\ hand \subseteq {"up", "down"} /\ t.mode = mode
    /\ t.lock => doors = "closed"

\* What executing a state adds to Good: under inspection the command is that of
\* a button held, and no car is being stopped while it overruns.
Post(d, t) ==
    /\ INS(d) => /\ d.ref \in {"zero"} \cup hand
                 /\ d.auto_counter \in {"hspd", "lspd"} => Dir(d.direction_up) \in hand
    /\ d.auto_counter = "stopping" /\ d.ref # "zero" => ~Overrun(d, t)
After(d, c, t) == Good(d) /\ d.auto_state = c.auto_state /\ Post(d, t)

\* The car stands in stop or idle, or in camtest too.
Stands(d, c) ==
    Good(d) /\ d.auto_state = c.auto_state /\ d.auto_counter \in {"stop", "idle"}
Rests(d, c) ==
    Good(d) /\ d.auto_state = c.auto_state /\ d.auto_counter \in {"stop", "idle", "camtest"}

\* In stop, idle and camtest the car stands and is not commanded.
LEMMA AtRest ==
    ASSUME NEW c, Good(c), c.auto_counter \in {"stop", "idle", "camtest"}
    PROVE  /\ Ready(c) /\ Rec(c) /\ ~Hot(c) /\ ~Trying(c)
           /\ c.ref = "zero" /\ c.moving = "still"
BY DEF Good, Ready, Hot

\* A car at rest meets what is asked after a state has been executed.
LEMMA RestsAfter ==
    ASSUME NEW c, NEW d, NEW t, Rests(d, c)
    PROVE  After(d, c, t)
BY AtRest DEF Rests, After, Post

\* Rest does not depend on the variables that the proofs do not follow.
LEMMA RestsAlike ==
    ASSUME NEW b, NEW c, NEW d, But(c, b, {})
    PROVE  /\ Rests(b, d) => Rests(c, d)
           /\ Stands(b, d) => Stands(c, d)
BY GoodAlike DEF Rests, Stands

\* The doors may be commanded at will in stop and idle.
LEMMA DoorStands ==
    ASSUME NEW b, NEW c, Stands(b, c)
    PROVE  Stands(open_doors(b), c) /\ Stands(close_doors(b), c)
<1>1. /\ Rec(b) /\ ~Hot(b) /\ ~Trying(b) /\ Good(b) /\ Ready(b)
      /\ b.auto_counter \in {"stop", "idle"}
  BY AtRest DEF Stands
<1>2. ASSUME NEW d, But(d, b, {"door"})
      PROVE  Stands(d, c)
  <2>1. /\ Rec(d) /\ d.auto_counter = b.auto_counter /\ d.auto_state = b.auto_state
        /\ d.direction_up = b.direction_up /\ d.cam = b.cam
        /\ d.ersd = b.ersd /\ d.ref = b.ref /\ d.moving = b.moving
    BY <1>2 DEF But, Watched
  <2>2. ~Hot(d) /\ ~Trying(d)
    BY <1>1, <2>1 DEF Hot, Trying
  <2>3. Ready(d)
    BY <1>1, <2>1, <2>2 DEF Ready
  <2> QED
    BY <1>1, <2>1, <2>2, <2>3 DEF Good, Stands
<1> QED
  BY <1>1, <1>2, DoorChanges

\* From rest to stop or idle.
LEMMA EnterStands ==
    ASSUME NEW b, NEW c, NEW t, Rests(b, c)
    PROVE  Stands(auto_stop_enter(b, t), c) /\ Stands(auto_idle_enter(b, t), c)
BY AtRest, StopGood, IdleGood DEF Rests, Stands

\* auto_stop_exit leaves the car in stop or idle.
LEMMA StopExitStands ==
    ASSUME NEW b, NEW c, NEW t, Stands(b, c)
    PROVE  Stands(auto_stop_exit(b, t), c)
<1>1. Rests(b, c)
  BY DEF Stands, Rests
<1>2. auto_stop_exit(b, t) = b \/ auto_stop_exit(b, t) = auto_idle_enter(b, t)
  BY Zenon DEF auto_stop_exit
<1> QED
  BY <1>1, <1>2, EnterStands

\* Executing stop.
LEMMA StopAfter ==
    ASSUME NEW c, Good(c), c.auto_counter = "stop", NEW t
    PROVE  After(auto_stop_exe(c, t), c, t)
<1> DEFINE a == IF ARDINS(c) THEN force_turn_off(c, TRUE)
                ELSE IF ARD(c) THEN force_turn_off(c, t.level) ELSE c
           b == IF ~t.shk THEN [a EXCEPT !.stop_idle_run = @ \/ ~external_auto]
                ELSE IF "light_curtain" \notin t.in THEN auto_stop_exit(a, t) ELSE a
           d == IF b.onfloor THEN open_doors(b)
                ELSE IF ~t.level THEN close_doors(b)
                ELSE IF ~INS(b) THEN open_doors([b EXCEPT !.onfloor = TRUE]) ELSE b
           closing == /\ "h_close" \in t.in /\ external_auto /\ ~t.s_i_err
                      /\ "light_curtain" \notin t.in
           e == IF closing THEN auto_idle_enter(a, t) ELSE d
<1>1. Stands(c, c) /\ Rec(c)
  BY DEF Stands, Good, Ready
<1>2. Stands(a, c)
  BY <1>1, TurnOffChanges, RestsAlike
<1> HIDE DEF a
<1>3. Rec(a) /\ Rests(a, c)
  BY <1>2 DEF Stands, Rests, Good, Ready
<1>4. Stands(b, c)
  <2>1. But([a EXCEPT !.stop_idle_run = @ \/ ~external_auto], a, {})
    BY <1>3 DEF Rec, But, Fields, Watched
  <2>2. Stands([a EXCEPT !.stop_idle_run = @ \/ ~external_auto], c)
    BY <1>2, <2>1, RestsAlike
  <2> QED
    BY <1>2, <2>2, StopExitStands
<1> HIDE DEF b
<1>5. Stands(d, c)
  <2>1. But([b EXCEPT !.onfloor = TRUE], b, {})
    BY <1>4 DEF Stands, Good, Ready, Rec, But, Fields, Watched
  <2>2. Stands([b EXCEPT !.onfloor = TRUE], c)
    BY <1>4, <2>1, RestsAlike
  <2> QED
    BY <1>4, <2>2, DoorStands
<1> HIDE DEF d
<1>6. Stands(e, c)
  BY <1>3, <1>5, EnterStands
<1> HIDE DEF e, closing
<1>7. auto_stop_exe(c, t) = auto_stop_exit(e, t)
  BY Zenon DEF auto_stop_exe, a, b, d, e, closing
<1>8. Rests(auto_stop_exit(e, t), c)
  BY <1>6, StopExitStands DEF Stands, Rests
<1> QED
  BY <1>7, <1>8, RestsAfter

\* auto_idle_exit leaves the car in stop, idle or camtest.
LEMMA IdleExitRests ==
    ASSUME NEW b, NEW c, NEW t, Stands(b, c)
    PROVE  Rests(auto_idle_exit(b, t), c)
<1>1. Rests(b, c)
  BY DEF Stands, Rests
<1>2. Rests(auto_stop_enter(b, t), c) /\ Rests(auto_idle_enter(b, t), c)
  BY <1>1, EnterStands DEF Stands, Rests
<1>3. Rests(auto_camtest_enter(b), c)
  BY <1>1, AtRest, CamtestGood DEF Rests
<1>4. \/ auto_idle_exit(b, t) = auto_stop_enter(b, t)
      \/ auto_idle_exit(b, t) = auto_idle_enter(b, t)
      \/ auto_idle_exit(b, t) = auto_camtest_enter(b)
  BY Zenon DEF auto_idle_exit
<1> QED
  BY <1>2, <1>3, <1>4

\* Looking for a reason to move leaves the car where it stands.
LEMMA WantedStands ==
    ASSUME NEW b, NEW c, NEW t, Stands(b, c)
    PROVE  Stands(Wanted(b, t), c)
<1> DEFINE next == get_scheduled_floor(b, "fw" \in t.in)
           start(x) == [x EXCEPT !.idle_camt_run = TRUE]
<1>1. Good(b) /\ ~Trying(b)
  BY AtRest DEF Stands
<1>2. Stands(next.c, c)
  BY <1>1, ScheduleGood DEF Stands
<1> HIDE DEF next
<1>3. ASSUME NEW x, Stands(x, c)
      PROVE  Stands(start(x), c)
  <2>1. But(start(x), x, {})
    BY <1>3 DEF Stands, Good, Ready, Rec, But, Fields, Watched
  <2> QED
    BY <1>3, <2>1, RestsAlike
<1>4. \/ Wanted(b, t) = b \/ Wanted(b, t) = start(b)
      \/ Wanted(b, t) = start(next.c) \/ Wanted(b, t) = next.c
  BY Zenon DEF Wanted, next
<1> HIDE DEF start
<1> QED
  BY <1>2, <1>3, <1>4

\* Executing idle.
LEMMA IdleAfter ==
    ASSUME NEW c, Good(c), c.auto_counter = "idle", NEW t
    PROVE  After(auto_idle_exe(c, t), c, t)
<1> DEFINE a == IF "ersc_toff" \in t.in /\ (ARDINS(c) \/ (ARD(c) /\ t.level))
                THEN force_turn_off(c, TRUE) ELSE c
           b == IF door_auto_close THEN close_doors(a)
                ELSE IF a.onfloor THEN open_doors(a) ELSE a
<1>1. Stands(c, c) /\ Rec(c)
  BY DEF Stands, Good, Ready
<1>2. Stands(a, c)
  BY <1>1, TurnOffChanges, RestsAlike
<1> HIDE DEF a
<1>3. Stands(b, c)
  BY <1>2, DoorStands
<1> HIDE DEF b
<1>4. \/ auto_idle_exe(c, t) = auto_stop_enter(c, t)
      \/ auto_idle_exe(c, t) = auto_stop_enter(b, t)
      \/ auto_idle_exe(c, t) = auto_idle_exit(b, t)
      \/ auto_idle_exe(c, t) = Wanted(b, t)
  BY Zenon DEF auto_idle_exe, a, b
<1>5. \A d : Stands(d, c) => Rests(d, c)
  BY DEF Stands, Rests
<1>6. Rests(auto_idle_exe(c, t), c)
  BY <1>1, <1>3, <1>4, <1>5, EnterStands, IdleExitRests, WantedStands
<1> QED
  BY <1>6, RestsAfter


\* Without inspection nothing is asked but of a car that is being stopped.
LEMMA PostPlain ==
    ASSUME NEW d, NEW t, ~INS(d), d.auto_counter # "stopping" \/ d.ref = "zero"
    PROVE  Post(d, t)
BY DEF Post

\* The departure from camtest, with the doors locked: to stop or to a run.
LEMMA DepartAfter ==
    ASSUME NEW b, NEW c, NEW t, Rests(b, c), Seen(t), doors = "closed"
    PROVE  After(Depart(b, t), c, t)
<1> DEFINE next == get_scheduled_floor(b, "fw" \in t.in)
           e == [b EXCEPT !.direction_up = "up" \in t.hand]
<1>1. /\ Good(b) /\ Ready(b) /\ ~Trying(b) /\ ~Hot(b) /\ b.moving = "still"
      /\ b.auto_state = c.auto_state
  BY AtRest DEF Rests
<1>2. After(auto_stop_enter(b, t), c, t)
  BY EnterStands, RestsAfter DEF Stands, Rests
<1>3. CASE ARD(b)
  <2>1. After(auto_lspd_enter(b), c, t)
    <3>1. ~INS(auto_lspd_enter(b))
      BY <1>1, <1>3, LspdGood DEF INS, ARD
    <3> QED
      BY <1>1, <3>1, LspdGood, PostPlain DEF After
  <2>2. Depart(b, t) = auto_stop_enter(b, t) \/ Depart(b, t) = auto_lspd_enter(b)
    BY <1>3, Zenon DEF Depart
  <2> QED
    BY <1>2, <2>1, <2>2
<1>4. CASE ~ARD(b) /\ INS(b)
  <2>1. CASE t.hand # {}
    <3>1. But(e, b, {"direction_up"}) /\ e.direction_up = ("up" \in t.hand)
      BY <1>1, DirectionChanges DEF Ready
    <3> HIDE DEF e
    <3>2. /\ Rec(e) /\ e.auto_state = b.auto_state /\ e.ersd = b.ersd /\ e.moving = b.moving
      BY <3>1 DEF But, Watched
    <3>3. Ready(e) /\ ~ARD(e)
      BY <1>1, <1>4, <3>1, <3>2 DEF Ready, Trying, ARD
    <3> DEFINE d == auto_lspd_enter(e)
    <3>4. /\ Good(d) /\ d.auto_state = e.auto_state /\ d.auto_counter = "lspd"
          /\ d.direction_up = e.direction_up /\ d.ref = Dir(d.direction_up)
      BY <3>3, LspdGood
    <3> HIDE DEF d
    <3>5. Dir(d.direction_up) \in hand
      BY <2>1, <3>1, <3>4 DEF Seen, Dir
    <3>6. After(d, c, t)
      BY <1>1, <3>2, <3>4, <3>5 DEF After, Post
    <3>7. Depart(b, t) = d
      BY <1>4, <2>1, Zenon DEF Depart, d, e
    <3> QED
      BY <3>6, <3>7
  <2>2. CASE t.hand = {}
    BY <1>2, <1>4, <2>2 DEF Depart
  <2> QED
    BY <2>1, <2>2
<1>5. CASE ~ARD(b) /\ ~INS(b)
  <2> DEFINE n == next.c
  <2>1. /\ Good(n) /\ n.auto_state = b.auto_state /\ n.auto_counter = b.auto_counter
        /\ ~Trying(n)
    BY <1>1, ScheduleGood
  <2> HIDE DEF next
  <2>2. Ready(n) /\ Rests(n, c)
    BY <1>1, <2>1 DEF Rests, Good
  <2>3. \A d : d.auto_state = n.auto_state => ~INS(d)
    BY <1>5, <2>1 DEF INS
  <2> HIDE DEF n
  <2>4. After(auto_stop_enter(n, t), c, t)
    BY <2>2, EnterStands, RestsAfter DEF Stands, Rests
  <2>5. After(auto_lspd_enter(n), c, t) /\ After(auto_hspd_enter(n), c, t)
    BY <1>1, <2>1, <2>2, <2>3, LspdGood, HspdGood, PostPlain DEF After
  <2>6. PRE_SPD > 0 => After(auto_prespd_enter(n), c, t)
    BY <1>1, <2>1, <2>2, <2>3, PrespdGood, PostPlain DEF After
  <2>7. \/ Depart(b, t) = auto_stop_enter(n, t)
        \/ Depart(b, t) = auto_lspd_enter(n)
        \/ PRE_SPD > 0 /\ Depart(b, t) = auto_prespd_enter(n)
        \/ Depart(b, t) = auto_hspd_enter(n)
    BY <1>5, Zenon DEF Depart, n, next
  <2> QED
    BY <2>4, <2>5, <2>6, <2>7
<1> QED
  BY <1>3, <1>4, <1>5

\* Executing camtest.
LEMMA CamtestAfter ==
    ASSUME NEW c, Good(c), c.auto_counter = "camtest", NEW t, Seen(t)
    PROVE  After(auto_camtest_exe(c, t), c, t)
<1> DEFINE z == [c EXCEPT !.cam_trial_counter = 0]
           n == [c EXCEPT !.cam_trial_counter = c.cam_trial_counter + 1]
           w == [z EXCEPT !.cam_lock_wait = @ + 1]
           y == [z EXCEPT !.cam_lock_wait = 0]
<1>1. Rests(c, c) /\ Rec(c)
  BY DEF Rests, Good, Ready
<1>2. Rests(z, c) /\ Rests(n, c)
  BY <1>1, Unwatched, RestsAlike DEF Fields, Watched
<1> HIDE DEF z, n
<1>3. Rests(w, c) /\ Rests(y, c)
  <2>1. Rec(z)
    BY <1>2 DEF Rests, Good, Ready
  <2>2. But(w, z, {}) /\ But(y, z, {})
    BY <2>1, Unwatched DEF Fields, Watched
  <2> QED
    BY <1>2, <2>2, RestsAlike
<1> HIDE DEF w, y
<1>4. \A b : Rests(b, c) => /\ After(b, c, t)
                            /\ After(auto_stop_enter(b, t), c, t)
                            /\ After(auto_idle_enter(b, t), c, t)
  BY EnterStands, RestsAfter DEF Stands, Rests
<1>5. After(Stop_dropping(c, t), c, t)
  BY <1>1, AtRest, DroppingGood, RestsAfter DEF Rests
<1>6. After(Err(auto_stop_enter(drop_all_req(z), t), "stop"), c, t)
  <2>1. Rests(drop_all_req(z), c)
    BY <1>2, DropAllChanges, RestsAlike DEF Rests, Good, Ready
  <2> DEFINE s == auto_stop_enter(drop_all_req(z), t)
  <2>2. Rests(s, c)
    BY <2>1, EnterStands DEF Stands, Rests
  <2> HIDE DEF s
  <2>3. Rests(Err(s, "stop"), c)
    BY <2>2, ErrChanges, RestsAlike DEF Rests, Good, Ready
  <2> QED
    BY <2>3, RestsAfter DEF s
<1>7. CASE t.lock
  <2>1. After(Depart(y, t), c, t)
    BY <1>3, <1>7, DepartAfter DEF Seen
  <2>2. \/ auto_camtest_exit(c, t) = auto_stop_enter(c, t)
        \/ auto_camtest_exit(c, t) = c
        \/ auto_camtest_exit(c, t) = w
        \/ auto_camtest_exit(c, t) = Depart(y, t)
    BY Zenon DEF auto_camtest_exit, w, y, z
  <2>3. After(auto_camtest_exit(c, t), c, t)
    BY <1>1, <1>3, <1>4, <2>1, <2>2
  <2>4. \/ auto_camtest_exe(c, t) = Stop_dropping(c, t)
        \/ auto_camtest_exe(c, t) = auto_stop_enter(z, t)
        \/ auto_camtest_exe(c, t) = auto_stop_enter(c, t)
        \/ auto_camtest_exe(c, t) = auto_camtest_exit(c, t)
    BY <1>7, Zenon DEF auto_camtest_exe, z
  <2> QED
    BY <1>1, <1>2, <1>4, <1>5, <2>3, <2>4
<1>8. CASE ~t.lock
  <2>1. \/ auto_camtest_exe(c, t) = Stop_dropping(c, t)
        \/ auto_camtest_exe(c, t) = auto_stop_enter(z, t)
        \/ auto_camtest_exe(c, t) = auto_stop_enter(c, t)
        \/ auto_camtest_exe(c, t) = c
        \/ auto_camtest_exe(c, t) = auto_idle_enter(n, t)
        \/ auto_camtest_exe(c, t) = Err(auto_stop_enter(drop_all_req(z), t), "stop")
    BY <1>8, Zenon DEF auto_camtest_exe, z, n
  <2> QED
    BY <1>1, <1>2, <1>4, <1>5, <1>6, <2>1
<1> QED
  BY <1>7, <1>8


-----------------------------------------------------------------------------
(***************************************************************************)
(* The states of a run: prespd, hspd, lspd and stopping.                   *)
(***************************************************************************)
\* What the states of a run need of the invariant.
LEMMA GoodFacts ==
    ASSUME NEW c, Good(c)
    PROVE  /\ Ready(c) /\ Rec(c)
           /\ c.auto_counter \in {"prespd", "hspd", "lspd"} => doors = "closed"
           /\ c.auto_counter \notin {"lspd", "stopping"} => ~Trying(c)
BY DEF Good, Ready

\* The checks at the head of a state stop the car or change nothing.
LEMMA CheckedGood ==
    ASSUME NEW c, Good(c), NEW t
    PROVE  LET a == Checked(c, t)
           IN /\ Good(a) /\ a.auto_state = c.auto_state
              /\ But(a, c, {}) \/ (a.auto_counter = "stop" /\ a.ref = "zero")
<1> DEFINE a == IF "isEnabled" \in t.in THEN auto_stop_enter(c, t) ELSE c
<1>1. /\ Good(a) /\ a.auto_state = c.auto_state
      /\ But(a, c, {}) \/ (a.auto_counter = "stop" /\ a.ref = "zero")
  <2>1. CASE "isEnabled" \in t.in
    BY <2>1, StopGood DEF Good
  <2>2. CASE "isEnabled" \notin t.in
    BY <2>2 DEF But, Good, Ready
  <2> QED
    BY <2>1, <2>2
<1> HIDE DEF a
<1>2. But(Err(a, "stop"), a, {})
  BY <1>1, ErrChanges DEF Good, Ready
<1>3. Checked(c, t) = a \/ Checked(c, t) = Err(a, "stop")
  BY Zenon DEF Checked, a
<1>4. ASSUME But(a, c, {})
      PROVE  But(Err(a, "stop"), c, {})
  BY <1>2, <1>4 DEF But
<1> QED
  BY <1>1, <1>2, <1>3, <1>4, GoodAlike

\* The same with the switch of the emergency supply set besides.
LEMMA CheckedOff ==
    ASSUME NEW c, Good(c), NEW t, NEW f
    PROVE  LET a == force_turn_off(Checked(c, t), f)
           IN /\ Good(a) /\ a.auto_state = c.auto_state
              /\ But(a, c, {}) \/ (a.auto_counter = "stop" /\ a.ref = "zero")
<1> DEFINE b == Checked(c, t)
           a == force_turn_off(b, f)
<1>1. /\ Good(b) /\ b.auto_state = c.auto_state
      /\ But(b, c, {}) \/ (b.auto_counter = "stop" /\ b.ref = "zero")
  BY CheckedGood
<1> HIDE DEF b
<1>2. But(a, b, {})
  BY <1>1, TurnOffChanges DEF Good, Ready
<1>3. But(b, c, {}) => But(a, c, {})
  BY <1>2 DEF But
<1> QED
  BY <1>1, <1>2, <1>3, GoodAlike DEF b

\* The state may be left for stop at any time.
LEMMA HaltAfter ==
    ASSUME NEW b, Ready(b), NEW c, b.auto_state = c.auto_state, NEW t, NEW f
    PROVE  /\ After(auto_stop_enter(b, t), c, t)
           /\ After(Stop_dropping(b, t), c, t)
           /\ After(Err(Stop_dropping(b, t), f), c, t)
<1> DEFINE d == Stop_dropping(b, t)
<1>1. Rests(auto_stop_enter(b, t), c)
  BY StopGood DEF Rests
<1>2. Rests(d, c)
  BY DroppingGood DEF Rests
<1> HIDE DEF d
<1>3. Rests(Err(d, f), c)
  BY <1>2, ErrChanges, RestsAlike DEF Rests, Good, Ready
<1> QED
  BY <1>1, <1>2, <1>3, RestsAfter DEF d

\* Executing prespd.
LEMMA PrespdAfter ==
    ASSUME NEW c, Good(c), c.auto_counter = "prespd", NEW t
    PROVE  After(auto_prespd_exe(c, t), c, t)
<1> DEFINE a == force_turn_off(Checked(c, t), FALSE)
           m == [a EXCEPT !.pre_spd_counter = @ - 1]
<1>1. /\ Good(a) /\ Ready(a) /\ a.auto_state = c.auto_state
      /\ a.auto_counter \in {"prespd", "stop"} /\ doors = "closed"
  <2>1. /\ Good(a) /\ a.auto_state = c.auto_state
        /\ But(a, c, {}) \/ (a.auto_counter = "stop" /\ a.ref = "zero")
    BY CheckedOff
  <2> HIDE DEF a
  <2>2. Ready(a) /\ (But(a, c, {}) => a.auto_counter = c.auto_counter)
    BY <2>1, GoodAlike, GoodFacts
  <2>3. doors = "closed" /\ (a.auto_counter \notin {"lspd", "stopping"} => ~Trying(a))
    BY <2>1, GoodFacts
  <2> QED
    BY <2>1, <2>2, <2>3
<1>2. /\ auto_prespd_exe(c, t) = IF Halted(t) THEN Stop_dropping(a, t)
                                 ELSE IF INS(c) THEN auto_stop_enter(a, t)
                                 ELSE auto_prespd_exit(a)
  BY Zenon DEF auto_prespd_exe
<1> HIDE DEF a
<1>3. \/ auto_prespd_exit(a) = auto_hspd_enter(a)
      \/ auto_prespd_exit(a) = a \/ auto_prespd_exit(a) = m
  BY Zenon DEF auto_prespd_exit
<1>4. ~Trying(a)
  BY <1>1 DEF Good
<1>5. ASSUME ~INS(c)
      PROVE  After(auto_prespd_exit(a), c, t)
  <2>1. \A d : d.auto_state = c.auto_state => ~INS(d)
    BY <1>5 DEF INS
  <2>2. But(m, a, {})
    BY <1>1, Unwatched DEF Ready, Fields, Watched
  <2> HIDE DEF m
  <2>3. After(m, c, t)
    BY <1>1, <2>1, <2>2, GoodAlike, PostPlain DEF After
  <2>4. After(a, c, t)
    BY <1>1, <2>1, PostPlain DEF After
  <2>5. After(auto_hspd_enter(a), c, t)
    BY <1>1, <1>4, <2>1, HspdGood, PostPlain DEF After
  <2> QED
    BY <1>3, <2>3, <2>4, <2>5
<1> QED
  BY <1>1, <1>2, <1>5, HaltAfter

\* Executing hspd: it may go on from stop, entered in the same call.
LEMMA HspdAfter ==
    ASSUME NEW c, Good(c), c.auto_counter = "hspd", NEW t
    PROVE  After(auto_hspd_exe(c, t), c, t)
<1> DEFINE a == force_turn_off(Checked(c, t), FALSE)
           b == IF INS(c) THEN auto_stop_enter(a, t) ELSE auto_hspd_exit(a, t)
           e == Err(Err(drop_all_req(b), "pos"), "stop")
<1>1. /\ Good(a) /\ Ready(a) /\ a.auto_state = c.auto_state
      /\ a.auto_counter \in {"hspd", "stop"} /\ doors = "closed" /\ ~Trying(a)
  <2>1. /\ Good(a) /\ a.auto_state = c.auto_state
        /\ But(a, c, {}) \/ (a.auto_counter = "stop" /\ a.ref = "zero")
    BY CheckedOff
  <2> HIDE DEF a
  <2>2. Ready(a) /\ (But(a, c, {}) => a.auto_counter = c.auto_counter)
    BY <2>1, GoodAlike, GoodFacts
  <2>3. doors = "closed" /\ (a.auto_counter \notin {"lspd", "stopping"} => ~Trying(a))
    BY <2>1, GoodFacts
  <2> QED
    BY <2>1, <2>2, <2>3
<1>2. \/ auto_hspd_exe(c, t) = Err(Stop_dropping(a, t), "stop")
      \/ auto_hspd_exe(c, t) = Stop_dropping(a, t)
      \/ auto_hspd_exe(c, t) = auto_stop_enter(e, t)
      \/ auto_hspd_exe(c, t) = b
  BY Zenon DEF auto_hspd_exe
<1> HIDE DEF a
<1>3. ASSUME ~INS(c)
      PROVE  After(auto_hspd_exit(a, t), c, t)
  <2>1. \A d : d.auto_state = c.auto_state => ~INS(d)
    BY <1>3 DEF INS
  <2> DEFINE next == get_scheduled_floor(a, "fw" \in t.in)
             n == next.c
  <2>2. /\ Good(n) /\ Ready(n) /\ n.auto_state = a.auto_state
        /\ n.auto_counter = a.auto_counter
    BY <1>1, ScheduleGood, GoodFacts
  <2>3. \/ auto_hspd_exit(a, t) = pos_next_floor(n)
        \/ auto_hspd_exit(a, t) = auto_lspd_enter(n)
        \/ auto_hspd_exit(a, t) = n
    BY Zenon DEF auto_hspd_exit
  <2> HIDE DEF n
  <2>4. But(pos_next_floor(n), n, {})
    BY <2>2, NextFloorChanges DEF Ready
  <2>5. After(pos_next_floor(n), c, t) /\ After(n, c, t)
    BY <1>1, <2>1, <2>2, <2>4, GoodAlike, PostPlain DEF After
  <2>6. After(auto_lspd_enter(n), c, t)
    BY <1>1, <2>1, <2>2, LspdGood, PostPlain DEF After
  <2> QED
    BY <2>3, <2>5, <2>6
<1>4. After(b, c, t)
  BY <1>1, <1>3, HaltAfter
<1> HIDE DEF b
<1>5. Ready(e) /\ e.auto_state = c.auto_state
  <2> DEFINE x == drop_all_req(b)
             y == Err(x, "pos")
  <2>1. Ready(b) /\ b.auto_state = c.auto_state
    BY <1>4 DEF After, Good
  <2>2. Ready(x) /\ x.auto_state = c.auto_state
    BY <2>1, DropAllChanges, GoodAlike DEF Ready
  <2> HIDE DEF x
  <2>3. Ready(y) /\ y.auto_state = c.auto_state
    BY <2>2, ErrChanges, GoodAlike DEF Ready
  <2> HIDE DEF y
  <2>4. Ready(Err(y, "stop")) /\ Err(y, "stop").auto_state = c.auto_state
    BY <2>3, ErrChanges, GoodAlike DEF Ready
  <2> QED
    BY <2>4 DEF x, y
<1> HIDE DEF e
<1> QED
  BY <1>1, <1>2, <1>4, <1>5, HaltAfter

\* Executing lspd: under inspection it goes on with the button held.
LEMMA LspdAfter ==
    ASSUME NEW c, Good(c), c.auto_counter = "lspd", NEW t, Seen(t)
    PROVE  After(auto_lspd_exe(c, t), c, t)
<1> DEFINE a == Checked(c, t)
           b == IF ARD(c) /\ t.level THEN auto_stopping_enter(a) ELSE a
           held == (IF c.direction_up THEN "up" ELSE "down") \in t.hand
           m == [b EXCEPT !.stop_delay_counter = @ - 1]
           p == drop_req(b, get_current_floor(b))
<1>1. /\ Good(a) /\ a.auto_state = c.auto_state
      /\ \/ a.auto_counter = "lspd" /\ a.direction_up = c.direction_up
         \/ a.auto_counter = "stop" /\ a.ref = "zero"
  BY CheckedGood, GoodAlike
<1>3. \/ auto_lspd_exe(c, t) \in {Err(Stop_dropping(b, t), "stop"), Stop_dropping(b, t)}
      \/ ~INS(c) /\ auto_lspd_exe(c, t) = auto_lspd_exit(b, t)
      \/ INS(c) /\ held /\ auto_lspd_exe(c, t) = b
      \/ auto_lspd_exe(c, t) \in {auto_stop_enter(b, t), auto_stopping_enter(b)}
  BY Zenon DEF auto_lspd_exe
<1> HIDE DEF a
<1>4. /\ Good(b) /\ Ready(b) /\ b.auto_state = c.auto_state
      /\ \/ b.auto_counter = "lspd" /\ b.direction_up = c.direction_up
         \/ b.auto_counter \in {"stop", "stopping"} /\ b.ref = "zero"
  BY <1>1, StoppingGood DEF Good
<1> HIDE DEF b
<1>5. After(auto_stopping_enter(b), c, t)
  BY <1>4, StoppingGood DEF After, Post
<1>6. ASSUME ~INS(c)
      PROVE  After(auto_lspd_exit(b, t), c, t)
  <2>1. \A d : d.auto_state = c.auto_state => ~INS(d)
    BY <1>6 DEF INS
  <2>2. auto_lspd_exit(b, t) \in {b, m, auto_stopping_enter(p)}
    BY Zenon DEF auto_lspd_exit
  <2>3. But(m, b, {}) /\ But(p, b, {})
    BY <1>4, Unwatched, DropChanges DEF Ready, Fields, Watched
  <2> HIDE DEF m, p
  <2>4. Good(p) /\ p.auto_state = c.auto_state
    BY <1>4, <2>3, GoodAlike
  <2>5. After(auto_stopping_enter(p), c, t)
    BY <2>4, StoppingGood DEF After, Post
  <2>6. After(b, c, t) /\ After(m, c, t)
    BY <1>4, <2>1, <2>3, GoodAlike, PostPlain DEF After
  <2> QED
    BY <2>2, <2>5, <2>6
<1>7. ASSUME held
      PROVE  After(b, c, t)
  <2>1. Dir(c.direction_up) \in hand
    BY <1>7 DEF Seen, Dir
  <2>2. b.auto_counter = "lspd" => b.ref \in {"zero", Dir(b.direction_up)}
    BY <1>4 DEF Good
  <2> QED
    BY <1>4, <2>1, <2>2 DEF After, Post
<1> HIDE DEF held
<1> QED
  BY <1>3, <1>4, <1>5, <1>6, <1>7, HaltAfter

\* Executing stopping.
LEMMA StoppingAfter ==
    ASSUME NEW c, Good(c), c.auto_counter = "stopping", NEW t
    PROVE  After(auto_stopping_exe(c, t), c, t)
<1> DEFINE a == Checked(c, t)
           b == IF "stopping" \in t.in THEN auto_stop_enter(a, t) ELSE a
<1>1. /\ Good(a) /\ Ready(a) /\ a.auto_state = c.auto_state
      /\ \/ /\ a.auto_counter = "stopping" /\ a.direction_up = c.direction_up
            /\ a.ref = c.ref
         \/ a.auto_counter = "stop" /\ a.ref = "zero"
  BY CheckedGood, GoodAlike DEF Good
<1>2. \/ auto_stopping_exe(c, t) \in {Err(Stop_dropping(b, t), "stop"), Stop_dropping(b, t),
                                      auto_stop_enter(b, t)}
      \/ auto_stopping_exe(c, t) = b /\ (INS(c) \/ ~Overrun(c, t))
  BY Zenon DEF auto_stopping_exe
<1> HIDE DEF a
<1>3. /\ Good(b) /\ Ready(b) /\ b.auto_state = c.auto_state
      /\ \/ /\ b.auto_counter = "stopping" /\ b.direction_up = c.direction_up
            /\ b.ref = c.ref
         \/ b.auto_counter = "stop" /\ b.ref = "zero"
  BY <1>1, StopGood DEF Good
<1> HIDE DEF b
<1>4. ASSUME INS(c) \/ ~Overrun(c, t)
      PROVE  After(b, c, t)
  <2>1. b.ref # "zero" => ARD(c) /\ ~INS(c)
    BY <1>3 DEF Good, Ready, ARD, INS
  <2>2. INS(b) <=> INS(c)
    BY <1>3 DEF INS
  <2>3. b.ref # "zero" => (Overrun(b, t) <=> Overrun(c, t))
    BY <1>3 DEF Overrun
  <2> QED
    BY <1>3, <1>4, <2>1, <2>2, <2>3 DEF After, Post
<1> QED
  BY <1>2, <1>3, <1>4, HaltAfter


-----------------------------------------------------------------------------
(***************************************************************************)
(* A call of auto_update.                                                  *)
(***************************************************************************)
\* Counting an edge of the selector changes nothing that the proofs follow.
LEMMA SelectorChanges ==
    ASSUME NEW c, Rec(c), NEW t
    PROVE  But(selector_count(c, t), c, {})
<1>1. \A n : But([c EXCEPT !.selector_counter = n], c, {})
  BY Unwatched DEF Fields, Watched
<1>2. But(c, c, {})
  BY DEF But
<1>3. \/ selector_count(c, t) = c
      \/ \E n : selector_count(c, t) = [c EXCEPT !.selector_counter = n]
  BY Zenon DEF selector_count
<1> QED
  BY <1>1, <1>2, <1>3

\* Executing whatever state the lift is in.
LEMMA ExecuteAfter ==
    ASSUME NEW c, Good(c), NEW t, Seen(t)
    PROVE  After(execute(c, t), c, t)
<1>1. CASE c.auto_counter = "stop"
  BY <1>1, StopAfter DEF execute
<1>2. CASE c.auto_counter = "idle"
  BY <1>2, IdleAfter DEF execute
<1>3. CASE c.auto_counter = "camtest"
  BY <1>3, CamtestAfter DEF execute
<1>4. CASE c.auto_counter = "prespd"
  BY <1>4, PrespdAfter DEF execute
<1>5. CASE c.auto_counter = "hspd"
  BY <1>5, HspdAfter DEF execute
<1>6. CASE c.auto_counter = "lspd"
  BY <1>6, LspdAfter DEF execute
<1>7. CASE c.auto_counter = "stopping"
  BY <1>7, StoppingAfter DEF execute
<1>8. c.auto_counter \in States
  BY DEF Good
<1> QED
  BY <1>1, <1>2, <1>3, <1>4, <1>5, <1>6, <1>7, <1>8 DEF States

\* A change of mode stops the lift; without one nothing is changed.
LEMMA StateCheckGood ==
    ASSUME NEW c, Good(c), NEW t, Seen(t), mode \in Modes,
           c.auto_state = t.mode => Post(c, t)
    PROVE  LET d == state_check(c, t)
           IN Good(d) /\ d.auto_state = mode /\ Post(d, t)
<1> DEFINE a == [c EXCEPT !.auto_state = t.mode]
           d == state_check(c, t)
<1>1. But(a, c, {"auto_state"}) /\ a.auto_state = mode
  BY GoodFacts DEF Rec, But, Fields, Watched, Seen
<1>2. \/ d = auto_stop_enter(a, t)
      \/ d = a /\ t.mode = c.auto_state
  BY Zenon DEF state_check
<1> HIDE DEF a, d
<1>3. CASE d = auto_stop_enter(a, t)
  <2>1. /\ Rec(a) /\ a.direction_up \in BOOLEAN /\ a.auto_state \in Modes
        /\ Steady => a.ersd = "off"
    BY <1>1 DEF But, Watched, Good, Ready
  <2>2. Good(d) /\ d.auto_state = mode /\ d.auto_counter = "stop" /\ d.ref = "zero"
    BY <1>1, <1>3, <2>1, StopEntered
  <2> QED
    BY <2>2 DEF Post, d
<1>4. CASE d = a /\ t.mode = c.auto_state
  <2>1. But(a, c, {})
    BY <1>1, <1>4 DEF But, Watched, Seen
  <2>2. /\ Good(a) /\ a.auto_counter = c.auto_counter /\ a.auto_state = c.auto_state
        /\ a.ref = c.ref /\ a.direction_up = c.direction_up
    BY <2>1, GoodAlike
  <2>3. Post(a, t)
    BY <1>4, <2>2 DEF Post, INS, Overrun
  <2> QED
    BY <1>1, <1>4, <2>2, <2>3 DEF d
<1> QED
  BY <1>2, <1>3, <1>4

\* What is so when the limits have been looked at.
Held(c) == INS(c) => c.ref \in {"zero"} \cup hand
Left(c, t) ==
    /\ Good(c) /\ Held(c) /\ c.auto_state = mode
    /\ c.auto_counter # "prespd" => /\ t.dnfl => c.ref # "down"
                                    /\ t.upfl => c.ref # "up"

\* A limit of one end: slow down, stop, or go on under inspection.
LEMMA LimitGood ==
    ASSUME NEW c, Good(c), c.auto_counter \in {"hspd", "lspd"}, NEW t, Seen(t),
           c.auto_state = mode, Post(c, t),
           NEW l, NEW fl, NEW up \in BOOLEAN, NEW there, NEW strange
    PROVE  LET d == At_limit(c, t, l, fl, up, there, strange)
           IN /\ Good(d) /\ Held(d) /\ d.auto_state = mode
              /\ d.auto_counter \in {"hspd", "lspd", "stopping", "stop"}
              /\ ~l => d = c
<1> DEFINE a == [c EXCEPT !.selector_counter = there]
           d == At_limit(c, t, l, fl, up, there, strange)
           e == drop_all_req(c)
           Fine(x) == /\ Good(x) /\ Held(x) /\ x.auto_state = mode
                      /\ x.auto_counter \in {"hspd", "lspd", "stopping", "stop"}
<1>1. /\ Good(c) /\ Ready(c) /\ Rec(c) /\ doors = "closed"
      /\ INS(c) => Dir(c.direction_up) \in hand
  BY GoodFacts DEF Post
<1>2. Fine(c)
  BY DEF Post, Held
<1>3. But(a, c, {}) /\ But(e, c, {})
  BY <1>1, Unwatched, DropAllChanges DEF Fields, Watched
<1>4. \/ d = c \/ d = Err(auto_stop_enter(e, t), "stop")
      \/ "mnt" \notin t.mode /\ d = auto_lspd_enter(a)
      \/ d = a \/ d = auto_stopping_enter(a)
      \/ d = Reference(a)
  BY Zenon DEF At_limit
<1>5. ~l => d = c
  BY DEF At_limit
<1> HIDE DEF a, d, e
<1>6. /\ Good(a) /\ Ready(a) /\ Rec(a) /\ a.auto_counter = c.auto_counter
      /\ a.auto_state = c.auto_state /\ a.ref = c.ref /\ a.direction_up = c.direction_up
  BY <1>1, <1>3, GoodAlike, GoodFacts
<1>7. Fine(a)
  BY <1>2, <1>6 DEF Held, INS
<1>8. Fine(auto_stopping_enter(a))
  BY <1>6, StoppingGood DEF Held
<1>9. Fine(Err(auto_stop_enter(e, t), "stop"))
  <2> DEFINE s == auto_stop_enter(e, t)
  <2>1. Ready(e) /\ e.auto_state = c.auto_state
    BY <1>1, <1>3, GoodAlike
  <2>2. Good(s) /\ s.auto_state = c.auto_state /\ s.auto_counter = "stop" /\ s.ref = "zero"
    BY <2>1, StopGood
  <2> HIDE DEF s
  <2>3. But(Err(s, "stop"), s, {})
    BY <2>2, ErrChanges, GoodFacts
  <2>4. LET x == Err(s, "stop")
        IN Good(x) /\ x.auto_state = c.auto_state /\ x.auto_counter = "stop" /\ x.ref = "zero"
    BY <2>2, <2>3, GoodAlike
  <2> QED
    BY <2>4 DEF Held, s
<1>10. "mnt" \notin t.mode => Fine(auto_lspd_enter(a))
  BY <1>1, <1>6, LspdGood DEF Held, INS, Seen
<1>11. Fine(Reference(a))
  <2> DEFINE r == Reference(a)
  <2>1. But(r, a, {"ref"}) /\ r.ref = Dir(a.direction_up)
    BY <1>6, ReferenceChanges
  <2> HIDE DEF r
  <2>2. /\ Rec(r) /\ r.auto_counter = a.auto_counter /\ r.auto_state = a.auto_state
        /\ r.direction_up = a.direction_up /\ r.door = a.door /\ r.cam = a.cam
        /\ r.ersd = a.ersd /\ r.moving = a.moving
    BY <2>1 DEF But, Watched
  <2>3. Trying(r) <=> Trying(a)
    BY <2>2 DEF Trying
  <2>4. Ready(r)
    BY <1>6, <2>2, <2>3 DEF Ready, ARD
  <2>5. Good(r)
    BY <1>6, <2>1, <2>2, <2>3, <2>4 DEF Good
  <2>6. Held(r)
    BY <1>1, <1>6, <2>1, <2>2 DEF Held, INS
  <2> QED
    BY <1>6, <2>2, <2>5, <2>6 DEF r
<1> QED
  BY <1>2, <1>4, <1>5, <1>7, <1>8, <1>9, <1>10, <1>11 DEF d

\* At a final limit the command towards it is taken away.
LEMMA FinalGood ==
    ASSUME NEW c, Good(c), NEW t, NEW fl, NEW up \in BOOLEAN
    PROVE  LET d == At_final(c, t, fl, up)
           IN /\ Good(d) /\ d.auto_state = c.auto_state
              /\ d.ref \in {c.ref, "zero"} /\ d.direction_up = c.direction_up
              /\ d.auto_counter \in {c.auto_counter, "stopping"}
              /\ fl /\ c.direction_up = up => d.ref = "zero"
<1> DEFINE d == At_final(c, t, fl, up)
           e == IF "mnt" \in t.mode THEN c ELSE Err(c, "stop")
<1>1. But(e, c, {})
  BY ErrChanges, GoodFacts DEF But
<1>2. IF ~fl \/ c.direction_up # up THEN d = c ELSE d = auto_stopping_enter(e)
  BY Zenon DEF At_final
<1> HIDE DEF e, d
<1>3. Good(e) /\ e.auto_state = c.auto_state /\ e.direction_up = c.direction_up
  BY <1>1, GoodAlike
<1>4. CASE ~fl \/ c.direction_up # up
  BY <1>2, <1>4 DEF d
<1>5. CASE ~(~fl \/ c.direction_up # up)
  BY <1>2, <1>3, <1>5, StoppingGood DEF d
<1> QED
  BY <1>4, <1>5

\* The limits of both ends, which do not overlap.
LEMMA LimitsLeave ==
    ASSUME NEW c, Good(c), NEW t, Seen(t), c.auto_state = mode, Post(c, t),
           ~(t.dnfdl0 /\ t.upfdl0)
    PROVE  Left(direction_limits_check(c, t), t)
<1> DEFINE no == FALSE
           yes == TRUE
           below == c.selector_counter > 2
           above == c.selector_counter < 2 * f_max - 3
           dn == At_limit(c, t, t.dnfdl0, t.dnfl, no, 0, below)
           up == At_limit(dn, t, t.upfdl0, t.upfl, yes, 2 * f_max, above)
           x == At_final(up, t, t.dnfl, no)
           y == At_final(x, t, t.upfl, yes)
<1>1. c.auto_counter \in {"hspd", "lspd"} => direction_limits_check(c, t) = y
  BY Zenon DEF direction_limits_check
<1>2. no \in BOOLEAN /\ yes \in BOOLEAN
  OBVIOUS
<1>3. no = FALSE /\ yes = TRUE
  OBVIOUS
<1> HIDE DEF no, yes, below, above
<1>4. CASE c.auto_counter \in {"hspd", "lspd"}
  <2>1. /\ Good(up) /\ Held(up) /\ up.auto_state = mode
        /\ up.auto_counter \in {"hspd", "lspd", "stopping", "stop"}
    <3>1. /\ Good(dn) /\ Held(dn) /\ dn.auto_state = mode
          /\ dn.auto_counter \in {"hspd", "lspd", "stopping", "stop"}
          /\ ~t.dnfdl0 => dn = c
      BY <1>2, <1>4, LimitGood
    <3>2. CASE t.dnfdl0
      <4>1. up = dn
        BY <3>2 DEF At_limit
      <4> HIDE DEF dn, up
      <4> QED
        BY <3>1, <4>1
    <3>3. CASE ~t.dnfdl0
      <4>1. dn = c
        BY <3>1, <3>3
      <4> HIDE DEF dn
      <4> QED
        BY <1>2, <1>4, <4>1, LimitGood
    <3> QED
      BY <3>2, <3>3
  <2>2. direction_limits_check(c, t) = y
    BY <1>1, <1>4
  <2> HIDE DEF dn, up
  <2>3. /\ Good(x) /\ x.auto_state = mode
        /\ x.ref \in {up.ref, "zero"} /\ x.direction_up = up.direction_up
        /\ x.auto_counter \in {up.auto_counter, "stopping"}
        /\ t.dnfl /\ up.direction_up = no => x.ref = "zero"
    BY <1>2, <2>1, FinalGood
  <2> HIDE DEF x
  <2>4. /\ Good(y) /\ y.auto_state = mode
        /\ y.ref \in {x.ref, "zero"} /\ y.direction_up = x.direction_up
        /\ y.auto_counter \in {x.auto_counter, "stopping"}
        /\ t.upfl /\ x.direction_up = yes => y.ref = "zero"
    BY <1>2, <2>3, FinalGood
  <2> HIDE DEF y
  <2>5. /\ x.ref \in {"zero", Dir(x.direction_up)} /\ x.direction_up \in BOOLEAN
    BY <2>1, <2>3 DEF Good, Ready
  <2>6. Held(y)
    BY <2>1, <2>3, <2>4 DEF Held, INS
  <2>7. /\ t.dnfl => y.ref # "down"
        /\ t.upfl => y.ref # "up"
    BY <1>3, <2>3, <2>4, <2>5 DEF Dir
  <2> QED
    BY <2>2, <2>4, <2>6, <2>7 DEF Left
<1>5. CASE c.auto_counter \notin {"hspd", "lspd"}
  <2>1. \/ direction_limits_check(c, t) = c
        \/ direction_limits_check(c, t) = Err(c, "stop")
    BY <1>5, Zenon DEF direction_limits_check
  <2>2. Left(c, t)
    <3>1. Held(c)
      BY DEF Post, Held
    <3>2. CASE c.auto_counter \in {"stop", "idle", "camtest"}
      BY <3>1, <3>2, AtRest DEF Left
    <3>3. CASE c.auto_counter = "prespd"
      BY <3>1, <3>3 DEF Left
    <3>4. CASE c.auto_counter = "stopping"
      <4>1. c.ref \in {"zero", Dir(c.direction_up)} /\ c.direction_up \in BOOLEAN
        BY <3>4 DEF Good, Ready
      <4>2. c.ref # "zero" => ~(IF c.direction_up THEN t.upfl ELSE t.dnfl)
        BY <3>4 DEF Post, Overrun
      <4>3. /\ t.dnfl => c.ref # "down"
            /\ t.upfl => c.ref # "up"
        BY <4>1, <4>2 DEF Dir
      <4> QED
        BY <3>1, <4>3 DEF Left
    <3>5. c.auto_counter \in States
      BY DEF Good
    <3> QED
      BY <1>5, <3>2, <3>3, <3>4, <3>5 DEF States
  <2>3. But(Err(c, "stop"), c, {})
    BY ErrChanges, GoodFacts
  <2>4. Left(Err(c, "stop"), t)
    BY <2>2, <2>3, GoodAlike DEF Left, Held, INS
  <2> QED
    BY <2>1, <2>2, <2>4
<1> QED
  BY <1>4, <1>5

\* The whole call.
LEMMA UpdateLeaves ==
    ASSUME NEW c, Good(c), NEW t, Seen(t), mode \in Modes, ~(t.dnfdl0 /\ t.upfdl0)
    PROVE  Left(auto_update(c, t), t)
<1> DEFINE s == selector_count(c, t)
           e == execute(s, t)
           a == state_check(e, t)
           d == direction_limits_check(a, t)
           m == IF d.auto_state = {} THEN d ELSE drop_all_req(d)
           r == [m EXCEPT !.req_enabled = d.auto_state = {} /\ faults \cup d.errors = {}]
<1>1. Good(s)
  BY SelectorChanges, GoodAlike, GoodFacts
<1> HIDE DEF s
<1>2. After(e, s, t)
  BY <1>1, ExecuteAfter
<1> HIDE DEF e
<1>3. Good(a) /\ a.auto_state = mode /\ Post(a, t)
  BY <1>2, StateCheckGood DEF After
<1> HIDE DEF a
<1>4. Left(d, t)
  BY <1>3, LimitsLeave
<1> HIDE DEF d
<1>5. But(m, d, {})
  BY <1>4, GoodFacts, DropAllChanges DEF Left, But
<1>6. auto_update(c, t) = r
  BY Zenon DEF auto_update, auto_lift_states_monitor, d, a, e, s
<1> HIDE DEF m
<1>7. But(r, m, {})
  BY <1>5, Unwatched DEF But, Fields, Watched
<1> HIDE DEF r
<1>8. But(r, d, {})
  BY <1>5, <1>7 DEF But
<1> QED
  BY <1>4, <1>6, <1>8, GoodAlike DEF Left, Held, INS


-----------------------------------------------------------------------------
(***************************************************************************)
(* The calls and the emergency supply.                                     *)
(***************************************************************************)
\* A call at a station changes nothing that the proofs follow.
LEMMA ScanChanges ==
    ASSUME NEW c, Rec(c), NEW b, NEW i
    PROVE  But(req_scan(c, b, i), c, {})
<1>1. \A e : /\ But([c EXCEPT !.ireq = e], c, {})
             /\ But([c EXCEPT !.ereq = e], c, {})
             /\ But([c EXCEPT !.eereq = e], c, {})
             /\ But([c EXCEPT !.cf_press = e], c, {})
  BY Unwatched DEF Fields, Watched
<1>2. But(c, c, {})
  BY DEF But
<1>3. But(auto_reopen_door(c), c, {})
  <2>1. \E e : auto_reopen_door(c) = [c EXCEPT !.cf_press = e]
    BY Zenon DEF auto_reopen_door
  <2> QED
    BY <1>1, <2>1
<1>4. \/ req_scan(c, b, i) = c
      \/ \E e : req_scan(c, b, i) = [c EXCEPT !.ireq = e]
      \/ req_scan(c, b, i) = auto_reopen_door(c)
      \/ \E e : req_scan(c, b, i) = [c EXCEPT !.ereq = e]
      \/ \E e : req_scan(c, b, i) = [c EXCEPT !.eereq = e]
  BY Zenon DEF req_scan
<1> QED
  BY <1>1, <1>2, <1>3, <1>4

\* Nor does the call of the parking time.
LEMMA ParkChanges ==
    ASSUME NEW c, Rec(c), NEW f
    PROVE  But(parking_check(c, f), c, {})
<1>1. \A e : But([c EXCEPT !.ireq = e], c, {})
  BY Unwatched DEF Fields, Watched
<1>2. But(c, c, {})
  BY DEF But
<1>3. \/ parking_check(c, f) = c
      \/ \E e : parking_check(c, f) = [c EXCEPT !.ireq = e]
  BY Zenon DEF parking_check
<1> QED
  BY <1>1, <1>2, <1>3

\* The state of the emergency supply.
LEMMA SupplyChanges ==
    ASSUME NEW c, Rec(c), NEW s
    PROVE  But([c EXCEPT !.ersd = s], c, {"ersd"}) /\ [c EXCEPT !.ersd = s].ersd = s
BY DEF Rec, But, Fields, Watched

\* A state of the supply that leaves the drive alone.
LEMMA SupplyGood ==
    ASSUME NEW c, Good(c), ~Steady, NEW s \in SupplyStates,
           LET d == [c EXCEPT !.ersd = s] IN Trying(d) <=> Trying(c)
    PROVE  Good([c EXCEPT !.ersd = s])
<1> DEFINE d == [c EXCEPT !.ersd = s]
<1>1. But(d, c, {"ersd"}) /\ d.ersd = s
  BY SupplyChanges, GoodFacts
<1>2. Trying(d) <=> Trying(c)
  OBVIOUS
<1> HIDE DEF d
<1>3. /\ Rec(d) /\ d.auto_counter = c.auto_counter /\ d.auto_state = c.auto_state
      /\ d.direction_up = c.direction_up /\ d.door = c.door /\ d.cam = c.cam
      /\ d.ref = c.ref /\ d.moving = c.moving
  BY <1>1 DEF But, Watched
<1>4. Good(d)
  BY <1>1, <1>2, <1>3 DEF Good, Ready, ARD, Hot
<1> QED
  BY <1>4 DEF d

\* The drive is tripped, whatever the new direction and state of the supply.
LEMMA TripGood ==
    ASSUME NEW c, Good(c), NEW d, But(d, c, {"ersd", "direction_up"}),
           d.direction_up \in BOOLEAN, d.ersd \in SupplyStates,
           Trying(d) => Trying(c), Steady => d.ersd = "off"
    PROVE  Good(vfd_estop(d))
<1> DEFINE e == vfd_estop(d)
<1>1. Rec(d)
  BY DEF But
<1>2. But(e, d, {"ref", "moving"}) /\ e.ref = "zero" /\ e.moving = "still"
  BY <1>1, DriveStopChanges
<1> HIDE DEF e
<1>3. /\ Rec(e) /\ e.auto_counter = c.auto_counter /\ e.auto_state = c.auto_state
      /\ e.direction_up = d.direction_up /\ e.door = c.door /\ e.cam = c.cam
      /\ e.ersd = d.ersd
  BY <1>2 DEF But, Watched
<1>4. Trying(e) => Trying(c)
  BY <1>3 DEF Trying
<1>5. Hot(e) => Hot(c)
  BY <1>2, <1>4 DEF Hot
<1>6. Ready(e)
  BY <1>2, <1>3, <1>4 DEF Good, Ready, ARD
<1>7. Good(e)
  BY <1>2, <1>3, <1>4, <1>5, <1>6 DEF Good
<1> QED
  BY <1>7 DEF e

\* The supply has the drive run in the direction that it sets.
LEMMA CommandGood ==
    ASSUME NEW c, Good(c), Trying(c), ~Steady, NEW d, But(d, c, {"ersd", "direction_up"}),
           d.direction_up \in BOOLEAN, Trying(d)
    PROVE  Good(Reference(d))
<1> DEFINE e == Reference(d)
<1>1. Rec(d)
  BY DEF But
<1>2. But(e, d, {"ref"}) /\ e.ref = Dir(d.direction_up)
  BY <1>1, ReferenceChanges
<1> HIDE DEF e
<1>3. /\ Rec(e) /\ e.auto_counter = c.auto_counter /\ e.auto_state = c.auto_state
      /\ e.direction_up = d.direction_up /\ e.door = c.door /\ e.cam = c.cam
      /\ e.ersd = d.ersd /\ e.moving = c.moving
  BY <1>2 DEF But, Watched
<1>4. Trying(e)
  BY <1>3 DEF Trying
<1>5. Hot(c)
  BY DEF Hot
<1>6. Ready(e)
  BY <1>3, <1>4 DEF Good, Ready, ARD, Trying, SupplyStates
<1>7. Good(e)
  BY <1>2, <1>3, <1>4, <1>5, <1>6 DEF Good
<1> QED
  BY <1>7 DEF e

-----------------------------------------------------------------------------
(***************************************************************************)
(* The invariant and the steps of Next.                                    *)
(***************************************************************************)
LiftInv ==
    /\ Good(lift)
    /\ mode \in Modes /\ hand \subseteq {"up", "down"} /\ pos \in 0..Top

\* After power-up the car stands in stop.
LEMMA BootGood ==
    ASSUME NEW p, NEW s
    PROVE  Good(Boot(p, s))
<1> DEFINE n == IF p >= 4 * f_max THEN 2 * f_max ELSE IF p <= 2 THEN 0 ELSE s
           b == Boot(p, s)
<1>1. b = [auto_counter |-> "stop", auto_state |-> {}, ireq |-> {}, ereq |-> {}, eereq |-> {},
     req_enabled |-> FALSE, direction_up |-> FALSE,
     selector_counter |-> n,
     onfloor |-> FALSE, door |-> "closed", cam |-> FALSE, stop_idle_run |-> TRUE,
     idle_camt_run |-> FALSE, cf_press |-> FALSE, cam_lock_wait |-> 0,
     cam_trial_counter |-> 0, stop_delay_counter |-> 0, pre_spd_counter |-> 0,
     saved |-> s, floor_counter_save |-> FALSE, turnoff_battery_mode |-> FALSE,
     ersd |-> "off", ref |-> "zero", moving |-> "still", errors |-> {}]
  BY DEF Boot
<1> HIDE DEF b, n
<1>2. Rec(b)
  BY <1>1 DEF Rec, Fields, Watched
<1>3. /\ b.auto_counter = "stop" /\ b.auto_state = {} /\ b.direction_up = FALSE
      /\ b.ersd = "off" /\ b.ref = "zero" /\ b.moving = "still"
  BY <1>1
<1> HIDE DEF b
<1>4. {} \in Modes
  BY LiftAssumption
<1>5. ~Trying(b) /\ ~Hot(b)
  BY <1>3 DEF Trying, Hot
<1>6. Good(b)
  BY <1>2, <1>3, <1>4, <1>5 DEF Good, Ready, States, SupplyStates
<1> QED
  BY <1>6 DEF b


\* The invariant holds after power-up,
LEMMA LiftInit == Init => LiftInv
<1> SUFFICES ASSUME Init PROVE LiftInv
  OBVIOUS
<1>1. Good(lift)
  BY BootGood DEF Init
<1>2. mode \in Modes /\ hand \subseteq {"up", "down"}
  BY LiftAssumption DEF Init
<1>3. pos \in 0..Top
  BY CallsAssumption DEF Init, Top, Floors
<1> QED
  BY <1>1, <1>2, <1>3 DEF LiftInv

\* Good looks at the record and the doors only.
LEMMA GoodPrime ==
    ASSUME doors' = doors
    PROVE  \A d : Good(d) /\ lift' = d => Good(lift)'
BY DEF Good, Ready, Trying, Hot, ARD, Rec, Steady

\* The terminals show the shaft, and the limits of its ends do not overlap.
LEMMA TerminalsSeen ==
    ASSUME LiftInv, NEW in
    PROVE  LET t == Terminals(in)
           IN /\ Seen(t) /\ ~(t.dnfdl0 /\ t.upfdl0)
              /\ t.dnfl <=> (final_limits /\ pos = 0)
              /\ t.upfl <=> (final_limits /\ pos = Top)
<1>1. pos \in Int /\ f_max \in Nat \ {0}
  BY CallsAssumption DEF LiftInv, Top
<1>2. ~(pos >= 4 * f_max /\ pos <= 2)
  BY <1>1
<1> QED
  BY <1>2 DEF LiftInv, Terminals, Seen

\* What a call of auto_update leaves, in the state that follows.
LEMMA UpdateStep ==
    ASSUME LiftInv, NEW in, AutoUpdate(in)
    PROVE  /\ LiftInv'
           /\ Held(lift)' /\ lift'.auto_state = mode
           /\ lift'.auto_counter # "prespd" =>
                 /\ final_limits /\ pos = 0 => lift'.ref # "down"
                 /\ final_limits /\ pos = Top => lift'.ref # "up"
<1> DEFINE t == Terminals(in)
           d == auto_update(lift, t)
           e == [d EXCEPT !.errors = {}]
<1>1. /\ Seen(t) /\ ~(t.dnfdl0 /\ t.upfdl0)
      /\ t.dnfl <=> (final_limits /\ pos = 0)
      /\ t.upfl <=> (final_limits /\ pos = Top)
  BY TerminalsSeen
<1>2. lift' = e /\ doors' = doors /\ mode' = mode /\ hand' = hand /\ pos' = pos
  BY DEF AutoUpdate, Result
<1> HIDE DEF t
<1>3. Left(d, t)
  BY <1>1, UpdateLeaves DEF LiftInv
<1> HIDE DEF d
<1>4. But(e, d, {})
  BY <1>3, GoodFacts, Unwatched DEF Left, Fields, Watched
<1> HIDE DEF e
<1>5. Left(e, t)
  BY <1>3, <1>4, GoodAlike DEF Left, Held, INS
<1>6. Good(lift)'
  BY <1>2, <1>5, GoodPrime DEF Left
<1>7. Held(lift)'
  BY <1>2, <1>5 DEF Left, Held, INS
<1> QED
  BY <1>1, <1>2, <1>5, <1>6, <1>7 DEF Left, LiftInv

\* The delays of stop and idle.
LEMMA TimeoutGood ==
    ASSUME LiftInv, StopIdleTimeout \/ \E in \in Off({"shk", "Estop", "ow"}) : IdleCamtTimeout(in)
    PROVE  Good(lift)' /\ doors' = doors /\ UNCHANGED <<mode, hand, pos>>
<1>1. CASE StopIdleTimeout
  <2> DEFINE c == [lift EXCEPT !.stop_idle_run = FALSE]
             d == IF c.auto_counter = "stop" THEN auto_idle_enter(c, Terminals({})) ELSE c
             e == [d EXCEPT !.errors = {}]
  <2>1. lift' = e /\ doors' = doors /\ UNCHANGED <<mode, hand, pos>>
    BY <1>1 DEF StopIdleTimeout, Result
  <2>2. But(c, lift, {})
    BY GoodFacts, Unwatched DEF LiftInv, Fields, Watched
  <2>3. Good(c)
    BY <2>2, GoodAlike DEF LiftInv
  <2> HIDE DEF c
  <2>4. Good(d)
    BY <2>3, AtRest, IdleGood
  <2> HIDE DEF d
  <2>5. But(e, d, {})
    BY <2>4, GoodFacts, Unwatched DEF Fields, Watched
  <2> HIDE DEF e
  <2>6. Good(e)
    BY <2>4, <2>5, GoodAlike
  <2> QED
    BY <2>1, <2>6, GoodPrime
<1>2. ASSUME NEW in, IdleCamtTimeout(in)
      PROVE  Good(lift)' /\ doors' = doors /\ UNCHANGED <<mode, hand, pos>>
  <2> DEFINE c == IF lift.auto_counter = "idle"
                  THEN auto_idle_exit(lift, Terminals(in)) ELSE lift
             d == [c EXCEPT !.idle_camt_run = FALSE]
             e == [d EXCEPT !.errors = {}]
  <2>1. lift' = e /\ doors' = doors /\ UNCHANGED <<mode, hand, pos>>
    BY <1>2 DEF IdleCamtTimeout, Result
  <2>2. Good(c)
    <3>1. CASE lift.auto_counter = "idle"
      <4>1. Stands(lift, lift)
        BY <3>1 DEF Stands, LiftInv
      <4>2. Rests(auto_idle_exit(lift, Terminals(in)), lift)
        BY <4>1, IdleExitRests
      <4> QED
        BY <3>1, <4>2 DEF Rests
    <3> QED
      BY <3>1 DEF LiftInv
  <2> HIDE DEF c
  <2>3. But(d, c, {})
    BY <2>2, GoodFacts, Unwatched DEF Fields, Watched
  <2>4. Good(d)
    BY <2>2, <2>3, GoodAlike
  <2> HIDE DEF d
  <2>5. But(e, d, {})
    BY <2>4, GoodFacts, Unwatched DEF Fields, Watched
  <2> HIDE DEF e
  <2>6. Good(e)
    BY <2>4, <2>5, GoodAlike
  <2> QED
    BY <2>1, <2>6, GoodPrime
<1> QED
  BY <1>1, <1>2

\* The stations, the parking time and the display.
LEMMA CallsGood ==
    ASSUME LiftInv,
           \/ \E b \in Buttons, i \in Floors : Press(b, i)
           \/ Park
           \/ \E in \in Off({"fw"}) : Display(in)
    PROVE  Good(lift)' /\ doors' = doors /\ UNCHANGED <<mode, hand, pos>>
<1> Good(lift)
  BY DEF LiftInv
<1>1. ASSUME NEW b, NEW i, Press(b, i)
      PROVE  Good(lift)' /\ doors' = doors /\ UNCHANGED <<mode, hand, pos>>
  <2>1. lift' = req_scan(lift, b, i) /\ doors' = doors /\ UNCHANGED <<mode, hand, pos>>
    BY <1>1 DEF Press
  <2>2. Good(req_scan(lift, b, i))
    BY ScanChanges, GoodFacts, GoodAlike
  <2> QED
    BY <2>1, <2>2, GoodPrime
<1>2. ASSUME Park
      PROVE  Good(lift)' /\ doors' = doors /\ UNCHANGED <<mode, hand, pos>>
  <2>1. lift' = parking_check(lift, parking_floor) /\ doors' = doors /\ UNCHANGED <<mode, hand, pos>>
    BY <1>2 DEF Park
  <2>2. Good(parking_check(lift, parking_floor))
    BY ParkChanges, GoodFacts, GoodAlike
  <2> QED
    BY <2>1, <2>2, GoodPrime
<1>3. ASSUME NEW in, Display(in)
      PROVE  Good(lift)' /\ doors' = doors /\ UNCHANGED <<mode, hand, pos>>
  <2> DEFINE fw == "fw" \in in
  <2>1. /\ lift' = get_scheduled_floor(lift, fw).c /\ doors' = doors
        /\ UNCHANGED <<mode, hand, pos>> /\ lift.ersd \in {"off", "exit"}
    BY <1>3 DEF Display
  <2> HIDE DEF fw
  <2>2. ~Trying(lift)
    BY <2>1 DEF Trying
  <2>3. Good(get_scheduled_floor(lift, fw).c)
    BY <2>2, ScheduleGood
  <2> QED
    BY <2>1, <2>3, GoodPrime
<1> QED
  BY <1>1, <1>2, <1>3

\* The drive follows its command; the car moves in the direction of the run.
LEMMA DriveGood ==
    ASSUME LiftInv, DriveStart \/ DriveStop
    PROVE  Good(lift)' /\ doors' = doors /\ UNCHANGED <<mode, hand, pos>>
<1> DEFINE m == IF DriveStart THEN lift.ref ELSE "still"
           d == [lift EXCEPT !.moving = m]
<1>1. /\ lift' = d /\ doors' = doors /\ UNCHANGED <<mode, hand, pos>>
      /\ m = "still" \/ (m = lift.ref /\ lift.ref # "zero")
  BY DEF DriveStart, DriveStop
<1> HIDE DEF m
<1>2. But(d, lift, {"moving"}) /\ d.moving = m
  BY GoodFacts DEF LiftInv, Rec, But, Fields, Watched
<1> HIDE DEF d
<1>3. /\ Rec(d) /\ d.auto_counter = lift.auto_counter /\ d.auto_state = lift.auto_state
      /\ d.direction_up = lift.direction_up /\ d.door = lift.door /\ d.cam = lift.cam
      /\ d.ersd = lift.ersd /\ d.ref = lift.ref
  BY <1>2 DEF But, Watched
<1>4. /\ Trying(d) <=> Trying(lift)
      /\ Hot(d) => Hot(lift)
  BY <1>1, <1>2, <1>3 DEF Trying, Hot
<1>5. Good(d)
  BY <1>1, <1>2, <1>3, <1>4 DEF LiftInv, Good, Ready, ARD
<1> QED
  BY <1>1, <1>5, GoodPrime

\* A step of the emergency supply, which can only be taken where there is rescue.
LEMMA SupplyStepGood ==
    ASSUME LiftInv, ErsdStep
    PROVE  Good(lift)' /\ doors' = doors /\ UNCHANGED <<mode, hand, pos>>
<1> DEFINE to(s) == [lift EXCEPT !.ersd = s]
           up(c, b) == [c EXCEPT !.direction_up = b]
           on == "ersin" \in mode /\ ~lift.turnoff_battery_mode
           Idle == {"off", "exit", "init", "idle", "turningOff"}
           Busy == {"find0", "find1", "find2", "find3", "move"}
<1>1. Good(lift) /\ Rec(lift) /\ mode \in Modes
  BY GoodFacts DEF LiftInv
<1>2. doors' = doors /\ UNCHANGED <<mode, hand, pos>>
  BY DEF ErsdStep
<1>3. ~Steady
  <2>1. lift.ersd = "off" => on
    BY DEF ErsdStep
  <2> QED
    BY <1>1, <2>1 DEF Steady, Good, Ready
<1>4. \/ \E s \in Idle : lift' = to(s) /\ lift.ersd \in Idle
      \/ \E s \in Idle : lift' = vfd_estop(to(s))
      \/ lift.ersd \in Busy /\ lift' = vfd_estop(to("find1"))
      \/ lift.ersd \in Busy /\ \E b \in BOOLEAN, s \in Busy : lift' = Reference(up(to(s), b))
      \/ lift.ersd \in Busy /\ lift' = to("move")
      \/ lift.ersd \in Busy /\ lift' = vfd_estop(up(to("find3"), TRUE))
      \/ lift.ersd \in Busy /\ lift' = Reference(to("move"))
  <2>1. lift.ersd = "off" => lift' = vfd_estop(to("exit"))
    BY DEF ErsdStep
  <2>2. lift.ersd = "exit" => lift' = to("init") \/ lift' = vfd_estop(to("turningOff"))
    BY DEF ErsdStep
  <2>3. lift.ersd = "init" => lift' = to("idle")
    BY DEF ErsdStep
  <2>4. lift.ersd = "idle" => lift' = vfd_estop(to("turningOff"))
    BY DEF ErsdStep
  <2>5. lift.ersd = "find0" => \/ lift' = vfd_estop(to("find1"))
                              \/ \E b \in BOOLEAN : lift' = Reference(up(to("move"), b))
    BY DEF ErsdStep
  <2>6. lift.ersd = "find1" => lift' = Reference(up(to("find2"), FALSE))
    BY DEF ErsdStep
  <2>7. lift.ersd = "find2" => lift' = to("move") \/ lift' = vfd_estop(up(to("find3"), TRUE))
    BY DEF ErsdStep
  <2>8. lift.ersd = "find3" => lift' = Reference(to("move"))
    BY DEF ErsdStep
  <2>9. lift.ersd = "turningOff" => lift' = to("off")
    BY DEF ErsdStep
  <2>10. lift.ersd \in {"off", "exit", "init", "idle", "find0", "find1", "find2", "find3",
                        "turningOff"}
    <3>1. lift.ersd # "move"
      BY DEF ErsdStep
    <3> QED
      BY <1>1, <3>1 DEF Good, Ready, SupplyStates
  <2> HIDE DEF to, up
  <2> QED
    BY <2>1, <2>2, <2>3, <2>4, <2>5, <2>6, <2>7, <2>8, <2>9, <2>10
<1>5. \A s : But(to(s), lift, {"ersd"}) /\ to(s).ersd = s
  BY <1>1, SupplyChanges
<1> HIDE DEF to
<1>6. \A s : \A b \in BOOLEAN : /\ But(up(to(s), b), lift, {"ersd", "direction_up"})
                                /\ up(to(s), b).ersd = s /\ up(to(s), b).direction_up = b
  <2> SUFFICES ASSUME NEW s, NEW b \in BOOLEAN
               PROVE  /\ But(up(to(s), b), lift, {"ersd", "direction_up"})
                      /\ up(to(s), b).ersd = s /\ up(to(s), b).direction_up = b
    OBVIOUS
  <2>1. But(up(to(s), b), to(s), {"direction_up"}) /\ up(to(s), b).direction_up = b
    BY <1>5, DirectionChanges DEF But
  <2> QED
    BY <1>5, <2>1 DEF But, Watched
<1> HIDE DEF up
<1>7. lift.direction_up \in BOOLEAN
  BY <1>1 DEF Good, Ready
<1>8. \A s : /\ But(to(s), lift, {"ersd", "direction_up"})
             /\ to(s).direction_up = lift.direction_up
  BY <1>5 DEF But, Watched
<1>9. Idle \subseteq SupplyStates /\ Busy \subseteq SupplyStates
  BY DEF SupplyStates
<1>10. ASSUME NEW s \in Idle, lift.ersd \in Idle
      PROVE  Good(to(s))
  <2>1. Trying(to(s)) <=> Trying(lift)
    BY <1>5, <1>10 DEF Trying
  <2> QED
    BY <1>1, <1>3, <1>9, <2>1, SupplyGood DEF to
<1>11. ASSUME NEW s \in Idle
       PROVE  Good(vfd_estop(to(s)))
  <2>1. ~Trying(to(s))
    BY <1>5, <1>11 DEF Trying
  <2> QED
    BY <1>1, <1>3, <1>5, <1>7, <1>8, <1>9, <2>1, TripGood
<1>12. ASSUME lift.ersd \in Busy
       PROVE  /\ Good(vfd_estop(to("find1"))) /\ Good(vfd_estop(up(to("find3"), TRUE)))
              /\ Good(to("move")) /\ Good(Reference(to("move")))
              /\ \A b \in BOOLEAN, s \in Busy : Good(Reference(up(to(s), b)))
  <2>1. Trying(lift)
    BY <1>12 DEF Trying
  <2>2. Good(vfd_estop(to("find1"))) /\ Good(vfd_estop(up(to("find3"), TRUE)))
    <3>1. {"find1", "find3"} \subseteq SupplyStates /\ ~Steady
      BY <1>3, <1>9, <1>12 DEF SupplyStates
    <3>2. Good(vfd_estop(to("find1")))
      BY <1>1, <1>5, <1>7, <1>8, <2>1, <3>1, TripGood
    <3>3. Good(vfd_estop(up(to("find3"), TRUE)))
      BY <1>1, <1>6, <2>1, <3>1, TripGood
    <3> QED
      BY <3>2, <3>3
  <2>3. \A s \in Busy : Trying(to(s)) /\ \A b \in BOOLEAN : Trying(up(to(s), b))
    BY <1>5, <1>6 DEF Trying
  <2>4. Good(to("move"))
    BY <1>1, <1>3, <1>9, <2>1, <2>3, SupplyGood DEF to
  <2>5. Good(Reference(to("move")))
    BY <1>1, <1>3, <1>7, <1>8, <2>1, <2>3, CommandGood
  <2>6. \A b \in BOOLEAN, s \in Busy : Good(Reference(up(to(s), b)))
    BY <1>1, <1>3, <1>6, <2>1, <2>3, CommandGood
  <2> QED
    BY <2>2, <2>4, <2>5, <2>6
<1> HIDE DEF Idle, Busy
<1>13. \E d : Good(d) /\ lift' = d
  BY <1>4, <1>10, <1>11, <1>12
<1> QED
  BY <1>2, <1>13, GoodPrime


\* The car, the faults, the switches and the supply.
LEMMA OtherStepsGood ==
    ASSUME LiftInv,
           \/ Travel
           \/ \E f \in {"stop", "pos"}, trip \in BOOLEAN : FaultRaised(f, trip)
           \/ FaultClears \/ ModeChange \/ HandButton \/ PowerCycle
    PROVE  LiftInv'
<1> Good(lift)
  BY DEF LiftInv
<1>1. CASE Travel
  <2>1. lift' = lift /\ doors' = doors /\ mode' = mode /\ hand' = hand /\ pos' \in 0..Top
    BY <1>1 DEF Travel
  <2> QED
    BY <2>1, GoodPrime DEF LiftInv, Top
<1>2. ASSUME NEW f, NEW trip, FaultRaised(f, trip)
      PROVE  LiftInv'
  <2>1. /\ lift' = vfd_estop(lift) \/ lift' = lift
        /\ doors' = doors /\ UNCHANGED <<mode, hand, pos>>
    BY <1>2 DEF FaultRaised
  <2>2. But(lift, lift, {"ersd", "direction_up"})
    BY GoodFacts DEF But
  <2>3. lift.direction_up \in BOOLEAN /\ lift.ersd \in SupplyStates /\ (Steady => lift.ersd = "off")
    BY DEF Good, Ready
  <2>4. Good(vfd_estop(lift))
    BY <2>2, <2>3, TripGood
  <2> QED
    BY <2>1, <2>4, GoodPrime DEF LiftInv, Top
<1>3. CASE FaultClears
  BY <1>3, GoodPrime DEF FaultClears, LiftInv, Top
<1>4. CASE ModeChange
  BY <1>4, GoodPrime DEF ModeChange, LiftInv, Top
<1>5. CASE HandButton
  BY <1>5, GoodPrime DEF HandButton, LiftInv, Top
<1>6. CASE PowerCycle
  <2>1. lift' = Boot(pos, lift.saved) /\ doors' = doors /\ UNCHANGED <<mode, hand, pos>>
    BY <1>6 DEF PowerCycle
  <2>2. Good(Boot(pos, lift.saved))
    BY BootGood
  <2> QED
    BY <2>1, <2>2, GoodPrime DEF LiftInv, Top
<1> QED
  BY <1>1, <1>2, <1>3, <1>4, <1>5, <1>6

\* Doors open by command or by hand only where the car is at rest.
LEMMA DoorsGood ==
    ASSUME LiftInv, DoorStep
    PROVE  LiftInv'
<1>1. lift' = lift /\ UNCHANGED <<mode, hand, pos>>
  BY DEF DoorStep
<1>2. lift.door = "closed" /\ lift.cam = TRUE /\ doors = "closed" => doors' = "closed"
  BY DEF DoorStep
<1>3. Good(lift)
  BY DEF LiftInv
<1>4. Hot(lift) \/ lift.auto_counter \in {"prespd", "hspd", "lspd"} => doors' = "closed"
  BY <1>2, <1>3 DEF Good
<1>5. Good(lift)'
  BY <1>1, <1>3, <1>4 DEF Good, Ready, Trying, Hot, ARD, Rec, Steady
<1> QED
  BY <1>1, <1>5 DEF LiftInv, Top

\* and every step keeps it.
LEMMA LiftStep == LiftInv /\ [Next]_vars => LiftInv'
<1> SUFFICES ASSUME LiftInv, [Next]_vars PROVE LiftInv'
  OBVIOUS
<1>1. ASSUME NEW in, AutoUpdate(in) PROVE LiftInv'
  BY <1>1, UpdateStep
<1>2. ASSUME Good(lift)', UNCHANGED <<mode, hand, pos>> PROVE LiftInv'
  BY <1>2 DEF LiftInv, Top
<1>3. CASE StopIdleTimeout \/ \E in \in Off({"shk", "Estop", "ow"}) : IdleCamtTimeout(in)
  BY <1>2, <1>3, TimeoutGood
<1>4. CASE \/ \E b \in Buttons, i \in Floors : Press(b, i)
           \/ Park
           \/ \E in \in Off({"fw"}) : Display(in)
  BY <1>2, <1>4, CallsGood
<1>5. CASE DriveStart \/ DriveStop
  BY <1>2, <1>5, DriveGood
<1>6. CASE ErsdStep
  BY <1>2, <1>6, SupplyStepGood
<1>7. CASE DoorStep
  BY <1>7, DoorsGood
<1>8. CASE \/ Travel
           \/ \E f \in {"stop", "pos"}, trip \in BOOLEAN : FaultRaised(f, trip)
           \/ FaultClears \/ ModeChange \/ HandButton \/ PowerCycle
  BY <1>8, OtherStepsGood
<1>9. CASE UNCHANGED vars
  BY <1>2, <1>9, GoodPrime DEF vars, LiftInv
<1> QED
  BY <1>1, <1>3, <1>4, <1>5, <1>6, <1>7, <1>8, <1>9 DEF Next

\* The invariant holds always.
THEOREM LiftInvariant == Spec => []LiftInv
BY LiftInit, LiftStep, PTL DEF Spec

-----------------------------------------------------------------------------
(***************************************************************************)
(* The properties.                                                         *)
(***************************************************************************)
(* The car moves only with its doors closed, whatever the type of the doors, *)
(* the modes, the faults and the disturbances: a state in which it may move  *)
(* is entered with the doors locked, and they are commanded to open only in  *)
(* stop and idle, which are entered with the drive stopped.                  *)
THEOREM DoorsShutInMotionAlways == Spec => []DoorsShutInMotion
<1>1. LiftInv => DoorsShutInMotion
  BY DEF LiftInv, Good, Hot, DoorsShutInMotion
<1> QED
  BY <1>1, LiftInvariant, PTL

(* The direction is not changed under a moving car where calls are collected *)
(* both ways, no run begins at the pre-speed and there is no rescue.  Each of *)
(* the three is needed: down_coll turns round in stopping, full weight takes  *)
(* a hall call away at the pre-speed, and the supply tries both directions.   *)
THEOREM DirectionHeldAlways ==
    ASSUME Steady
    PROVE  Spec => []DirectionHeld
<1>1. LiftInv => DirectionHeld
  BY DEF LiftInv, Good, Ready, Dir, DirectionHeld
<1> QED
  BY <1>1, LiftInvariant, PTL

(* Under inspection a call of auto_update leaves no command but in the       *)
(* direction of a button that is held.                                       *)
THEOREM HoldToRunAlways == Spec => HoldToRun
<1>1. LiftInv /\ [Next]_vars =>
        [Updates /\ "mnt" \in mode => lift'.ref = "zero" \/ lift'.ref \in hand]_vars
  <2> SUFFICES ASSUME LiftInv, NEW in, AutoUpdate(in), "mnt" \in mode
               PROVE  lift'.ref = "zero" \/ lift'.ref \in hand
    BY DEF Updates
  <2>1. Held(lift)' /\ lift'.auto_state = mode /\ hand' = hand
    BY UpdateStep DEF AutoUpdate
  <2> QED
    BY <2>1 DEF Held, INS
<1> QED
  BY <1>1, LiftInvariant, PTL DEF Spec, HoldToRun

(* With final limits no call of auto_update leaves the drive commanded       *)
(* towards the one on which the car is, in any mode.                         *)
THEOREM FinalLimitStopsAlways ==
    ASSUME final_limits
    PROVE  Spec => FinalLimitStops
<1>1. LiftInv /\ [Next]_vars =>
        [Updates /\ lift'.auto_counter # "prespd" =>
            /\ pos = 0 => lift'.ref # "down"
            /\ pos = Top => lift'.ref # "up"]_vars
  <2> SUFFICES ASSUME LiftInv, NEW in, AutoUpdate(in), lift'.auto_counter # "prespd"
               PROVE  /\ pos = 0 => lift'.ref # "down"
                      /\ pos = Top => lift'.ref # "up"
    BY DEF Updates
  <2> QED
    BY UpdateStep
<1> QED
  BY <1>1, LiftInvariant, PTL DEF Spec, FinalLimitStops

-----------------------------------------------------------------------------
(***************************************************************************)
(* The selector in the EEPROM.                                             *)
(***************************************************************************)
Followed == {"auto_counter", "selector_counter", "saved", "floor_counter_save"}

\* d is c but for variables that say nothing of the selector and its copy.
Same(d, c) == Rec(d) /\ \A x \in Followed : d[x] = c[x]

\* Where the car stands the copy is the selector's; when it is about to leave,
\* and while it moves, the selector is marked for saving.
Remembered(c) ==
    /\ Rec(c) /\ c.auto_counter \in States
    /\ c.selector_counter \in 0..2 * f_max
    /\ c.auto_counter \in {"stop", "idle", "camtest"} => c.saved = c.selector_counter
    /\ c.auto_counter \notin {"stop", "idle"} => c.floor_counter_save = TRUE
Resting(c) == Remembered(c) /\ c.auto_counter \in {"stop", "idle", "camtest"}
Marked(c) == Remembered(c) /\ c.auto_counter \notin {"stop", "idle"}

\* The predicates look at those variables only.
LEMMA SameRemembered ==
    ASSUME NEW c, NEW d, Same(d, c)
    PROVE  /\ Remembered(c) => Remembered(d)
           /\ Resting(c) => Resting(d)
           /\ Marked(c) => Marked(d)
BY DEF Same, Followed, Remembered, Resting, Marked

\* Any other variable may be assigned.
LEMMA OtherVariable ==
    ASSUME NEW c, Rec(c), NEW x \in Fields \ Followed, NEW e
    PROVE  Same([c EXCEPT ![x] = e], c)
BY DEF Rec, Same, Fields, Watched, Followed

\* Two changes in turn.
LEMMA SameTwice ==
    ASSUME NEW b, NEW c, NEW d, Same(c, b), Same(d, c)
    PROVE  Same(d, b)
BY DEF Same

\* Faults, the emergency supply, doors, cam, drive and calls.
LEMMA PiecesSame ==
    ASSUME NEW c, Rec(c)
    PROVE  /\ Same(c, c)
           /\ Same(drop_all_req(c), c) /\ Same(vfd_estop(c), c) /\ Same(ersd_stop(c), c)
           /\ Same(open_doors(c), c) /\ Same(close_doors(c), c) /\ Same(march_set(c), c)
           /\ Same(Reference(c), c)
<1>1. Same(c, c)
  BY DEF Same
<1>3. Same(drop_all_req(c), c) /\ Same(vfd_estop(c), c)
  BY DEF drop_all_req, vfd_estop, Rec, Same, Fields, Watched, Followed
<1>4. Same(ersd_stop(c), c)
  <2>1. ersd_stop(c) = c \/ ersd_stop(c) = [c EXCEPT !.ersd = "idle"]
    BY DEF ersd_stop
  <2>2. Same([c EXCEPT !.ersd = "idle"], c)
    BY OtherVariable DEF Fields, Watched, Followed
  <2> QED
    BY <1>1, <2>1, <2>2
<1>5. Same(open_doors(c), c) /\ Same(close_doors(c), c)
  BY OtherVariable DEF open_doors, close_doors, Fields, Watched, Followed
<1>6. Same(march_set(c), c)
  <2> DEFINE a == [c EXCEPT !.cam = TRUE]
  <2>1. Same(a, c)
    BY OtherVariable DEF Fields, Watched, Followed
  <2> HIDE DEF a
  <2>2. Same(close_doors(a), a)
    BY <2>1, OtherVariable DEF Same, close_doors, Fields, Watched, Followed
  <2>3. march_set(c) = close_doors(a)
    BY DEF march_set, a
  <2> QED
    BY <2>1, <2>2, <2>3, SameTwice
<1>7. Same(Reference(c), c)
  <2>1. \E e : Reference(c) = [c EXCEPT !.ref = e]
    BY DEF Reference
  <2> QED
    BY <2>1, OtherVariable DEF Fields, Watched, Followed
<1> QED
  BY <1>1, <1>3, <1>4, <1>5, <1>6, <1>7

\* Noting a fault, and the switch of the emergency supply.
LEMMA SwitchSame ==
    ASSUME NEW c, Rec(c), NEW f
    PROVE  Same(Err(c, f), c) /\ Same(force_turn_off(c, f), c)
BY DEF Err, force_turn_off, Rec, Same, Fields, Watched, Followed

\* The calls of one floor, and the call that the car gives itself.
LEMMA CallsSame ==
    ASSUME NEW c, Rec(c), NEW f
    PROVE  Same(drop_req(c, f), c) /\ Same(pos_next_floor(c), c)
<1>1. ASSUME NEW a, NEW b
      PROVE  Same([c EXCEPT !.ireq = a, !.ereq = b], c)
  <2> DEFINE p == [c EXCEPT !.ireq = a]
  <2>1. Same(p, c)
    BY OtherVariable DEF Fields, Watched, Followed
  <2> HIDE DEF p
  <2>2. Same([p EXCEPT !.ereq = b], p)
    BY <2>1, OtherVariable DEF Same, Fields, Watched, Followed
  <2>3. [c EXCEPT !.ireq = a, !.ereq = b] = [p EXCEPT !.ereq = b]
    BY DEF p
  <2> QED
    BY <2>1, <2>2, <2>3, SameTwice
<1>2. ASSUME NEW a, NEW b, NEW e
      PROVE  Same([c EXCEPT !.ireq = a, !.ereq = b, !.eereq = e], c)
  <2> DEFINE q == [c EXCEPT !.ireq = a, !.ereq = b]
  <2>1. Same(q, c)
    BY <1>1
  <2> HIDE DEF q
  <2>2. Same([q EXCEPT !.eereq = e], q)
    BY <2>1, OtherVariable DEF Same, Fields, Watched, Followed
  <2>3. [c EXCEPT !.ireq = a, !.ereq = b, !.eereq = e] = [q EXCEPT !.eereq = e]
    BY DEF q
  <2> QED
    BY <2>1, <2>2, <2>3, SameTwice
<1>3. \E a, b, e : drop_req(c, f) = [c EXCEPT !.ireq = a, !.ereq = b, !.eereq = e]
  <2> DEFINE further == IF c.direction_up THEN {i \in Calls(c) \ {f} : i > f}
                                          ELSE {i \in Calls(c) \ {f} : i < f}
             keep == collect = 2 /\ f \notin {0, f_max} /\ further # {}
             e1 == c.ireq \ {f}
             e2 == IF keep /\ c.direction_up THEN c.ereq ELSE c.ereq \ {f}
             e3 == IF keep /\ ~c.direction_up THEN c.eereq ELSE c.eereq \ {f}
  <2>1. drop_req(c, f) = [c EXCEPT !.ireq = e1, !.ereq = e2, !.eereq = e3]
    BY DEF drop_req
  <2> HIDE DEF e1, e2, e3
  <2> QED
    BY <2>1
<1>4. pos_next_floor(c) = c \/ \E a, b : pos_next_floor(c) = [c EXCEPT !.ireq = a, !.ereq = b]
  BY Zenon DEF pos_next_floor
<1>5. Same(drop_req(c, f), c)
  <2>1. PICK a, b, e : drop_req(c, f) = [c EXCEPT !.ireq = a, !.ereq = b, !.eereq = e]
    BY <1>3
  <2> QED
    <3>1. Same([c EXCEPT !.ireq = a, !.ereq = b, !.eereq = e], c)
      BY <1>2
    <3> QED
      BY <2>1, <3>1, Zenon
<1>6. Same(pos_next_floor(c), c)
  <2>1. CASE pos_next_floor(c) = c
    BY <2>1, PiecesSame
  <2>2. CASE pos_next_floor(c) # c
    <3>1. PICK a, b : pos_next_floor(c) = [c EXCEPT !.ireq = a, !.ereq = b]
      BY <1>4, <2>2
    <3>2. Same([c EXCEPT !.ireq = a, !.ereq = b], c)
      BY <1>1
    <3> QED
      BY <3>1, <3>2, Zenon
  <2> QED
    BY <2>1, <2>2
<1> QED
  BY <1>5, <1>6

\* The choice of the next floor: a selector in its range is never taken back.
LEMMA ScheduleSame ==
    ASSUME NEW c, Remembered(c), NEW fw
    PROVE  Same(get_scheduled_floor(c, fw).c, c)
<1>1. \A f, u : Same(Going(f, c, u).c, c)
  BY OtherVariable DEF Remembered, Going, Fields, Watched, Followed
<1>2. CASE collect = 2
  <2> DEFINE ext == get_highest_floor(c.ereq)
             eext == get_lowest_floor(c.eereq)
             above == IF fw THEN get_nearest_floor(c, TRUE, c.ireq)
                      ELSE Or(get_nearest_floor(c, TRUE, c.ireq \cup c.eereq),
                              IF ext < get_current_floor(c) THEN NoFloor ELSE ext)
             below == IF fw THEN get_nearest_floor(c, FALSE, c.ireq)
                      ELSE Or(get_nearest_floor(c, FALSE, c.ireq \cup c.ereq),
                              IF eext > get_current_floor(c) THEN NoFloor ELSE eext)
  <2>1. \E f, u : get_scheduled_floor(c, fw) = Going(f, c, u)
    <3>1. \/ get_scheduled_floor(c, fw) = Going(NoFloor, c, c.direction_up)
          \/ get_scheduled_floor(c, fw) = Going(above, c, TRUE)
          \/ get_scheduled_floor(c, fw) = Going(NoFloor, c, TRUE)
          \/ get_scheduled_floor(c, fw) = Going(below, c, FALSE)
          \/ get_scheduled_floor(c, fw) = Going(NotAFloor, c, TRUE)
      BY <1>2, Zenon DEF get_scheduled_floor, all_coll
    <3> HIDE DEF above, below
    <3> QED
      BY <3>1
  <2> QED
    BY <1>1, <2>1
<1>3. CASE collect # 2
  <2>1. ~(get_current_floor(c) > f_max)
    BY CallsAssumption DEF Remembered, get_current_floor
  <2> DEFINE int == get_nearest_floor(c, TRUE, c.ireq)
             ext == IF fw THEN NoFloor ELSE get_nearest_floor(c, TRUE, c.ereq)
             above == Or(int, IF ext = NoFloor THEN NoFloor
                              ELSE get_highest_floor(c.ireq \cup c.ereq))
             below == get_nearest_floor(c, FALSE, c.ireq \cup c.ereq)
  <2>2. \/ get_scheduled_floor(c, fw) = Going(NoFloor, c, c.direction_up)
        \/ get_scheduled_floor(c, fw) = Going(above, c, TRUE)
        \/ get_scheduled_floor(c, fw) = Going(below, c, FALSE)
        \/ get_scheduled_floor(c, fw) = Going(Endless, c, c.direction_up)
    BY <1>3, <2>1, Zenon DEF get_scheduled_floor, down_coll
  <2> HIDE DEF above, below
  <2> QED
    BY <1>1, <2>2
<1> QED
  BY <1>2, <1>3

\* Entering stop saves the selector that is marked.
LEMMA StopSaves ==
    ASSUME NEW c, Remembered(c), NEW t
    PROVE  /\ Resting(auto_stop_enter(c, t)) /\ auto_stop_enter(c, t).auto_counter = "stop"
           /\ Resting(Stop_dropping(c, t))
           /\ \A f : Resting(Err(Stop_dropping(c, t), f))
<1> DEFINE a == Set(c, "stop")
           b == vfd_estop(a)
           s == ersd_stop(b)
           d == auto_stop_enter(c, t)
           r == drop_all_req(d)
<1>1. /\ Rec(a) /\ a.auto_counter = "stop"
      /\ a.selector_counter = c.selector_counter /\ a.saved = c.saved
  BY DEF Remembered, Rec, Set, Fields, Watched
<1> HIDE DEF a
<1>2. Same(b, a)
  BY <1>1, PiecesSame
<1> HIDE DEF b
<1>3. Same(s, b)
  BY <1>2, PiecesSame DEF Same
<1> HIDE DEF s
<1>4. /\ Rec(s) /\ s.auto_counter = "stop"
      /\ s.selector_counter = c.selector_counter /\ s.saved = c.saved
  BY <1>1, <1>2, <1>3 DEF Same, Followed
<1>5. d = [s EXCEPT !.saved = IF c.floor_counter_save THEN c.selector_counter ELSE @,
                    !.floor_counter_save = FALSE,
                    !.turnoff_battery_mode = @ /\ ~(ARD(c) /\ ~t.level),
                    !.stop_idle_run = @ \/ ~(INS(c) \/ ARD(c)),
                    !.cam = FALSE]
  BY DEF auto_stop_enter, s, b, a
<1> HIDE DEF d
<1>6. /\ Rec(d) /\ d.auto_counter = "stop" /\ d.selector_counter = c.selector_counter
      /\ d.saved = IF c.floor_counter_save THEN c.selector_counter ELSE c.saved
  BY <1>4, <1>5 DEF Rec, Fields, Watched
<1>7. Resting(d)
  BY <1>6 DEF Remembered, Resting, States
<1>8. Same(r, d)
  BY <1>6, PiecesSame
<1> HIDE DEF r
<1>9. Resting(r) /\ \A f : Resting(Err(r, f))
  BY <1>7, <1>8, SwitchSame, SameRemembered DEF Same
<1> QED
  BY <1>6, <1>7, <1>9 DEF Stop_dropping, r, d

\* idle and camtest are entered from rest, camtest marking the selector.
LEMMA RestEntered ==
    ASSUME NEW c, Resting(c), NEW t
    PROVE  Resting(auto_idle_enter(c, t)) /\ Resting(auto_camtest_enter(c))
<1>1. Resting(auto_idle_enter(c, t))
  <2> DEFINE a == Set(c, "idle")
             b == vfd_estop(a)
             i == [b EXCEPT !.idle_camt_run = FALSE, !.cf_press = FALSE, !.cam = FALSE,
                            !.turnoff_battery_mode = @ /\ ~(ARD(c) /\ ~t.level)]
  <2>1. Rec(a) /\ Resting(a)
    BY DEF Resting, Remembered, States, Rec, Set, Fields, Watched
  <2> HIDE DEF a
  <2>2. Same(b, a)
    BY <2>1, PiecesSame
  <2> HIDE DEF b
  <2>3. Same(i, b)
    BY <2>2 DEF Rec, Same, Fields, Watched, Followed
  <2> HIDE DEF i
  <2>4. Resting(i)
    BY <2>1, <2>2, <2>3, SameRemembered
  <2>5. Same(close_doors(i), i) /\ Same(open_doors(i), i)
    BY <2>3, PiecesSame DEF Same
  <2>6. \/ auto_idle_enter(c, t) = close_doors(i)
        \/ auto_idle_enter(c, t) = open_doors(i)
        \/ auto_idle_enter(c, t) = i
    BY Zenon DEF auto_idle_enter, i, b, a
  <2> QED
    BY <2>4, <2>5, <2>6, SameRemembered
<1>2. Resting(auto_camtest_enter(c))
  <2> DEFINE a == [Set(c, "camtest") EXCEPT !.floor_counter_save = TRUE]
             b == force_turn_off(a, FALSE)
             d == vfd_estop(b)
  <2>1. Rec(a) /\ Resting(a)
    BY DEF Resting, Remembered, States, Rec, Set, Fields, Watched
  <2> HIDE DEF a
  <2>2. Same(b, a)
    BY <2>1, SwitchSame
  <2> HIDE DEF b
  <2>3. Same(d, b)
    BY <2>2, PiecesSame DEF Same
  <2> HIDE DEF d
  <2>4. Same(march_set(d), d)
    BY <2>3, PiecesSame DEF Same
  <2>5. auto_camtest_enter(c) = march_set(d)
    BY Zenon DEF auto_camtest_enter, d, b, a
  <2> QED
    BY <2>1, <2>2, <2>3, <2>4, <2>5, SameRemembered
<1> QED
  BY <1>1, <1>2

\* A run is entered, gone on with and ended with the selector marked.
LEMMA RunEntered ==
    ASSUME NEW c, Marked(c)
    PROVE  /\ Marked(auto_stopping_enter(c)) /\ Marked(auto_lspd_enter(c))
           /\ Marked(auto_hspd_enter(c)) /\ Marked(auto_prespd_enter(c))
<1>1. ASSUME NEW s \in {"stopping", "lspd", "hspd", "prespd"}
      PROVE  Rec(Set(c, s)) /\ Marked(Set(c, s))
  <2>1. Rec(Set(c, s)) /\ Set(c, s).auto_counter = s
    BY DEF Marked, Remembered, Rec, Set, Fields, Watched
  <2>2. /\ Set(c, s).selector_counter = c.selector_counter
        /\ Set(c, s).floor_counter_save = c.floor_counter_save
    BY DEF Marked, Remembered, Rec, Set, Fields, Watched
  <2> QED
    BY <2>1, <2>2 DEF Marked, Remembered, States
<1>2. Marked(auto_stopping_enter(c))
  <2> DEFINE a == Set(c, "stopping")
             b == [a EXCEPT !.ref = "zero"]
  <2>1. Rec(a) /\ Marked(a)
    BY <1>1
  <2> HIDE DEF a
  <2>2. Same(b, a)
    BY <2>1, OtherVariable DEF Fields, Watched, Followed
  <2> HIDE DEF b
  <2>3. Same(force_turn_off(b, FALSE), b)
    BY <2>2, SwitchSame DEF Same
  <2>4. auto_stopping_enter(c) = force_turn_off(b, FALSE)
    BY DEF auto_stopping_enter, a, b
  <2> QED
    BY <2>1, <2>2, <2>3, <2>4, SameRemembered
<1>3. Marked(auto_hspd_enter(c))
  <2> DEFINE a == Set(c, "hspd")
             b == march_set(a)
  <2>1. Rec(a) /\ Marked(a)
    BY <1>1
  <2> HIDE DEF a
  <2>2. Same(b, a)
    BY <2>1, PiecesSame
  <2> HIDE DEF b
  <2>3. Same(Reference(b), b)
    BY <2>2, PiecesSame DEF Same
  <2>4. auto_hspd_enter(c) = Reference(b)
    BY DEF auto_hspd_enter, a, b
  <2> QED
    BY <2>1, <2>2, <2>3, <2>4, SameRemembered
<1>4. Marked(auto_prespd_enter(c))
  <2> DEFINE a == Set(c, "prespd")
             e == [a EXCEPT !.pre_spd_counter = PRE_SPD]
             b == march_set(e)
  <2>1. Rec(a) /\ Marked(a)
    BY <1>1
  <2> HIDE DEF a
  <2>2. Same(e, a)
    BY <2>1, OtherVariable DEF Fields, Watched, Followed
  <2> HIDE DEF e
  <2>3. Same(b, e)
    BY <2>2, PiecesSame DEF Same
  <2> HIDE DEF b
  <2>4. Same(Reference(b), b)
    BY <2>3, PiecesSame DEF Same
  <2>5. auto_prespd_enter(c) = Reference(b)
    BY DEF auto_prespd_enter, a, e, b
  <2> QED
    BY <2>1, <2>2, <2>3, <2>4, <2>5, SameRemembered
<1>5. Marked(auto_lspd_enter(c))
  <2> DEFINE a == Set(c, "lspd")
             o == [a EXCEPT !.onfloor = FALSE]
             e == [o EXCEPT !.stop_delay_counter = STOP_DELAY]
             b == force_turn_off(e, FALSE)
             l == march_set(b)
             x == [l EXCEPT !.ersd = "find0"]
             y == [x EXCEPT !.direction_up = TRUE]
             z == [y EXCEPT !.ref = "up"]
  <2>1. Rec(a) /\ Marked(a)
    BY <1>1
  <2> HIDE DEF a
  <2>2. Same(o, a)
    BY <2>1, OtherVariable DEF Fields, Watched, Followed
  <2> HIDE DEF o
  <2>3. Same(e, o)
    BY <2>2, OtherVariable DEF Same, Fields, Watched, Followed
  <2> HIDE DEF e
  <2>4. Same(b, e)
    BY <2>3, SwitchSame DEF Same
  <2> HIDE DEF b
  <2>5. Same(l, b)
    BY <2>4, PiecesSame DEF Same
  <2> HIDE DEF l
  <2>6. Same(Reference(l), l)
    BY <2>5, PiecesSame DEF Same
  <2>7. Same(x, l)
    BY <2>5, OtherVariable DEF Same, Fields, Watched, Followed
  <2> HIDE DEF x
  <2>8. Same(y, x)
    BY <2>7, OtherVariable DEF Same, Fields, Watched, Followed
  <2> HIDE DEF y
  <2>9. Same(z, y)
    BY <2>8, OtherVariable DEF Same, Fields, Watched, Followed
  <2>10. \/ auto_lspd_enter(c) = [l EXCEPT !.ersd = "find0", !.direction_up = TRUE, !.ref = "up"]
         \/ auto_lspd_enter(c) = Reference(l)
    BY Zenon DEF auto_lspd_enter, l, b, e, o, a
  <2>11. auto_lspd_enter(c) = z \/ auto_lspd_enter(c) = Reference(l)
    BY <2>10 DEF y, x
  <2>12. Marked(l)
    BY <2>1, <2>2, <2>3, <2>4, <2>5, SameRemembered
  <2> HIDE DEF z
  <2> QED
    BY <2>6, <2>7, <2>8, <2>9, <2>11, <2>12, SameRemembered
<1> QED
  BY <1>2, <1>3, <1>4, <1>5

\* Executing stop.
LEMMA StopRemembers ==
    ASSUME NEW c, Resting(c), NEW t
    PROVE  Resting(auto_stop_exe(c, t))
<1> DEFINE a == IF ARDINS(c) THEN force_turn_off(c, TRUE)
                ELSE IF ARD(c) THEN force_turn_off(c, t.level) ELSE c
           x == [a EXCEPT !.stop_idle_run = @ \/ ~external_auto]
           b == IF ~t.shk THEN x
                ELSE IF "light_curtain" \notin t.in THEN auto_stop_exit(a, t) ELSE a
           y == [b EXCEPT !.onfloor = TRUE]
           d == IF b.onfloor THEN open_doors(b)
                ELSE IF ~t.level THEN close_doors(b)
                ELSE IF ~INS(b) THEN open_doors(y) ELSE b
           closing == /\ "h_close" \in t.in /\ external_auto /\ ~t.s_i_err
                      /\ "light_curtain" \notin t.in
           e == IF closing THEN auto_idle_enter(a, t) ELSE d
<1>0. ASSUME NEW z, Resting(z)
      PROVE  /\ Rec(z) /\ Resting(auto_stop_exit(z, t))
             /\ Resting(open_doors(z)) /\ Resting(close_doors(z))
  <2>1. Rec(z)
    BY <1>0 DEF Resting, Remembered
  <2>2. auto_stop_exit(z, t) = z \/ auto_stop_exit(z, t) = auto_idle_enter(z, t)
    BY Zenon DEF auto_stop_exit
  <2> QED
    BY <1>0, <2>1, <2>2, RestEntered, PiecesSame, SameRemembered
<1>1. Resting(a)
  BY <1>0, SwitchSame, SameRemembered
<1> HIDE DEF a
<1>2. Resting(x)
  BY <1>0, <1>1, OtherVariable, SameRemembered DEF Fields, Watched, Followed
<1> HIDE DEF x
<1>3. Resting(b)
  BY <1>0, <1>1, <1>2
<1> HIDE DEF b
<1>4. Resting(y)
  BY <1>0, <1>3, OtherVariable, SameRemembered DEF Fields, Watched, Followed
<1> HIDE DEF y
<1>5. Resting(d)
  BY <1>0, <1>3, <1>4
<1> HIDE DEF d
<1>6. Resting(e)
  BY <1>1, <1>5, RestEntered
<1> HIDE DEF e, closing
<1>7. auto_stop_exe(c, t) = auto_stop_exit(e, t)
  BY Zenon DEF auto_stop_exe, a, x, b, y, d, e, closing
<1> QED
  BY <1>0, <1>6, <1>7

\* auto_idle_exit.
LEMMA IdleExitRemembers ==
    ASSUME NEW c, Resting(c), NEW t
    PROVE  Resting(auto_idle_exit(c, t))
<1>1. \/ auto_idle_exit(c, t) = auto_stop_enter(c, t)
      \/ auto_idle_exit(c, t) = auto_idle_enter(c, t)
      \/ auto_idle_exit(c, t) = auto_camtest_enter(c)
  BY Zenon DEF auto_idle_exit
<1> QED
  BY <1>1, StopSaves, RestEntered DEF Resting

\* Executing idle.
LEMMA IdleRemembers ==
    ASSUME NEW c, Resting(c), NEW t
    PROVE  Resting(auto_idle_exe(c, t))
<1> DEFINE a == IF "ersc_toff" \in t.in /\ (ARDINS(c) \/ (ARD(c) /\ t.level))
                THEN force_turn_off(c, TRUE) ELSE c
           b == IF door_auto_close THEN close_doors(a)
                ELSE IF a.onfloor THEN open_doors(a) ELSE a
           next == get_scheduled_floor(b, "fw" \in t.in)
           start(x) == [x EXCEPT !.idle_camt_run = TRUE]
<1>0. \A z : Resting(z) => Rec(z) /\ Remembered(z)
  BY DEF Resting, Remembered
<1>1. Resting(a)
  BY <1>0, SwitchSame, SameRemembered
<1> HIDE DEF a
<1>2. Resting(b)
  BY <1>0, <1>1, PiecesSame, SameRemembered
<1> HIDE DEF b
<1>3. Resting(next.c)
  BY <1>0, <1>2, ScheduleSame, SameRemembered
<1> HIDE DEF next
<1>4. \A x : Resting(x) => Resting(start(x))
  BY <1>0, OtherVariable, SameRemembered DEF Fields, Watched, Followed
<1> HIDE DEF start
<1>5. \/ Wanted(b, t) = b \/ Wanted(b, t) = start(b)
      \/ Wanted(b, t) = start(next.c) \/ Wanted(b, t) = next.c
  BY Zenon DEF Wanted, next, start
<1>6. Resting(Wanted(b, t))
  BY <1>2, <1>3, <1>4, <1>5
<1>7. \/ auto_idle_exe(c, t) = auto_stop_enter(c, t)
      \/ auto_idle_exe(c, t) = auto_stop_enter(b, t)
      \/ auto_idle_exe(c, t) = auto_idle_exit(b, t)
      \/ auto_idle_exe(c, t) = Wanted(b, t)
  BY Zenon DEF auto_idle_exe, a, b
<1> QED
  BY <1>0, <1>2, <1>6, <1>7, StopSaves, IdleExitRemembers

\* The departure from camtest.
LEMMA DepartRemembers ==
    ASSUME NEW c, Remembered(c), c.auto_counter = "camtest", NEW t
    PROVE  Remembered(Depart(c, t))
<1> DEFINE next == get_scheduled_floor(c, "fw" \in t.in)
           n == next.c
           e == [c EXCEPT !.direction_up = "up" \in t.hand]
<1>1. Rec(c) /\ Marked(c)
  BY DEF Remembered, Marked
<1>2. Marked(n) /\ Marked(e)
  BY <1>1, ScheduleSame, OtherVariable, SameRemembered DEF Fields, Watched, Followed
<1>3. \/ Depart(c, t) \in {auto_stop_enter(c, t), auto_stop_enter(n, t)}
      \/ Depart(c, t) \in {auto_lspd_enter(c), auto_lspd_enter(e), auto_lspd_enter(n)}
      \/ Depart(c, t) \in {auto_prespd_enter(n), auto_hspd_enter(n)}
  BY Zenon DEF Depart
<1> HIDE DEF next, n, e
<1> QED
  BY <1>1, <1>2, <1>3, StopSaves, RunEntered DEF Marked, Resting

\* Executing camtest.
LEMMA CamtestRemembers ==
    ASSUME NEW c, Remembered(c), c.auto_counter = "camtest", NEW t
    PROVE  Remembered(auto_camtest_exe(c, t))
<1> DEFINE z == [c EXCEPT !.cam_trial_counter = 0]
           n == [c EXCEPT !.cam_trial_counter = c.cam_trial_counter + 1]
           w == [z EXCEPT !.cam_lock_wait = @ + 1]
           y == [z EXCEPT !.cam_lock_wait = 0]
           q == drop_all_req(z)
           s == auto_stop_enter(q, t)
<1>1. Rec(c) /\ Resting(c)
  BY DEF Remembered, Resting
<1>2. Same(z, c) /\ Same(n, c)
  BY <1>1, OtherVariable DEF Fields, Watched, Followed
<1> HIDE DEF z, n
<1>3. Same(w, z) /\ Same(y, z) /\ Same(q, z)
  <2>1. Rec(z)
    BY <1>2 DEF Same
  <2>2. "cam_lock_wait" \in Fields \ Followed
    BY DEF Fields, Watched, Followed
  <2> QED
    BY <2>1, <2>2, OtherVariable, PiecesSame
<1> HIDE DEF w, y, q
<1>4. Resting(z) /\ Resting(n) /\ Resting(w) /\ Resting(y) /\ Resting(q)
  BY <1>1, <1>2, <1>3, SameRemembered
<1>5. y.auto_counter = "camtest"
  BY <1>2, <1>3 DEF Same, Followed
<1>6. Remembered(Depart(y, t))
  BY <1>4, <1>5, DepartRemembers DEF Resting
<1>7. Resting(s) /\ Rec(s)
  BY <1>4, StopSaves DEF Resting, Remembered
<1> HIDE DEF s
<1>8. Remembered(Err(s, "stop"))
  BY <1>7, SwitchSame, SameRemembered DEF Resting
<1>9. \/ auto_camtest_exit(c, t) \in {auto_stop_enter(c, t), c, w}
      \/ auto_camtest_exit(c, t) = Depart(y, t)
  BY Zenon DEF auto_camtest_exit, z, w, y
<1>10. \/ auto_camtest_exe(c, t) \in {Stop_dropping(c, t), auto_stop_enter(z, t),
                                       auto_stop_enter(c, t), c, auto_idle_enter(n, t)}
       \/ auto_camtest_exe(c, t) = auto_camtest_exit(c, t)
       \/ auto_camtest_exe(c, t) = Err(s, "stop")
  BY Zenon DEF auto_camtest_exe, z, n, q, s
<1> QED
  BY <1>1, <1>4, <1>6, <1>8, <1>9, <1>10, StopSaves, RestEntered DEF Resting

\* The checks of a run, with the drive enabled.
LEMMA CheckedSame ==
    ASSUME NEW c, Rec(c), NEW t, "isEnabled" \notin t.in
    PROVE  Same(Checked(c, t), c)
<1>1. Checked(c, t) = c \/ Checked(c, t) = Err(c, "stop")
  BY Zenon DEF Checked
<1> QED
  BY <1>1, PiecesSame, SwitchSame

\* A run may be left for stop at any time.
LEMMA HaltSaves ==
    ASSUME NEW b, Remembered(b), NEW t, NEW f
    PROVE  /\ Remembered(auto_stop_enter(b, t)) /\ Remembered(Stop_dropping(b, t))
           /\ Remembered(Err(Stop_dropping(b, t), f))
BY StopSaves DEF Resting

\* Executing prespd.
LEMMA PrespdRemembers ==
    ASSUME NEW c, Marked(c), NEW t, "isEnabled" \notin t.in
    PROVE  Remembered(auto_prespd_exe(c, t))
<1> DEFINE b == Checked(c, t)
           a == force_turn_off(b, FALSE)
           m == [a EXCEPT !.pre_spd_counter = @ - 1]
<1>1. Same(b, c)
  BY CheckedSame DEF Marked, Remembered
<1> HIDE DEF b
<1>2. Same(a, b)
  BY <1>1, SwitchSame DEF Same
<1> HIDE DEF a
<1>3. Same(m, a)
  BY <1>2, OtherVariable DEF Same, Fields, Watched, Followed
<1> HIDE DEF m
<1>4. Marked(a) /\ Marked(m)
  BY <1>1, <1>2, <1>3, SameRemembered
<1>5. auto_prespd_exit(a) \in {auto_hspd_enter(a), a, m}
  BY Zenon DEF auto_prespd_exit, m
<1>6. auto_prespd_exe(c, t) \in {Stop_dropping(a, t), auto_stop_enter(a, t), auto_prespd_exit(a)}
  BY Zenon DEF auto_prespd_exe, a, b
<1> QED
  BY <1>4, <1>5, <1>6, HaltSaves, RunEntered DEF Marked

\* Executing hspd.
LEMMA HspdRemembers ==
    ASSUME NEW c, Marked(c), NEW t, "isEnabled" \notin t.in
    PROVE  Remembered(auto_hspd_exe(c, t))
<1> DEFINE k == Checked(c, t)
           a == force_turn_off(k, FALSE)
           n == get_scheduled_floor(a, "fw" \in t.in).c
           b == IF INS(c) THEN auto_stop_enter(a, t) ELSE auto_hspd_exit(a, t)
           x == drop_all_req(b)
           y == Err(x, "pos")
           e == Err(y, "stop")
<1>1. Same(k, c)
  BY CheckedSame DEF Marked, Remembered
<1> HIDE DEF k
<1>2. Same(a, k)
  BY <1>1, SwitchSame DEF Same
<1> HIDE DEF a
<1>3. Marked(a)
  BY <1>1, <1>2, SameRemembered
<1>4. Marked(n) /\ Rec(n)
  BY <1>3, ScheduleSame, SameRemembered DEF Marked, Same
<1>5. auto_hspd_exit(a, t) \in {pos_next_floor(n), auto_lspd_enter(n), n}
  BY Zenon DEF auto_hspd_exit
<1> HIDE DEF n
<1>6. Remembered(auto_hspd_exit(a, t))
  BY <1>4, <1>5, CallsSame, SameRemembered, RunEntered DEF Marked
<1>7. Remembered(b) /\ Rec(b)
  BY <1>3, <1>6, HaltSaves DEF Marked, Remembered
<1>8. auto_hspd_exe(c, t) \in {Err(Stop_dropping(a, t), "stop"), Stop_dropping(a, t),
                               auto_stop_enter(e, t), b}
  BY Zenon DEF auto_hspd_exe, a, k
<1> HIDE DEF b
<1>9. Same(x, b)
  BY <1>7, PiecesSame
<1> HIDE DEF x
<1>10. Same(y, x)
  BY <1>9, SwitchSame DEF Same
<1> HIDE DEF y
<1>11. Same(e, y)
  BY <1>10, SwitchSame DEF Same
<1> HIDE DEF e
<1>12. Remembered(e)
  BY <1>7, <1>9, <1>10, <1>11, SameRemembered
<1> QED
  BY <1>3, <1>7, <1>8, <1>12, HaltSaves DEF Marked

\* Executing lspd.
LEMMA LspdRemembers ==
    ASSUME NEW c, Marked(c), NEW t, "isEnabled" \notin t.in
    PROVE  Remembered(auto_lspd_exe(c, t))
<1> DEFINE a == Checked(c, t)
           b == IF ARD(c) /\ t.level THEN auto_stopping_enter(a) ELSE a
           m == [b EXCEPT !.stop_delay_counter = @ - 1]
           p == drop_req(b, get_current_floor(b))
<1>1. Same(a, c)
  BY CheckedSame DEF Marked, Remembered
<1> HIDE DEF a
<1>2. Marked(b) /\ Rec(b)
  BY <1>1, SameRemembered, RunEntered DEF Marked, Remembered
<1>3. \/ auto_lspd_exe(c, t) \in {Err(Stop_dropping(b, t), "stop"), Stop_dropping(b, t),
                                  auto_stop_enter(b, t)}
      \/ auto_lspd_exe(c, t) \in {auto_lspd_exit(b, t), b, auto_stopping_enter(b)}
  BY Zenon DEF auto_lspd_exe, a
<1> HIDE DEF b
<1>4. Same(m, b) /\ Same(p, b)
  BY <1>2, OtherVariable, CallsSame DEF Fields, Watched, Followed
<1>5. auto_lspd_exit(b, t) \in {b, m, auto_stopping_enter(p)}
  BY Zenon DEF auto_lspd_exit
<1> HIDE DEF m, p
<1>6. Marked(auto_lspd_exit(b, t))
  BY <1>2, <1>4, <1>5, SameRemembered, RunEntered
<1> QED
  BY <1>2, <1>3, <1>6, HaltSaves, RunEntered DEF Marked

\* Executing stopping.
LEMMA StoppingRemembers ==
    ASSUME NEW c, Marked(c), NEW t, "isEnabled" \notin t.in
    PROVE  Remembered(auto_stopping_exe(c, t))
<1> DEFINE a == Checked(c, t)
           b == IF "stopping" \in t.in THEN auto_stop_enter(a, t) ELSE a
<1>1. Same(a, c)
  BY CheckedSame DEF Marked, Remembered
<1> HIDE DEF a
<1>2. Remembered(a)
  BY <1>1, SameRemembered DEF Marked
<1>3. Remembered(b)
  BY <1>2, HaltSaves
<1>4. auto_stopping_exe(c, t) \in {Err(Stop_dropping(b, t), "stop"), Stop_dropping(b, t),
                                   auto_stop_enter(b, t), b}
  BY Zenon DEF auto_stopping_exe, a
<1> HIDE DEF b
<1> QED
  BY <1>3, <1>4, HaltSaves

\* Executing whatever state the lift is in, an edge of the selector counted before.
LEMMA ExecuteRemembers ==
    ASSUME NEW c, Remembered(c), NEW t, "isEnabled" \notin t.in
    PROVE  Remembered(execute(c, t))
<1>1. CASE c.auto_counter = "stop"
  BY <1>1, StopRemembers DEF execute, Resting
<1>2. CASE c.auto_counter = "idle"
  BY <1>2, IdleRemembers DEF execute, Resting
<1>3. CASE c.auto_counter = "camtest"
  BY <1>3, CamtestRemembers DEF execute
<1>4. CASE c.auto_counter = "prespd"
  BY <1>4, PrespdRemembers DEF execute, Marked
<1>5. CASE c.auto_counter = "hspd"
  BY <1>5, HspdRemembers DEF execute, Marked
<1>6. CASE c.auto_counter = "lspd"
  BY <1>6, LspdRemembers DEF execute, Marked
<1>7. CASE c.auto_counter = "stopping"
  BY <1>7, StoppingRemembers DEF execute, Marked
<1>8. c.auto_counter \in States
  BY DEF Remembered
<1> QED
  BY <1>1, <1>2, <1>3, <1>4, <1>5, <1>6, <1>7, <1>8 DEF States

\* The selector may take any value of its range while the car runs.
LEMMA SelectorMarked ==
    ASSUME NEW c, Marked(c), c.auto_counter \in {"hspd", "lspd"}, NEW n \in 0..2 * f_max
    PROVE  /\ Marked([c EXCEPT !.selector_counter = n])
           /\ [c EXCEPT !.selector_counter = n].auto_counter = c.auto_counter
<1> DEFINE d == [c EXCEPT !.selector_counter = n]
<1>1. /\ Rec(d) /\ d.auto_counter = c.auto_counter /\ d.selector_counter = n
      /\ d.floor_counter_save = c.floor_counter_save
  BY DEF Marked, Remembered, Rec, Fields, Watched
<1> HIDE DEF d
<1>2. Marked(d)
  BY <1>1 DEF Marked, Remembered
<1> QED
  BY <1>1, <1>2 DEF d

\* Edges are counted while the car runs.
LEMMA CountRemembers ==
    ASSUME NEW c, Remembered(c), NEW t
    PROVE  Remembered(selector_count(c, t))
<1> DEFINE v == c.selector_counter
           i == IF v < 2 * f_max THEN v + 1 ELSE v
           j == IF v > 0 THEN v - 1 ELSE v
           counts == c.auto_counter = "hspd" \/ (c.auto_counter = "lspd" /\ "mnt" \in t.mode)
<1>1. i \in 0..2 * f_max /\ j \in 0..2 * f_max
  BY CallsAssumption DEF Remembered
<1>2. CASE ~counts
  <2>1. selector_count(c, t) = c
    BY <1>2, Zenon DEF selector_count
  <2> QED
    BY <2>1
<1>3. CASE counts
  <2>1. Marked(c) /\ c.auto_counter \in {"hspd", "lspd"}
    BY <1>3 DEF Marked
  <2>2. \/ selector_count(c, t) = c
        \/ selector_count(c, t) = [c EXCEPT !.selector_counter = i]
        \/ selector_count(c, t) = [c EXCEPT !.selector_counter = j]
    BY Zenon DEF selector_count
  <2> HIDE DEF i, j
  <2> QED
    BY <1>1, <2>1, <2>2, SelectorMarked DEF Marked
<1> QED
  BY <1>2, <1>3

\* A change of mode stops the lift.
LEMMA StateCheckRemembers ==
    ASSUME NEW c, Remembered(c), NEW t
    PROVE  Remembered(state_check(c, t))
<1> DEFINE a == [c EXCEPT !.auto_state = t.mode]
<1>1. Same(a, c)
  BY OtherVariable DEF Remembered, Fields, Watched, Followed
<1>2. state_check(c, t) = auto_stop_enter(a, t) \/ state_check(c, t) = a
  BY Zenon DEF state_check
<1> HIDE DEF a
<1>3. Remembered(a)
  BY <1>1, SameRemembered
<1> QED
  BY <1>2, <1>3, HaltSaves

\* A limit sets the selector of a car that goes on, and stops one that comes
\* from it with a selector that belongs elsewhere.
LEMMA LimitRemembers ==
    ASSUME NEW c, Marked(c), c.auto_counter \in {"hspd", "lspd"}, NEW t, NEW l, NEW fl,
           NEW up \in BOOLEAN, NEW there \in 0..2 * f_max, NEW strange
    PROVE  LET d == At_limit(c, t, l, fl, up, there, strange)
           IN /\ Remembered(d)
              /\ ~l => d = c
              /\ Marked(d) \/ (c.direction_up # up /\ d.direction_up = c.direction_up)
<1> DEFINE a == [c EXCEPT !.selector_counter = there]
           q == drop_all_req(c)
           s == auto_stop_enter(q, t)
           e == Err(s, "stop")
           d == At_limit(c, t, l, fl, up, there, strange)
<1>1. Marked(a) /\ Rec(a)
  BY SelectorMarked DEF Marked, Remembered
<1>2. Rec(c) /\ Remembered(c)
  BY DEF Marked, Remembered
<1>3. \/ d = c
      \/ c.direction_up # up /\ d = e
      \/ d \in {auto_lspd_enter(a), a, auto_stopping_enter(a), Reference(a)}
  BY Zenon DEF At_limit
<1>4. ~l => d = c
  BY DEF At_limit
<1> HIDE DEF a, d
<1>5. /\ Marked(auto_lspd_enter(a)) /\ Marked(auto_stopping_enter(a)) /\ Marked(Reference(a))
  BY <1>1, RunEntered, PiecesSame, SameRemembered
<1>6. Remembered(e) /\ e.direction_up = c.direction_up
  <2>1. Rec(q) /\ Remembered(q) /\ q.direction_up = c.direction_up
    BY <1>2, PiecesSame, SameRemembered, DropAllChanges DEF But, Watched
  <2> HIDE DEF q
  <2>2. Rec(s) /\ Remembered(s) /\ s.direction_up = q.direction_up
    BY <2>1, HaltSaves, StopChanges DEF But, Watched
  <2> HIDE DEF s
  <2>3. Remembered(e) /\ e.direction_up = s.direction_up
    BY <2>2, SwitchSame, SameRemembered, ErrChanges DEF But, Watched
  <2> QED
    BY <2>1, <2>2, <2>3
<1> HIDE DEF e
<1>7. /\ Remembered(d)
      /\ Marked(d) \/ (c.direction_up # up /\ d.direction_up = c.direction_up)
  BY <1>1, <1>2, <1>3, <1>5, <1>6 DEF Marked
<1> QED
  BY <1>4, <1>7 DEF d

\* A final limit stops a car that runs towards it.
LEMMA FinalRemembers ==
    ASSUME NEW c, Remembered(c), NEW t, NEW fl, NEW up \in BOOLEAN,
           Marked(c) \/ ~fl \/ c.direction_up # up
    PROVE  LET d == At_final(c, t, fl, up)
           IN Remembered(d) /\ (~fl \/ c.direction_up # up => d = c)
<1> DEFINE e == IF "mnt" \in t.mode THEN c ELSE Err(c, "stop")
<1>1. CASE ~fl \/ c.direction_up # up
  BY <1>1 DEF At_final
<1>2. CASE ~(~fl \/ c.direction_up # up)
  <2>1. Marked(e)
    BY <1>2, SwitchSame, SameRemembered DEF Marked, Remembered
  <2>2. At_final(c, t, fl, up) = auto_stopping_enter(e)
    BY <1>2, Zenon DEF At_final
  <2> HIDE DEF e
  <2> QED
    BY <1>2, <2>1, <2>2, RunEntered DEF Marked
<1> QED
  BY <1>1, <1>2

\* The limits of the two ends.
LEMMA LimitsRemember ==
    ASSUME NEW c, Remembered(c), NEW t, ~(t.dnfdl0 /\ t.upfdl0),
           t.dnfl => t.dnfdl0, t.upfl => t.upfdl0
    PROVE  Remembered(direction_limits_check(c, t))
<1> DEFINE no == FALSE
           yes == TRUE
           top == 2 * f_max
           below == c.selector_counter > 2
           above == c.selector_counter < 2 * f_max - 3
           dn == At_limit(c, t, t.dnfdl0, t.dnfl, no, 0, below)
           up == At_limit(dn, t, t.upfdl0, t.upfl, yes, top, above)
           x == At_final(up, t, t.dnfl, no)
           y == At_final(x, t, t.upfl, yes)
<1>1. c.auto_counter \in {"hspd", "lspd"} => direction_limits_check(c, t) = y
  BY Zenon DEF direction_limits_check
<1>2. c.auto_counter \notin {"hspd", "lspd"} =>
        direction_limits_check(c, t) = c \/ direction_limits_check(c, t) = Err(c, "stop")
  BY Zenon DEF direction_limits_check
<1>3. no \in BOOLEAN /\ yes \in BOOLEAN /\ top \in 0..2 * f_max /\ 0 \in 0..2 * f_max
  BY CallsAssumption
<1> HIDE DEF no, yes, top, below, above
<1>4. CASE c.auto_counter \in {"hspd", "lspd"}
  <2>1. Marked(c)
    BY <1>4 DEF Marked
  <2>2. CASE t.dnfdl0
    <3>1. /\ Remembered(dn)
          /\ Marked(dn) \/ (c.direction_up # no /\ dn.direction_up = c.direction_up)
      BY <1>3, <1>4, <2>1, LimitRemembers
    <3>2. ~t.upfdl0 /\ ~t.upfl
      BY <2>2
    <3>3. up = dn
      BY <3>2 DEF At_limit
    <3> HIDE DEF dn, up
    <3>4. Remembered(x)
      <4>1. Remembered(up) /\ (Marked(up) \/ ~t.dnfl \/ up.direction_up # no)
        BY <3>1, <3>3
      <4>2. no \in BOOLEAN
        BY <1>3
      <4> QED
        BY <4>1, <4>2, FinalRemembers
    <3>5. y = x
      BY <3>2 DEF At_final
    <3> HIDE DEF x, y
    <3> QED
      BY <1>1, <1>4, <3>4, <3>5
  <2>3. CASE ~t.dnfdl0
    <3>1. dn = c /\ ~t.dnfl
      BY <2>3 DEF At_limit
    <3> HIDE DEF dn
    <3>2. /\ Remembered(up)
          /\ Marked(up) \/ (c.direction_up # yes /\ up.direction_up = c.direction_up)
      BY <1>3, <1>4, <2>1, <3>1, LimitRemembers
    <3>3. x = up
      BY <3>1 DEF At_final
    <3> HIDE DEF up, x
    <3>4. Remembered(y)
      <4>1. Remembered(x) /\ (Marked(x) \/ ~t.upfl \/ x.direction_up # yes)
        BY <3>2, <3>3
      <4>2. yes \in BOOLEAN
        BY <1>3
      <4> QED
        BY <4>1, <4>2, FinalRemembers
    <3> QED
      BY <1>1, <1>4, <3>4
  <2> QED
    BY <2>2, <2>3
<1>5. CASE c.auto_counter \notin {"hspd", "lspd"}
  <2>1. Rec(c)
    BY DEF Remembered
  <2>2. Same(Err(c, "stop"), c)
    BY <2>1, SwitchSame
  <2>3. Remembered(Err(c, "stop"))
    BY <2>2, SameRemembered
  <2> QED
    BY <1>2, <1>5, <2>3
<1> QED
  BY <1>4, <1>5

\* The whole call.
LEMMA UpdateRemembers ==
    ASSUME NEW c, Remembered(c), NEW t, "isEnabled" \notin t.in,
           ~(t.dnfdl0 /\ t.upfdl0), t.dnfl => t.dnfdl0, t.upfl => t.upfdl0
    PROVE  Remembered(auto_update(c, t))
<1> DEFINE s == selector_count(c, t)
           e == execute(s, t)
           a == state_check(e, t)
           d == direction_limits_check(a, t)
           m == IF d.auto_state = {} THEN d ELSE drop_all_req(d)
           r == [m EXCEPT !.req_enabled = d.auto_state = {} /\ faults \cup d.errors = {}]
<1>1. Remembered(s)
  BY CountRemembers
<1> HIDE DEF s
<1>2. Remembered(e)
  BY <1>1, ExecuteRemembers
<1> HIDE DEF e
<1>3. Remembered(a)
  BY <1>2, StateCheckRemembers
<1> HIDE DEF a
<1>4. Remembered(d) /\ Rec(d)
  BY <1>3, LimitsRemember DEF Remembered
<1> HIDE DEF d
<1>5. Same(m, d)
  BY <1>4, PiecesSame
<1>6. auto_update(c, t) = r
  BY Zenon DEF auto_update, auto_lift_states_monitor, d, a, e, s
<1> HIDE DEF m
<1>7. Same(r, m)
  BY <1>5, OtherVariable DEF Same, Fields, Watched, Followed
<1> QED
  BY <1>4, <1>5, <1>6, <1>7, SameRemembered

\* The drive stays enabled during the calls, and the supply does not fail.
Uninterrupted == {"isEnabled", "power"} \cap Disturbances = {}

\* What follows of the record that a step leaves.
LEMMA RememberedPrime == \A d : Remembered(d) /\ lift' = d => Remembered(lift)'
BY DEF Remembered, Rec

\* A call is over: the faults go to the table.
LEMMA ResultRemembers ==
    ASSUME NEW c, Remembered(c), Result(c)
    PROVE  Remembered(lift)'
<1>1. Same([c EXCEPT !.errors = {}], c)
  BY OtherVariable DEF Remembered, Fields, Watched, Followed
<1>2. Remembered([c EXCEPT !.errors = {}])
  BY <1>1, SameRemembered
<1> QED
  BY <1>2, RememberedPrime DEF Result

\* At power-up in a level the selector is that of its floor.
LEMMA RememberedInit == Init => Remembered(lift)
<1> SUFFICES ASSUME Init PROVE Remembered(lift)
  OBVIOUS
<1>1. PICK i \in Floors : pos = 4 * i + 1
  BY DEF Init
<1> DEFINE n == IF pos >= 4 * f_max THEN 2 * f_max ELSE IF pos <= 2 THEN 0 ELSE Zone(pos)
<1>2. i \in Nat /\ i <= f_max /\ f_max \in Nat
  BY CallsAssumption DEF Floors
<1>3. Zone(pos) = 2 * i
  <2>1. pos % 4 = 1 /\ pos \div 4 = i
    BY <1>1, <1>2
  <2> QED
    BY <1>2, <2>1 DEF Zone
<1>4. n = 2 * i
  BY <1>1, <1>2, <1>3
<1> HIDE DEF n
<1>5. lift = [auto_counter |-> "stop", auto_state |-> {}, ireq |-> {}, ereq |-> {}, eereq |-> {},
     req_enabled |-> FALSE, direction_up |-> FALSE,
     selector_counter |-> n,
     onfloor |-> FALSE, door |-> "closed", cam |-> FALSE, stop_idle_run |-> TRUE,
     idle_camt_run |-> FALSE, cf_press |-> FALSE, cam_lock_wait |-> 0,
     cam_trial_counter |-> 0, stop_delay_counter |-> 0, pre_spd_counter |-> 0,
     saved |-> Zone(pos), floor_counter_save |-> FALSE, turnoff_battery_mode |-> FALSE,
     ersd |-> "off", ref |-> "zero", moving |-> "still", errors |-> {}]
  BY DEF Init, Boot, n
<1>6. Rec(lift)
  BY <1>5 DEF Rec, Fields, Watched
<1>7. lift.auto_counter = "stop" /\ lift.selector_counter = n /\ lift.saved = Zone(pos)
  BY <1>5
<1> QED
  BY <1>2, <1>3, <1>4, <1>6, <1>7 DEF Remembered, States

\* A call of auto_update.
LEMMA UpdateStepRemembers ==
    ASSUME LiftInv, Remembered(lift), Uninterrupted, NEW in \in Off(Inputs), AutoUpdate(in)
    PROVE  Remembered(lift)'
<1> DEFINE t == Terminals(in)
           c == auto_update(lift, t)
<1>1. "isEnabled" \notin t.in
  BY DEF Off, Uninterrupted, Terminals
<1>2. ~(t.dnfdl0 /\ t.upfdl0)
  BY TerminalsSeen
<1>3. (t.dnfl => t.dnfdl0) /\ (t.upfl => t.upfdl0)
  <2>1. (pos = 0 => pos <= 2) /\ (pos = Top => pos >= 4 * f_max)
    BY CallsAssumption DEF Top
  <2>2. (t.dnfl => pos = 0) /\ (t.upfl => pos = Top)
    BY TerminalsSeen
  <2>3. t.dnfdl0 = (pos <= 2) /\ t.upfdl0 = (pos >= 4 * f_max)
    BY DEF Terminals
  <2> QED
    BY <2>1, <2>2, <2>3
<1> HIDE DEF t
<1>4. Remembered(c)
  BY <1>1, <1>2, <1>3, UpdateRemembers
<1>5. Result(c)
  BY DEF AutoUpdate, t
<1> HIDE DEF c
<1> QED
  BY <1>4, <1>5, ResultRemembers

\* The delays of stop and idle.
LEMMA TimeoutRemembers ==
    ASSUME Remembered(lift),
           StopIdleTimeout \/ \E in \in Off({"shk", "Estop", "ow"}) : IdleCamtTimeout(in)
    PROVE  Remembered(lift)'
<1>1. CASE StopIdleTimeout
  <2> DEFINE c == [lift EXCEPT !.stop_idle_run = FALSE]
             i == auto_idle_enter(c, Terminals({}))
             d == IF c.auto_counter = "stop" THEN i ELSE c
  <2>1. Same(c, lift)
    BY OtherVariable DEF Remembered, Fields, Watched, Followed
  <2>2. Result(d)
    BY <1>1 DEF StopIdleTimeout
  <2> HIDE DEF c
  <2>3. Remembered(c)
    BY <2>1, SameRemembered
  <2>4. Remembered(d)
    BY <2>3, RestEntered DEF Resting
  <2> HIDE DEF d
  <2> QED
    BY <2>2, <2>4, ResultRemembers
<1>2. ASSUME NEW in, IdleCamtTimeout(in)
      PROVE  Remembered(lift)'
  <2> DEFINE c == IF lift.auto_counter = "idle"
                  THEN auto_idle_exit(lift, Terminals(in)) ELSE lift
             d == [c EXCEPT !.idle_camt_run = FALSE]
  <2>1. Result(d)
    BY <1>2 DEF IdleCamtTimeout
  <2>2. Remembered(c)
    BY IdleExitRemembers DEF Resting
  <2> HIDE DEF c
  <2>3. Same(d, c)
    BY <2>2, OtherVariable DEF Remembered, Fields, Watched, Followed
  <2> HIDE DEF d
  <2>4. Remembered(d)
    BY <2>2, <2>3, SameRemembered
  <2> QED
    BY <2>1, <2>4, ResultRemembers
<1> QED
  BY <1>1, <1>2

\* The stations, the parking time and the display.
LEMMA CallsRemember ==
    ASSUME Remembered(lift),
           \/ \E b \in Buttons, i \in Floors : Press(b, i)
           \/ Park
           \/ \E in \in Off({"fw"}) : Display(in)
    PROVE  Remembered(lift)'
<1>0. \A d : Same(d, lift) /\ lift' = d => Remembered(lift)'
  BY SameRemembered, RememberedPrime
<1>1. \A e : /\ Same([lift EXCEPT !.ireq = e], lift) /\ Same([lift EXCEPT !.ereq = e], lift)
             /\ Same([lift EXCEPT !.eereq = e], lift) /\ Same([lift EXCEPT !.cf_press = e], lift)
  BY OtherVariable DEF Remembered, Fields, Watched, Followed
<1>2. Same(lift, lift)
  BY PiecesSame DEF Remembered
<1>3. ASSUME NEW b, NEW i, Press(b, i)
      PROVE  Remembered(lift)'
  <2>1. \/ lift' = lift
        \/ \E e : lift' = [lift EXCEPT !.ireq = e]
        \/ lift' = auto_reopen_door(lift)
        \/ \E e : lift' = [lift EXCEPT !.ereq = e]
        \/ \E e : lift' = [lift EXCEPT !.eereq = e]
    BY <1>3, Zenon DEF Press, req_scan
  <2>2. \E e : auto_reopen_door(lift) = [lift EXCEPT !.cf_press = e]
    BY Zenon DEF auto_reopen_door
  <2> QED
    BY <1>0, <1>1, <1>2, <2>1, <2>2
<1>4. CASE Park
  <2>1. lift' = lift \/ \E e : lift' = [lift EXCEPT !.ireq = e]
    BY <1>4, Zenon DEF Park, parking_check
  <2> QED
    BY <1>0, <1>1, <1>2, <2>1
<1>5. ASSUME NEW in, Display(in)
      PROVE  Remembered(lift)'
  <2> DEFINE fw == "fw" \in in
  <2>1. lift' = get_scheduled_floor(lift, fw).c
    BY <1>5 DEF Display
  <2> HIDE DEF fw
  <2> QED
    BY <1>0, <2>1, ScheduleSame
<1> QED
  BY <1>3, <1>4, <1>5

\* The drive and the emergency supply.
LEMMA DriveRemembers ==
    ASSUME LiftInv, Remembered(lift), DriveStart \/ DriveStop \/ ErsdStep
    PROVE  Remembered(lift)'
<1>0. \A d : Same(d, lift) /\ lift' = d => Remembered(lift)'
  BY SameRemembered, RememberedPrime
<1>1. ASSUME NEW c, Same(c, lift)
      PROVE  /\ Same(vfd_estop(c), lift) /\ Same(Reference(c), lift)
             /\ \A u : Same([c EXCEPT !.direction_up = u], lift)
  <2>1. Rec(c)
    BY <1>1 DEF Same
  <2>2. Same(vfd_estop(c), c) /\ Same(Reference(c), c)
    BY <2>1, PiecesSame
  <2>3. \A u : Same([c EXCEPT !.direction_up = u], c)
    BY <2>1, OtherVariable DEF Fields, Watched, Followed
  <2> QED
    BY <1>1, <2>2, <2>3, SameTwice
<1>2. CASE DriveStart \/ DriveStop
  <2>1. \E e : lift' = [lift EXCEPT !.moving = e]
    BY <1>2 DEF DriveStart, DriveStop
  <2>2. \A e : Same([lift EXCEPT !.moving = e], lift)
    BY OtherVariable DEF Remembered, Fields, Watched, Followed
  <2> QED
    BY <1>0, <2>1, <2>2
<1>3. CASE ErsdStep
  <2> DEFINE to(s) == [lift EXCEPT !.ersd = s]
             up(c, b) == [c EXCEPT !.direction_up = b]
  <2>1. \E s, u : \/ lift' = to(s)
                  \/ lift' = vfd_estop(to(s))
                  \/ lift' = Reference(to(s))
                  \/ lift' = vfd_estop(up(to(s), u))
                  \/ lift' = Reference(up(to(s), u))
    <3>1. lift.ersd = "off" => lift' = vfd_estop(to("exit"))
      BY <1>3 DEF ErsdStep
    <3>2. lift.ersd = "exit" => lift' = to("init") \/ lift' = vfd_estop(to("turningOff"))
      BY <1>3 DEF ErsdStep
    <3>3. lift.ersd = "init" => lift' = to("idle")
      BY <1>3 DEF ErsdStep
    <3>4. lift.ersd = "idle" => lift' = vfd_estop(to("turningOff"))
      BY <1>3 DEF ErsdStep
    <3>5. lift.ersd = "find0" => \/ lift' = vfd_estop(to("find1"))
                                \/ \E b \in BOOLEAN : lift' = Reference(up(to("move"), b))
      BY <1>3 DEF ErsdStep
    <3>6. lift.ersd = "find1" => lift' = Reference(up(to("find2"), FALSE))
      BY <1>3 DEF ErsdStep
    <3>7. lift.ersd = "find2" => lift' = to("move") \/ lift' = vfd_estop(up(to("find3"), TRUE))
      BY <1>3 DEF ErsdStep
    <3>8. lift.ersd = "find3" => lift' = Reference(to("move"))
      BY <1>3 DEF ErsdStep
    <3>9. lift.ersd = "turningOff" => lift' = to("off")
      BY <1>3 DEF ErsdStep
    <3>10. lift.ersd \in {"off", "exit", "init", "idle", "find0", "find1", "find2", "find3",
                          "turningOff"}
      <4>1. lift.ersd # "move"
        BY <1>3 DEF ErsdStep
      <4> QED
        BY <4>1 DEF LiftInv, Good, Ready, SupplyStates
    <3> HIDE DEF to, up
    <3> QED
      BY <3>1, <3>2, <3>3, <3>4, <3>5, <3>6, <3>7, <3>8, <3>9, <3>10
  <2>2. \A s : Same(to(s), lift)
    BY OtherVariable DEF Remembered, Fields, Watched, Followed
  <2> HIDE DEF to
  <2>3. \A s, u : Same(up(to(s), u), lift)
    BY <1>1, <2>2
  <2> HIDE DEF up
  <2> QED
    BY <1>0, <1>1, <2>1, <2>2, <2>3
<1> QED
  BY <1>2, <1>3

\* Every step keeps it.
LEMMA RememberedStep ==
    LiftInv /\ Remembered(lift) /\ Uninterrupted /\ [Next]_vars => Remembered(lift)'
<1> SUFFICES ASSUME LiftInv, Remembered(lift), Uninterrupted, [Next]_vars
             PROVE  Remembered(lift)'
  OBVIOUS
<1>1. ASSUME NEW in \in Off(Inputs), AutoUpdate(in) PROVE Remembered(lift)'
  BY <1>1, UpdateStepRemembers
<1>2. CASE StopIdleTimeout \/ \E in \in Off({"shk", "Estop", "ow"}) : IdleCamtTimeout(in)
  BY <1>2, TimeoutRemembers
<1>3. CASE \/ \E b \in Buttons, i \in Floors : Press(b, i)
           \/ Park
           \/ \E in \in Off({"fw"}) : Display(in)
  BY <1>3, CallsRemember
<1>4. CASE DriveStart \/ DriveStop \/ ErsdStep
  BY <1>4, DriveRemembers
<1>5. ASSUME NEW f, NEW trip, FaultRaised(f, trip) PROVE Remembered(lift)'
  <2>1. lift' = vfd_estop(lift) \/ lift' = lift
    BY <1>5 DEF FaultRaised
  <2>2. Remembered(vfd_estop(lift))
    BY PiecesSame, SameRemembered DEF Remembered
  <2> QED
    BY <2>1, <2>2, RememberedPrime
<1>6. CASE \/ Travel \/ DoorStep \/ FaultClears \/ ModeChange \/ HandButton \/ UNCHANGED vars
  <2>1. lift' = lift
    BY <1>6 DEF Travel, DoorStep, FaultClears, ModeChange, HandButton, vars
  <2> QED
    BY <2>1, RememberedPrime
<1>7. ~PowerCycle
  BY DEF PowerCycle, Uninterrupted
<1> QED
  BY <1>1, <1>2, <1>3, <1>4, <1>5, <1>6, <1>7 DEF Next

(* When the lift has stopped, the EEPROM holds the selector, in every mode and  *)
(* with every fault and terminal, where the drive stays enabled.  A run that    *)
(* goes on from stop after a lost enable is not marked, and at power-up at an   *)
(* end of the shaft the selector is corrected but not its copy: either would    *)
(* leave them apart.                                                            *)
THEOREM SavedWhenStoppedAlways ==
    ASSUME Uninterrupted
    PROVE  Spec => []SavedWhenStopped
<1>1. Remembered(lift) => SavedWhenStopped
  BY DEF Remembered, SavedWhenStopped
<1>2. Uninterrupted
  OBVIOUS
<1>3. LiftInv /\ Remembered(lift) /\ [Next]_vars => Remembered(lift)'
  BY <1>2, RememberedStep
<1> QED
  BY <1>1, <1>3, RememberedInit, LiftInvariant, PTL DEF Spec

-----------------------------------------------------------------------------
(***************************************************************************)
(* The next floor: which of the calls the organizer chooses.               *)
(***************************************************************************)
\* A set of floors with a member has a lowest one,
LEMMA LowestOf ==
    ASSUME NEW S, S \subseteq Nat, S # {}
    PROVE  Min(S) \in S /\ \A y \in S : Min(S) <= y
<1>1. PICK x \in S : \A y \in S : ~(<<y, x>> \in OpToRel(<, Nat))
  BY NatLessThanWellFounded, WFMin
<1>2. ASSUME NEW a \in Nat, NEW b \in Nat, a < b PROVE <<a, b>> \in OpToRel(<, Nat)
  BY <1>2 DEF OpToRel
<1>3. \A y \in S : ~(y < x)
  BY <1>1, <1>2
<1>4. \E z \in S : \A y \in S : z <= y
  BY <1>3
<1> QED
  BY <1>4, Zenon DEF Min

\* and, there being a top floor, a highest one.
LEMMA HighestOf ==
    ASSUME NEW S, S \subseteq Floors, S # {}
    PROVE  Max(S) \in S /\ \A y \in S : Max(S) >= y
<1> DEFINE T == {f_max - y : y \in S}
<1>1. \A y \in S : y \in Nat /\ y <= f_max /\ f_max - y \in Nat
  BY CallsAssumption DEF Floors
<1>2. T \subseteq Nat /\ T # {}
  BY <1>1
<1> HIDE DEF T
<1>3. Min(T) \in T /\ \A z \in T : Min(T) <= z
  BY <1>2, LowestOf
<1>4. PICK x \in S : Min(T) = f_max - x
  BY <1>3 DEF T
<1>5. ASSUME NEW y \in S PROVE x >= y
  <2>1. Min(T) <= f_max - y
    BY <1>3 DEF T
  <2> QED
    BY <1>1, <1>4, <2>1, CallsAssumption
<1> QED
  BY <1>5 DEF Max

\* The organizer finds no floor, or the lowest of those asked for,
LEMMA LowestFloor ==
    ASSUME NEW S, S \subseteq Floors
    PROVE  LET f == get_lowest_floor(S)
           IN \/ S = {} /\ f = NoFloor
              \/ f \in S /\ f # NoFloor /\ \A y \in S : f <= y
<1>1. S \subseteq Nat /\ NoFloor \notin S
  BY CallsAssumption DEF Floors, NoFloor
<1> QED
  BY <1>1, LowestOf DEF get_lowest_floor

\* or the highest.
LEMMA HighestFloor ==
    ASSUME NEW S, S \subseteq Floors
    PROVE  LET f == get_highest_floor(S)
           IN \/ S = {} /\ f = NoFloor
              \/ f \in S /\ f # NoFloor /\ \A y \in S : f >= y
<1>1. NoFloor \notin S
  BY CallsAssumption DEF Floors, NoFloor
<1> QED
  BY <1>1, HighestOf DEF get_highest_floor

\* The nearest floor of a set in a direction: the car's own, if it is one.
LEMMA NearestFloor ==
    ASSUME NEW c, NEW S, S \subseteq Floors, get_current_floor(c) \in Floors
    PROVE  LET i == get_current_floor(c)
               up == get_nearest_floor(c, TRUE, S)
               dn == get_nearest_floor(c, FALSE, S)
           IN /\ \/ up = NoFloor /\ \A y \in S : y < i
                 \/ up # NoFloor /\ up \in S /\ up >= i
              /\ \/ dn = NoFloor /\ \A y \in S : y > i
                 \/ dn # NoFloor /\ dn \in S /\ dn <= i
              /\ i \in S => up = i /\ dn = i
<1> DEFINE i == get_current_floor(c)
           A == {j \in S : j >= i}
           B == {j \in S : j <= i}
<1>1. /\ \A y \in S : y \in Int
      /\ i \in Int
  BY CallsAssumption DEF Floors
<1>2. \/ A = {} /\ get_lowest_floor(A) = NoFloor
      \/ get_lowest_floor(A) \in A /\ get_lowest_floor(A) # NoFloor /\ \A y \in A : get_lowest_floor(A) <= y
  BY LowestFloor
<1>3. \/ B = {} /\ get_highest_floor(B) = NoFloor
      \/ get_highest_floor(B) \in B /\ get_highest_floor(B) # NoFloor /\ \A y \in B : get_highest_floor(B) >= y
  BY HighestFloor
<1>4. /\ get_nearest_floor(c, TRUE, S) = get_lowest_floor(A)
      /\ get_nearest_floor(c, FALSE, S) = get_highest_floor(B)
  BY Zenon DEF get_nearest_floor
<1> DEFINE low == get_lowest_floor(A)
           high == get_highest_floor(B)
<1>5. i \in S => i \in A /\ i \in B
  BY <1>1
<1>6. \A y : (y \in A <=> y \in S /\ y >= i) /\ (y \in B <=> y \in S /\ y <= i)
  OBVIOUS
<1> HIDE DEF i, A, B, low, high
<1>7. /\ \/ low = NoFloor /\ \A y \in S : y < i
         \/ low # NoFloor /\ low \in S /\ low >= i
      /\ i \in S => low = i
  BY <1>1, <1>2, <1>5, <1>6 DEF low
<1>8. /\ \/ high = NoFloor /\ \A y \in S : y > i
         \/ high # NoFloor /\ high \in S /\ high <= i
      /\ i \in S => high = i
  BY <1>1, <1>3, <1>5, <1>6 DEF high
<1> QED
  BY <1>4, <1>7, <1>8 DEF low, high, i

\* The calls are of floors, and those in the hall upwards are taken only when
\* collecting both ways.
Calling(c) ==
    /\ c.ireq \subseteq Floors /\ c.ereq \subseteq Floors /\ c.eereq \subseteq Floors
    /\ collect # 2 => c.eereq = {}

\* A car that goes up, or down, at its current floor does not stop there: it is
\* not called from inside nor from the hall in that direction, and if called
\* in the other one, there is a call further on.
PassesTo(c, up) ==
    LET i == get_current_floor(c)
    IN /\ i \notin c.ireq
       /\ i \notin (IF up THEN c.eereq ELSE c.ereq)
       /\ i \in (IF up THEN c.ereq ELSE c.eereq) =>
             \E j \in Calls(c) : IF up THEN j > i ELSE j < i
Passes(c) == PassesTo(c, c.direction_up)

\* f is a floor to choose for a car in that direction: one called, not behind,
\* and the current one just if the car is to stop there.
Choice(f, c, up) ==
    LET i == get_current_floor(c)
    IN /\ f = i <=> ~PassesTo(c, up)
       /\ f = NoFloor => i \notin Calls(c)

\* Collecting both ways, the choices up and down.
LEMMA BothWays ==
    ASSUME NEW c, Calling(c), get_current_floor(c) \in Floors
    PROVE  LET ext == get_highest_floor(c.ereq)
               eext == get_lowest_floor(c.eereq)
               above == Or(get_nearest_floor(c, TRUE, c.ireq \cup c.eereq),
                           IF ext < get_current_floor(c) THEN NoFloor ELSE ext)
               below == Or(get_nearest_floor(c, FALSE, c.ireq \cup c.ereq),
                           IF eext > get_current_floor(c) THEN NoFloor ELSE eext)
           IN Choice(above, c, TRUE) /\ Choice(below, c, FALSE)
<1> DEFINE i == get_current_floor(c)
           ext == get_highest_floor(c.ereq)
           eext == get_lowest_floor(c.eereq)
           up == get_nearest_floor(c, TRUE, c.ireq \cup c.eereq)
           dn == get_nearest_floor(c, FALSE, c.ireq \cup c.ereq)
<1>1. /\ c.ireq \cup c.eereq \subseteq Floors /\ c.ireq \cup c.ereq \subseteq Floors
      /\ c.ereq \subseteq Floors /\ c.eereq \subseteq Floors
  BY DEF Calling
<1>2. /\ \A y \in Floors : y \in Int /\ y # NoFloor
      /\ i \in Floors /\ NoFloor < i
  BY CallsAssumption DEF Floors, NoFloor
<1>3. \/ c.ereq = {} /\ ext = NoFloor
      \/ ext \in c.ereq /\ ext # NoFloor /\ \A y \in c.ereq : ext >= y
  BY <1>1, HighestFloor
<1>4. \/ c.eereq = {} /\ eext = NoFloor
      \/ eext \in c.eereq /\ eext # NoFloor /\ \A y \in c.eereq : eext <= y
  BY <1>1, LowestFloor
<1>5. /\ \/ up = NoFloor /\ \A y \in c.ireq \cup c.eereq : y < i
         \/ up # NoFloor /\ up \in c.ireq \cup c.eereq /\ up >= i
      /\ i \in c.ireq \cup c.eereq => up = i
  BY <1>1, NearestFloor
<1>6. /\ \/ dn = NoFloor /\ \A y \in c.ireq \cup c.ereq : y > i
         \/ dn # NoFloor /\ dn \in c.ireq \cup c.ereq /\ dn <= i
      /\ i \in c.ireq \cup c.ereq => dn = i
  BY <1>1, NearestFloor
<1>7. Calls(c) = c.ireq \cup c.ereq \cup c.eereq
  BY DEF Calls
<1> DEFINE above == Or(up, IF ext < i THEN NoFloor ELSE ext)
           below == Or(dn, IF eext > i THEN NoFloor ELSE eext)
<1>8. above = IF up # NoFloor THEN up ELSE IF ext < i THEN NoFloor ELSE ext
  BY DEF Or
<1>9. below = IF dn # NoFloor THEN dn ELSE IF eext > i THEN NoFloor ELSE eext
  BY DEF Or
<1> HIDE DEF i, ext, eext, up, dn, above, below
<1>10. Choice(above, c, TRUE)
  BY <1>1, <1>2, <1>3, <1>5, <1>7, <1>8 DEF Choice, PassesTo, i
<1>11. Choice(below, c, FALSE)
  BY <1>1, <1>2, <1>4, <1>6, <1>7, <1>9 DEF Choice, PassesTo, i
<1> QED
  BY <1>10, <1>11 DEF above, below, up, dn, ext, eext, i

\* Collecting on the way down.
LEMMA WayDown ==
    ASSUME NEW c, Calling(c), collect # 2, get_current_floor(c) \in Floors
    PROVE  LET int == get_nearest_floor(c, TRUE, c.ireq)
               ext == get_nearest_floor(c, TRUE, c.ereq)
               above == Or(int, IF ext = NoFloor THEN NoFloor
                                ELSE get_highest_floor(c.ireq \cup c.ereq))
               below == get_nearest_floor(c, FALSE, c.ireq \cup c.ereq)
           IN Choice(above, c, TRUE) /\ Choice(below, c, FALSE)
<1> DEFINE i == get_current_floor(c)
           int == get_nearest_floor(c, TRUE, c.ireq)
           ext == get_nearest_floor(c, TRUE, c.ereq)
           far == get_highest_floor(c.ireq \cup c.ereq)
           below == get_nearest_floor(c, FALSE, c.ireq \cup c.ereq)
<1>1. /\ c.ireq \subseteq Floors /\ c.ereq \subseteq Floors
      /\ c.ireq \cup c.ereq \subseteq Floors /\ c.eereq = {}
  BY DEF Calling
<1>2. /\ \A y \in Floors : y \in Int /\ y # NoFloor
      /\ i \in Floors /\ NoFloor < i
  BY CallsAssumption DEF Floors, NoFloor
<1>3. /\ \/ int = NoFloor /\ \A y \in c.ireq : y < i
         \/ int # NoFloor /\ int \in c.ireq /\ int >= i
      /\ i \in c.ireq => int = i
  BY <1>1, NearestFloor
<1>4. /\ \/ ext = NoFloor /\ \A y \in c.ereq : y < i
         \/ ext # NoFloor /\ ext \in c.ereq /\ ext >= i
      /\ i \in c.ereq => ext = i
  BY <1>1, NearestFloor
<1>5. \/ c.ireq \cup c.ereq = {} /\ far = NoFloor
      \/ far \in c.ireq \cup c.ereq /\ far # NoFloor /\ \A y \in c.ireq \cup c.ereq : far >= y
  BY <1>1, HighestFloor
<1>6. /\ \/ below = NoFloor /\ \A y \in c.ireq \cup c.ereq : y > i
         \/ below # NoFloor /\ below \in c.ireq \cup c.ereq /\ below <= i
      /\ i \in c.ireq \cup c.ereq => below = i
  BY <1>1, NearestFloor
<1>7. Calls(c) = c.ireq \cup c.ereq
  BY <1>1 DEF Calls
<1> DEFINE above == Or(int, IF ext = NoFloor THEN NoFloor ELSE far)
<1>8. above = IF int # NoFloor THEN int ELSE IF ext = NoFloor THEN NoFloor ELSE far
  BY DEF Or
<1> HIDE DEF i, int, ext, far, above, below
<1>9. Choice(above, c, TRUE)
  BY <1>1, <1>2, <1>3, <1>4, <1>5, <1>7, <1>8 DEF Choice, PassesTo, i
<1>10. Choice(below, c, FALSE)
  BY <1>1, <1>2, <1>6, <1>7 DEF Choice, PassesTo, i
<1> QED
  BY <1>9, <1>10 DEF above, below, int, ext, far, i

-----------------------------------------------------------------------------
(***************************************************************************)
(* Where the car is.                                                       *)
(***************************************************************************)
Traced == {"auto_counter", "auto_state", "direction_up", "selector_counter", "ireq", "ereq",
           "eereq", "ref", "moving", "saved", "floor_counter_save"}

\* d is c but for the variables in S and those that say nothing of the car's place.
Keeps(d, c, S) == Rec(d) /\ \A x \in Traced \ S : d[x] = c[x]

\* An assignment to one variable of the controller.
LEMMA Assigns ==
    ASSUME NEW c, Rec(c), NEW x \in Fields, NEW e
    PROVE  Keeps([c EXCEPT ![x] = e], c, {x}) /\ [c EXCEPT ![x] = e][x] = e
<1> DEFINE d == [c EXCEPT ![x] = e]
<1>1. d = [y \in Fields |-> IF y = x THEN e ELSE c[y]]
  BY DEF Rec
<1>2. Rec(d)
  BY <1>1 DEF Rec
<1>3. d[x] = e /\ \A y \in Fields \ {x} : d[y] = c[y]
  BY <1>1
<1>4. Traced \subseteq Fields
  BY DEF Traced, Fields, Watched
<1> QED
  BY <1>2, <1>3, <1>4 DEF Keeps

\* A variable of another kind.
LEMMA Elsewhere ==
    ASSUME NEW c, Rec(c), NEW x \in Fields \ Traced, NEW e
    PROVE  Keeps([c EXCEPT ![x] = e], c, {})
BY Assigns DEF Keeps

\* Two changes in turn.
LEMMA KeepsTwice ==
    ASSUME NEW b, NEW c, NEW d, NEW S, NEW T, Keeps(c, b, S), Keeps(d, c, T)
    PROVE  Keeps(d, b, S \cup T)
BY DEF Keeps

\* Faults, the emergency supply, doors and cam.
LEMMA PiecesKeep ==
    ASSUME NEW c, Rec(c), NEW f
    PROVE  /\ Keeps(c, c, {}) /\ Keeps(Err(c, f), c, {}) /\ Keeps(force_turn_off(c, f), c, {})
           /\ Keeps(ersd_stop(c), c, {}) /\ Keeps(march_set(c), c, {})
           /\ Keeps(open_doors(c), c, {}) /\ Keeps(close_doors(c), c, {})
<1>1. Keeps(c, c, {})
  BY DEF Keeps
<1>2. Keeps(Err(c, f), c, {}) /\ Keeps(force_turn_off(c, f), c, {})
  BY Elsewhere DEF Err, force_turn_off, Fields, Watched, Traced
<1>3. \A d : Rec(d) => Keeps(open_doors(d), d, {}) /\ Keeps(close_doors(d), d, {})
  BY Elsewhere DEF open_doors, close_doors, Fields, Watched, Traced
<1>4. Keeps(ersd_stop(c), c, {})
  <2>1. ersd_stop(c) = c \/ ersd_stop(c) = [c EXCEPT !.ersd = "idle"]
    BY DEF ersd_stop
  <2> QED
    BY <1>1, <2>1, Elsewhere DEF Fields, Watched, Traced
<1>5. Keeps(march_set(c), c, {})
  <2> DEFINE a == [c EXCEPT !.cam = TRUE]
  <2>1. Keeps(a, c, {})
    BY Elsewhere DEF Fields, Watched, Traced
  <2>2. march_set(c) = close_doors(a)
    BY DEF march_set
  <2> HIDE DEF a
  <2>3. Keeps(close_doors(a), a, {})
    BY <1>3, <2>1 DEF Keeps
  <2> QED
    BY <2>1, <2>2, <2>3, KeepsTwice
<1> QED
  BY <1>1, <1>2, <1>3, <1>4, <1>5

\* The state, the command and the drive.
LEMMA DriveKeeps ==
    ASSUME NEW c, Rec(c), NEW s
    PROVE  /\ Keeps(Set(c, s), c, {"auto_counter"}) /\ Set(c, s).auto_counter = s
           /\ Keeps(Reference(c), c, {"ref"}) /\ Reference(c).ref = Dir(c.direction_up)
           /\ Keeps(vfd_estop(c), c, {"ref", "moving"})
           /\ vfd_estop(c).ref = "zero" /\ vfd_estop(c).moving = "still"
<1>1. Keeps(Set(c, s), c, {"auto_counter"}) /\ Set(c, s).auto_counter = s
  BY Assigns DEF Set, Fields, Watched
<1>2. Keeps(Reference(c), c, {"ref"}) /\ Reference(c).ref = Dir(c.direction_up)
  <2>1. Reference(c) = [c EXCEPT !.ref = Dir(c.direction_up)]
    BY DEF Reference, Dir
  <2> QED
    BY <2>1, Assigns DEF Fields, Watched
<1>3. /\ Keeps(vfd_estop(c), c, {"ref", "moving"})
      /\ vfd_estop(c).ref = "zero" /\ vfd_estop(c).moving = "still"
  <2> DEFINE a == [c EXCEPT !.ref = "zero"]
             b == [a EXCEPT !.moving = "still"]
  <2>1. Keeps(a, c, {"ref"}) /\ a.ref = "zero"
    BY Assigns DEF Fields, Watched
  <2>2. vfd_estop(c) = b
    BY DEF vfd_estop
  <2> HIDE DEF a
  <2>3. Keeps(b, a, {"moving"}) /\ b.moving = "still"
    BY <2>1, Assigns DEF Keeps, Fields, Watched
  <2> HIDE DEF b
  <2>4. Keeps(b, c, {"ref", "moving"})
    BY <2>1, <2>3, KeepsTwice DEF Keeps
  <2>5. b.ref = "zero"
    BY <2>1, <2>3 DEF Keeps, Traced
  <2> QED
    BY <2>2, <2>3, <2>4, <2>5
<1> QED
  BY <1>1, <1>2, <1>3

\* Dropping every call.
LEMMA DropAllKeeps ==
    ASSUME NEW c, Rec(c)
    PROVE  LET d == drop_all_req(c)
           IN Keeps(d, c, {"ireq", "ereq", "eereq"}) /\ d.ireq = {} /\ d.ereq = {} /\ d.eereq = {}
BY DEF drop_all_req, Rec, Keeps, Fields, Watched, Traced

\* Entering stop saves the selector if it is marked.
LEMMA StopKeeps ==
    ASSUME NEW c, Rec(c), NEW t
    PROVE  LET d == auto_stop_enter(c, t)
           IN /\ Keeps(d, c, {"auto_counter", "ref", "moving", "saved", "floor_counter_save"})
              /\ d.auto_counter = "stop" /\ d.ref = "zero" /\ d.moving = "still"
              /\ d.saved = (IF c.floor_counter_save THEN c.selector_counter ELSE c.saved)
              /\ d.floor_counter_save = FALSE
<1> DEFINE a == Set(c, "stop")
           b == vfd_estop(a)
           s == ersd_stop(b)
           d == auto_stop_enter(c, t)
           v == IF c.floor_counter_save THEN c.selector_counter ELSE s.saved
<1>1. Keeps(a, c, {"auto_counter"}) /\ a.auto_counter = "stop"
  BY DriveKeeps
<1> HIDE DEF a
<1>2. Keeps(b, a, {"ref", "moving"}) /\ b.ref = "zero" /\ b.moving = "still"
  BY <1>1, DriveKeeps DEF Keeps
<1> HIDE DEF b
<1>3. Keeps(s, b, {})
  BY <1>2, PiecesKeep DEF Keeps
<1> HIDE DEF s
<1>4. /\ Keeps(s, c, {"auto_counter", "ref", "moving"})
      /\ s.auto_counter = "stop" /\ s.ref = "zero" /\ s.moving = "still" /\ s.saved = c.saved
  BY <1>1, <1>2, <1>3 DEF Keeps, Traced
<1>5. d = [s EXCEPT !.saved = IF c.floor_counter_save THEN c.selector_counter ELSE @,
                    !.floor_counter_save = FALSE,
                    !.turnoff_battery_mode = @ /\ ~(ARD(c) /\ ~t.level),
                    !.stop_idle_run = @ \/ ~(INS(c) \/ ARD(c)),
                    !.cam = FALSE]
  BY DEF auto_stop_enter, s, b, a
<1> HIDE DEF d
<1>6. /\ Keeps(d, s, {"saved", "floor_counter_save"})
      /\ d.saved = v /\ d.floor_counter_save = FALSE
  BY <1>4, <1>5 DEF Keeps, Rec, Fields, Watched, Traced
<1>7. /\ d.auto_counter = "stop" /\ d.ref = "zero" /\ d.moving = "still"
      /\ d.saved = (IF c.floor_counter_save THEN c.selector_counter ELSE c.saved)
  BY <1>4, <1>6 DEF Keeps, Traced
<1>8. Keeps(d, c, {"auto_counter", "ref", "moving", "saved", "floor_counter_save"})
  BY <1>4, <1>6 DEF Keeps
<1> QED
  BY <1>6, <1>7, <1>8 DEF d

\* Entering idle and camtest.
LEMMA IdleKeeps ==
    ASSUME NEW c, Rec(c), NEW t
    PROVE  LET d == auto_idle_enter(c, t)
           IN /\ Keeps(d, c, {"auto_counter", "ref", "moving"})
              /\ d.auto_counter = "idle" /\ d.ref = "zero" /\ d.moving = "still"
<1> DEFINE a == Set(c, "idle")
           b == vfd_estop(a)
           i == [b EXCEPT !.idle_camt_run = FALSE, !.cf_press = FALSE, !.cam = FALSE,
                          !.turnoff_battery_mode = @ /\ ~(ARD(c) /\ ~t.level)]
           d == auto_idle_enter(c, t)
<1>1. Keeps(a, c, {"auto_counter"}) /\ a.auto_counter = "idle"
  BY DriveKeeps
<1> HIDE DEF a
<1>2. Keeps(b, a, {"ref", "moving"}) /\ b.ref = "zero" /\ b.moving = "still"
  BY <1>1, DriveKeeps DEF Keeps
<1> HIDE DEF b
<1>3. Keeps(i, b, {})
  BY <1>2 DEF Keeps, Rec, Fields, Watched, Traced
<1>4. d \in {close_doors(i), open_doors(i), i}
  BY Zenon DEF auto_idle_enter, i, b, a
<1> HIDE DEF i, d
<1>5. Keeps(d, i, {})
  BY <1>3, <1>4, PiecesKeep DEF Keeps
<1>6. /\ Keeps(d, c, {"auto_counter", "ref", "moving"})
      /\ d.auto_counter = "idle" /\ d.ref = "zero" /\ d.moving = "still"
  BY <1>1, <1>2, <1>3, <1>5 DEF Keeps, Traced
<1> QED
  BY <1>6 DEF d

\* Entering camtest: the selector is marked to be saved.
LEMMA CamtestKeeps ==
    ASSUME NEW c, Rec(c)
    PROVE  LET d == auto_camtest_enter(c)
           IN /\ Keeps(d, c, {"auto_counter", "ref", "moving", "floor_counter_save"})
              /\ d.auto_counter = "camtest" /\ d.ref = "zero" /\ d.moving = "still"
              /\ d.floor_counter_save = TRUE
<1> DEFINE a == Set(c, "camtest")
           m == [a EXCEPT !.floor_counter_save = TRUE]
           b == force_turn_off(m, FALSE)
           e == vfd_estop(b)
           d == march_set(e)
<1>1. Keeps(a, c, {"auto_counter"}) /\ a.auto_counter = "camtest"
  BY DriveKeeps
<1> HIDE DEF a
<1>2. Keeps(m, a, {"floor_counter_save"}) /\ m.floor_counter_save = TRUE
  BY <1>1 DEF Keeps, Rec, Fields, Watched, Traced
<1> HIDE DEF m
<1>3. Keeps(b, m, {})
  BY <1>2 DEF force_turn_off, Keeps, Rec, Fields, Watched, Traced
<1> HIDE DEF b
<1>4. Keeps(e, b, {"ref", "moving"}) /\ e.ref = "zero" /\ e.moving = "still"
  BY <1>3, DriveKeeps DEF Keeps
<1> HIDE DEF e
<1>5. Keeps(d, e, {})
  BY <1>4, PiecesKeep DEF Keeps
<1>6. auto_camtest_enter(c) = d
  BY Zenon DEF auto_camtest_enter, d, e, b, m, a
<1> HIDE DEF d
<1>7. /\ Keeps(d, c, {"auto_counter", "ref", "moving", "floor_counter_save"})
      /\ d.auto_counter = "camtest" /\ d.ref = "zero" /\ d.moving = "still"
      /\ d.floor_counter_save = TRUE
  BY <1>1, <1>2, <1>3, <1>4, <1>5 DEF Keeps, Traced
<1> QED
  BY <1>6, <1>7

\* Entering the states of a run, but for rescue.
LEMMA RunKeeps ==
    ASSUME NEW c, Rec(c)
    PROVE  /\ LET d == auto_hspd_enter(c)
              IN /\ Keeps(d, c, {"auto_counter", "ref"})
                 /\ d.auto_counter = "hspd" /\ d.ref = Dir(c.direction_up)
           /\ ~ARD(c) => LET d == auto_lspd_enter(c)
                         IN /\ Keeps(d, c, {"auto_counter", "ref"})
                            /\ d.auto_counter = "lspd" /\ d.ref = Dir(c.direction_up)
           /\ LET d == auto_stopping_enter(c)
              IN /\ Keeps(d, c, {"auto_counter", "ref"})
                 /\ d.auto_counter = "stopping" /\ d.ref = "zero"
<1>1. ASSUME NEW s
      PROVE  Keeps(Set(c, s), c, {"auto_counter"}) /\ Set(c, s).auto_counter = s
  BY DriveKeeps
<1>2. ASSUME NEW b, NEW s, Keeps(b, c, {"auto_counter"}), b.auto_counter = s
      PROVE  /\ Keeps(Reference(b), c, {"auto_counter", "ref"})
             /\ Reference(b).auto_counter = s /\ Reference(b).ref = Dir(c.direction_up)
  <2>1. Keeps(Reference(b), b, {"ref"}) /\ Reference(b).ref = Dir(b.direction_up)
    BY <1>2, DriveKeeps DEF Keeps
  <2> QED
    BY <1>2, <2>1 DEF Keeps, Traced
<1>3. LET d == auto_hspd_enter(c)
      IN /\ Keeps(d, c, {"auto_counter", "ref"})
         /\ d.auto_counter = "hspd" /\ d.ref = Dir(c.direction_up)
  <2> DEFINE a == Set(c, "hspd")
             b == march_set(a)
  <2>1. Keeps(a, c, {"auto_counter"}) /\ a.auto_counter = "hspd"
    BY <1>1
  <2> HIDE DEF a
  <2>2. Keeps(b, a, {})
    BY <2>1, PiecesKeep DEF Keeps
  <2> HIDE DEF b
  <2>3. Keeps(b, c, {"auto_counter"}) /\ b.auto_counter = "hspd"
    BY <2>1, <2>2 DEF Keeps, Traced
  <2>4. auto_hspd_enter(c) = Reference(b)
    BY DEF auto_hspd_enter, a, b
  <2> QED
    BY <1>2, <2>3, <2>4
<1>4. ASSUME ~ARD(c)
      PROVE  LET d == auto_lspd_enter(c)
             IN /\ Keeps(d, c, {"auto_counter", "ref"})
                /\ d.auto_counter = "lspd" /\ d.ref = Dir(c.direction_up)
  <2> DEFINE a == Set(c, "lspd")
             o == [a EXCEPT !.onfloor = FALSE]
             e == [o EXCEPT !.stop_delay_counter = STOP_DELAY]
             f == force_turn_off(e, FALSE)
             b == march_set(f)
  <2>1. Keeps(a, c, {"auto_counter"}) /\ a.auto_counter = "lspd"
    BY <1>1
  <2> HIDE DEF a
  <2>2. Keeps(o, a, {})
    BY <2>1, Elsewhere DEF Keeps, Fields, Watched, Traced
  <2> HIDE DEF o
  <2>3. Keeps(e, o, {})
    BY <2>2, Elsewhere DEF Keeps, Fields, Watched, Traced
  <2> HIDE DEF e
  <2>4. Keeps(f, e, {})
    BY <2>3, PiecesKeep DEF Keeps
  <2> HIDE DEF f
  <2>5. Keeps(b, f, {})
    BY <2>4, PiecesKeep DEF Keeps
  <2> HIDE DEF b
  <2>6. Keeps(b, c, {"auto_counter"}) /\ b.auto_counter = "lspd"
    BY <2>1, <2>2, <2>3, <2>4, <2>5 DEF Keeps, Traced
  <2>7. auto_lspd_enter(c) = Reference(b)
    BY <1>4, Zenon DEF auto_lspd_enter, b, f, e, o, a
  <2> QED
    BY <1>2, <2>6, <2>7
<1>5. LET d == auto_stopping_enter(c)
      IN /\ Keeps(d, c, {"auto_counter", "ref"})
         /\ d.auto_counter = "stopping" /\ d.ref = "zero"
  <2> DEFINE a == Set(c, "stopping")
             b == [a EXCEPT !.ref = "zero"]
             d == force_turn_off(b, FALSE)
  <2>1. Keeps(a, c, {"auto_counter"}) /\ a.auto_counter = "stopping"
    BY <1>1
  <2> HIDE DEF a
  <2>2. Keeps(b, a, {"ref"}) /\ b.ref = "zero"
    BY <2>1, Assigns DEF Keeps, Fields, Watched
  <2> HIDE DEF b
  <2>3. Keeps(d, b, {})
    BY <2>2, PiecesKeep DEF Keeps
  <2> HIDE DEF d
  <2>4. Keeps(d, c, {"auto_counter", "ref"}) /\ d.auto_counter = "stopping" /\ d.ref = "zero"
    BY <2>1, <2>2, <2>3 DEF Keeps, Traced
  <2>5. auto_stopping_enter(c) = d
    BY DEF auto_stopping_enter, a, b, d
  <2> QED
    BY <2>4, <2>5
<1> QED
  BY <1>3, <1>4, <1>5

\* What is called and passed depends on the calls and the selector.
LEMMA PassesAlike ==
    ASSUME NEW c, NEW d, NEW S, Keeps(d, c, S),
           S \cap {"selector_counter", "ireq", "ereq", "eereq"} = {}
    PROVE  /\ get_current_floor(d) = get_current_floor(c)
           /\ infloorzone(d) = infloorzone(c)
           /\ Calls(d) = Calls(c) /\ (Calling(d) <=> Calling(c))
           /\ \A u : PassesTo(d, u) <=> PassesTo(c, u)
<1>1. /\ d.selector_counter = c.selector_counter /\ d.ireq = c.ireq
      /\ d.ereq = c.ereq /\ d.eereq = c.eereq
  BY DEF Keeps, Traced
<1>2. /\ get_current_floor(d) = get_current_floor(c) /\ infloorzone(d) = infloorzone(c)
      /\ Calls(d) = Calls(c)
  BY <1>1 DEF get_current_floor, infloorzone, Calls
<1> QED
  BY <1>1, <1>2 DEF Calling, PassesTo

\* The choice of the next floor changes the direction at most, not that of a
\* car at high or creep speed, and not while there is a call of the current
\* floor, which is chosen exactly if the car is to stop there.
LEMMA ScheduleChooses ==
    ASSUME NEW c, Rec(c), c.direction_up \in BOOLEAN, Calling(c),
           get_current_floor(c) \in Floors
    PROVE  LET s == get_scheduled_floor(c, FALSE)
           IN /\ Keeps(s.c, c, {"direction_up"}) /\ s.c.direction_up \in BOOLEAN
              /\ c.auto_counter \in {"hspd", "lspd"} => s.c.direction_up = c.direction_up
              /\ s.c.direction_up = c.direction_up \/ get_current_floor(c) \notin Calls(c)
              /\ s.floor = get_current_floor(c) <=> ~PassesTo(c, s.c.direction_up)
<1> DEFINE i == get_current_floor(c)
           Chosen(s) ==
             /\ Keeps(s.c, c, {"direction_up"}) /\ s.c.direction_up \in BOOLEAN
             /\ c.auto_counter \in {"hspd", "lspd"} => s.c.direction_up = c.direction_up
             /\ s.c.direction_up = c.direction_up \/ i \notin Calls(c)
             /\ s.floor = i <=> ~PassesTo(c, s.c.direction_up)
<1>1. /\ NoFloor # i /\ NotAFloor # i /\ Endless # i /\ ~(i > f_max)
  BY CallsAssumption DEF NoFloor, NotAFloor, Endless, Floors
<1>2. i \notin Calls(c) => PassesTo(c, TRUE) /\ PassesTo(c, FALSE)
  BY DEF PassesTo, Calls
<1>3. ASSUME NEW f, NEW u \in BOOLEAN,
             c.auto_counter \in {"hspd", "lspd"} => u = c.direction_up,
             u = c.direction_up \/ i \notin Calls(c),
             f = i <=> ~PassesTo(c, u)
      PROVE  Chosen(Going(f, c, u))
  <2> DEFINE d == [c EXCEPT !.direction_up = u]
  <2>1. Keeps(d, c, {"direction_up"}) /\ d.direction_up = u
    BY Assigns DEF Fields, Watched
  <2>2. Going(f, c, u).floor = f /\ Going(f, c, u).c = d
    BY DEF Going
  <2> HIDE DEF d, i
  <2> QED
    BY <1>3, <2>1, <2>2
<1> HIDE DEF Chosen
<1>4. ASSUME i \notin Calls(c), NEW f \in {NoFloor, NotAFloor, Endless}, NEW u \in BOOLEAN,
             c.auto_counter \in {"hspd", "lspd"} => u = c.direction_up
      PROVE  Chosen(Going(f, c, u))
  <2>1. f # i /\ PassesTo(c, u)
    BY <1>1, <1>2, <1>4
  <2> QED
    BY <1>3, <1>4, <2>1
<1> SUFFICES Chosen(get_scheduled_floor(c, FALSE))
  BY DEF Chosen
<1>5. CASE collect = 2
  <2> DEFINE ext == get_highest_floor(c.ereq)
             eext == get_lowest_floor(c.eereq)
             above == Or(get_nearest_floor(c, TRUE, c.ireq \cup c.eereq),
                         IF ext < get_current_floor(c) THEN NoFloor ELSE ext)
             below == Or(get_nearest_floor(c, FALSE, c.ireq \cup c.ereq),
                         IF eext > get_current_floor(c) THEN NoFloor ELSE eext)
             none == c.ireq = {} /\ c.ereq \cup c.eereq = {}
  <2>1. get_scheduled_floor(c, FALSE) =
          IF none THEN Going(NoFloor, c, c.direction_up)
          ELSE IF c.direction_up /\ above # NoFloor THEN Going(above, c, TRUE)
          ELSE IF c.direction_up /\ in_motion(c) THEN Going(NoFloor, c, TRUE)
          ELSE IF below # NoFloor THEN Going(below, c, FALSE)
          ELSE IF in_motion(c) THEN Going(NoFloor, c, c.direction_up)
          ELSE Going(NotAFloor, c, TRUE)
    BY <1>5, Zenon DEF get_scheduled_floor, all_coll
  <2>2. Choice(above, c, TRUE) /\ Choice(below, c, FALSE)
    BY BothWays
  <2>3. none => i \notin Calls(c)
    BY DEF Calls
  <2>4. c.auto_counter \in {"hspd", "lspd"} => in_motion(c)
    BY DEF in_motion
  <2> HIDE DEF above, below, none
  <2>5. above = i <=> ~PassesTo(c, TRUE)
    BY <2>2 DEF Choice
  <2>6. below = i <=> ~PassesTo(c, FALSE)
    BY <2>2 DEF Choice
  <2>7. (above = NoFloor \/ below = NoFloor) => i \notin Calls(c)
    BY <2>2 DEF Choice
  <2> HIDE DEF i
  <2> QED
    BY <1>3, <1>4, <2>1, <2>3, <2>4, <2>5, <2>6, <2>7
<1>6. CASE collect # 2
  <2> DEFINE int == get_nearest_floor(c, TRUE, c.ireq)
             ext == get_nearest_floor(c, TRUE, c.ereq)
             above == Or(int, IF ext = NoFloor THEN NoFloor
                              ELSE get_highest_floor(c.ireq \cup c.ereq))
             below == get_nearest_floor(c, FALSE, c.ireq \cup c.ereq)
             none == c.ireq \cup c.ereq = {}
             moving == c.auto_counter \in {"hspd", "lspd"}
  <2>1. get_scheduled_floor(c, FALSE) =
          IF none THEN Going(NoFloor, c, c.direction_up)
          ELSE IF c.direction_up /\ above # NoFloor THEN Going(above, c, TRUE)
          ELSE IF ~c.direction_up /\ below # NoFloor THEN Going(below, c, FALSE)
          ELSE IF moving THEN Going(NoFloor, c, c.direction_up)
          ELSE IF below # NoFloor THEN Going(below, c, FALSE)
          ELSE IF above # NoFloor THEN Going(above, c, TRUE)
          ELSE Going(Endless, c, c.direction_up)
    BY <1>1, <1>6, Zenon DEF get_scheduled_floor, down_coll
  <2>2. Choice(above, c, TRUE) /\ Choice(below, c, FALSE)
    BY <1>6, WayDown
  <2>3. none => i \notin Calls(c)
    BY <1>6 DEF Calls, Calling
  <2> HIDE DEF above, below, none
  <2>5. above = i <=> ~PassesTo(c, TRUE)
    BY <2>2 DEF Choice
  <2>6. below = i <=> ~PassesTo(c, FALSE)
    BY <2>2 DEF Choice
  <2>7. (above = NoFloor \/ below = NoFloor) => i \notin Calls(c)
    BY <2>2 DEF Choice
  <2> HIDE DEF i
  <2> QED
    BY <1>3, <1>4, <2>1, <2>3, <2>5, <2>6, <2>7
<1> QED
  BY <1>5, <1>6

-----------------------------------------------------------------------------
(***************************************************************************)
(* The place of the car in each state, and what the functions leave of it. *)
(***************************************************************************)
\* The states in which the car stands, with the drive stopped.
Rest == {"stop", "idle", "camtest"}

\* The car, going in its direction, comes to the level of the floor in whose
\* zone it is, or is there.
Toward(c, p) == IF c.direction_up THEN p % 4 \in {0, 1} ELSE p % 4 \in {1, 2}

\* What is saved: the selector where the car rests, and where it leaves rest
\* and runs it is marked or, where an enable was lost, saved as it is.
Kept(c) ==
    /\ c.auto_counter \in Rest => c.saved = c.selector_counter
    /\ c.auto_counter \in {"camtest", "hspd"} => c.floor_counter_save = TRUE
    /\ c.floor_counter_save = TRUE \/ c.saved = c.selector_counter
    /\ c.floor_counter_save \in BOOLEAN

\* The drive: commanded in the states of a run only, in the car's direction.
Driven(c) ==
    /\ c.ref # "zero" => c.ref = Dir(c.direction_up) /\ c.auto_counter \in {"hspd", "lspd"}
    /\ c.auto_counter \in {"hspd", "lspd"} => c.moving \in {"still", Dir(c.direction_up)}
    /\ c.auto_counter \in Rest => c.moving = "still"

\* With the car at p between the final limits the selector is right; a floor in
\* whose zone the car is, and which it does not pass, is one it comes to.
Sited(c, p) ==
    /\ Rec(c) /\ c.auto_counter \in States \ {"prespd"} /\ c.auto_state = {}
    /\ c.direction_up \in BOOLEAN /\ Calling(c)
    /\ Kept(c) /\ Driven(c)
    /\ p \in 1..Top - 1 /\ c.selector_counter = Zone(p)
    /\ infloorzone(c) => Passes(c) \/ Toward(c, p)
    /\ c.auto_counter = "lspd" => infloorzone(c) /\ Toward(c, p)
    /\ c.auto_counter = "stopping" => Level(p)

\* Between two calls of auto_update: at high speed the car is short of the
\* limit it runs to, and in no zone of a floor where it is to stop.
Placed(c, p) ==
    /\ Sited(c, p)
    /\ c.auto_counter = "hspd" =>
          /\ IF c.direction_up THEN p < 4 * f_max ELSE p > 2
          /\ infloorzone(c) => Passes(c)

\* Where the edges are counted, it may just have come into such a zone.
Counted(c, p) ==
    /\ Sited(c, p)
    /\ c.auto_counter = "hspd" /\ infloorzone(c) =>
          Passes(c) \/ (IF c.direction_up THEN p % 4 = 0 ELSE p % 4 = 2)

\* Where the state is executed, only the limits are left to stop it.
Executed(c, p) ==
    /\ Sited(c, p)
    /\ c.auto_counter = "hspd" /\ infloorzone(c) =>
          Passes(c) \/ (IF c.direction_up THEN p >= 4 * f_max ELSE p <= 2)

\* The floors, their zones and the selector.
LEMMA ZoneOf ==
    ASSUME NEW p \in 1..Top - 1, NEW c, c.selector_counter = Zone(p)
    PROVE  /\ get_current_floor(c) = p \div 4 /\ get_current_floor(c) \in Floors
           /\ infloorzone(c) <=> p % 4 # 3
           /\ Zone(p) \in 0..2 * f_max
<1>1. PICK k \in Int, r \in 0..3 : p = 4 * k + r
  <2>1. p \in Int /\ p = 4 * (p \div 4) + (p % 4) /\ p % 4 \in 0..3 /\ p \div 4 \in Int
    BY CallsAssumption DEF Top
  <2> QED
    BY <2>1
<1>2. p % 4 = r /\ p \div 4 = k
  BY <1>1
<1>3. k >= 0 /\ k <= f_max /\ (k = f_max => r <= 1) /\ f_max \in Nat
  BY <1>1, CallsAssumption DEF Top
<1>4. c.selector_counter = IF r = 3 THEN 2 * k + 1 ELSE 2 * k
  BY <1>2 DEF Zone
<1>5. get_current_floor(c) = k /\ (infloorzone(c) <=> r # 3)
  BY <1>4 DEF get_current_floor, infloorzone
<1>6. Zone(p) \in 0..2 * f_max
  BY <1>2, <1>3 DEF Zone
<1> QED
  BY <1>2, <1>3, <1>5, <1>6 DEF Floors

\* Other variables say nothing of the place.
LEMMA PlaceAlike ==
    ASSUME NEW c, NEW d, Keeps(d, c, {}), NEW p
    PROVE  /\ Sited(c, p) => Sited(d, p)
           /\ Placed(c, p) => Placed(d, p)
           /\ Counted(c, p) => Counted(d, p)
           /\ Executed(c, p) => Executed(d, p)
           /\ d.auto_counter = c.auto_counter /\ d.direction_up = c.direction_up
<1>1. /\ Rec(d) /\ d.auto_counter = c.auto_counter /\ d.auto_state = c.auto_state
      /\ d.direction_up = c.direction_up /\ d.selector_counter = c.selector_counter
      /\ d.ref = c.ref /\ d.moving = c.moving /\ d.saved = c.saved
      /\ d.floor_counter_save = c.floor_counter_save
  BY DEF Keeps, Traced
<1>2. /\ infloorzone(d) = infloorzone(c) /\ (Calling(d) <=> Calling(c))
      /\ Passes(d) <=> Passes(c)
  BY <1>1, PassesAlike DEF Passes
<1>3. /\ Kept(c) => Kept(d)
      /\ Driven(c) => Driven(d)
      /\ Toward(d, p) <=> Toward(c, p)
  BY <1>1 DEF Kept, Driven, Toward
<1>4. Sited(c, p) => Sited(d, p)
  BY <1>1, <1>2, <1>3 DEF Sited
<1> QED
  BY <1>1, <1>2, <1>4 DEF Placed, Counted, Executed

\* A car that does not run at high speed.
LEMMA NotFast ==
    ASSUME NEW c, NEW p, Sited(c, p), c.auto_counter # "hspd"
    PROVE  Placed(c, p) /\ Counted(c, p) /\ Executed(c, p)
BY DEF Placed, Counted, Executed

\* Entering stop, at any place.
LEMMA StopSited ==
    ASSUME NEW c, NEW p, Sited(c, p), NEW t
    PROVE  Sited(auto_stop_enter(c, t), p) /\ auto_stop_enter(c, t).auto_counter = "stop"
<1> DEFINE d == auto_stop_enter(c, t)
<1>1. /\ Keeps(d, c, {"auto_counter", "ref", "moving", "saved", "floor_counter_save"})
      /\ d.auto_counter = "stop" /\ d.ref = "zero" /\ d.moving = "still"
      /\ d.saved = (IF c.floor_counter_save THEN c.selector_counter ELSE c.saved)
      /\ d.floor_counter_save = FALSE
  BY StopKeeps DEF Sited
<1> HIDE DEF d
<1>2. /\ Rec(d) /\ d.auto_state = c.auto_state /\ d.direction_up = c.direction_up
      /\ d.selector_counter = c.selector_counter
  BY <1>1 DEF Keeps, Traced
<1>3. /\ infloorzone(d) = infloorzone(c) /\ (Calling(d) <=> Calling(c))
      /\ Passes(d) <=> Passes(c)
  BY <1>1, <1>2, PassesAlike DEF Passes
<1>4. Kept(d)
  BY <1>1, <1>2 DEF Sited, Kept, Rest
<1>5. Driven(d)
  BY <1>1, <1>2 DEF Driven, Rest
<1>6. Toward(d, p) <=> Toward(c, p)
  BY <1>2 DEF Toward
<1>7. Sited(d, p)
  BY <1>1, <1>2, <1>3, <1>4, <1>5, <1>6 DEF Sited, States
<1> QED
  BY <1>1, <1>7 DEF d

\* Without calls every floor is passed.
LEMMA DropAllSited ==
    ASSUME NEW c, NEW p, Sited(c, p)
    PROVE  Sited(drop_all_req(c), p) /\ drop_all_req(c).auto_counter = c.auto_counter
<1> DEFINE d == drop_all_req(c)
<1>1. Keeps(d, c, {"ireq", "ereq", "eereq"}) /\ d.ireq = {} /\ d.ereq = {} /\ d.eereq = {}
  BY DropAllKeeps DEF Sited
<1> HIDE DEF d
<1>2. /\ Rec(d) /\ d.auto_counter = c.auto_counter /\ d.auto_state = c.auto_state
      /\ d.direction_up = c.direction_up /\ d.selector_counter = c.selector_counter
      /\ d.ref = c.ref /\ d.moving = c.moving /\ d.saved = c.saved
      /\ d.floor_counter_save = c.floor_counter_save
  BY <1>1 DEF Keeps, Traced
<1>3. infloorzone(d) = infloorzone(c) /\ Calling(d) /\ Passes(d)
  BY <1>1, <1>2 DEF infloorzone, Calling, Passes, PassesTo
<1>4. Kept(d) /\ Driven(d) /\ (Toward(d, p) <=> Toward(c, p))
  BY <1>2 DEF Sited, Kept, Driven, Toward
<1>5. Sited(d, p)
  BY <1>2, <1>3, <1>4 DEF Sited
<1> QED
  BY <1>2, <1>5 DEF d

\* A run may be left for stop at any time, with its calls dropped.
LEMMA HaltSited ==
    ASSUME NEW c, NEW p, Sited(c, p), NEW t, NEW f
    PROVE  /\ Placed(auto_stop_enter(c, t), p) /\ Executed(auto_stop_enter(c, t), p)
           /\ Executed(Stop_dropping(c, t), p) /\ Executed(Err(Stop_dropping(c, t), f), p)
<1> DEFINE s == auto_stop_enter(c, t)
           d == drop_all_req(s)
<1>1. Sited(s, p) /\ s.auto_counter = "stop"
  BY StopSited
<1>2. Placed(s, p) /\ Executed(s, p)
  BY <1>1, NotFast
<1>3. Sited(d, p) /\ d.auto_counter = "stop"
  BY <1>1, DropAllSited
<1>4. Executed(d, p) /\ Rec(d)
  BY <1>3, NotFast DEF Sited
<1>5. Stop_dropping(c, t) = d
  BY DEF Stop_dropping
<1> HIDE DEF s, d
<1>6. Executed(Err(d, f), p)
  BY <1>4, PiecesKeep, PlaceAlike
<1> QED
  BY <1>2, <1>4, <1>5, <1>6 DEF s

\* idle and camtest are entered from rest.
LEMMA RestSited ==
    ASSUME NEW c, NEW p, Sited(c, p), c.auto_counter \in Rest, NEW t
    PROVE  /\ Sited(auto_idle_enter(c, t), p) /\ auto_idle_enter(c, t).auto_counter = "idle"
           /\ Sited(auto_camtest_enter(c), p) /\ auto_camtest_enter(c).auto_counter = "camtest"
<1>1. ASSUME NEW d, NEW s \in {"idle", "camtest"},
             Keeps(d, c, {"auto_counter", "ref", "moving", "floor_counter_save"}),
             d.auto_counter = s, d.ref = "zero", d.moving = "still",
             IF s = "camtest" THEN d.floor_counter_save = TRUE
             ELSE d.floor_counter_save = c.floor_counter_save
      PROVE  Sited(d, p)
  <2>1. /\ Rec(d) /\ d.auto_state = c.auto_state /\ d.direction_up = c.direction_up
        /\ d.selector_counter = c.selector_counter /\ d.saved = c.saved
    BY <1>1 DEF Keeps, Traced
  <2>2. /\ infloorzone(d) = infloorzone(c) /\ (Calling(d) <=> Calling(c))
        /\ Passes(d) <=> Passes(c)
    BY <1>1, <2>1, PassesAlike DEF Passes
  <2>3. Kept(d)
    BY <1>1, <2>1 DEF Sited, Kept, Rest
  <2>4. Driven(d)
    BY <1>1, <2>1 DEF Driven, Rest
  <2>5. Toward(d, p) <=> Toward(c, p)
    BY <2>1 DEF Toward
  <2> QED
    BY <1>1, <2>1, <2>2, <2>3, <2>4, <2>5 DEF Sited, States
<1> DEFINE i == auto_idle_enter(c, t)
           m == auto_camtest_enter(c)
<1>2. /\ Keeps(i, c, {"auto_counter", "ref", "moving"})
      /\ i.auto_counter = "idle" /\ i.ref = "zero" /\ i.moving = "still"
  BY IdleKeeps DEF Sited
<1>3. /\ Keeps(m, c, {"auto_counter", "ref", "moving", "floor_counter_save"})
      /\ m.auto_counter = "camtest" /\ m.ref = "zero" /\ m.moving = "still"
      /\ m.floor_counter_save = TRUE
  BY CamtestKeeps DEF Sited
<1> HIDE DEF i, m
<1>4. /\ Keeps(i, c, {"auto_counter", "ref", "moving", "floor_counter_save"})
      /\ i.floor_counter_save = c.floor_counter_save
  BY <1>2 DEF Keeps, Traced
<1>5. Sited(i, p) /\ Sited(m, p)
  BY <1>1, <1>2, <1>3, <1>4
<1> QED
  BY <1>2, <1>3, <1>5 DEF i, m

\* The states of a run are entered in their place.
LEMMA RunSited ==
    ASSUME NEW c, NEW p, Sited(c, p)
    PROVE  /\ infloorzone(c) /\ Toward(c, p) /\ c.moving \in {"still", Dir(c.direction_up)} =>
                Sited(auto_lspd_enter(c), p) /\ auto_lspd_enter(c).auto_counter = "lspd"
           /\ c.auto_counter = "camtest" /\ (infloorzone(c) => Passes(c)) =>
                Executed(auto_hspd_enter(c), p)
           /\ Level(p) => Sited(auto_stopping_enter(c), p)
                          /\ auto_stopping_enter(c).auto_counter = "stopping"
<1>1. ASSUME NEW d, Keeps(d, c, {"auto_counter", "ref"})
      PROVE  /\ Rec(d) /\ d.auto_state = c.auto_state /\ d.direction_up = c.direction_up
             /\ d.selector_counter = c.selector_counter /\ d.saved = c.saved
             /\ d.floor_counter_save = c.floor_counter_save /\ d.moving = c.moving
             /\ infloorzone(d) = infloorzone(c) /\ (Calling(d) <=> Calling(c))
             /\ Passes(d) <=> Passes(c)
             /\ Toward(d, p) <=> Toward(c, p)
  <2>1. /\ Rec(d) /\ d.auto_state = c.auto_state /\ d.direction_up = c.direction_up
        /\ d.selector_counter = c.selector_counter /\ d.saved = c.saved
        /\ d.floor_counter_save = c.floor_counter_save /\ d.moving = c.moving
    BY <1>1 DEF Keeps, Traced
  <2>2. /\ infloorzone(d) = infloorzone(c) /\ (Calling(d) <=> Calling(c))
        /\ Passes(d) <=> Passes(c)
    BY <1>1, <2>1, PassesAlike DEF Passes
  <2>3. Toward(d, p) <=> Toward(c, p)
    BY <2>1 DEF Toward
  <2> QED
    BY <2>1, <2>2, <2>3
<1>2. ASSUME infloorzone(c), Toward(c, p), c.moving \in {"still", Dir(c.direction_up)}
      PROVE  Sited(auto_lspd_enter(c), p) /\ auto_lspd_enter(c).auto_counter = "lspd"
  <2> DEFINE d == auto_lspd_enter(c)
  <2>1. ~ARD(c)
    BY DEF Sited, ARD
  <2>2. Keeps(d, c, {"auto_counter", "ref"}) /\ d.auto_counter = "lspd" /\ d.ref = Dir(c.direction_up)
    BY <2>1, RunKeeps DEF Sited
  <2> HIDE DEF d
  <2>3. Kept(d) /\ Driven(d)
    BY <1>1, <1>2, <2>2 DEF Sited, Kept, Driven, Rest
  <2>4. Sited(d, p)
    BY <1>1, <1>2, <2>2, <2>3 DEF Sited, States
  <2> QED
    BY <2>2, <2>4 DEF d
<1>3. ASSUME c.auto_counter = "camtest", infloorzone(c) => Passes(c)
      PROVE  Executed(auto_hspd_enter(c), p)
  <2> DEFINE d == auto_hspd_enter(c)
  <2>1. Keeps(d, c, {"auto_counter", "ref"}) /\ d.auto_counter = "hspd" /\ d.ref = Dir(c.direction_up)
    BY RunKeeps DEF Sited
  <2> HIDE DEF d
  <2>2. Kept(d) /\ Driven(d)
    BY <1>1, <1>3, <2>1 DEF Sited, Kept, Driven, Rest
  <2>3. Sited(d, p)
    BY <1>1, <1>3, <2>1, <2>2 DEF Sited, States
  <2>4. Executed(d, p)
    BY <1>1, <1>3, <2>1, <2>3 DEF Executed
  <2> QED
    BY <2>4 DEF d
<1>4. ASSUME Level(p)
      PROVE  /\ Sited(auto_stopping_enter(c), p)
             /\ auto_stopping_enter(c).auto_counter = "stopping"
  <2> DEFINE d == auto_stopping_enter(c)
  <2>1. Keeps(d, c, {"auto_counter", "ref"}) /\ d.auto_counter = "stopping" /\ d.ref = "zero"
    BY RunKeeps DEF Sited
  <2> HIDE DEF d
  <2>2. Kept(d) /\ Driven(d)
    BY <1>1, <2>1 DEF Sited, Kept, Driven, Rest
  <2>3. Sited(d, p)
    BY <1>1, <1>4, <2>1, <2>2 DEF Sited, States
  <2> QED
    BY <2>1, <2>3 DEF d
<1> QED
  BY <1>2, <1>3, <1>4

\* The choice of the next floor leaves the car in its place.
LEMMA ScheduleSited ==
    ASSUME NEW c, NEW p, Sited(c, p)
    PROVE  LET s == get_scheduled_floor(c, FALSE)
           IN /\ Sited(s.c, p) /\ (Placed(c, p) => Placed(s.c, p)) /\ (Counted(c, p) => Counted(s.c, p))
              /\ s.c.auto_counter = c.auto_counter /\ s.c.moving = c.moving
              /\ c.auto_counter \in {"hspd", "lspd"} => s.c.direction_up = c.direction_up
              /\ infloorzone(s.c) = infloorzone(c)
              /\ get_current_floor(s.c) = get_current_floor(c)
              /\ s.floor = get_current_floor(c) <=> ~Passes(s.c)
<1> DEFINE s == get_scheduled_floor(c, FALSE)
           d == s.c
           f == s.floor
<1>1. get_current_floor(c) \in Floors
  BY ZoneOf DEF Sited
<1>2. /\ Keeps(d, c, {"direction_up"}) /\ d.direction_up \in BOOLEAN
      /\ c.auto_counter \in {"hspd", "lspd"} => d.direction_up = c.direction_up
      /\ d.direction_up = c.direction_up \/ get_current_floor(c) \notin Calls(c)
      /\ f = get_current_floor(c) <=> ~PassesTo(c, d.direction_up)
  BY <1>1, ScheduleChooses DEF Sited
<1> HIDE DEF d, f
<1>3. /\ Rec(d) /\ d.auto_counter = c.auto_counter /\ d.auto_state = c.auto_state
      /\ d.selector_counter = c.selector_counter
      /\ d.ref = c.ref /\ d.moving = c.moving /\ d.saved = c.saved
      /\ d.floor_counter_save = c.floor_counter_save
  BY <1>2 DEF Keeps, Traced
<1>4. /\ get_current_floor(d) = get_current_floor(c) /\ infloorzone(d) = infloorzone(c)
      /\ Calls(d) = Calls(c) /\ (Calling(d) <=> Calling(c))
      /\ \A u : PassesTo(d, u) <=> PassesTo(c, u)
  BY <1>2, PassesAlike
<1>5. Passes(d) <=> f # get_current_floor(c)
  BY <1>2, <1>4 DEF Passes
<1>6. \/ Passes(d)
      \/ d.direction_up = c.direction_up /\ ~Passes(c)
  BY <1>2, <1>4 DEF Passes, PassesTo, Calls
<1>7. d.direction_up = c.direction_up => (Passes(d) <=> Passes(c)) /\ (Toward(d, p) <=> Toward(c, p))
  BY <1>4 DEF Passes, Toward
<1>8. Kept(d)
  BY <1>3 DEF Sited, Kept
<1>9. Driven(d)
  BY <1>2, <1>3 DEF Sited, Driven, Rest
<1>10. Sited(d, p)
  BY <1>2, <1>3, <1>4, <1>6, <1>7, <1>8, <1>9 DEF Sited
<1>11. (Placed(c, p) => Placed(d, p)) /\ (Counted(c, p) => Counted(d, p))
  BY <1>2, <1>3, <1>4, <1>7, <1>10 DEF Placed, Counted
<1> QED
  BY <1>2, <1>3, <1>4, <1>5, <1>10, <1>11 DEF d, f

\* Other calls, where the car is at the level or at an end, or passes.
LEMMA CallsSited ==
    ASSUME NEW c, NEW p, Sited(c, p), NEW d, Keeps(d, c, {"ireq", "ereq", "eereq"}), Calling(d),
           infloorzone(c) => Passes(d) \/ Toward(c, p)
    PROVE  /\ Sited(d, p) /\ d.auto_counter = c.auto_counter
           /\ d.direction_up = c.direction_up /\ infloorzone(d) = infloorzone(c)
<1>1. /\ Rec(d) /\ d.auto_counter = c.auto_counter /\ d.auto_state = c.auto_state
      /\ d.direction_up = c.direction_up /\ d.selector_counter = c.selector_counter
      /\ d.ref = c.ref /\ d.moving = c.moving /\ d.saved = c.saved
      /\ d.floor_counter_save = c.floor_counter_save
  BY DEF Keeps, Traced
<1>2. infloorzone(d) = infloorzone(c)
  BY <1>1 DEF infloorzone
<1>3. Kept(d) /\ Driven(d) /\ (Toward(d, p) <=> Toward(c, p))
  BY <1>1 DEF Sited, Kept, Driven, Toward
<1>4. Sited(d, p)
  BY <1>1, <1>2, <1>3 DEF Sited
<1> QED
  BY <1>1, <1>2, <1>4

\* Arrival drops calls of the floor (requests.c, drop_req).
LEMMA DropSited ==
    ASSUME NEW c, NEW p, Sited(c, p), Level(p), NEW f
    PROVE  Sited(drop_req(c, f), p) /\ drop_req(c, f).auto_counter = c.auto_counter
<1> DEFINE further == IF c.direction_up THEN {i \in Calls(c) \ {f} : i > f}
                                        ELSE {i \in Calls(c) \ {f} : i < f}
           keep == collect = 2 /\ f \notin {0, f_max} /\ further # {}
           d == drop_req(c, f)
<1>1. d = [c EXCEPT !.ireq = @ \ {f},
                 !.ereq = IF keep /\ c.direction_up THEN @ ELSE @ \ {f},
                 !.eereq = IF keep /\ ~c.direction_up THEN @ ELSE @ \ {f}]
  BY DEF drop_req
<1> HIDE DEF keep, d
<1>2. Rec(c)
  BY DEF Sited
<1>3. /\ Keeps(d, c, {"ireq", "ereq", "eereq"})
      /\ d.ireq \subseteq c.ireq /\ d.ereq \subseteq c.ereq /\ d.eereq \subseteq c.eereq
  BY <1>1, <1>2 DEF Rec, Keeps, Fields, Watched, Traced
<1>4. Calling(d)
  BY <1>3 DEF Sited, Calling
<1>5. Toward(c, p)
  BY DEF Level, Toward
<1>6. Sited(d, p) /\ d.auto_counter = c.auto_counter
  BY <1>3, <1>4, <1>5, CallsSited
<1> QED
  BY <1>6 DEF d

\* The call that a car at high speed gives itself is of the floor ahead, or of
\* that at the end of the shaft (requests.c, pos_next_floor).
LEMMA NextFloorSited ==
    ASSUME NEW c, NEW p, Sited(c, p), infloorzone(c) => Passes(c)
    PROVE  Executed(pos_next_floor(c), p)
<1> DEFINE f == get_current_floor(c)
           next == IF c.direction_up THEN IF f < f_max THEN f + 1 ELSE f_max
                   ELSE IF infloorzone(c) /\ f > 0 THEN f - 1 ELSE f
           i == [c EXCEPT !.ireq = {next}]
           d == [i EXCEPT !.ereq = {}]
<1>1. CASE c.auto_counter # "hspd"
  <2>1. pos_next_floor(c) = c
    BY <1>1 DEF pos_next_floor
  <2> QED
    BY <1>1, <2>1, NotFast
<1>2. CASE c.auto_counter = "hspd"
  <2>1. pos_next_floor(c) = d
    BY Zenon, <1>2 DEF pos_next_floor
  <2>2. /\ f \in Floors /\ f = p \div 4 /\ (infloorzone(c) <=> p % 4 # 3)
    BY ZoneOf DEF Sited
  <2>3. next \in Floors
    BY <2>2, CallsAssumption DEF Floors
  <2>4. IF c.direction_up THEN f < f_max => next = f + 1
        ELSE infloorzone(c) /\ f > 0 => next = f - 1
    OBVIOUS
  <2>5. p \in Int /\ p >= 1 /\ p <= 4 * f_max + 1 /\ f_max \in Nat
    BY CallsAssumption DEF Sited, Top
  <2> HIDE DEF next
  <2>6. Keeps(i, c, {"ireq"}) /\ i.ireq = {next}
    <3>1. Rec(c)
      BY DEF Sited
    <3> QED
      BY <3>1, Assigns DEF Fields, Watched
  <2> HIDE DEF i
  <2>7. Keeps(d, i, {"ereq"}) /\ d.ereq = {}
    <3>1. Rec(i)
      BY <2>6 DEF Keeps
    <3> QED
      BY <3>1, Assigns DEF Fields, Watched
  <2> HIDE DEF d
  <2>8. /\ Keeps(d, c, {"ireq", "ereq", "eereq"}) /\ d.ireq = {next} /\ d.ereq = {}
        /\ d.eereq = c.eereq /\ d.direction_up = c.direction_up
        /\ get_current_floor(d) = f
    BY <2>6, <2>7 DEF Keeps, Traced, get_current_floor
  <2>9. Calling(d)
    BY <2>3, <2>8 DEF Sited, Calling
  <2>10. Calls(d) = {next} \cup c.eereq
    BY <2>8 DEF Calls
  <2> HIDE DEF f
  <2>11. CASE infloorzone(c) /\ c.direction_up /\ f = f_max
    <3>1. p >= 4 * f_max /\ Toward(c, p)
      <4>1. p >= 4 * f_max /\ p \div 4 = f_max
        BY <2>2, <2>5, <2>11
      <4>2. p = 4 * f_max \/ p = 4 * f_max + 1
        BY <2>5, <4>1
      <4>3. p % 4 \in {0, 1}
        BY <2>5, <4>2
      <4> QED
        BY <2>11, <4>1, <4>3 DEF Toward
    <3>2. Sited(d, p)
      BY <2>8, <2>9, <3>1, CallsSited
    <3> QED
      BY <2>1, <2>8, <2>11, <3>1, <3>2 DEF Executed
  <2>12. CASE infloorzone(c) /\ ~c.direction_up /\ f = 0
    <3>1. p <= 2 /\ Toward(c, p)
      <4>1. p \div 4 = 0 /\ p % 4 # 3
        BY <2>2, <2>12
      <4>2. p = 1 \/ p = 2
        BY <2>5, <4>1
      <4>3. p % 4 \in {1, 2}
        BY <4>2
      <4> QED
        BY <2>12, <4>2, <4>3 DEF Toward
    <3>2. Sited(d, p)
      BY <2>8, <2>9, <3>1, CallsSited
    <3> QED
      BY <2>1, <2>8, <2>12, <3>1, <3>2 DEF Executed
  <2>13. CASE infloorzone(c) /\ IF c.direction_up THEN f # f_max ELSE f # 0
    <3>1. f \in Int /\ f >= 0 /\ f <= f_max
      BY <2>2, <2>5 DEF Floors
    <3>2. IF c.direction_up THEN next = f + 1 ELSE next = f - 1
      BY <2>4, <2>5, <2>13, <3>1
    <3>3. c.direction_up => f \notin c.eereq
      BY <2>13 DEF Passes, PassesTo, f
    <3>4. next # f /\ IF c.direction_up THEN next > f ELSE next < f
      BY <3>1, <3>2
    <3>5. PassesTo(d, c.direction_up)
      BY <2>8, <2>10, <3>3, <3>4 DEF PassesTo
    <3>6. Passes(d)
      BY <2>8, <3>5 DEF Passes
    <3>7. Sited(d, p)
      BY <2>8, <2>9, <3>6, CallsSited
    <3> QED
      BY <2>1, <3>6, <3>7 DEF Executed
  <2>14. CASE ~infloorzone(c)
    <3>1. Sited(d, p) /\ ~infloorzone(d)
      BY <2>8, <2>9, <2>14, CallsSited
    <3> QED
      BY <2>1, <3>1 DEF Executed
  <2> QED
    BY <2>11, <2>12, <2>13, <2>14
<1> QED
  BY <1>1, <1>2

\* At rest.
Standing(c, p) == Sited(c, p) /\ c.auto_counter \in Rest

\* A car at rest stays so when other variables change,
LEMMA StandingAlike ==
    ASSUME NEW c, NEW p, Standing(c, p), NEW d, Keeps(d, c, {})
    PROVE  Standing(d, p)
BY PlaceAlike DEF Standing

\* when a state of rest is entered,
LEMMA StandingEntered ==
    ASSUME NEW c, NEW p, Standing(c, p), NEW t
    PROVE  /\ Standing(auto_stop_enter(c, t), p) /\ Standing(auto_idle_enter(c, t), p)
           /\ Standing(auto_camtest_enter(c), p)
BY StopSited, RestSited DEF Standing, Rest

\* and for the checks of the limits it is in place.
LEMMA StandingExecuted ==
    ASSUME NEW c, NEW p, Standing(c, p)
    PROVE  Rec(c) /\ Executed(c, p)
BY NotFast DEF Standing, Rest, Sited

\* Executing stop.
LEMMA StopPlaces ==
    ASSUME NEW c, NEW p, Standing(c, p), NEW t
    PROVE  Executed(auto_stop_exe(c, t), p)
<1> DEFINE a == IF ARDINS(c) THEN force_turn_off(c, TRUE)
                ELSE IF ARD(c) THEN force_turn_off(c, t.level) ELSE c
           x == [a EXCEPT !.stop_idle_run = @ \/ ~external_auto]
           b == IF ~t.shk THEN x
                ELSE IF "light_curtain" \notin t.in THEN auto_stop_exit(a, t) ELSE a
           y == [b EXCEPT !.onfloor = TRUE]
           d == IF b.onfloor THEN open_doors(b)
                ELSE IF ~t.level THEN close_doors(b)
                ELSE IF ~INS(b) THEN open_doors(y) ELSE b
           closing == /\ "h_close" \in t.in /\ external_auto /\ ~t.s_i_err
                      /\ "light_curtain" \notin t.in
           e == IF closing THEN auto_idle_enter(a, t) ELSE d
<1>0. ASSUME NEW z, Standing(z, p)
      PROVE  /\ Rec(z) /\ Standing(auto_stop_exit(z, t), p)
             /\ Standing(open_doors(z), p) /\ Standing(close_doors(z), p)
  <2>1. Rec(z)
    BY <1>0, StandingExecuted
  <2>2. auto_stop_exit(z, t) = z \/ auto_stop_exit(z, t) = auto_idle_enter(z, t)
    BY Zenon DEF auto_stop_exit
  <2> QED
    BY <1>0, <2>1, <2>2, StandingEntered, PiecesKeep, StandingAlike
<1>1. Standing(a, p)
  <2>1. Keeps(a, c, {})
    BY <1>0, PiecesKeep DEF force_turn_off
  <2> QED
    BY <2>1, StandingAlike
<1> HIDE DEF a
<1>2. Standing(x, p)
  BY <1>0, <1>1, Elsewhere, StandingAlike DEF Fields, Watched, Traced
<1> HIDE DEF x
<1>3. Standing(b, p)
  BY <1>0, <1>1, <1>2
<1> HIDE DEF b
<1>4. Standing(y, p)
  BY <1>0, <1>3, Elsewhere, StandingAlike DEF Fields, Watched, Traced
<1> HIDE DEF y
<1>5. Standing(d, p)
  BY <1>0, <1>3, <1>4
<1> HIDE DEF d
<1>6. Standing(e, p)
  BY <1>1, <1>5, StandingEntered
<1> HIDE DEF e, closing
<1>7. auto_stop_exe(c, t) = auto_stop_exit(e, t)
  BY Zenon DEF auto_stop_exe, a, x, b, y, d, e, closing
<1> QED
  BY <1>0, <1>6, <1>7, StandingExecuted

\* auto_idle_exit.
LEMMA IdleExitStanding ==
    ASSUME NEW c, NEW p, Standing(c, p), NEW t
    PROVE  Standing(auto_idle_exit(c, t), p)
<1>1. \/ auto_idle_exit(c, t) = auto_stop_enter(c, t)
      \/ auto_idle_exit(c, t) = auto_idle_enter(c, t)
      \/ auto_idle_exit(c, t) = auto_camtest_enter(c)
  BY Zenon DEF auto_idle_exit
<1> QED
  BY <1>1, StandingEntered

\* Executing idle.
LEMMA IdlePlaces ==
    ASSUME NEW c, NEW p, Standing(c, p), NEW t, "fw" \notin t.in
    PROVE  Executed(auto_idle_exe(c, t), p)
<1> DEFINE a == IF "ersc_toff" \in t.in /\ (ARDINS(c) \/ (ARD(c) /\ t.level))
                THEN force_turn_off(c, TRUE) ELSE c
           b == IF door_auto_close THEN close_doors(a)
                ELSE IF a.onfloor THEN open_doors(a) ELSE a
           next == get_scheduled_floor(b, FALSE)
           start(x) == [x EXCEPT !.idle_camt_run = TRUE]
<1>0. \A z : Standing(z, p) => Rec(z)
  BY StandingExecuted
<1>1. Standing(a, p)
  <2>1. Keeps(a, c, {})
    BY <1>0, PiecesKeep DEF force_turn_off
  <2> QED
    BY <2>1, StandingAlike
<1> HIDE DEF a
<1>2. Standing(b, p)
  BY <1>0, <1>1, PiecesKeep, StandingAlike
<1> HIDE DEF b
<1>3. Standing(next.c, p)
  BY <1>2, ScheduleSited DEF Standing
<1>4. ("fw" \in t.in) = FALSE
  OBVIOUS
<1> HIDE DEF next
<1>5. \A x : Standing(x, p) => Standing(start(x), p)
  BY <1>0, Elsewhere, StandingAlike DEF Fields, Watched, Traced
<1> HIDE DEF start
<1>6. \/ Wanted(b, t) = b \/ Wanted(b, t) = start(b)
      \/ Wanted(b, t) = start(next.c) \/ Wanted(b, t) = next.c
  BY <1>4, Zenon DEF Wanted, next, start
<1>7. Standing(Wanted(b, t), p)
  BY <1>2, <1>3, <1>5, <1>6
<1>8. \/ auto_idle_exe(c, t) = auto_stop_enter(c, t)
      \/ auto_idle_exe(c, t) = auto_stop_enter(b, t)
      \/ auto_idle_exe(c, t) = auto_idle_exit(b, t)
      \/ auto_idle_exe(c, t) = Wanted(b, t)
  BY Zenon DEF auto_idle_exe, a, b
<1> QED
  BY <1>2, <1>7, <1>8, StandingEntered, StandingExecuted, IdleExitStanding

\* The departure from camtest: at creep speed to the floor at which the car
\* is, at high speed if it is to pass that, or is between two.
LEMMA DepartPlaces ==
    ASSUME NEW c, NEW p, Sited(c, p), c.auto_counter = "camtest", PRE_SPD = 0,
           NEW t, "fw" \notin t.in
    PROVE  Executed(Depart(c, t), p)
<1> DEFINE next == get_scheduled_floor(c, FALSE)
           n == next.c
           here == infloorzone(c) /\ next.floor = get_current_floor(c)
<1>1. ~ARD(c) /\ ~INS(c) /\ ~(PRE_SPD > 0)
  BY DEF Sited, ARD, INS
<1>2. ("fw" \in t.in) = FALSE
  OBVIOUS
<1>3. \/ Depart(c, t) = auto_stop_enter(n, t)
      \/ here /\ Depart(c, t) = auto_lspd_enter(n)
      \/ ~here /\ Depart(c, t) = auto_hspd_enter(n)
  BY <1>1, <1>2, Zenon DEF Depart
<1>4. /\ Sited(n, p) /\ n.auto_counter = "camtest" /\ n.moving = c.moving
      /\ infloorzone(n) = infloorzone(c)
      /\ next.floor = get_current_floor(c) <=> ~Passes(n)
  BY ScheduleSited
<1> HIDE DEF next
<1>5. c.moving = "still"
  BY DEF Sited, Driven, Rest
<1> HIDE DEF n
<1>6. CASE Depart(c, t) = auto_stop_enter(n, t)
  BY <1>4, <1>6, HaltSited
<1>7. CASE here /\ Depart(c, t) = auto_lspd_enter(n)
  <2>1. infloorzone(n) /\ Toward(n, p)
    BY <1>4, <1>7 DEF Sited
  <2>2. Sited(auto_lspd_enter(n), p) /\ auto_lspd_enter(n).auto_counter = "lspd"
    BY <1>4, <1>5, <2>1, RunSited
  <2> QED
    BY <1>7, <2>2, NotFast
<1>8. CASE ~here /\ Depart(c, t) = auto_hspd_enter(n)
  <2>1. infloorzone(n) => Passes(n)
    BY <1>4, <1>8
  <2> QED
    BY <1>4, <1>8, <2>1, RunSited
<1> QED
  BY <1>3, <1>6, <1>7, <1>8

\* Executing camtest.
LEMMA CamtestPlaces ==
    ASSUME NEW c, NEW p, Sited(c, p), c.auto_counter = "camtest", PRE_SPD = 0,
           NEW t, "fw" \notin t.in
    PROVE  Executed(auto_camtest_exe(c, t), p)
<1> DEFINE z == [c EXCEPT !.cam_trial_counter = 0]
           n == [c EXCEPT !.cam_trial_counter = c.cam_trial_counter + 1]
           w == [z EXCEPT !.cam_lock_wait = @ + 1]
           y == [z EXCEPT !.cam_lock_wait = 0]
           q == drop_all_req(z)
           s == auto_stop_enter(q, t)
<1>1. Rec(c) /\ Standing(c, p)
  BY DEF Sited, Standing, Rest
<1>2. Keeps(z, c, {}) /\ Keeps(n, c, {})
  BY <1>1, Elsewhere DEF Fields, Watched, Traced
<1> HIDE DEF z, n
<1>3. Rec(z) /\ Standing(z, p) /\ Standing(n, p)
  BY <1>1, <1>2, StandingAlike DEF Keeps
<1>4. Keeps(w, z, {}) /\ Keeps(y, z, {})
  BY <1>3, Elsewhere DEF Fields, Watched, Traced
<1> HIDE DEF w, y
<1>5. Standing(w, p) /\ Sited(y, p) /\ y.auto_counter = "camtest"
  BY <1>2, <1>3, <1>4, StandingAlike, PlaceAlike DEF Standing
<1>6. Executed(Depart(y, t), p)
  BY <1>5, DepartPlaces
<1>7. Sited(q, p)
  BY <1>3, DropAllSited DEF Standing
<1> HIDE DEF q
<1>8. Sited(s, p)
  BY <1>7, StopSited
<1> HIDE DEF s
<1>9. Executed(Err(s, "stop"), p)
  <2>1. Keeps(Err(s, "stop"), s, {}) /\ s.auto_counter = "stop"
    BY <1>7, <1>8, PiecesKeep, StopSited DEF Sited, s
  <2>2. Executed(s, p)
    BY <1>8, <2>1, NotFast
  <2> QED
    BY <2>1, <2>2, PlaceAlike
<1>10. \/ auto_camtest_exit(c, t) \in {auto_stop_enter(c, t), c, w}
       \/ auto_camtest_exit(c, t) = Depart(y, t)
  BY Zenon DEF auto_camtest_exit, z, w, y
<1>11. \/ auto_camtest_exe(c, t) \in {Stop_dropping(c, t), auto_stop_enter(z, t),
                                       auto_stop_enter(c, t), c, auto_idle_enter(n, t)}
       \/ auto_camtest_exe(c, t) = auto_camtest_exit(c, t)
       \/ auto_camtest_exe(c, t) = Err(s, "stop")
  BY Zenon DEF auto_camtest_exe, z, n, q, s
<1>12. Executed(Stop_dropping(c, t), p)
  BY HaltSited
<1>13. /\ Standing(auto_stop_enter(z, t), p) /\ Standing(auto_stop_enter(c, t), p)
       /\ Standing(auto_idle_enter(n, t), p)
  BY <1>1, <1>3, StandingEntered
<1>14. Executed(auto_camtest_exit(c, t), p)
  BY <1>1, <1>5, <1>6, <1>10, <1>13, StandingExecuted
<1> QED
  BY <1>1, <1>9, <1>11, <1>12, <1>13, <1>14, StandingExecuted

\* The checks of a run: where the drive is not enabled it goes on from stop.
LEMMA CheckedPlaces ==
    ASSUME NEW c, NEW p, Sited(c, p), NEW t
    PROVE  /\ Sited(Checked(c, t), p) /\ (Counted(c, p) => Counted(Checked(c, t), p))
           /\ Checked(c, t).auto_counter \in {"stop", c.auto_counter}
<1> DEFINE a == IF "isEnabled" \in t.in THEN auto_stop_enter(c, t) ELSE c
<1>1. Sited(a, p) /\ (Counted(c, p) => Counted(a, p)) /\ a.auto_counter \in {"stop", c.auto_counter}
  BY StopSited, NotFast
<1>2. Checked(c, t) = a \/ Checked(c, t) = Err(a, "stop")
  BY Zenon DEF Checked
<1> HIDE DEF a
<1>3. Keeps(Checked(c, t), a, {})
  BY <1>1, <1>2, PiecesKeep DEF Sited
<1> QED
  BY <1>1, <1>3, PlaceAlike

\* Executing hspd.
LEMMA HspdPlaces ==
    ASSUME NEW c, NEW p, Counted(c, p), c.auto_counter = "hspd", NEW t, "fw" \notin t.in
    PROVE  Executed(auto_hspd_exe(c, t), p)
<1> DEFINE k == Checked(c, t)
           a == force_turn_off(k, FALSE)
           s == get_scheduled_floor(a, FALSE)
           n == s.c
           b == auto_hspd_exit(a, t)
           x == drop_all_req(b)
           y == Err(x, "pos")
           e == Err(y, "stop")
<1>1. Sited(c, p) /\ ~INS(c)
  BY DEF Counted, Sited, INS
<1>2. Sited(k, p) /\ Counted(k, p) /\ k.auto_counter \in {"stop", "hspd"}
  BY <1>1, CheckedPlaces
<1> HIDE DEF k
<1>3. Keeps(a, k, {})
  <2>1. Rec(k)
    BY <1>2 DEF Sited
  <2> QED
    BY <2>1 DEF force_turn_off, Keeps, Rec, Fields, Watched, Traced
<1> HIDE DEF a
<1>4. Sited(a, p) /\ Counted(a, p) /\ a.auto_counter \in {"stop", "hspd"}
  BY <1>2, <1>3, PlaceAlike
<1>5. /\ Sited(n, p) /\ Counted(n, p) /\ n.auto_counter = a.auto_counter /\ n.moving = a.moving
      /\ a.auto_counter = "hspd" => n.direction_up = a.direction_up
      /\ infloorzone(n) = infloorzone(a) /\ get_current_floor(n) = get_current_floor(a)
      /\ s.floor = get_current_floor(n) <=> ~Passes(n)
  BY <1>4, ScheduleSited
<1>6. ("fw" \in t.in) = FALSE
  OBVIOUS
<1>7. \/ s.floor = NoFloor /\ b = pos_next_floor(n)
      \/ infloorzone(n) /\ s.floor = get_current_floor(n) /\ b = auto_lspd_enter(n)
      \/ /\ s.floor \notin {0, f_max} => ~(infloorzone(n) /\ s.floor = get_current_floor(n))
         /\ b = n
  BY <1>6, Zenon DEF auto_hspd_exit
<1>8. n.moving \in {"still", Dir(n.direction_up)}
  BY <1>4, <1>5 DEF Sited, Driven, Rest
<1> DEFINE f == s.floor
<1> HIDE DEF b, n, s
<1>9. /\ get_current_floor(n) = p \div 4 /\ get_current_floor(n) \in Floors
      /\ infloorzone(n) <=> p % 4 # 3
      /\ p \in Int /\ 1 <= p /\ p <= 4 * f_max + 1 /\ f_max \in Nat
  <2>1. p \in 1..Top - 1 /\ n.selector_counter = Zone(p)
    BY <1>5 DEF Sited
  <2>2. p \in Int /\ 1 <= p /\ p <= 4 * f_max + 1 /\ f_max \in Nat
    BY <2>1, CallsAssumption DEF Top
  <2> QED
    BY <2>1, <2>2, ZoneOf
<1>10. Executed(b, p)
  <2>1. CASE f = NoFloor /\ b = pos_next_floor(n)
    <3>1. f # get_current_floor(n)
      BY <1>9, <2>1, CallsAssumption DEF NoFloor, Floors
    <3> QED
      BY <1>5, <2>1, <3>1, NextFloorSited
  <2>2. CASE infloorzone(n) /\ f = get_current_floor(n) /\ b = auto_lspd_enter(n)
    <3>1. Toward(n, p)
      BY <1>5, <2>2 DEF Sited
    <3>2. Sited(b, p) /\ b.auto_counter = "lspd"
      BY <1>5, <1>8, <2>2, <3>1, RunSited
    <3> QED
      BY <3>2, NotFast
  <2>3. CASE /\ f \notin {0, f_max} => ~(infloorzone(n) /\ f = get_current_floor(n))
             /\ b = n
    <3> SUFFICES ASSUME n.auto_counter = "hspd", infloorzone(n), ~Passes(n)
                 PROVE  IF n.direction_up THEN p >= 4 * f_max ELSE p <= 2
      BY <1>5, <2>3 DEF Executed
    <3>1. f = p \div 4 /\ f \in {0, f_max}
      BY <1>5, <1>9, <2>3
    <3>2. IF n.direction_up THEN p % 4 = 0 ELSE p % 4 = 2
      BY <1>5 DEF Counted
    <3>3. CASE n.direction_up
      <4>1. p = 4 * f
        BY <1>9, <3>1, <3>2, <3>3
      <4> QED
        BY <1>9, <3>1, <3>3, <4>1
    <3>4. CASE ~n.direction_up
      <4>1. p = 4 * f + 2
        BY <1>9, <3>1, <3>2, <3>4
      <4> QED
        BY <1>9, <3>1, <3>4, <4>1
    <3> QED
      BY <3>3, <3>4
  <2> QED
    BY <1>7, <2>1, <2>2, <2>3
<1>11. auto_hspd_exe(c, t) \in {Err(Stop_dropping(a, t), "stop"), Stop_dropping(a, t),
                               auto_stop_enter(e, t), b}
  BY <1>1, Zenon DEF auto_hspd_exe, a, k, b
<1>12. Sited(b, p)
  BY <1>10 DEF Executed
<1>13. Sited(x, p)
  BY <1>12, DropAllSited
<1> HIDE DEF x
<1>14. Sited(y, p)
  BY <1>13, PiecesKeep, PlaceAlike DEF Sited
<1> HIDE DEF y
<1>15. Sited(e, p)
  BY <1>14, PiecesKeep, PlaceAlike DEF Sited
<1> HIDE DEF e
<1> QED
  BY <1>4, <1>10, <1>11, <1>15, HaltSited

\* Executing lspd.
LEMMA LspdPlaces ==
    ASSUME NEW c, NEW p, Sited(c, p), c.auto_counter = "lspd", NEW t, t.level = Level(p)
    PROVE  Executed(auto_lspd_exe(c, t), p)
<1> DEFINE a == Checked(c, t)
           m == [a EXCEPT !.stop_delay_counter = @ - 1]
           d == drop_req(a, get_current_floor(a))
<1>1. ~ARD(c) /\ ~INS(c)
  BY DEF Sited, ARD, INS
<1>2. Sited(a, p) /\ a.auto_counter \in {"stop", "lspd"}
  BY CheckedPlaces
<1>3. \/ auto_lspd_exe(c, t) \in {Err(Stop_dropping(a, t), "stop"), Stop_dropping(a, t)}
      \/ auto_lspd_exe(c, t) = auto_lspd_exit(a, t)
  BY <1>1, Zenon DEF auto_lspd_exe
<1>4. \/ auto_lspd_exit(a, t) = a
      \/ auto_lspd_exit(a, t) = m
      \/ t.level /\ auto_lspd_exit(a, t) = auto_stopping_enter(d)
  BY Zenon DEF auto_lspd_exit
<1> HIDE DEF a
<1>5. Keeps(m, a, {})
  BY <1>2, Elsewhere DEF Sited, Fields, Watched, Traced
<1> HIDE DEF m
<1>6. Executed(a, p) /\ Executed(m, p)
  BY <1>2, <1>5, NotFast, PlaceAlike
<1>7. t.level => Executed(auto_stopping_enter(d), p)
  BY <1>2, DropSited, RunSited, NotFast
<1> QED
  BY <1>2, <1>3, <1>4, <1>6, <1>7, HaltSited

\* Executing stopping.
LEMMA StoppingPlaces ==
    ASSUME NEW c, NEW p, Sited(c, p), c.auto_counter = "stopping", NEW t
    PROVE  Executed(auto_stopping_exe(c, t), p)
<1> DEFINE a == Checked(c, t)
           b == IF "stopping" \in t.in THEN auto_stop_enter(a, t) ELSE a
<1>1. Sited(a, p) /\ a.auto_counter \in {"stop", "stopping"}
  BY CheckedPlaces
<1> HIDE DEF a
<1>2. Sited(b, p) /\ b.auto_counter \in {"stop", "stopping"}
  BY <1>1, StopSited
<1>3. auto_stopping_exe(c, t) \in {Err(Stop_dropping(b, t), "stop"), Stop_dropping(b, t),
                                   auto_stop_enter(b, t), b}
  BY Zenon DEF auto_stopping_exe, a
<1> HIDE DEF b
<1>4. Executed(b, p)
  BY <1>2, NotFast
<1> QED
  BY <1>2, <1>3, <1>4, HaltSited

\* Executing whatever state the lift is in, an edge of the selector counted before.
LEMMA ExecutePlaces ==
    ASSUME NEW c, NEW p, Counted(c, p), PRE_SPD = 0, NEW t, "fw" \notin t.in, t.level = Level(p)
    PROVE  Executed(execute(c, t), p)
<1>0. Sited(c, p) /\ c.auto_counter \in States \ {"prespd"}
  BY DEF Counted, Sited
<1>1. CASE c.auto_counter = "stop"
  BY <1>0, <1>1, StopPlaces DEF execute, Standing, Rest
<1>2. CASE c.auto_counter = "idle"
  BY <1>0, <1>2, IdlePlaces DEF execute, Standing, Rest
<1>3. CASE c.auto_counter = "camtest"
  BY <1>0, <1>3, CamtestPlaces DEF execute
<1>4. CASE c.auto_counter = "hspd"
  BY <1>4, HspdPlaces DEF execute
<1>5. CASE c.auto_counter = "lspd"
  BY <1>0, <1>5, LspdPlaces DEF execute
<1>6. CASE c.auto_counter = "stopping"
  BY <1>0, <1>6, StoppingPlaces DEF execute
<1> QED
  BY <1>0, <1>1, <1>2, <1>3, <1>4, <1>5, <1>6 DEF States

\* One position further in the car's direction.
Ahead(c, q) == IF c.direction_up THEN q + 1 ELSE q - 1

\* The zones that the car passes: up, and down.
LEMMA ZonesPassed ==
    ASSUME NEW q \in 1..Top - 1
    PROVE  /\ q <= 4 * f_max =>
                /\ q + 1 \in 1..Top - 1 /\ (q + 1) % 4 = (IF q % 4 = 3 THEN 0 ELSE (q % 4) + 1)
                /\ Zone(q + 1) = (IF q % 4 \in {2, 3} THEN Zone(q) + 1 ELSE Zone(q))
                /\ q % 4 \in {2, 3} => Zone(q) < 2 * f_max
           /\ q >= 2 =>
                /\ q - 1 \in 1..Top - 1 /\ (q - 1) % 4 = (IF q % 4 = 0 THEN 3 ELSE (q % 4) - 1)
                /\ Zone(q - 1) = (IF q % 4 \in {0, 3} THEN Zone(q) - 1 ELSE Zone(q))
                /\ q % 4 \in {0, 3} => Zone(q) > 0
           /\ q % 4 \in 0..3
<1>1. PICK k \in Int, r \in 0..3 : q = 4 * k + r
  <2>1. q \in Int /\ q = 4 * (q \div 4) + (q % 4) /\ q % 4 \in 0..3 /\ q \div 4 \in Int
    BY CallsAssumption DEF Top
  <2> QED
    BY <2>1
<1>2. f_max \in Nat /\ k >= 0 /\ k <= f_max
  BY <1>1, CallsAssumption DEF Top
<1>3. q % 4 = r /\ q \div 4 = k
  BY <1>1
<1>4. Zone(q) = IF r = 3 THEN 2 * k + 1 ELSE 2 * k
  BY <1>3 DEF Zone
<1>5. ASSUME q <= 4 * f_max
      PROVE  /\ q + 1 \in 1..Top - 1 /\ (q + 1) % 4 = (IF r = 3 THEN 0 ELSE r + 1)
             /\ Zone(q + 1) = (IF r \in {2, 3} THEN Zone(q) + 1 ELSE Zone(q))
             /\ r \in {2, 3} => Zone(q) < 2 * f_max
  <2>1. q + 1 \in 1..Top - 1
    BY <1>1, <1>2, <1>5 DEF Top
  <2>2. CASE r = 3
    <3>1. (q + 1) % 4 = 0 /\ (q + 1) \div 4 = k + 1
      BY <1>1, <1>2, <2>2
    <3>2. Zone(q + 1) = 2 * (k + 1)
      BY <3>1 DEF Zone
    <3> QED
      BY <1>1, <1>2, <1>4, <1>5, <2>1, <2>2, <3>1, <3>2
  <2>3. CASE r # 3
    <3>1. (q + 1) % 4 = r + 1 /\ (q + 1) \div 4 = k
      BY <1>1, <1>2, <2>3
    <3>2. Zone(q + 1) = IF r + 1 = 3 THEN 2 * k + 1 ELSE 2 * k
      BY <3>1 DEF Zone
    <3> QED
      BY <1>1, <1>2, <1>4, <1>5, <2>1, <2>3, <3>1, <3>2
  <2> QED
    BY <2>2, <2>3
<1>6. ASSUME q >= 2
      PROVE  /\ q - 1 \in 1..Top - 1 /\ (q - 1) % 4 = (IF r = 0 THEN 3 ELSE r - 1)
             /\ Zone(q - 1) = (IF r \in {0, 3} THEN Zone(q) - 1 ELSE Zone(q))
             /\ r \in {0, 3} => Zone(q) > 0
  <2>1. q - 1 \in 1..Top - 1
    BY <1>1, <1>2, <1>6 DEF Top
  <2>2. CASE r = 0
    <3>1. (q - 1) % 4 = 3 /\ (q - 1) \div 4 = k - 1
      BY <1>1, <1>2, <2>2
    <3>2. Zone(q - 1) = 2 * (k - 1) + 1
      BY <3>1 DEF Zone
    <3> QED
      BY <1>1, <1>2, <1>4, <1>6, <2>1, <2>2, <3>1, <3>2
  <2>3. CASE r # 0
    <3>1. (q - 1) % 4 = r - 1 /\ (q - 1) \div 4 = k
      BY <1>1, <1>2, <2>3
    <3>2. Zone(q - 1) = 2 * k
      BY <1>1, <3>1 DEF Zone
    <3> QED
      BY <1>1, <1>2, <1>4, <1>6, <2>1, <2>3, <3>1, <3>2
  <2> QED
    BY <2>2, <2>3
<1> QED
  BY <1>1, <1>3, <1>5, <1>6

\* The car has moved from q in its direction: at creep speed not from a level.
Moves(c, q) ==
    c.auto_counter \in {"hspd", "lspd"} /\ (c.auto_counter = "lspd" => ~Level(q))

\* Where it comes.
LEMMA AheadPlaces ==
    ASSUME NEW c, NEW q, Placed(c, q), Moves(c, q)
    PROVE  LET p == Ahead(c, q)
           IN /\ p \in 1..Top - 1
              /\ c.auto_counter = "lspd" => Zone(p) = Zone(q) /\ Toward(c, p)
              /\ c.auto_counter = "hspd" =>
                   /\ Zone(p) = Zone(q) \/ Zone(p) =
                        (IF c.direction_up THEN Zone(q) + 1 ELSE Zone(q) - 1)
                   /\ Zone(p) # Zone(q) => IF c.direction_up THEN Zone(q) < 2 * f_max
                                                             ELSE Zone(q) > 0
                   /\ p % 4 = 3 \/ Zone(p) = Zone(q)
                        \/ (IF c.direction_up THEN p % 4 = 0 ELSE p % 4 = 2)
<1> DEFINE p == Ahead(c, q)
           r == q % 4
<1>1. q \in 1..Top - 1 /\ q \in Int /\ q <= 4 * f_max + 1 /\ q >= 1 /\ f_max \in Nat
  BY CallsAssumption DEF Placed, Sited, Top
<1>2. /\ q <= 4 * f_max =>
            /\ q + 1 \in 1..Top - 1 /\ (q + 1) % 4 = (IF r = 3 THEN 0 ELSE r + 1)
            /\ Zone(q + 1) = (IF r \in {2, 3} THEN Zone(q) + 1 ELSE Zone(q))
            /\ r \in {2, 3} => Zone(q) < 2 * f_max
      /\ q >= 2 =>
            /\ q - 1 \in 1..Top - 1 /\ (q - 1) % 4 = (IF r = 0 THEN 3 ELSE r - 1)
            /\ Zone(q - 1) = (IF r \in {0, 3} THEN Zone(q) - 1 ELSE Zone(q))
            /\ r \in {0, 3} => Zone(q) > 0
      /\ r \in 0..3 /\ Zone(q) \in Int
  BY <1>1, ZonesPassed, ZoneOf DEF Placed, Sited
<1>3. CASE c.auto_counter = "hspd"
  <2>1. CASE c.direction_up
    <3>1. q < 4 * f_max /\ p = q + 1
      BY <1>3, <2>1 DEF Placed, Ahead
    <3> HIDE DEF p, r
    <3> QED
      BY <1>1, <1>2, <1>3, <2>1, <3>1 DEF p
  <2>2. CASE ~c.direction_up
    <3>1. q > 2 /\ p = q - 1
      BY <1>3, <2>2 DEF Placed, Ahead
    <3> HIDE DEF p, r
    <3> QED
      BY <1>1, <1>2, <1>3, <2>2, <3>1 DEF p
  <2> QED
    BY <2>1, <2>2
<1>4. CASE c.auto_counter = "lspd"
  <2>1. CASE c.direction_up
    <3>1. r = 0 /\ p = q + 1
      BY <1>4, <2>1 DEF Placed, Sited, Moves, Level, Toward, Ahead
    <3>2. q <= 4 * f_max
      BY <1>1, <3>1
    <3>3. (q + 1) % 4 = 1 /\ Zone(q + 1) = Zone(q)
      BY <1>2, <3>1, <3>2
    <3>4. Toward(c, p)
      BY <2>1, <3>1, <3>3 DEF Toward
    <3> HIDE DEF p, r
    <3> QED
      BY <1>2, <1>4, <3>1, <3>2, <3>3, <3>4 DEF p
  <2>2. CASE ~c.direction_up
    <3>1. r = 2 /\ p = q - 1
      BY <1>4, <2>2 DEF Placed, Sited, Moves, Level, Toward, Ahead
    <3>2. q >= 2
      BY <1>1, <3>1
    <3>3. (q - 1) % 4 = 1 /\ Zone(q - 1) = Zone(q)
      BY <1>2, <3>1, <3>2
    <3>4. Toward(c, p)
      BY <2>2, <3>1, <3>3 DEF Toward
    <3> HIDE DEF p, r
    <3> QED
      BY <1>2, <1>4, <3>1, <3>2, <3>3, <3>4 DEF p
  <2> QED
    BY <2>1, <2>2
<1> QED
  BY <1>3, <1>4 DEF Moves

\* The edge of the selector is counted.
LEMMA CountPlaces ==
    ASSUME NEW c, NEW q, Placed(c, q), NEW p, p = q \/ (Moves(c, q) /\ p = Ahead(c, q)),
           NEW t, t.mode = {}, t.sel = (Zone(p) # Zone(q))
    PROVE  Counted(selector_count(c, t), p)
<1> DEFINE v == c.selector_counter
           i == IF v < 2 * f_max THEN v + 1 ELSE v
           j == IF v > 0 THEN v - 1 ELSE v
           counts == c.auto_counter = "hspd" \/ (c.auto_counter = "lspd" /\ "mnt" \in t.mode)
           d == selector_count(c, t)
<1>1. ~t.sel \/ ~counts => d = c
  BY Zenon DEF selector_count
<1>2. t.sel /\ counts => d = [c EXCEPT !.selector_counter = IF c.direction_up THEN i ELSE j]
  BY DEF selector_count
<1>3. Placed(c, q) => Counted(c, q)
  BY DEF Placed, Counted
<1>4. CASE p = q
  BY <1>1, <1>3, <1>4
<1>5. CASE Moves(c, q) /\ p = Ahead(c, q) /\ c.auto_counter = "lspd"
  <2>1. d = c
    BY <1>1, <1>5
  <2>2. p \in 1..Top - 1 /\ Zone(p) = Zone(q) /\ Toward(c, p)
    BY <1>5, AheadPlaces
  <2>3. Sited(c, p)
    BY <1>5, <2>2 DEF Placed, Sited
  <2> QED
    BY <1>5, <2>1, <2>3, NotFast
<1>6. CASE Moves(c, q) /\ p = Ahead(c, q) /\ c.auto_counter = "hspd"
  <2>1. /\ p \in 1..Top - 1
        /\ Zone(p) = Zone(q) \/ Zone(p) = (IF c.direction_up THEN Zone(q) + 1 ELSE Zone(q) - 1)
        /\ Zone(p) # Zone(q) => IF c.direction_up THEN Zone(q) < 2 * f_max ELSE Zone(q) > 0
        /\ p % 4 = 3 \/ Zone(p) = Zone(q)
             \/ (IF c.direction_up THEN p % 4 = 0 ELSE p % 4 = 2)
    BY <1>6, AheadPlaces
  <2>2. Sited(c, q) /\ Rec(c) /\ v = Zone(q)
    BY DEF Placed, Sited
  <2>3. Keeps(d, c, {"selector_counter"}) /\ d.selector_counter = Zone(p)
    <3>1. CASE Zone(p) = Zone(q)
      <4>1. d = c
        BY <1>1, <3>1
      <4> QED
        BY <2>2, <3>1, <4>1 DEF Keeps
    <3>2. CASE Zone(p) # Zone(q)
      <4>1. (IF c.direction_up THEN i ELSE j) = Zone(p)
        BY <2>1, <2>2, <3>2
      <4>2. d = [c EXCEPT !.selector_counter = Zone(p)]
        BY <1>2, <1>6, <3>2, <4>1
      <4> HIDE DEF d
      <4> QED
        BY <2>2, <4>2, Assigns DEF Fields, Watched
    <3> QED
      BY <3>1, <3>2
  <2> HIDE DEF d
  <2>4. /\ Rec(d) /\ d.auto_counter = c.auto_counter /\ d.auto_state = c.auto_state
        /\ d.direction_up = c.direction_up /\ d.ireq = c.ireq /\ d.ereq = c.ereq
        /\ d.eereq = c.eereq
        /\ d.ref = c.ref /\ d.moving = c.moving /\ d.saved = c.saved
        /\ d.floor_counter_save = c.floor_counter_save
    BY <2>3 DEF Keeps, Traced
  <2>5. Calling(d)
    BY <2>2, <2>4 DEF Sited, Calling
  <2>6. Kept(d)
    BY <1>6, <2>2, <2>4 DEF Sited, Kept, Rest
  <2>7. Driven(d)
    BY <2>2, <2>4 DEF Sited, Driven
  <2>8. infloorzone(d) => Passes(d) \/ (IF d.direction_up THEN p % 4 = 0 ELSE p % 4 = 2)
    <3>1. CASE Zone(p) = Zone(q)
      <4>1. infloorzone(d) = infloorzone(c) /\ get_current_floor(d) = get_current_floor(c)
        BY <2>2, <2>3, <3>1 DEF infloorzone, get_current_floor
      <4>2. Passes(d) <=> Passes(c)
        BY <2>4, <4>1 DEF Passes, PassesTo, Calls
      <4> QED
        BY <1>6, <4>1, <4>2 DEF Placed
    <3>2. CASE Zone(p) # Zone(q)
      <4>1. infloorzone(d) <=> p % 4 # 3
        BY <2>1, <2>3, ZoneOf
      <4> QED
        BY <2>1, <2>4, <3>2, <4>1
    <3> QED
      BY <3>1, <3>2
  <2>9. infloorzone(d) => Passes(d) \/ Toward(d, p)
    BY <2>8 DEF Toward
  <2>10. Sited(d, p)
    BY <1>6, <2>1, <2>2, <2>3, <2>4, <2>5, <2>6, <2>7, <2>9 DEF Sited
  <2>11. Counted(d, p)
    BY <2>8, <2>10 DEF Counted
  <2> QED
    BY <2>11 DEF d
<1> QED
  BY <1>4, <1>5, <1>6 DEF Moves

\* One limit, outside inspection.
LEMMA LimitCases ==
    ASSUME NEW c, NEW t, t.mode = {}, NEW l, NEW fl, NEW up, NEW there, NEW strange
    PROVE  LET a == [c EXCEPT !.selector_counter = there]
               d == At_limit(c, t, l, fl, up, there, strange)
           IN /\ ~l => d = c
              /\ c.direction_up # up /\ ~strange => d = c
              /\ l /\ c.direction_up = up =>
                   d = IF a.auto_counter = "hspd" THEN auto_lspd_enter(a) ELSE a
<1> DEFINE a == [c EXCEPT !.selector_counter = there]
           d == At_limit(c, t, l, fl, up, there, strange)
<1>1. "mnt" \notin t.mode
  OBVIOUS
<1>2. ~l => d = c
  BY Zenon DEF At_limit
<1>3. c.direction_up # up /\ ~strange => d = c
  BY Zenon DEF At_limit
<1>4. l /\ c.direction_up = up => d = IF a.auto_counter = "hspd" THEN auto_lspd_enter(a) ELSE a
  BY <1>1, Zenon DEF At_limit
<1> QED
  BY <1>2, <1>3, <1>4

\* The limits stop a car at high speed at the ends.
LEMMA LimitsPlace ==
    ASSUME NEW c, NEW p, Executed(c, p), NEW t, t.mode = {},
           t.dnfdl0 <=> p <= 2, t.upfdl0 <=> p >= 4 * f_max, ~t.dnfl, ~t.upfl
    PROVE  Placed(direction_limits_check(c, t), p)
<1> DEFINE no == FALSE
           yes == TRUE
           zero == 0
           top == 2 * f_max
           below == c.selector_counter > 2
           above == c.selector_counter < 2 * f_max - 3
           dn == At_limit(c, t, t.dnfdl0, t.dnfl, no, zero, below)
           up == At_limit(dn, t, t.upfdl0, t.upfl, yes, top, above)
           x == At_final(up, t, t.dnfl, no)
           y == At_final(x, t, t.upfl, yes)
           r == direction_limits_check(c, t)
           At(n) == [c EXCEPT !.selector_counter = n]
           Slowed(n) == IF At(n).auto_counter = "hspd" THEN auto_lspd_enter(At(n)) ELSE At(n)
<1>1. c.auto_counter \in {"hspd", "lspd"} => r = y
  BY Zenon DEF direction_limits_check
<1>2. c.auto_counter \notin {"hspd", "lspd"} => r = c \/ r = Err(c, "stop")
  BY Zenon DEF direction_limits_check
<1>3. x = up /\ y = x
  BY Zenon DEF At_final
<1>4. /\ Sited(c, p) /\ Rec(c) /\ c.selector_counter = Zone(p)
      /\ c.direction_up = no \/ c.direction_up = yes
      /\ (c.direction_up = no => ~c.direction_up) /\ (c.direction_up = yes => c.direction_up)
      /\ p \in Int /\ 1 <= p /\ p <= 4 * f_max + 1 /\ f_max \in Nat \ {0}
  BY CallsAssumption DEF Executed, Sited, Top
<1>5. no # yes
  OBVIOUS
<1> SUFFICES Placed(r, p)
  OBVIOUS
<1> HIDE DEF no, yes, x, y, r
<1>6. /\ ~t.dnfdl0 => dn = c
      /\ c.direction_up # no /\ ~below => dn = c
      /\ t.dnfdl0 /\ c.direction_up = no => dn = Slowed(zero)
  <2> HIDE DEF zero, below
  <2> QED
    BY LimitCases
<1>7. dn = c =>
        /\ ~t.upfdl0 => up = c
        /\ c.direction_up # yes /\ ~above => up = c
        /\ t.upfdl0 /\ c.direction_up = yes => up = Slowed(top)
  <2> HIDE DEF top, above, dn
  <2> QED
    BY LimitCases
<1>8. ~t.upfdl0 => up = dn
  BY Zenon DEF At_limit
<1> HIDE DEF dn, up
<1>9. p <= 2 => /\ Zone(p) = zero /\ infloorzone(c) /\ ~below
                /\ c.direction_up = no => Toward(c, p)
  <2>1. p <= 2 => p = 1 \/ p = 2
    BY <1>4
  <2>2. p <= 2 => p % 4 \in {1, 2} /\ p \div 4 = 0
    BY <2>1
  <2>3. p <= 2 => Zone(p) = zero
    BY <2>2 DEF Zone
  <2>4. p <= 2 => infloorzone(c) /\ ~below
    BY <1>4, <2>3 DEF infloorzone
  <2> QED
    BY <1>4, <2>2, <2>3, <2>4 DEF Toward
<1>10. p >= 4 * f_max => /\ Zone(p) = top /\ infloorzone(c) /\ ~above
                         /\ c.direction_up = yes => Toward(c, p)
  <2>1. p >= 4 * f_max => p = 4 * f_max \/ p = 4 * f_max + 1
    BY <1>4
  <2>2. p >= 4 * f_max => p % 4 \in {0, 1} /\ p \div 4 = f_max
    BY <1>4, <2>1
  <2>3. p >= 4 * f_max => Zone(p) = top
    BY <2>2 DEF Zone
  <2>4. p >= 4 * f_max => infloorzone(c) /\ ~above
    BY <1>4, <2>3 DEF infloorzone
  <2> QED
    BY <1>4, <2>2, <2>3, <2>4 DEF Toward
<1> HIDE DEF below, above, zero, top
<1>11. ASSUME NEW n, n = Zone(p), c.auto_counter \in {"hspd", "lspd"}, infloorzone(c), Toward(c, p)
       PROVE  Placed(Slowed(n), p)
  <2> DEFINE a == At(n)
             d == Slowed(n)
  <2>1. Keeps(a, c, {"selector_counter"}) /\ a.selector_counter = n
    BY <1>4, Assigns DEF Fields, Watched
  <2>2. d = IF a.auto_counter = "hspd" THEN auto_lspd_enter(a) ELSE a
    OBVIOUS
  <2> HIDE DEF a, d
  <2>3. Keeps(a, c, {})
    BY <1>4, <1>11, <2>1 DEF Keeps
  <2>4. Sited(a, p)
    BY <1>4, <2>3, PlaceAlike
  <2>5. infloorzone(a)
    BY <1>11, <2>3, PassesAlike
  <2>6. a.auto_counter = c.auto_counter /\ Toward(a, p)
    BY <1>11, <2>3 DEF Keeps, Traced, Toward
  <2>7. a.moving \in {"still", Dir(a.direction_up)}
    BY <1>11, <2>4, <2>6 DEF Sited, Driven
  <2>8. Sited(d, p) /\ d.auto_counter = "lspd"
    BY <1>11, <2>2, <2>4, <2>5, <2>6, <2>7, RunSited
  <2>9. Placed(d, p)
    BY <2>8, NotFast
  <2> QED
    BY <2>9 DEF d
<1> HIDE DEF Slowed
<1>12. CASE c.auto_counter \in {"hspd", "lspd"}
  <2>1. r = up
    BY <1>1, <1>3, <1>12
  <2>2. CASE p <= 2
    <3>1. ~t.upfdl0
      BY <1>4, <2>2
    <3>2. CASE c.direction_up = no
      <4>1. r = Slowed(zero)
        BY <1>6, <1>8, <2>1, <2>2, <3>1, <3>2
      <4> QED
        BY <1>9, <1>11, <1>12, <2>2, <3>2, <4>1
    <3>3. CASE c.direction_up = yes
      <4>1. r = c
        BY <1>5, <1>6, <1>7, <1>9, <2>1, <2>2, <3>1, <3>3
      <4>2. Placed(c, p)
        BY <1>4, <2>2, <3>3 DEF Executed, Placed
      <4> QED
        BY <4>1, <4>2
    <3> QED
      BY <1>4, <3>2, <3>3
  <2>3. CASE p >= 4 * f_max
    <3>1. ~t.dnfdl0 /\ dn = c
      BY <1>4, <1>6, <2>3
    <3>2. CASE c.direction_up = yes
      <4>1. r = Slowed(top)
        BY <1>7, <2>1, <2>3, <3>1, <3>2
      <4> QED
        BY <1>10, <1>11, <1>12, <2>3, <3>2, <4>1
    <3>3. CASE c.direction_up = no
      <4>1. r = c
        BY <1>5, <1>7, <1>10, <2>1, <2>3, <3>1, <3>3
      <4>2. Placed(c, p)
        BY <1>4, <2>3, <3>3 DEF Executed, Placed
      <4> QED
        BY <4>1, <4>2
    <3> QED
      BY <1>4, <3>2, <3>3
  <2>4. CASE ~(p <= 2) /\ ~(p >= 4 * f_max)
    <3>1. r = c
      BY <1>6, <1>7, <2>1, <2>4
    <3>2. p < 4 * f_max /\ p > 2
      BY <1>4, <2>4
    <3>3. Placed(c, p)
      BY <2>4, <3>2 DEF Executed, Placed
    <3> QED
      BY <3>1, <3>3
  <2> QED
    BY <2>2, <2>3, <2>4
<1>13. CASE c.auto_counter \notin {"hspd", "lspd"}
  <2>1. Placed(c, p)
    BY <1>4, <1>13, NotFast
  <2>2. Placed(Err(c, "stop"), p)
    BY <1>4, <2>1, PiecesKeep, PlaceAlike
  <2> QED
    BY <1>2, <1>13, <2>1, <2>2
<1> QED
  BY <1>12, <1>13

\* The whole call, with the terminals that the position shows.
LEMMA UpdatePlaces ==
    ASSUME NEW c, NEW q, Placed(c, q), NEW p, p = q \/ (Moves(c, q) /\ p = Ahead(c, q)),
           PRE_SPD = 0, NEW t, "fw" \notin t.in, t.mode = {}, t.level = Level(p),
           t.sel = (Zone(p) # Zone(q)),
           t.dnfdl0 <=> p <= 2, t.upfdl0 <=> p >= 4 * f_max, ~t.dnfl, ~t.upfl
    PROVE  Placed(auto_update(c, t), p)
<1> DEFINE s == selector_count(c, t)
           e == execute(s, t)
           a == state_check(e, t)
           d == direction_limits_check(a, t)
           m == IF d.auto_state = {} THEN d ELSE drop_all_req(d)
           r == [m EXCEPT !.req_enabled = d.auto_state = {} /\ faults \cup d.errors = {}]
<1>1. Counted(s, p)
  BY CountPlaces
<1> HIDE DEF s
<1>2. Executed(e, p) /\ Rec(e) /\ e.auto_state = {}
  BY <1>1, ExecutePlaces DEF Executed, Sited
<1> HIDE DEF e
<1>3. Keeps(a, e, {})
  <2> DEFINE x == [e EXCEPT !.auto_state = t.mode]
  <2>1. Keeps(x, e, {"auto_state"}) /\ x.auto_state = {}
    BY <1>2, Assigns DEF Fields, Watched
  <2>2. a = IF t.mode # e.auto_state \/ ARDINS(x) THEN auto_stop_enter(x, t) ELSE x
    BY DEF state_check
  <2> HIDE DEF x, a
  <2>3. a = x
    BY <1>2, <2>1, <2>2 DEF ARDINS
  <2> QED
    BY <1>2, <2>1, <2>3 DEF Keeps
<1> HIDE DEF a
<1>4. Executed(a, p)
  BY <1>2, <1>3, PlaceAlike
<1>5. Placed(d, p)
  BY <1>4, LimitsPlace
<1> HIDE DEF d
<1>6. m = d /\ Rec(d)
  BY <1>5 DEF Placed, Sited
<1> HIDE DEF m
<1>7. Keeps(r, d, {})
  BY <1>6, Elsewhere DEF Fields, Watched, Traced
<1>8. auto_update(c, t) = r
  BY Zenon DEF auto_update, auto_lift_states_monitor, r, m, d, a, e, s
<1> HIDE DEF r
<1> QED
  BY <1>5, <1>7, <1>8, PlaceAlike

\* A run is in the car's direction, with the drive halted or not.
LEMMA DrivePlaced ==
    ASSUME NEW c, NEW p, Placed(c, p), NEW d, Keeps(d, c, {"ref", "moving"}), Driven(d)
    PROVE  Placed(d, p) /\ d.auto_counter = c.auto_counter /\ d.direction_up = c.direction_up
<1>1. /\ Rec(d) /\ d.auto_counter = c.auto_counter /\ d.auto_state = c.auto_state
      /\ d.direction_up = c.direction_up /\ d.selector_counter = c.selector_counter
      /\ d.saved = c.saved /\ d.floor_counter_save = c.floor_counter_save
  BY DEF Keeps, Traced
<1>2. /\ infloorzone(d) = infloorzone(c) /\ (Calling(d) <=> Calling(c))
      /\ Passes(d) <=> Passes(c)
  BY <1>1, PassesAlike DEF Passes
<1>3. Kept(c) => Kept(d)
  BY <1>1 DEF Kept
<1>4. Toward(d, p) <=> Toward(c, p)
  BY <1>1 DEF Toward
<1>5. Sited(d, p)
  BY <1>1, <1>2, <1>3, <1>4 DEF Placed, Sited
<1> QED
  BY <1>1, <1>2, <1>5 DEF Placed

\* So does a trip of the drive.
LEMMA TripPlaced ==
    ASSUME NEW c, NEW p, Placed(c, p)
    PROVE  /\ Placed(vfd_estop(c), p)
           /\ vfd_estop(c).auto_counter = c.auto_counter
           /\ vfd_estop(c).direction_up = c.direction_up
<1> DEFINE d == vfd_estop(c)
<1>1. Keeps(d, c, {"ref", "moving"}) /\ d.ref = "zero" /\ d.moving = "still"
  BY DriveKeeps DEF Placed, Sited
<1> HIDE DEF d
<1>2. Driven(d)
  BY <1>1 DEF Driven
<1> QED
  BY <1>1, <1>2, DrivePlaced DEF d

\* Further calls, none of the current floor.
LEMMA CallsPlaced ==
    ASSUME NEW c, NEW p, Placed(c, p), NEW d, Keeps(d, c, {"ireq", "ereq", "eereq"}), Calling(d),
           c.ireq \subseteq d.ireq, c.ereq \subseteq d.ereq, c.eereq \subseteq d.eereq,
           get_current_floor(c) \in d.ireq => get_current_floor(c) \in c.ireq,
           get_current_floor(c) \in d.ereq => get_current_floor(c) \in c.ereq,
           get_current_floor(c) \in d.eereq => get_current_floor(c) \in c.eereq
    PROVE  Placed(d, p) /\ d.auto_counter = c.auto_counter /\ d.direction_up = c.direction_up
<1>1. /\ d.direction_up = c.direction_up /\ d.selector_counter = c.selector_counter
      /\ d.auto_counter = c.auto_counter
  BY DEF Keeps, Traced
<1>2. get_current_floor(d) = get_current_floor(c)
  BY <1>1 DEF get_current_floor
<1>3. Calls(c) \subseteq Calls(d)
  BY DEF Calls
<1>4. PassesTo(c, c.direction_up) => PassesTo(d, c.direction_up)
  BY <1>2, <1>3 DEF PassesTo
<1>5. Passes(c) => Passes(d)
  BY <1>1, <1>4 DEF Passes
<1>6. Sited(d, p) /\ infloorzone(d) = infloorzone(c)
  BY <1>5, CallsSited DEF Placed, Sited
<1> QED
  BY <1>1, <1>5, <1>6 DEF Placed

-----------------------------------------------------------------------------
(***************************************************************************)
(* Normal service: the invariant, its steps and what follows from it.      *)
(***************************************************************************)
\* The inspection and rescue switches stay off, the car is never overloaded and
\* runs start without the pre-speed.  Doors, drive, supply and every other
\* terminal may do what they like.
NormalService == PRE_SPD = 0 /\ Modes = {{}} /\ "fw" \notin Disturbances

\* Where the car was in the last call of auto_update.
Before == IF travelled THEN IF lift.direction_up THEN pos - 1 ELSE pos + 1 ELSE pos

\* The selector fits the place of the last call, from where the car has made
\* one move at most; an edge is pending if the move took it to another zone.
PosInv ==
    /\ mode = {} /\ travelled \in BOOLEAN /\ sel \in BOOLEAN
    /\ Placed(lift, Before)
    /\ travelled => Moves(lift, Before)
    /\ sel <=> Zone(pos) # Zone(Before)

\* A step after which the car is where it was, and runs as it did.
LEMMA StaysPlaced ==
    ASSUME PosInv, NEW d, lift' = d, Placed(d, Before),
           lift.auto_counter \in {"hspd", "lspd"} =>
             d.auto_counter = lift.auto_counter /\ d.direction_up = lift.direction_up,
           UNCHANGED <<mode, pos, sel, travelled>>
    PROVE  PosInv'
<1>1. Before' = Before
  <2>1. /\ travelled => lift'.direction_up = lift.direction_up
        /\ travelled' = travelled /\ pos' = pos
    BY DEF PosInv, Moves
  <2>2. CASE travelled
    BY <2>1, <2>2 DEF Before
  <2>3. CASE ~travelled
    BY <2>1, <2>3 DEF Before
  <2> QED
    BY <2>2, <2>3
<1>2. Placed(lift, Before)'
  BY <1>1
<1>3. travelled' => Moves(lift, Before)'
  BY <1>1 DEF PosInv, Moves, Level
<1>4. sel' <=> (Zone(pos) # Zone(Before))'
  BY <1>1 DEF PosInv, Zone
<1> QED
  BY <1>2, <1>3, <1>4 DEF PosInv

\* A call of auto_update.
LEMMA UpdateStepPlaces ==
    ASSUME LiftInv, PosInv, NormalService, NEW in \in Off(Inputs), AutoUpdate(in)
    PROVE  PosInv'
<1> DEFINE t == Terminals(in)
           q == Before
           c == auto_update(lift, t)
           d == [c EXCEPT !.errors = {}]
<1>1. "fw" \notin t.in
  BY DEF Off, NormalService, Terminals
<1>2. t.mode = {} /\ t.level = Level(pos)
  BY DEF PosInv, Terminals
<1>3. t.sel = (Zone(pos) # Zone(q))
  <2>1. t.sel = sel
    BY DEF Terminals
  <2> QED
    BY <2>1 DEF PosInv
<1>4. (t.dnfdl0 <=> pos <= 2) /\ (t.upfdl0 <=> pos >= 4 * f_max)
  BY DEF Terminals
<1>5. (t.dnfl => pos = 0) /\ (t.upfl => pos = Top)
  BY TerminalsSeen
<1>6. Placed(lift, q) /\ (pos = q \/ (Moves(lift, q) /\ pos = Ahead(lift, q)))
  <2>1. pos \in Int
    BY CallsAssumption DEF LiftInv, Top
  <2>2. CASE travelled
    BY <2>1, <2>2 DEF PosInv, Before, Ahead
  <2>3. CASE ~travelled
    BY <2>3 DEF PosInv, Before
  <2> QED
    BY <2>2, <2>3 DEF PosInv
<1> HIDE DEF t, q
<1>7. pos \in 1..Top - 1
  BY <1>6, AheadPlaces DEF Placed, Sited
<1>8. ~t.dnfl /\ ~t.upfl
  BY <1>5, <1>7, CallsAssumption DEF Top
<1>9. Placed(c, pos)
  BY <1>1, <1>2, <1>3, <1>4, <1>6, <1>8, UpdatePlaces DEF NormalService
<1>10. lift' = d /\ sel' = FALSE /\ travelled' = FALSE /\ mode' = mode /\ pos' = pos
  BY DEF AutoUpdate, Result, c, t
<1> HIDE DEF c
<1>11. Keeps(d, c, {})
  BY <1>9, Elsewhere DEF Placed, Sited, Fields, Watched, Traced
<1>12. Placed(d, pos)
  BY <1>9, <1>11, PlaceAlike
<1> HIDE DEF d
<1>13. Before' = pos
  BY <1>10 DEF Before
<1>14. Placed(lift, Before)'
  BY <1>10, <1>12, <1>13
<1> QED
  BY <1>10, <1>13, <1>14 DEF PosInv

\* The delays of stop and idle.
LEMMA TimeoutPlaces ==
    ASSUME PosInv, StopIdleTimeout \/ \E in \in Off({"shk", "Estop", "ow"}) : IdleCamtTimeout(in)
    PROVE  PosInv'
<1>1. Placed(lift, Before) /\ Sited(lift, Before) /\ Rec(lift)
  BY DEF PosInv, Placed, Sited
<1>2. CASE StopIdleTimeout
  <2> DEFINE c == [lift EXCEPT !.stop_idle_run = FALSE]
             i == auto_idle_enter(c, Terminals({}))
             d == IF c.auto_counter = "stop" THEN i ELSE c
             e == [d EXCEPT !.errors = {}]
  <2>1. Keeps(c, lift, {})
    <3>1. c = [x \in Fields |-> IF x = "stop_idle_run" THEN FALSE ELSE lift[x]]
      BY <1>1 DEF Rec
    <3> QED
      BY <3>1 DEF Keeps, Rec, Fields, Watched, Traced
  <2>2. lift' = e /\ UNCHANGED <<mode, pos, sel, travelled>>
    BY <1>2 DEF StopIdleTimeout, Result
  <2> HIDE DEF c
  <2>3. Placed(c, Before) /\ Sited(c, Before)
    BY <1>1, <2>1, PlaceAlike
  <2>4. c.auto_counter = lift.auto_counter /\ c.direction_up = lift.direction_up
    BY <2>1, PlaceAlike
  <2>5. c.auto_counter = "stop" => Placed(i, Before)
    BY <2>3, RestSited, NotFast DEF Rest
  <2> HIDE DEF i
  <2>6. Placed(d, Before) /\ (c.auto_counter # "stop" => d = c)
    BY <2>3, <2>5
  <2> HIDE DEF d
  <2>7. Keeps(e, d, {})
    BY <2>6, Elsewhere DEF Placed, Sited, Fields, Watched, Traced
  <2> HIDE DEF e
  <2>8. Placed(e, Before) /\ e.auto_counter = d.auto_counter /\ e.direction_up = d.direction_up
    BY <2>6, <2>7, PlaceAlike
  <2> QED
    BY <2>2, <2>4, <2>6, <2>8, StaysPlaced
<1>3. ASSUME NEW in, IdleCamtTimeout(in)
      PROVE  PosInv'
  <2> DEFINE c == IF lift.auto_counter = "idle"
                  THEN auto_idle_exit(lift, Terminals(in)) ELSE lift
             d == [c EXCEPT !.idle_camt_run = FALSE]
             e == [d EXCEPT !.errors = {}]
  <2>1. lift' = e /\ UNCHANGED <<mode, pos, sel, travelled>>
    BY <1>3 DEF IdleCamtTimeout, Result
  <2>2. lift.auto_counter = "idle" => Placed(auto_idle_exit(lift, Terminals(in)), Before)
    BY <1>1, IdleExitStanding, NotFast DEF Standing, Rest
  <2>3. Placed(c, Before) /\ Rec(c) /\ (lift.auto_counter # "idle" => c = lift)
    BY <1>1, <2>2 DEF Placed, Sited
  <2> HIDE DEF c
  <2>4. Keeps(d, c, {})
    <3>1. d = [x \in Fields |-> IF x = "idle_camt_run" THEN FALSE ELSE c[x]]
      BY <2>3 DEF Rec
    <3> QED
      BY <3>1 DEF Keeps, Rec, Fields, Watched, Traced
  <2> HIDE DEF d
  <2>5. Keeps(e, d, {})
    BY <2>4, Elsewhere DEF Keeps, Fields, Watched, Traced
  <2> HIDE DEF e
  <2>6. Placed(e, Before) /\ e.auto_counter = c.auto_counter /\ e.direction_up = c.direction_up
    BY <2>3, <2>4, <2>5, PlaceAlike
  <2> QED
    BY <2>1, <2>3, <2>6, StaysPlaced
<1> QED
  BY <1>2, <1>3

\* The stations, the parking time and the display.
LEMMA CallsPlace ==
    ASSUME PosInv, NormalService,
           \/ \E b \in Buttons, i \in Floors : Press(b, i)
           \/ Park
           \/ \E in \in Off({"fw"}) : Display(in)
    PROVE  PosInv'
<1>1. Placed(lift, Before) /\ Sited(lift, Before) /\ Rec(lift) /\ Calling(lift)
  BY DEF PosInv, Placed, Sited
<1> DEFINE here == get_current_floor(lift)
           A(i) == [lift EXCEPT !.ireq = lift.ireq \cup {i}]
           E(i) == [lift EXCEPT !.ereq = lift.ereq \cup {i}]
           U(i) == [lift EXCEPT !.eereq = lift.eereq \cup {i}]
           Stays(d) == Placed(d, Before) /\ d.auto_counter = lift.auto_counter
                       /\ d.direction_up = lift.direction_up
<1>2. here \in Floors
  BY <1>1, ZoneOf DEF Sited
<1>3. ASSUME NEW i \in Floors, i # here
      PROVE  /\ Stays(A(i)) /\ Stays(E(i))
             /\ collect = 2 => Stays(U(i))
  <2> DEFINE ai == lift.ireq \cup {i}
             ei == lift.ereq \cup {i}
             ui == lift.eereq \cup {i}
  <2>1. /\ Keeps(A(i), lift, {"ireq"}) /\ A(i).ireq = ai
        /\ Keeps(E(i), lift, {"ereq"}) /\ E(i).ereq = ei
        /\ Keeps(U(i), lift, {"eereq"}) /\ U(i).eereq = ui
    <3>1. {"ireq", "ereq", "eereq"} \subseteq Fields
      BY DEF Fields
    <3> HIDE DEF ai, ei, ui
    <3>2. Keeps(A(i), lift, {"ireq"}) /\ A(i).ireq = ai
      <4>1. A(i) = [x \in Fields |-> IF x = "ireq" THEN ai ELSE lift[x]]
        BY <1>1 DEF Rec, ai
      <4> HIDE DEF A
      <4> QED
        BY <1>1, <3>1, <4>1 DEF Keeps, Rec, Traced, Watched, Fields
    <3>3. Keeps(E(i), lift, {"ereq"}) /\ E(i).ereq = ei
      <4>1. E(i) = [x \in Fields |-> IF x = "ereq" THEN ei ELSE lift[x]]
        BY <1>1 DEF Rec, ei
      <4> HIDE DEF E
      <4> QED
        BY <1>1, <3>1, <4>1 DEF Keeps, Rec, Traced, Watched, Fields
    <3>4. Keeps(U(i), lift, {"eereq"}) /\ U(i).eereq = ui
      <4>1. U(i) = [x \in Fields |-> IF x = "eereq" THEN ui ELSE lift[x]]
        BY <1>1 DEF Rec, ui
      <4> HIDE DEF U
      <4> QED
        BY <1>1, <3>1, <4>1 DEF Keeps, Rec, Traced, Watched, Fields
    <3> QED
      BY <3>2, <3>3, <3>4
  <2> DEFINE a == A(i)
             e == E(i)
             u == U(i)
  <2> HIDE DEF A, E, U
  <2>2. Stays(a)
    <3>1. a.ereq = lift.ereq /\ a.eereq = lift.eereq /\ Keeps(a, lift, {"ireq", "ereq", "eereq"})
      BY <2>1 DEF Keeps, Traced
    <3>2. Calling(a)
      BY <1>1, <2>1, <3>1 DEF Calling
    <3> HIDE DEF a, here
    <3> QED
      BY <1>1, <1>3, <2>1, <3>1, <3>2, CallsPlaced DEF a, here
  <2>3. Stays(e)
    <3>1. e.ireq = lift.ireq /\ e.eereq = lift.eereq /\ Keeps(e, lift, {"ireq", "ereq", "eereq"})
      BY <2>1 DEF Keeps, Traced
    <3>2. Calling(e)
      BY <1>1, <2>1, <3>1 DEF Calling
    <3> QED
      BY <1>1, <1>3, <2>1, <3>1, <3>2, CallsPlaced
  <2>4. collect = 2 => Stays(u)
    <3>1. u.ireq = lift.ireq /\ u.ereq = lift.ereq /\ Keeps(u, lift, {"ireq", "ereq", "eereq"})
      BY <2>1 DEF Keeps, Traced
    <3>2. collect = 2 => Calling(u)
      BY <1>1, <2>1, <3>1 DEF Calling
    <3> QED
      BY <1>1, <1>3, <2>1, <3>1, <3>2, CallsPlaced
  <2> QED
    BY <2>2, <2>3, <2>4
<1>4. ASSUME NEW d, Keeps(d, lift, {})
      PROVE  Stays(d)
  BY <1>1, <1>4, PlaceAlike
<1>5. Keeps(lift, lift, {})
  BY <1>1 DEF Keeps
<1>6. \A d : lift' = d /\ Stays(d) /\ UNCHANGED <<mode, pos, sel, travelled>> => PosInv'
  BY StaysPlaced
<1>7. ASSUME NEW b \in Buttons, NEW i \in Floors, Press(b, i)
      PROVE  PosInv'
  <2>1. lift' = req_scan(lift, b, i) /\ UNCHANGED <<mode, pos, sel, travelled>>
    BY <1>7 DEF Press
  <2>2. \/ req_scan(lift, b, i) = [lift EXCEPT !.ireq = IF i = here THEN @ ELSE @ \cup {i}]
        \/ req_scan(lift, b, i) \in {lift, auto_reopen_door(lift)}
        \/ i # here /\ req_scan(lift, b, i) = E(i)
        \/ i # here /\ collect = 2 /\ req_scan(lift, b, i) = U(i)
    BY DEF req_scan, Buttons
  <2>3. Stays(auto_reopen_door(lift))
    <3> DEFINE o == lift.cf_press \/ lift.auto_counter = "idle"
               r == auto_reopen_door(lift)
    <3>1. r = [lift EXCEPT !.cf_press = o]
      BY DEF auto_reopen_door
    <3> HIDE DEF o, r
    <3>2. r = [x \in Fields |-> IF x = "cf_press" THEN o ELSE lift[x]]
      BY <1>1, <3>1 DEF Rec
    <3>3. Keeps(r, lift, {})
      BY <1>1, <3>2 DEF Keeps, Rec, Fields, Watched, Traced
    <3> QED
      BY <1>4, <3>3 DEF r
  <2>4. ASSUME req_scan(lift, b, i) = [lift EXCEPT !.ireq = IF i = here THEN @ ELSE @ \cup {i}]
        PROVE  Stays(req_scan(lift, b, i))
    <3>1. CASE i = here
      <4>1. req_scan(lift, b, i) = [lift EXCEPT !.ireq = lift.ireq]
        BY <2>4, <3>1
      <4>2. Keeps(req_scan(lift, b, i), lift, {})
        BY <1>1, <4>1 DEF Rec, Keeps, Fields, Watched, Traced
      <4> QED
        BY <1>4, <4>2
    <3>2. CASE i # here
      <4>1. req_scan(lift, b, i) = A(i)
        BY <2>4, <3>2
      <4>2. Stays(A(i))
        BY <1>3, <3>2
      <4> HIDE DEF A, Stays
      <4> QED
        BY <4>1, <4>2
    <3> QED
      BY <3>1, <3>2
  <2> HIDE DEF A, E, U, Stays, here
  <2>5. Stays(req_scan(lift, b, i))
    BY <1>3, <1>4, <1>5, <2>2, <2>3, <2>4
  <2> QED
    BY <1>6, <2>1, <2>5
<1>8. CASE Park
  <2>1. lift' = parking_check(lift, parking_floor) /\ UNCHANGED <<mode, pos, sel, travelled>>
    BY <1>8 DEF Park
  <2>2. \/ parking_check(lift, parking_floor) = lift
        \/ here # parking_floor /\ parking_floor < f_max
           /\ parking_check(lift, parking_floor) = A(parking_floor)
    BY DEF parking_check
  <2>3. parking_floor < f_max => parking_floor \in Floors
    BY LiftAssumption, CallsAssumption DEF Floors
  <2> HIDE DEF A, Stays, here
  <2>4. Stays(parking_check(lift, parking_floor))
    BY <1>3, <1>4, <1>5, <2>2, <2>3
  <2> QED
    BY <1>6, <2>1, <2>4
<1>9. ASSUME NEW in \in Off({"fw"}), Display(in)
      PROVE  PosInv'
  <2>1. ("fw" \in in) = FALSE
    BY DEF Off, NormalService
  <2> DEFINE d == get_scheduled_floor(lift, FALSE).c
  <2>2. lift' = d /\ UNCHANGED <<mode, pos, sel, travelled>>
    BY <1>9, <2>1, Zenon DEF Display
  <2>3. /\ Placed(d, Before) /\ d.auto_counter = lift.auto_counter
        /\ lift.auto_counter \in {"hspd", "lspd"} => d.direction_up = lift.direction_up
    BY <1>1, ScheduleSited
  <2> HIDE DEF d
  <2> QED
    BY <2>2, <2>3, StaysPlaced
<1> QED
  BY <1>7, <1>8, <1>9

\* The drive's own steps.
LEMMA RunsPlace ==
    ASSUME PosInv, DriveStart \/ DriveStop
    PROVE  PosInv'
<1>1. Placed(lift, Before) /\ Driven(lift) /\ Rec(lift)
  BY DEF PosInv, Placed, Sited
<1>2. PICK e : /\ lift' = [lift EXCEPT !.moving = e]
               /\ e = "still" \/ (e = lift.ref /\ lift.ref # "zero")
  BY DEF DriveStart, DriveStop
<1> DEFINE d == [lift EXCEPT !.moving = e]
<1>3. Keeps(d, lift, {"moving"}) /\ d.moving = e
  BY <1>1, Assigns DEF Fields, Watched
<1>4. lift' = d /\ UNCHANGED <<mode, pos, sel, travelled>>
  BY <1>2 DEF DriveStart, DriveStop
<1> HIDE DEF d
<1>5. /\ d.ref = lift.ref /\ d.direction_up = lift.direction_up
      /\ d.auto_counter = lift.auto_counter
  BY <1>3 DEF Keeps, Traced
<1>6. Driven(d)
  BY <1>1, <1>2, <1>3, <1>5 DEF Driven, Rest
<1>7. Keeps(d, lift, {"ref", "moving"})
  BY <1>3 DEF Keeps
<1>8. Placed(d, Before)
  BY <1>1, <1>6, <1>7, DrivePlaced
<1> QED
  BY <1>4, <1>5, <1>8, StaysPlaced

\* The emergency supply goes off, and does not try the drive.
LEMMA SupplyPlaces ==
    ASSUME LiftInv, PosInv, ErsdStep
    PROVE  PosInv'
<1> DEFINE to(s) == [lift EXCEPT !.ersd = s]
<1>1. Placed(lift, Before) /\ Rec(lift) /\ lift.auto_state = {} /\ mode = {}
  BY DEF PosInv, Placed, Sited
<1>2. lift.ersd \in {"off", "exit", "init", "idle", "turningOff"}
  BY <1>1 DEF LiftInv, Good, Ready, SupplyStates, Trying, ARD
<1>3. \E s : lift' = to(s) \/ lift' = vfd_estop(to(s))
  <2>1. ("ersin" \in mode) = FALSE
    BY <1>1
  <2>2. lift.ersd # "off"
    BY <2>1 DEF ErsdStep
  <2>3. lift.ersd = "exit" => lift' = to("init") \/ lift' = vfd_estop(to("turningOff"))
    BY DEF ErsdStep
  <2>4. lift.ersd = "init" => lift' = to("idle")
    BY DEF ErsdStep
  <2>5. lift.ersd = "idle" => lift' = vfd_estop(to("turningOff"))
    BY DEF ErsdStep
  <2>6. lift.ersd = "turningOff" => lift' = to("off")
    BY DEF ErsdStep
  <2> HIDE DEF to
  <2> QED
    BY <1>2, <2>2, <2>3, <2>4, <2>5, <2>6
<1>4. \A s : Keeps(to(s), lift, {})
  BY <1>1, Elsewhere DEF Fields, Watched, Traced
<1>5. UNCHANGED <<mode, pos, sel, travelled>>
  BY DEF ErsdStep
<1> HIDE DEF to
<1>6. PICK s : lift' = to(s) \/ lift' = vfd_estop(to(s))
  BY <1>3
<1> DEFINE c == to(s)
           d == vfd_estop(c)
<1>7. /\ Placed(c, Before) /\ c.auto_counter = lift.auto_counter
      /\ c.direction_up = lift.direction_up
  BY <1>1, <1>4, PlaceAlike
<1> HIDE DEF c
<1>8. /\ Placed(d, Before) /\ d.auto_counter = c.auto_counter
      /\ d.direction_up = c.direction_up
  BY <1>7, TripPlaced
<1>9. lift' = c \/ lift' = d
  BY <1>6 DEF c, d
<1> HIDE DEF d
<1> QED
  BY <1>5, <1>7, <1>8, <1>9, StaysPlaced

\* A fault that trips the drive, and the steps that leave the controller alone.
LEMMA OthersPlace ==
    ASSUME PosInv, NormalService,
           \/ \E f \in {"stop", "pos"}, trip \in BOOLEAN : FaultRaised(f, trip)
           \/ DoorStep \/ FaultClears \/ ModeChange \/ HandButton \/ UNCHANGED vars
    PROVE  PosInv'
<1>1. Placed(lift, Before) /\ mode = {}
  BY DEF PosInv
<1>2. ~ModeChange
  BY <1>1 DEF ModeChange, NormalService
<1>3. UNCHANGED <<mode, pos, sel, travelled>>
  BY <1>2 DEF FaultRaised, DoorStep, FaultClears, HandButton, vars
<1> DEFINE d == vfd_estop(lift)
<1>4. /\ Placed(d, Before) /\ d.auto_counter = lift.auto_counter
      /\ d.direction_up = lift.direction_up
  BY <1>1, TripPlaced
<1>5. lift' = lift \/ lift' = d
  BY <1>2 DEF FaultRaised, DoorStep, FaultClears, HandButton, vars
<1> HIDE DEF d
<1> QED
  BY <1>1, <1>3, <1>4, <1>5, StaysPlaced

\* After power-up, with the selector saved as it was to be.
LEMMA BootPlaced ==
    ASSUME NEW p \in 1..Top - 1
    PROVE  Placed(Boot(p, Zone(p)), p) /\ Boot(p, Zone(p)).auto_counter = "stop"
<1> DEFINE n == IF p >= 4 * f_max THEN 2 * f_max ELSE IF p <= 2 THEN 0 ELSE Zone(p)
           z == Zone(p)
           b == Boot(p, z)
<1>1. n = Zone(p)
  <2>1. f_max \in Nat /\ p \in Int /\ p >= 1 /\ p <= 4 * f_max + 1
    BY CallsAssumption DEF Top
  <2>2. CASE p >= 4 * f_max
    <3>1. p = 4 * f_max \/ p = 4 * f_max + 1
      BY <2>1, <2>2
    <3>2. p \div 4 = f_max /\ p % 4 # 3
      BY <2>1, <3>1
    <3> QED
      BY <2>2, <3>2 DEF Zone
  <2>3. CASE p <= 2 /\ ~(p >= 4 * f_max)
    <3>1. p \div 4 = 0 /\ p % 4 # 3
      BY <2>1, <2>3
    <3> QED
      BY <2>3, <3>1 DEF Zone
  <2> QED
    BY <2>1, <2>2, <2>3
<1>2. b = [auto_counter |-> "stop", auto_state |-> {}, ireq |-> {}, ereq |-> {}, eereq |-> {},
     req_enabled |-> FALSE, direction_up |-> FALSE,
     selector_counter |-> n,
     onfloor |-> FALSE, door |-> "closed", cam |-> FALSE, stop_idle_run |-> TRUE,
     idle_camt_run |-> FALSE, cf_press |-> FALSE, cam_lock_wait |-> 0,
     cam_trial_counter |-> 0, stop_delay_counter |-> 0, pre_spd_counter |-> 0,
     saved |-> z, floor_counter_save |-> FALSE, turnoff_battery_mode |-> FALSE,
     ersd |-> "off", ref |-> "zero", moving |-> "still", errors |-> {}]
  BY DEF Boot
<1> HIDE DEF b, n
<1>3. Rec(b)
  BY <1>2 DEF Rec, Fields, Watched
<1>4. /\ b.auto_counter = "stop" /\ b.auto_state = {} /\ b.direction_up = FALSE
      /\ b.ireq = {} /\ b.ereq = {} /\ b.eereq = {}
      /\ b.ref = "zero" /\ b.moving = "still" /\ b.floor_counter_save = FALSE
      /\ b.selector_counter = n /\ b.saved = z
  BY <1>2
<1>5. Calling(b) /\ Passes(b)
  BY <1>4 DEF Calling, Passes, PassesTo
<1>6. Kept(b) /\ Driven(b)
  BY <1>1, <1>4 DEF Kept, Driven, Rest
<1>7. Sited(b, p)
  BY <1>1, <1>3, <1>4, <1>5, <1>6 DEF Sited, States
<1>8. Placed(b, p)
  BY <1>4, <1>7, NotFast
<1> QED
  BY <1>4, <1>8 DEF b

\* Power-up finds the car where it stood.
LEMMA PowerPlaces ==
    ASSUME PosInv, PowerCycle
    PROVE  PosInv'
<1>1. Placed(lift, Before) /\ ~travelled /\ lift.auto_counter \in Rest
  BY DEF PosInv, PowerCycle, Moves, Rest
<1>2. Before = pos
  BY <1>1 DEF Before
<1>3. lift.saved = Zone(pos) /\ pos \in 1..Top - 1
  BY <1>1, <1>2 DEF Placed, Sited, Kept
<1> DEFINE b == Boot(pos, Zone(pos))
<1>4. /\ lift' = b /\ mode' = mode /\ pos' = pos /\ travelled' = travelled
      /\ sel' = FALSE
  BY <1>3 DEF PowerCycle
<1>5. Placed(b, pos)
  BY <1>3, BootPlaced
<1> HIDE DEF b
<1>6. Before' = pos
  BY <1>1, <1>4 DEF Before
<1>7. Placed(lift, Before)'
  BY <1>4, <1>5, <1>6
<1> QED
  BY <1>1, <1>4, <1>6, <1>7 DEF PosInv

\* The car moves in its direction, at creep speed towards the level.
LEMMA TravelPlaces ==
    ASSUME PosInv, Travel
    PROVE  PosInv' /\ pos' = Ahead(lift, pos) /\ Placed(lift, pos)
<1>1. ~travelled /\ Before = pos /\ Placed(lift, pos) /\ mode = {}
  BY DEF PosInv, Travel, Before
<1>2. lift.moving # "still" /\ lift.ref # "zero" /\ ~(lift.auto_counter = "lspd" /\ Level(pos))
  BY <1>1 DEF Travel
<1>3. Driven(lift) /\ lift.direction_up \in BOOLEAN /\ pos \in Int
  BY <1>1 DEF Placed, Sited, Top
<1>4. lift.auto_counter \in {"hspd", "lspd"} /\ lift.moving = Dir(lift.direction_up)
  BY <1>2, <1>3 DEF Driven
<1>5. Moves(lift, pos)
  BY <1>2, <1>4 DEF Moves
<1>6. pos' = Ahead(lift, pos)
  BY <1>3, <1>4 DEF Travel, Ahead, Dir
<1>7. lift' = lift /\ mode' = mode /\ travelled' = TRUE
  BY DEF Travel
<1>8. Before' = pos
  BY <1>3, <1>6, <1>7 DEF Before, Ahead
<1>9. sel' <=> Zone(pos') # Zone(pos)
  BY <1>1 DEF Travel, PosInv
<1>10. sel' \in BOOLEAN
  BY DEF Travel, PosInv
<1>11. Placed(lift, Before)'
  BY <1>1, <1>7, <1>8
<1>12. Moves(lift, Before)'
  BY <1>5, <1>7, <1>8
<1>13. (sel <=> Zone(pos) # Zone(Before))'
  BY <1>8, <1>9 DEF Zone
<1> QED
  BY <1>1, <1>6, <1>7, <1>10, <1>11, <1>12, <1>13 DEF PosInv

\* It holds after power-up,
LEMMA PosInit == Init => PosInv
<1> SUFFICES ASSUME Init PROVE PosInv
  OBVIOUS
<1>1. PICK i \in Floors : pos = 4 * i + 1
  BY DEF Init
<1>2. pos \in 1..Top - 1
  BY <1>1, CallsAssumption DEF Floors, Top
<1>3. Placed(lift, pos) /\ Before = pos
  BY <1>2, BootPlaced DEF Init, Before
<1> QED
  BY <1>3 DEF Init, PosInv

\* and every step of normal service keeps it.
LEMMA PosStep ==
    LiftInv /\ PosInv /\ NormalService /\ [Next]_vars => PosInv'
<1> SUFFICES ASSUME LiftInv, PosInv, NormalService, [Next]_vars
             PROVE  PosInv'
  OBVIOUS
<1>1. ASSUME NEW in \in Off(Inputs), AutoUpdate(in) PROVE PosInv'
  BY <1>1, UpdateStepPlaces
<1>2. CASE StopIdleTimeout \/ \E in \in Off({"shk", "Estop", "ow"}) : IdleCamtTimeout(in)
  BY <1>2, TimeoutPlaces
<1>3. CASE \/ \E b \in Buttons, i \in Floors : Press(b, i)
           \/ Park
           \/ \E in \in Off({"fw"}) : Display(in)
  BY <1>3, CallsPlace
<1>4. CASE DriveStart \/ DriveStop
  BY <1>4, RunsPlace
<1>5. CASE ErsdStep
  BY <1>5, SupplyPlaces
<1>6. CASE Travel
  BY <1>6, TravelPlaces
<1>7. CASE \/ \E f \in {"stop", "pos"}, trip \in BOOLEAN : FaultRaised(f, trip)
           \/ DoorStep \/ FaultClears \/ ModeChange \/ HandButton \/ UNCHANGED vars
  BY <1>7, OthersPlace
<1>8. CASE PowerCycle
  BY <1>8, PowerPlaces
<1> QED
  BY <1>1, <1>2, <1>3, <1>4, <1>5, <1>6, <1>7, <1>8 DEF Next

\* Where the car is, and where it was.
LEMMA PosPlaces ==
    ASSUME LiftInv, PosInv
    PROVE  /\ pos \in 1..Top - 1
           /\ lift.selector_counter = Zone(Before)
           /\ lift.auto_counter \in Rest => lift.saved = lift.selector_counter
<1>1. Placed(lift, Before)
  BY DEF PosInv
<1>2. lift.selector_counter = Zone(Before) /\ Kept(lift) /\ Before \in 1..Top - 1
  BY <1>1 DEF Placed, Sited
<1>3. CASE travelled
  <2>1. Moves(lift, Before)
    BY <1>3 DEF PosInv
  <2>2. pos \in Int
    BY CallsAssumption DEF LiftInv, Top
  <2>3. pos = Ahead(lift, Before)
    BY <1>3, <2>2 DEF Before, Ahead
  <2> QED
    BY <1>1, <1>2, <2>1, <2>3, AheadPlaces DEF Kept
<1>4. CASE ~travelled
  BY <1>2, <1>4 DEF Before, Kept
<1> QED
  BY <1>3, <1>4 DEF PosInv

(* In normal service the selector shows where the car is, but for an edge that  *)
(* the next call counts, whatever happens to the drive, the doors, the supply   *)
(* and the enabling terminals and however often: each edge is counted once, in  *)
(* the direction of the run, and the direction is never chosen anew on the way  *)
(* (floor_counter.c, selector_count; auto_state.c, auto_stop_enter).            *)
THEOREM PositionKnownAlways ==
    ASSUME NormalService
    PROVE  Spec => []PositionKnown
<1>1. NormalService
  OBVIOUS
<1>2. LiftInv /\ PosInv => PositionKnown
  BY PosPlaces DEF PosInv, PositionKnown
<1>3. LiftInv /\ PosInv /\ [Next]_vars => PosInv'
  BY <1>1, PosStep
<1> QED
  BY <1>2, <1>3, PosInit, LiftInvariant, PTL DEF Spec

(* In normal service the EEPROM holds the selector of a lift that has stopped   *)
(* also after lost enables and failures of the supply: while the selector is    *)
(* right, the correction at power-up does not change it (auto_state.c,          *)
(* auto_stop_enter; floor_counter.c, dir_limit_startup).                        *)
THEOREM SavedInService ==
    ASSUME NormalService
    PROVE  Spec => []SavedWhenStopped
<1>1. NormalService
  OBVIOUS
<1>2. LiftInv /\ PosInv => SavedWhenStopped
  BY PosPlaces DEF SavedWhenStopped, Rest
<1>3. LiftInv /\ PosInv /\ [Next]_vars => PosInv'
  BY <1>1, PosStep
<1> QED
  BY <1>2, <1>3, PosInit, LiftInvariant, PTL DEF Spec

(* In normal service no final limit is met: at the ends the slow-down limits    *)
(* end the run at high speed in time, and at creep speed the car goes no        *)
(* further than the level (floor_counter.c, direction_limits_check;             *)
(* auto_state.c, auto_hspd_exit, auto_lspd_exe).                                *)
THEOREM NoOverrunAlways ==
    ASSUME NormalService
    PROVE  Spec => []NoOverrun
<1>1. NormalService
  OBVIOUS
<1>2. LiftInv /\ PosInv => NoOverrun
  <2> SUFFICES ASSUME LiftInv, PosInv PROVE NoOverrun
    OBVIOUS
  <2>1. pos \in 1..Top - 1
    BY PosPlaces
  <2> QED
    BY <2>1, CallsAssumption DEF NoOverrun, Top
<1>3. LiftInv /\ PosInv /\ [Next]_vars => PosInv'
  BY <1>1, PosStep
<1> QED
  BY <1>2, <1>3, PosInit, LiftInvariant, PTL DEF Spec

(* In normal service the car does not leave, at high speed, the level of a      *)
(* floor that is called from inside: one called when the car is already in its  *)
(* zone is not taken, one called before ends the run at high speed where the    *)
(* zone begins (auto_state.c, auto_hspd_exit; requests.c, req_scan;             *)
(* service_priority_organizer.c, get_scheduled_floor).                          *)
THEOREM NoneMissedAlways ==
    ASSUME NormalService
    PROVE  Spec => NoneMissed
<1> DEFINE Leaves == pos' # pos /\ lift.auto_counter = "hspd" =>
                       \A i \in lift.ireq : pos # 4 * i + 1
<1>1. NormalService
  OBVIOUS
<1>2. LiftInv /\ PosInv /\ [Next]_vars => PosInv'
  BY <1>1, PosStep
<1>3. PosInv /\ [Next]_vars => [Leaves]_vars
  <2> SUFFICES ASSUME PosInv, Next, pos' # pos, lift.auto_counter = "hspd",
                      NEW i \in lift.ireq, pos = 4 * i + 1
               PROVE  FALSE
    OBVIOUS
  <2>1. Travel
    <3>1. CASE DriveStart \/ DriveStop \/ ErsdStep \/ DoorStep
      BY <3>1 DEF DriveStart, DriveStop, ErsdStep, DoorStep
    <3>2. CASE FaultClears \/ ModeChange \/ HandButton \/ PowerCycle
               \/ \E f \in {"stop", "pos"}, trip \in BOOLEAN : FaultRaised(f, trip)
      BY <3>2 DEF FaultClears, ModeChange, HandButton, PowerCycle, FaultRaised
    <3>3. CASE \/ \E in \in Off(Inputs) : AutoUpdate(in)
               \/ \E in \in Off({"shk", "Estop", "ow"}) : IdleCamtTimeout(in)
               \/ \E in \in Off({"fw"}) : Display(in)
               \/ StopIdleTimeout \/ Park
               \/ \E b \in Buttons, n \in Floors : Press(b, n)
      BY <3>3 DEF AutoUpdate, IdleCamtTimeout, Display, StopIdleTimeout, Park, Press
    <3> QED
      BY <3>1, <3>2, <3>3 DEF Next
  <2>2. Placed(lift, pos)
    BY <2>1, TravelPlaces
  <2>3. i \in Int /\ pos \in 1..Top - 1 /\ lift.selector_counter = Zone(pos)
    BY <2>2 DEF Placed, Sited, Calling, Floors
  <2>4. (pos % 4) = 1 /\ pos \div 4 = i
    BY <2>3
  <2>5. infloorzone(lift) /\ get_current_floor(lift) = i
    BY <2>3, <2>4, ZoneOf
  <2>6. PassesTo(lift, lift.direction_up)
    BY <2>2, <2>5 DEF Placed, Passes
  <2> QED
    BY <2>5, <2>6 DEF PassesTo
<1> QED
  BY <1>2, <1>3, PosInit, LiftInvariant, PTL DEF Spec, NoneMissed

=============================================================================
