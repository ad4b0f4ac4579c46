------------------------------- MODULE Calls -------------------------------
(* The calls of a lift and the choice of the next floor                       *)
(* (Lift/components/requests.c, service_priority_organizer.c), with the       *)
(* selector that counts floors.  The bit masks ireq, ereq and eereq are sets  *)
(* of floors.  What a function of the code does to its global variables is an *)
(* operator on the record c that holds them: the main loop runs one call at   *)
(* a time and no interrupt writes these variables.                            *)
EXTENDS Integers, FiniteSetsExt

CONSTANTS
    f_max,      \* the top floor, m_floor_count; floors count from 0
    collect     \* m_collection: 0 and 1 collect on the way down, 2 both ways

ASSUME CallsAssumption == f_max \in Nat \ {0} /\ collect \in 0..2

Floors == 0..f_max
NoFloor == -1
\* all_coll can end without a return: r0 then holds an address, which is no
\* floor and not -1 (listing, 40157e).
NotAFloor == f_max + 1
\* down_coll would jump back and forth for ever.
Endless == -2

get_current_floor(c) == c.selector_counter \div 2
infloorzone(c) == c.selector_counter % 2 = 0

----------------------------------------------------------------------------
(* The next floor to serve.                                                   *)
get_lowest_floor(S) == IF S = {} THEN NoFloor ELSE Min(S)
get_highest_floor(S) == IF S = {} THEN NoFloor ELSE Max(S)
\* the floor the car passes is left out (a mutant)
NearestBeyond(c, up, S) ==
    IF up THEN get_lowest_floor({i \in S : i > get_current_floor(c)})
          ELSE get_highest_floor({i \in S : i < get_current_floor(c)})
get_nearest_floor(c, up, S) ==
    IF up THEN get_lowest_floor({i \in S : i >= get_current_floor(c)})
          ELSE get_highest_floor({i \in S : i <= get_current_floor(c)})

\* the first that is not NoFloor
Or(f, g) == IF f # NoFloor THEN f ELSE g
Going(f, c, up) == [floor |-> f, c |-> [c EXCEPT !.direction_up = up]]

drop_all_req(c) == [c EXCEPT !.ireq = {}, !.ereq = {}, !.eereq = {}]

\* up: car calls on the way, else the highest call if there is a hall call;
\* down: every call on the way; full weight (fw) leaves out hall calls upwards
down_coll(c, fw) ==
    LET int == get_nearest_floor(c, TRUE, c.ireq)
        ext == IF fw THEN NoFloor ELSE get_nearest_floor(c, TRUE, c.ereq)
        above == Or(int, IF ext = NoFloor THEN NoFloor
                         ELSE get_highest_floor(c.ireq \cup c.ereq))
        below == get_nearest_floor(c, FALSE, c.ireq \cup c.ereq)
        moving == c.auto_counter \in {"hspd", "lspd"}
    IN IF get_current_floor(c) > f_max
       THEN [floor |-> NoFloor, c |-> drop_all_req([c EXCEPT !.selector_counter = 0])]
       ELSE IF c.ireq \cup c.ereq = {} \/ (fw /\ c.ireq = {})
       THEN Going(NoFloor, c, c.direction_up)
       ELSE IF c.direction_up /\ above # NoFloor THEN Going(above, c, TRUE)
       ELSE IF ~c.direction_up /\ below # NoFloor THEN Going(below, c, FALSE)
       ELSE IF moving THEN Going(NoFloor, c, c.direction_up)
       ELSE IF below # NoFloor THEN Going(below, c, FALSE)
       ELSE IF above # NoFloor THEN Going(above, c, TRUE)
       ELSE Going(Endless, c, c.direction_up)

\* the car turns round while it stops, as in down_coll (a mutant)
MotionWithoutStopping(c) == c.auto_counter \in {"hspd", "lspd"}
\* states in which all_coll does not turn round
in_motion(c) == c.auto_counter \in {"hspd", "lspd", "stopping"}

\* both ways: the calls for the direction, else the farthest for the other one
all_coll(c, fw) ==
    LET ext == get_highest_floor(c.ereq)
        eext == get_lowest_floor(c.eereq)
        above == IF fw THEN get_nearest_floor(c, TRUE, c.ireq)
                 ELSE Or(get_nearest_floor(c, TRUE, c.ireq \cup c.eereq),
                         IF ext < get_current_floor(c) THEN NoFloor ELSE ext)
        below == IF fw THEN get_nearest_floor(c, FALSE, c.ireq)
                 ELSE Or(get_nearest_floor(c, FALSE, c.ireq \cup c.ereq),
                         IF eext > get_current_floor(c) THEN NoFloor ELSE eext)
    IN IF c.ireq = {} /\ (fw \/ c.ereq \cup c.eereq = {})
       THEN Going(NoFloor, c, c.direction_up)
       ELSE IF c.direction_up /\ above # NoFloor THEN Going(above, c, TRUE)
       ELSE IF c.direction_up /\ in_motion(c) THEN Going(NoFloor, c, TRUE)
       ELSE IF below # NoFloor THEN Going(below, c, FALSE)
       ELSE IF in_motion(c) THEN Going(NoFloor, c, c.direction_up)
       ELSE Going(NotAFloor, c, TRUE)

get_scheduled_floor(c, fw) == IF collect = 2 THEN all_coll(c, fw) ELSE down_coll(c, fw)

----------------------------------------------------------------------------
(* Inserting and dropping calls.                                              *)
Calls(c) == c.ireq \cup c.ereq \cup c.eereq

\* the hall calls of both directions stay (a mutant)
DropKeepsHallCalls(c, f) ==
    IF collect = 2 /\ f \notin {0, f_max} /\ Calls(c) \ {f} # {}
    THEN [c EXCEPT !.ireq = @ \ {f}]
    ELSE [c EXCEPT !.ireq = @ \ {f}, !.ereq = @ \ {f}, !.eereq = @ \ {f}]
\* arrival at floor f: collecting both ways, the hall call for the direction
\* the car does not take stays while there is a call further on
drop_req(c, f) ==
    LET further == IF c.direction_up THEN {i \in Calls(c) \ {f} : i > f}
                                     ELSE {i \in Calls(c) \ {f} : i < f}
        keep == collect = 2 /\ f \notin {0, f_max} /\ further # {}
    IN [c EXCEPT !.ireq = @ \ {f},
                 !.ereq = IF keep /\ c.direction_up THEN @ ELSE @ \ {f},
                 !.eereq = IF keep /\ ~c.direction_up THEN @ ELSE @ \ {f}]

\* a car at high speed without a floor to serve takes the next one
pos_next_floor(c) ==
    LET f == get_current_floor(c)
        next == IF c.direction_up THEN IF f < f_max THEN f + 1 ELSE f_max
                ELSE IF infloorzone(c) /\ f > 0 THEN f - 1 ELSE f
    IN IF c.auto_counter # "hspd" THEN c
       ELSE [c EXCEPT !.ireq = {next}, !.ereq = {}]

\* Calls and inputs of the stations: inside, in the hall down, in the hall up.
Buttons == {"i", "e", "ee"}
auto_reopen_door(c) == [c EXCEPT !.cf_press = @ \/ c.auto_counter = "idle"]

\* one pass of req_scan that finds button b of floor i pressed
req_scan(c, b, i) ==
    LET here == i = get_current_floor(c)
    IN IF ~c.req_enabled \/ (b = "ee" /\ collect # 2) THEN c
       ELSE IF b = "i" THEN [c EXCEPT !.ireq = IF here THEN @ ELSE @ \cup {i}]
       ELSE IF b = "e" THEN IF here \/ (collect = 2 /\ i = 0) THEN auto_reopen_door(c)
                            ELSE [c EXCEPT !.ereq = @ \cup {i}]
       ELSE IF here \/ i = f_max THEN auto_reopen_door(c)
       ELSE [c EXCEPT !.eereq = @ \cup {i}]

\* the car has stood idle for the parking time without a call
parking_check(c, parking_floor) ==
    IF /\ c.req_enabled /\ Calls(c) = {} /\ c.auto_counter = "idle"
       /\ get_current_floor(c) # parking_floor /\ parking_floor < f_max
    THEN [c EXCEPT !.ireq = @ \cup {parking_floor}]
    ELSE c
=============================================================================
