--------------------------------- MODULE Link ---------------------------------
(***************************************************************************)
(* Modbus and user drivers/req_io_mb_reader.c: the main loop polls the     *)
(* stations of the cabin (channel 0) and of the halls (channel 1).         *)
(*                                                                         *)
(* req_io_mb_scan_handler (80 ms) adds at most one transaction a channel   *)
(* to a table that the channels share, collects the hall calls and counts  *)
(* how long a station has been silent.  mb_handler (1 ms) sends a loaded   *)
(* transaction, waits for the reply, takes it or gives up, and loads the   *)
(* oldest transaction that waits.  Both are tasks of the main loop, so     *)
(* each is one step; in between the line delivers, loses, delays and       *)
(* garbles frames.  The scheduler catches up on missed activations, so     *)
(* either task may be called several times before the other.               *)
(*                                                                         *)
(* A station's data are one button; a frame is its sender, whether its CRC *)
(* is right, and the button.                                               *)
(***************************************************************************)
EXTENDS Naturals, FiniteSets

CONSTANTS
  MODBUS_TRANSACTION_BUFFER_MAX, \* length of transactions_buffers (4)
  reply_timeout,                 \* mb_wait_reply_timer_value of each channel (25, 30)
  time_lapse_max,                \* where time_lapse saturates (2^32 - 1)
  f_max,                         \* the highest floor
  BROADCAST_EVERY,               \* polls between two broadcasts to the halls (5)
  INTERNAL_COMM_TIMEOUT,         \* scans until a station counts as lost (500)
  Pressable                      \* the stations whose button somebody presses

Channel == {0, 1}                \* MB_CHANNEL_COUNT is 2
Quota == MODBUS_TRANSACTION_BUFFER_MAX \div 2
Slot == 0 .. MODBUS_TRANSACTION_BUFFER_MAX - 1
Floor == 0 .. f_max

\* Slave addresses: 0 is everybody, floor i's station is i + 1 and the cabin has
\* the control board CTB, 240, and the call board CCB0, 241.
Everybody == 0
Hall(i) == i + 1
CTB == 240
CCB0 == 241
Stations == [c \in Channel |-> IF c = 0 THEN {CTB, CCB0} ELSE {Hall(i) : i \in Floor}]
Station == Stations[0] \cup Stations[1]

ASSUME LinkAssumption ==
  /\ MODBUS_TRANSACTION_BUFFER_MAX \in {n \in Nat \ {0} : n % 2 = 0}
  /\ reply_timeout \in [Channel -> Nat \ {0}]
  /\ time_lapse_max \in Nat
  /\ f_max \in 0 .. 27
  /\ BROADCAST_EVERY \in Nat \ {0}
  /\ INTERNAL_COMM_TIMEOUT \in Nat
  /\ Pressable \subseteq Station

Empty == [mb_channel |-> 0, slave_add |-> 0, time_lapse |-> 0, transaction_empty |-> 1]
Nothing == [slave_add |-> 0, crc |-> FALSE, button |-> FALSE, came |-> FALSE]

VARIABLES
  transactions_buffers,                \* the table
  mb_channel_transaction_pending_count, \* how many of each channel are in it
  mb_instance,                         \* each channel: state, slave_add and timer
  rx,                                  \* the frame in mb_channel_read_frame_buff
  asked,                               \* stations whose reply is still to come
  req_mb_stage, req_mb_hall_stage, hall_broadcast, \* where the polling stands
  readout,                             \* stations whose register reads pressed
  mb_ereq,                             \* the hall calls that the lift looks at
  counter,                             \* ctb_counter and ccb0_counter
  pressed,                             \* the buttons held
  quiet                                \* history: scans since each cabin board answered

table == <<transactions_buffers, mb_channel_transaction_pending_count>>
reader == <<req_mb_stage, req_mb_hall_stage, hall_broadcast, mb_ereq>>
vars == <<table, mb_instance, rx, asked, reader, readout, counter, pressed, quiet>>

-----------------------------------------------------------------------------
Used(j) == transactions_buffers[j].transaction_empty = 0
Limit == [s \in Stations[0] |-> IF s = CTB THEN INTERNAL_COMM_TIMEOUT
                                           ELSE 2 * INTERNAL_COMM_TIMEOUT]

\* mb_init, mb_channel_init and the initial values of req_io_mb_reader.c
Init ==
  /\ transactions_buffers = [j \in Slot |-> Empty]
  /\ mb_channel_transaction_pending_count = [c \in Channel |-> 0]
  /\ mb_instance = [c \in Channel |-> [state |-> "READY_TO_LOAD", slave_add |-> 0, timer |-> 0]]
  /\ rx = [c \in Channel |-> Nothing]
  /\ asked = {}
  /\ req_mb_stage = 0
  /\ req_mb_hall_stage = 0
  /\ hall_broadcast = 0
  /\ readout = {}
  /\ mb_ereq = {}
  /\ counter = [s \in Stations[0] |-> 0]
  /\ pressed = {}
  /\ quiet = [s \in Stations[0] |-> 0]

-----------------------------------------------------------------------------
\* mb_handler.  The operators that follow give what it does with channel c, in
\* the order of its calls; no call of it looks at another channel, except that
\* mb_states_master_waiting_for_reply_handler returns at the first channel that
\* has its reply or gives up, and passes over the channels after that.

\* mb_dispatch sends a loaded transaction, points the receiver at an empty
\* buffer and starts the time-out.
Sent(c) == mb_instance[c].state = "IDLE"
Receives(c) == IF Sent(c) THEN Nothing ELSE rx[c]
Waits(c) == Sent(c) \/ mb_instance[c].state = "REPLY_WAIT"
Timer(c) == IF Sent(c) THEN reply_timeout[c] ELSE mb_instance[c].timer

Expected(c, frame) == frame.came /\ frame.slave_add = mb_instance[c].slave_add
Replied(c) == Waits(c) /\ Expected(c, Receives(c))
GaveUp(c) == Waits(c) /\ ~Replied(c) /\ Timer(c) = 1
PassedOver(c) == \E d \in Channel : d < c /\ (Replied(d) \/ GaveUp(d))

\* mb_states_master_process_reply_handler takes a reply only with a right CRC.
TakesAny(c) ==  \* mutant
  Replied(c) /\ ~PassedOver(c)

Takes(c) == Replied(c) /\ ~PassedOver(c) /\ Receives(c).crc

\* After the reply or without one the channel is ready in the same call; what
\* it keeps of the transaction is not read again.
Ready(c) ==
  \/ mb_instance[c].state = "READY_TO_LOAD"
  \/ ~PassedOver(c) /\ (Replied(c) \/ GaveUp(c))

\* mb_load_handler: the oldest of the channel's transactions, the last of the
\* table's where several are as old.
Aged(t) == IF t.transaction_empty = 0 /\ t.time_lapse < time_lapse_max
           THEN [t EXCEPT !.time_lapse = @ + 1] ELSE t

SelectedOfAny(c) ==  \* mutant
  {j \in Slot : Used(j) /\ \A k \in Slot : Used(k) => transactions_buffers[k].time_lapse
                                                    <= transactions_buffers[j].time_lapse}

Selected(c) ==
  LET mine == {j \in Slot : Used(j) /\ transactions_buffers[j].mb_channel = c}
      age(j) == Aged(transactions_buffers[j]).time_lapse
  IN  {j \in mine : \A k \in mine : age(k) < age(j) \/ (age(k) = age(j) /\ k <= j)}

Loads(c) == Ready(c) /\ mb_channel_transaction_pending_count[c] > 0 /\ Selected(c) # {}
Loaded(c) == IF Loads(c) THEN Selected(c) ELSE {}

\* mb_read_ireg_master_slave_res stores in the register that the transaction
\* names, and req_io_internal_reply_sub hears of every reply of the cabin.
Stored ==
  LET taken == {c \in Channel : Takes(c)}
      named(c) == mb_instance[c].slave_add
  IN  {s \in Station : \/ \E c \in taken : named(c) = s /\ Receives(c).button
                       \/ s \in readout /\ (\A c \in taken : named(c) # s)}

HeardOfUnchecked(s) == Replied(0) /\ Receives(0).slave_add = s  \* mutant
HeardOf(s) == Takes(0) /\ Receives(0).slave_add = s

mb_handler ==
  /\ mb_instance' =
       [c \in Channel |->
          IF Loads(c)
          THEN [state |-> "IDLE", timer |-> 0,
                slave_add |-> transactions_buffers[CHOOSE j \in Selected(c) : TRUE].slave_add]
          ELSE IF Ready(c)
          THEN [state |-> "READY_TO_LOAD", timer |-> 0, slave_add |-> 0]
          ELSE [state |-> "REPLY_WAIT", slave_add |-> mb_instance[c].slave_add,
                timer |-> IF PassedOver(c) THEN Timer(c) ELSE Timer(c) - 1]]
  /\ rx' = [c \in Channel |->
              IF PassedOver(c) /\ ~Ready(c) THEN Receives(c) ELSE Nothing]
  /\ asked' = (asked \cup {mb_instance[c].slave_add : c \in {d \in Channel : Sent(d)}})
                 \ {Everybody}
  /\ readout' = Stored
  /\ counter' = [s \in Stations[0] |-> IF HeardOf(s) THEN 0 ELSE counter[s]]
  /\ transactions_buffers' =
       [j \in Slot |-> IF \E c \in Channel : j \in Loaded(c) THEN Empty
                                             ELSE Aged(transactions_buffers[j])]
  /\ mb_channel_transaction_pending_count' =
       [c \in Channel |-> IF Loads(c) THEN mb_channel_transaction_pending_count[c] - 1
                                      ELSE mb_channel_transaction_pending_count[c]]
  /\ UNCHANGED <<reader, pressed, quiet>>

-----------------------------------------------------------------------------
\* mb_add_transaction: the table as b = [slots, pending] after a call of it.
HasQuota(b, c) == b.pending[c] < Quota
FreeSlots(b) == {j \in Slot : b.slots[j].transaction_empty = 1}
Accepts(b, c) == HasQuota(b, c) /\ FreeSlots(b) # {}
First(free) == CHOOSE j \in free : \A k \in free : j <= k

mb_add_transaction(b, c, slave) ==
  IF ~Accepts(b, c) THEN b
  ELSE [slots   |-> [b.slots EXCEPT ![First(FreeSlots(b))] =
                       [mb_channel |-> c, slave_add |-> slave,
                        time_lapse |-> 0, transaction_empty |-> 0]],
        pending |-> [b.pending EXCEPT ![c] = @ + 1]]

Table == [slots |-> transactions_buffers, pending |-> mb_channel_transaction_pending_count]

\* req_io_mb_cabin_handler: the control board, a broadcast, the call board.
CabinSlave == CASE req_mb_stage = 0 -> CTB [] req_mb_stage = 1 -> Everybody [] OTHER -> CCB0
AfterCabin == mb_add_transaction(Table, 0, CabinSlave)

\* req_io_mb_hall_handler: at some stages a broadcast, before it the calls are
\* collected; else the next floor, and after the last one nothing for once.
Broadcasts == req_mb_hall_stage % BROADCAST_EVERY = 0 /\ hall_broadcast = 1
Polls == ~Broadcasts /\ req_mb_hall_stage <= f_max
AfterHall ==
  IF Broadcasts THEN mb_add_transaction(AfterCabin, 1, Everybody)
  ELSE IF Polls THEN mb_add_transaction(AfterCabin, 1, Hall(req_mb_hall_stage))
  ELSE AfterCabin

HallStageAnyhow ==  \* mutant
  CASE Broadcasts -> req_mb_hall_stage
    [] Polls -> req_mb_hall_stage + 1
    [] OTHER -> 0

HallStage ==
  CASE Broadcasts -> req_mb_hall_stage
    [] Polls -> IF Accepts(AfterCabin, 1) THEN req_mb_hall_stage + 1 ELSE req_mb_hall_stage
    [] OTHER -> 0

\* req_io_mb_get_ereq: the readings become the calls, and are cleared.
Collected ==
  IF Broadcasts
  THEN mb_ereq' = {i \in Floor : Hall(i) \in readout}
  ELSE UNCHANGED mb_ereq

\* comm_loss_monitor: a station that is silent for too long sets its fault
\* (Faults), unless the lift is under maintenance; the inputs of the control
\* board read as none even so.
ClearedNever(s) == FALSE  \* mutant
Cleared(s) == Broadcasts /\ s \in Stations[1]
Silent(s) == counter[s] >= Limit[s]

\* A reply of the cabin board s lies in the receiver and waits for mb_handler
\* to take it.
Pending(s) ==
  /\ mb_instance[0].state = "REPLY_WAIT" /\ mb_instance[0].slave_add = s
  /\ rx[0].came /\ rx[0].crc /\ rx[0].slave_add = s

req_io_mb_scan_handler ==
  /\ transactions_buffers' = AfterHall.slots
  /\ mb_channel_transaction_pending_count' = AfterHall.pending
  /\ req_mb_stage' = IF Accepts(Table, 0) THEN (req_mb_stage + 1) % 3 ELSE req_mb_stage
  /\ req_mb_hall_stage' = HallStage
  /\ hall_broadcast' =
       IF (Broadcasts \/ Polls) /\ Accepts(AfterCabin, 1)
       THEN (IF Broadcasts THEN 0 ELSE 1) ELSE hall_broadcast
  /\ Collected
  /\ readout' = {s \in readout : (s = CTB => ~Silent(CTB)) /\ ~Cleared(s)}
  /\ counter' = [s \in Stations[0] |-> IF Silent(s) THEN counter[s] ELSE counter[s] + 1]
  /\ quiet' = [s \in Stations[0] |->
                 IF Pending(s) \/ quiet[s] > Limit[s] THEN quiet[s] ELSE quiet[s] + 1]
  /\ UNCHANGED <<mb_instance, rx, asked, pressed>>

-----------------------------------------------------------------------------
\* The line and the people; the receiver keeps what came first.
ChannelOf(s) == IF s \in Stations[0] THEN 0 ELSE 1

Arrives(c, frame) ==
  IF mb_instance[c].state = "REPLY_WAIT" /\ ~rx[c].came
  THEN rx' = [rx EXCEPT ![c] = frame] ELSE UNCHANGED rx

\* A station answers, at once or long after it was asked.
Answer(s) ==
  /\ s \in asked
  /\ asked' = asked \ {s}
  /\ Arrives(ChannelOf(s), [slave_add |-> s, crc |-> TRUE, button |-> s \in pressed,
                            came |-> TRUE])
  /\ quiet' = IF s \in Stations[0] /\ rx' # rx /\ mb_instance[0].slave_add = s
              THEN [quiet EXCEPT ![s] = 0] ELSE quiet
  /\ UNCHANGED <<table, mb_instance, reader, readout, counter, pressed>>

\* The question or the answer is lost.
Lose(s) ==
  /\ s \in asked
  /\ asked' = asked \ {s}
  /\ UNCHANGED <<table, mb_instance, rx, reader, readout, counter, pressed, quiet>>

\* The answer is garbled: its address passes for the expected one (a
\* frame with another address is ignored) and its data may be anything.
Garble(s) ==
  /\ s \in asked
  /\ asked' = asked \ {s}
  /\ LET c == ChannelOf(s)
     IN  Arrives(c, [slave_add |-> mb_instance[c].slave_add, crc |-> FALSE, button |-> TRUE,
                     came |-> TRUE])
  /\ UNCHANGED <<table, mb_instance, reader, readout, counter, pressed, quiet>>

Press(s) ==
  /\ s \in Pressable
  /\ pressed' = IF s \in pressed THEN pressed \ {s} ELSE pressed \cup {s}
  /\ UNCHANGED <<table, mb_instance, rx, asked, reader, readout, counter, quiet>>

Next ==
  \/ mb_handler
  \/ req_io_mb_scan_handler
  \/ \E s \in Station : Answer(s) \/ Lose(s) \/ Garble(s) \/ Press(s)

Spec == Init /\ [][Next]_vars

\* The scheduler calls both tasks again and again; nothing is assumed of the
\* line, the stations and the people.
FairSpec == Spec /\ WF_vars(mb_handler) /\ WF_vars(req_io_mb_scan_handler)

-----------------------------------------------------------------------------
\* The counts agree with the table, so a channel is refused only when its own
\* transactions fill its quota: silent stations of one channel never block the
\* other (mb_add_transaction tests the count and then looks for a free slot).
QuotaExact ==
  \A c \in Channel :
    LET mine == {j \in Slot : Used(j) /\ transactions_buffers[j].mb_channel = c}
    IN  /\ mb_channel_transaction_pending_count[c] = Cardinality(mine)
        /\ HasQuota(Table, c) => FreeSlots(Table) # {}

\* Late answers, answers of other stations and garbled ones never become a call
\* or an input of the cabin at a place where nobody presses.
NoPhantomCall ==
  /\ readout \subseteq Pressable
  /\ \A i \in mb_ereq : Hall(i) \in Pressable

\* The counters that declare a cabin board lost measure how long it has been
\* silent, whatever else comes on the line, and its inputs are not used for
\* longer than that.
SilenceMeasured ==
  /\ \A s \in Stations[0] : ~Pending(s) =>
       counter[s] = IF quiet[s] > Limit[s] THEN Limit[s] ELSE quiet[s]
  /\ CTB \in readout => quiet[CTB] <= INTERNAL_COMM_TIMEOUT

\* A hall button held down reaches the lift if its station answers in time when
\* it is asked often enough, although other stations are silent and the table is
\* full again and again (req_io_mb_hall_handler asks again where it was refused).
InTime(s) == Answer(s) /\ rx' # rx /\ mb_instance[ChannelOf(s)].slave_add = s

CallHeard ==
  \A i \in Floor : Hall(i) \in Pressable /\ SF_vars(InTime(Hall(i))) =>
                     (Hall(i) \in pressed ~> i \in mb_ereq \/ Hall(i) \notin pressed)

\* A released call goes away, also when its station falls silent before the
\* release is read.
CallForgotten == \A i \in Floor : []<>(i \notin mb_ereq \/ Hall(i) \in pressed)
=============================================================================
