------------------------------ MODULE LinkProofs ------------------------------
(* Proofs about Link for every length of the table, number of floors, limit  *)
(* and set of stations whose button is pressed.                              *)
EXTENDS Link, FiniteSetTheorems, WellFoundedInduction, TLAPS

\* The types of a transaction and of a frame.
transaction_t ==
  [mb_channel : Channel, slave_add : Station \cup {Everybody},
   time_lapse : 0 .. time_lapse_max, transaction_empty : {0, 1}]
frame_t == [slave_add : Station \cup {Everybody}, crc : BOOLEAN, button : BOOLEAN, came : BOOLEAN]

\* The slots that hold a transaction of channel c.
Mine(slots, c) == {j \in Slot : slots[j].transaction_empty = 0 /\ slots[j].mb_channel = c}

\* A table b = [slots, pending] is good: each transaction names a station of its
\* channel or everybody, and the counts are those of the slots.
Ours(c) == Stations[c] \cup {Everybody}
Slots(slots) ==
  /\ slots \in [Slot -> transaction_t]
  /\ \A j \in Slot : slots[j].transaction_empty = 0 => slots[j].slave_add \in Ours(slots[j].mb_channel)
Counts(b) ==
  /\ b.pending \in [Channel -> 0 .. Quota]
  /\ \A c \in Channel : b.pending[c] = Cardinality(Mine(b.slots, c))
Good(b) == Slots(b.slots) /\ Counts(b)

\* A set of slots with a member has a first one.
LEMMA FirstIsMember ==
  ASSUME NEW free, free \subseteq Slot, free # {}
  PROVE  First(free) \in free
<1>1. free \subseteq Nat
  BY LinkAssumption DEF Slot, LinkAssumption
<1>2. \E j \in free : \A k \in free : ~(<<k, j>> \in OpToRel(<, Nat))
  BY <1>1, NatLessThanWellFounded, WFMin
<1>3. ASSUME NEW x \in Nat, NEW y \in Nat, x < y PROVE <<x, y>> \in OpToRel(<, Nat)
  BY <1>3 DEF OpToRel
<1>4. PICK j \in free : \A k \in free : ~(<<k, j>> \in OpToRel(<, Nat))
  BY <1>2
<1>5. \A k \in free : ~(k < j)
  BY <1>1, <1>3, <1>4
<1>6. \E i \in free : \A k \in free : i <= k
  BY <1>1, <1>5
<1> QED
  BY <1>6 DEF First

\* The slots are finitely many.
LEMMA FiniteSlots ==
  /\ IsFiniteSet(Slot) /\ Cardinality(Slot) = MODBUS_TRANSACTION_BUFFER_MAX
  /\ \A S \in SUBSET Slot : IsFiniteSet(S) /\ Cardinality(S) \in Nat
<1>1. IsFiniteSet(Slot) /\ Cardinality(Slot) = MODBUS_TRANSACTION_BUFFER_MAX
  BY FS_Interval, LinkAssumption DEF Slot, LinkAssumption
<1> QED
  BY <1>1, FS_Subset, FS_CardinalityType

\* The quota of a channel is half of the table.
LEMMA QuotaHalf == Quota \in Nat /\ 2 * Quota = MODBUS_TRANSACTION_BUFFER_MAX
  BY LinkAssumption DEF Quota, LinkAssumption

\* Adding a transaction of channel c keeps a table good.
LEMMA AddKeeps ==
  ASSUME NEW b, Good(b), NEW c \in Channel, NEW slave \in Ours(c)
  PROVE  Good(mb_add_transaction(b, c, slave))
<1>1. CASE ~Accepts(b, c)
  BY <1>1 DEF mb_add_transaction
<1>2. CASE Accepts(b, c)
  <2> DEFINE f == First(FreeSlots(b))
             t == [mb_channel |-> c, slave_add |-> slave,
                   time_lapse |-> 0, transaction_empty |-> 0]
             s == [b.slots EXCEPT ![f] = t]
             p == [b.pending EXCEPT ![c] = @ + 1]
  <2>1. f \in Slot /\ b.slots[f].transaction_empty = 1
    BY <1>2, FirstIsMember DEF Accepts, FreeSlots
  <2>2. Slots(s)
    <3>1. t \in transaction_t
      BY LinkAssumption DEF transaction_t, Ours, Station, Channel, LinkAssumption
    <3> QED
      BY <2>1, <3>1 DEF Good, Slots
  <2>3. Mine(s, c) = Mine(b.slots, c) \cup {f}
    BY <2>1 DEF Good, Slots, Mine
  <2>4. f \notin Mine(b.slots, c)
    BY <2>1 DEF Mine
  <2>5. \A d \in Channel : d # c => Mine(s, d) = Mine(b.slots, d)
    BY <2>1 DEF Good, Slots, Mine
  <2>6. Cardinality(Mine(s, c)) = Cardinality(Mine(b.slots, c)) + 1
    BY <2>3, <2>4, FS_AddElement, FiniteSlots DEF Mine
  <2>7. p \in [Channel -> 0 .. Quota] /\ \A d \in Channel : p[d] = Cardinality(Mine(s, d))
    BY <1>2, <2>5, <2>6, QuotaHalf DEF Good, Counts, Accepts, HasQuota
  <2>8. mb_add_transaction(b, c, slave) = [slots |-> s, pending |-> p]
    BY <1>2 DEF mb_add_transaction
  <2> QED
    BY <2>2, <2>7, <2>8 DEF Good, Counts
<1> QED
  BY <1>1, <1>2

\* The age of a slot at the end of a call of mb_handler is a number.
Age(j) == Aged(transactions_buffers[j]).time_lapse

LEMMA AgedTyped ==
  ASSUME NEW t \in transaction_t
  PROVE  /\ Aged(t) \in transaction_t
         /\ Aged(t).mb_channel = t.mb_channel /\ Aged(t).slave_add = t.slave_add
         /\ Aged(t).transaction_empty = t.transaction_empty
  BY LinkAssumption DEF Aged, transaction_t, LinkAssumption

\* At most one transaction of a channel is the oldest.
LEMMA OldestUnique ==
  ASSUME Slots(transactions_buffers), NEW c \in Channel,
         NEW j \in Selected(c), NEW k \in Selected(c)
  PROVE  j = k
<1>1. /\ j \in Slot /\ k \in Slot
      /\ Age(k) < Age(j) \/ (Age(k) = Age(j) /\ k <= j)
      /\ Age(j) < Age(k) \/ (Age(j) = Age(k) /\ j <= k)
  BY DEF Selected, Age
<1>2. j \in Int /\ k \in Int
  BY <1>1, LinkAssumption DEF Slot, LinkAssumption
<1>3. Age(j) \in Int /\ Age(k) \in Int
  <2>1. \A i \in Slot : Aged(transactions_buffers[i]) \in transaction_t
    BY AgedTyped DEF Slots
  <2> QED
    BY <1>1, <2>1, LinkAssumption DEF Age, transaction_t, LinkAssumption
<1> QED
  BY <1>1, <1>2, <1>3

LEMMA SelectedMine ==
  ASSUME NEW c \in Channel
  PROVE  Selected(c) \subseteq Mine(transactions_buffers, c)
  BY DEF Selected, Mine, Used

\* mb_handler takes one transaction of a channel that it loads out of the table.
LEMMA HandlerKeepsTable ==
  ASSUME Good(Table), mb_handler
  PROVE  Good(Table')
<1> DEFINE tb == transactions_buffers
           pc == mb_channel_transaction_pending_count
<1>0. Slots(tb) /\ Counts(Table)
  BY DEF Good, Table
<1>1. \A j \in Slot : /\ tb[j] \in transaction_t /\ Aged(tb[j]) \in transaction_t
                      /\ Aged(tb[j]).mb_channel = tb[j].mb_channel
                      /\ Aged(tb[j]).slave_add = tb[j].slave_add
                      /\ Aged(tb[j]).transaction_empty = tb[j].transaction_empty
  BY <1>0, AgedTyped DEF Slots
<1>2. Empty \in transaction_t /\ Empty.transaction_empty = 1
  BY LinkAssumption DEF Empty, transaction_t, Channel, Everybody, LinkAssumption
<1>3. tb' = [j \in Slot |-> IF \E c \in Channel : j \in Loaded(c) THEN Empty ELSE Aged(tb[j])]
  BY DEF mb_handler
<1>4. Slots(tb')
  BY <1>0, <1>1, <1>2, <1>3 DEF Slots
<1>5. ASSUME NEW c \in Channel PROVE Mine(tb', c) = Mine(tb, c) \ Loaded(c)
  <2>1. \A d \in Channel : Loaded(d) \subseteq Mine(tb, d)
    BY SelectedMine DEF Loaded
  <2>2. \A j \in Mine(tb, c) : (\E d \in Channel : j \in Loaded(d)) <=> j \in Loaded(c)
    BY <2>1 DEF Mine
  <2>3. \A j \in Slot : j \in Mine(tb', c) <=>
                         j \in Mine(tb, c) /\ ~\E d \in Channel : j \in Loaded(d)
    BY <1>1, <1>2, <1>3 DEF Mine
  <2>4. Mine(tb, c) \subseteq Slot /\ Mine(tb', c) \subseteq Slot
    BY DEF Mine
  <2> QED
    BY <2>2, <2>3, <2>4
<1>6. ASSUME NEW c \in Channel
      PROVE  pc'[c] = Cardinality(Mine(tb', c)) /\ pc'[c] \in 0 .. Quota
  <2>1. pc[c] = Cardinality(Mine(tb, c)) /\ pc[c] \in 0 .. Quota
    BY <1>0 DEF Counts, Table
  <2>2. CASE Loads(c)
    <3>1. PICK j : j \in Selected(c)
      BY <2>2 DEF Loads
    <3>2. Loaded(c) = {j} /\ j \in Mine(tb, c)
      BY <1>0, <2>2, <3>1, OldestUnique, SelectedMine DEF Loaded
    <3>3. Cardinality(Mine(tb, c) \ {j}) = Cardinality(Mine(tb, c)) - 1
      BY <3>2, FS_RemoveElement, FiniteSlots DEF Mine
    <3>4. pc'[c] = pc[c] - 1 /\ pc[c] > 0
      BY <2>2 DEF mb_handler, Loads
    <3>5. Cardinality(Mine(tb', c)) = pc[c] - 1
      BY <1>5, <2>1, <3>2, <3>3
    <3>6. pc[c] - 1 \in 0 .. Quota
      BY <2>1, <3>4, QuotaHalf
    <3> QED
      BY <3>4, <3>5, <3>6
  <2>3. CASE ~Loads(c)
    <3>1. Mine(tb', c) = Mine(tb, c)
      BY <1>5, <2>3 DEF Loaded
    <3>2. pc'[c] = pc[c]
      BY <2>3 DEF mb_handler
    <3> QED
      BY <2>1, <3>1, <3>2
  <2> QED
    BY <2>2, <2>3
<1>7. pc' \in [Channel -> 0 .. Quota]
  BY <1>6 DEF mb_handler
<1>8. Counts(Table')
  BY <1>6, <1>7 DEF Counts, Table
<1> QED
  BY <1>4, <1>8 DEF Good, Table

\* The scan adds a transaction of the cabin and one of the halls.
LEMMA ScanKeepsTable ==
  ASSUME Good(Table), req_io_mb_scan_handler, req_mb_hall_stage \in Nat
  PROVE  Good(Table')
<1>1. CabinSlave \in Ours(0)
  BY DEF CabinSlave, Ours, Stations, Channel
<1>2. Good(AfterCabin)
  BY <1>1, AddKeeps DEF AfterCabin, Channel
<1>3. Good(AfterHall)
  <2>1. CASE Broadcasts
    <3>1. Everybody \in Ours(1)
      BY DEF Ours
    <3> QED
      BY <1>2, <2>1, <3>1, AddKeeps DEF AfterHall, Channel
  <2>2. CASE Polls
    <3>1. Hall(req_mb_hall_stage) \in Ours(1)
      BY <2>2, LinkAssumption DEF Ours, Stations, Channel, Polls, Floor, LinkAssumption
    <3>2. ~Broadcasts
      BY <2>2 DEF Polls
    <3> QED
      BY <1>2, <2>2, <3>1, <3>2, AddKeeps DEF AfterHall, Channel
  <2> QED
    BY <1>2, <2>1, <2>2 DEF AfterHall
<1> QED
  BY <1>3 DEF req_io_mb_scan_handler, Good, Table, Slots, Counts

-----------------------------------------------------------------------------
\* The inductive invariant: beside the table, what each channel waits for is a
\* station of its own, a frame with a right CRC bears its own sender's data ...
Instances ==
  \A c \in Channel : mb_instance[c].slave_add \in Ours(c)

Genuine ==
  /\ pressed \subseteq Pressable
  /\ \A c \in Channel : rx[c].crc /\ rx[c].button => rx[c].slave_add \in Pressable

\* ... a reply of a cabin board that waits to be taken has come since the last
\* scan that counted its silence, and any other board's silence is counted.
Measured ==
  \A s \in Stations[0] :
    /\ counter[s] \in 0 .. Limit[s] /\ quiet[s] \in Nat
    /\ IF Pending(s) THEN quiet[s] = 0
       ELSE counter[s] = IF quiet[s] > Limit[s] THEN Limit[s] ELSE quiet[s]

Fresh == CTB \in readout => quiet[CTB] <= INTERNAL_COMM_TIMEOUT

Typed ==
  /\ mb_instance \in [Channel -> [state : {"READY_TO_LOAD", "IDLE", "REPLY_WAIT"},
                                  slave_add : Station \cup {Everybody}, timer : Int]]
  /\ rx \in [Channel -> frame_t]
  /\ asked \subseteq Station
  /\ req_mb_hall_stage \in Nat
  /\ quiet \in [Stations[0] -> Nat]

Inv ==
  Good(Table) /\ Typed /\ Instances /\ Genuine /\ Measured /\ Fresh /\ NoPhantomCall

\* The addresses of the two channels are different.
LEMMA Addresses ==
  /\ Stations[0] = {CTB, CCB0} /\ Stations[1] = {Hall(i) : i \in Floor}
  /\ Stations[0] \cap Stations[1] = {} /\ Everybody \notin Station
  /\ CTB # CCB0
  /\ Limit[CTB] = INTERNAL_COMM_TIMEOUT /\ Limit[CCB0] = 2 * INTERNAL_COMM_TIMEOUT
  /\ INTERNAL_COMM_TIMEOUT \in Nat
<1>1. /\ Stations[0] = {CTB, CCB0} /\ Stations[1] = {Hall(i) : i \in Floor}
      /\ Station = Stations[0] \cup Stations[1]
  BY DEF Stations, Channel, Station
<1>2. \A i \in Floor : Hall(i) # 0 /\ Hall(i) # 240 /\ Hall(i) # 241
  BY LinkAssumption DEF Hall, Floor, LinkAssumption
<1> QED
  BY <1>1, <1>2, LinkAssumption DEF CTB, CCB0, Everybody, Limit, LinkAssumption

\* It holds at the start.
LEMMA InitInv == Init => Inv
<1> SUFFICES ASSUME Init PROVE Inv
  OBVIOUS
<1>1. Good(Table)
  <2>1. Empty \in transaction_t /\ Empty.transaction_empty = 1
    BY LinkAssumption DEF Empty, transaction_t, Channel, Everybody, LinkAssumption
  <2>2. \A c \in Channel : Mine(transactions_buffers, c) = {}
    BY <2>1 DEF Init, Mine
  <2> QED
    BY <2>1, <2>2, FS_EmptySet, QuotaHalf DEF Init, Good, Slots, Counts, Table
<1>2. Typed /\ Instances /\ Genuine /\ Fresh /\ NoPhantomCall
  BY DEF Init, Typed, Instances, Genuine, Fresh, NoPhantomCall, frame_t, Nothing, Ours, Everybody
<1>3. Measured
  <2>1. \A s \in Stations[0] : ~Pending(s)
    BY Addresses DEF Init, Pending, Nothing, Channel
  <2> QED
    BY <2>1, Addresses DEF Init, Measured
<1> QED
  BY <1>1, <1>2, <1>3 DEF Inv

\* A reply of a cabin board that mb_handler takes is one that waits.
LEMMA HeardIsPending ==
  ASSUME NEW s \in Stations[0]
  PROVE  HeardOf(s) <=> Pending(s)
<1>1. ~PassedOver(0)
  BY DEF PassedOver, Channel
<1>2. Pending(s) <=> /\ mb_instance[0].state = "REPLY_WAIT" /\ rx[0].came /\ rx[0].crc
                     /\ rx[0].slave_add = s /\ mb_instance[0].slave_add = s
  BY DEF Pending
<1> QED
  BY <1>1, <1>2 DEF HeardOf, Takes, Replied, Waits, Expected, Receives, Sent, Nothing

\* What mb_handler takes was in the receiver before the call.
LEMMA TakenIsGenuine ==
  ASSUME NEW c \in Channel, Takes(c), Receives(c).button, Genuine
  PROVE  mb_instance[c].slave_add \in Pressable
<1>1. Receives(c).came /\ Receives(c).crc /\ Receives(c).slave_add = mb_instance[c].slave_add
  BY DEF Takes, Replied, Expected
<1>2. Receives(c) = rx[c]
  BY <1>1 DEF Receives, Nothing
<1> QED
  BY <1>1, <1>2 DEF Genuine

LEMMA HandlerTyped ==
  ASSUME Inv, mb_handler
  PROVE  Typed' /\ Instances'
<1>1. ASSUME NEW c \in Channel, Loads(c)
      PROVE  transactions_buffers[CHOOSE j \in Selected(c) : TRUE].slave_add \in Ours(c)
  <2>1. (CHOOSE j \in Selected(c) : TRUE) \in Mine(transactions_buffers, c)
    BY <1>1, SelectedMine DEF Loads
  <2> QED
    BY <2>1 DEF Inv, Good, Table, Slots, Mine
<1>2. \A c \in Channel : mb_instance'[c].slave_add \in Ours(c)
  BY <1>1 DEF mb_handler, Inv, Instances, Ours, Everybody
<1>3. \A c \in Channel : Ours(c) \subseteq Station \cup {Everybody}
  BY DEF Ours, Channel, Station
<1>4. \A c \in Channel : Timer(c) \in Int
  BY LinkAssumption DEF Timer, Inv, Typed, LinkAssumption
<1>5. mb_instance' \in [Channel -> [state : {"READY_TO_LOAD", "IDLE", "REPLY_WAIT"},
                                   slave_add : Station \cup {Everybody}, timer : Int]]
  <2> DEFINE m(c) == IF Loads(c)
          THEN [state |-> "IDLE", timer |-> 0,
                slave_add |-> transactions_buffers[CHOOSE j \in Selected(c) : TRUE].slave_add]
          ELSE IF Ready(c)
          THEN [state |-> "READY_TO_LOAD", timer |-> 0, slave_add |-> 0]
          ELSE [state |-> "REPLY_WAIT", slave_add |-> mb_instance[c].slave_add,
                timer |-> IF PassedOver(c) THEN Timer(c) ELSE Timer(c) - 1]
  <2>1. mb_instance' = [c \in Channel |-> m(c)]
    BY DEF mb_handler
  <2>2. ASSUME NEW c \in Channel
        PROVE m(c) \in [state : {"READY_TO_LOAD", "IDLE", "REPLY_WAIT"},
                        slave_add : Station \cup {Everybody}, timer : Int]
    <3>1. CASE Loads(c)
      BY <1>1, <1>3, <3>1
    <3>2. CASE ~Loads(c) /\ Ready(c)
      BY <3>2 DEF Everybody
    <3>3. CASE ~Loads(c) /\ ~Ready(c)
      <4>1. mb_instance[c].slave_add \in Station \cup {Everybody}
        BY DEF Inv, Typed
      <4> QED
        BY <1>4, <3>3, <4>1
    <3> QED
      BY <3>1, <3>2, <3>3
  <2> HIDE DEF m
  <2> QED
    BY <2>1, <2>2
<1>6. rx' \in [Channel -> frame_t]
  <2>1. Nothing \in frame_t
    BY DEF Nothing, frame_t, Everybody
  <2> QED
    BY <2>1 DEF mb_handler, Receives, Inv, Typed
<1>7. asked' \subseteq Station
  BY DEF mb_handler, Inv, Typed
<1>8. req_mb_hall_stage' \in Nat /\ quiet' \in [Stations[0] -> Nat]
  BY DEF mb_handler, reader, Inv, Typed
<1> QED
  BY <1>2, <1>5, <1>6, <1>7, <1>8 DEF Typed, Instances

LEMMA HandlerKeeps ==
  ASSUME Inv, mb_handler
  PROVE  Genuine' /\ Measured' /\ Fresh' /\ NoPhantomCall'
<1>1. UNCHANGED <<pressed, quiet, mb_ereq>> /\ readout' = Stored
  BY DEF mb_handler, reader
<1>2. Genuine'
  BY <1>1 DEF Inv, Genuine, mb_handler, Receives, Nothing
<1>3. Measured'
  <2>1. rx'[0] = Nothing
    BY DEF mb_handler, PassedOver, Channel
  <2>2. \A s \in Stations[0] : ~Pending(s)'
    BY <2>1 DEF Pending, Nothing
  <2>3. \A s \in Stations[0] : counter'[s] = IF Pending(s) THEN 0 ELSE counter[s]
    BY HeardIsPending DEF mb_handler
  <2>4. \A s \in Stations[0] : Limit[s] \in Nat
    BY Addresses
  <2>5. \A s \in Stations[0] :
          /\ counter[s] \in 0 .. Limit[s] /\ quiet[s] \in Nat
          /\ IF Pending(s) THEN quiet[s] = 0
             ELSE counter[s] = IF quiet[s] > Limit[s] THEN Limit[s] ELSE quiet[s]
    BY DEF Inv, Measured
  <2> HIDE DEF Pending
  <2> QED
    BY <1>1, <2>2, <2>3, <2>4, <2>5 DEF Measured
<1>4. Fresh'
  <2> SUFFICES ASSUME CTB \in Stored PROVE quiet[CTB] <= INTERNAL_COMM_TIMEOUT
    BY <1>1 DEF Fresh
  <2>1. CASE CTB \in readout
    BY <2>1 DEF Inv, Fresh
  <2>2. CASE CTB \notin readout
    <3>1. PICK c \in Channel : Takes(c) /\ mb_instance[c].slave_add = CTB
      BY <2>2 DEF Stored
    <3>2. c = 0
      BY <3>1, Addresses DEF Inv, Instances, Ours, Channel, Station
    <3>3. HeardOf(CTB)
      BY <3>1, <3>2 DEF HeardOf, Takes, Replied, Expected
    <3> QED
      BY <3>3, HeardIsPending, Addresses DEF Inv, Measured
  <2> QED
    BY <2>1, <2>2
<1>5. NoPhantomCall'
  <2>1. Stored \subseteq Pressable
    BY TakenIsGenuine DEF Stored, Inv, NoPhantomCall
  <2> QED
    BY <1>1, <2>1 DEF Inv, NoPhantomCall
<1> QED
  BY <1>2, <1>3, <1>4, <1>5

LEMMA ScanKeeps ==
  ASSUME Inv, req_io_mb_scan_handler
  PROVE  Inv'
<1>0. UNCHANGED <<mb_instance, rx, asked, pressed>>
  BY DEF req_io_mb_scan_handler
<1>1. Good(Table)'
  BY ScanKeepsTable DEF Inv, Typed
<1>2. Typed' /\ Instances' /\ Genuine'
  <2>1. req_mb_hall_stage' \in Nat
    BY DEF req_io_mb_scan_handler, HallStage, Inv, Typed
  <2>2. quiet' \in [Stations[0] -> Nat]
    BY DEF req_io_mb_scan_handler, Inv, Typed
  <2> QED
    BY <1>0, <2>1, <2>2 DEF Inv, Typed, Instances, Genuine
<1>3. readout' \subseteq readout
  BY DEF req_io_mb_scan_handler
<1>4. NoPhantomCall'
  BY <1>3 DEF req_io_mb_scan_handler, Collected, Inv, NoPhantomCall
<1>5. ASSUME NEW s \in Stations[0]
      PROVE  /\ counter[s] \in 0 .. Limit[s] /\ quiet[s] \in Nat /\ Limit[s] \in Nat
             /\ IF Pending(s) THEN quiet[s] = 0
                ELSE counter[s] = IF quiet[s] > Limit[s] THEN Limit[s] ELSE quiet[s]
             /\ counter'[s] = IF counter[s] >= Limit[s] THEN counter[s] ELSE counter[s] + 1
             /\ quiet'[s] = IF Pending(s) \/ quiet[s] > Limit[s] THEN quiet[s] ELSE quiet[s] + 1
             /\ Pending(s)' <=> Pending(s)
  BY <1>0, Addresses DEF req_io_mb_scan_handler, Silent, Inv, Measured, Pending
<1>6. Measured'
  <2> HIDE DEF Pending
  <2> SUFFICES ASSUME NEW s \in Stations[0]
      PROVE  /\ counter'[s] \in 0 .. Limit[s] /\ quiet'[s] \in Nat
             /\ IF Pending(s)' THEN quiet'[s] = 0
                ELSE counter'[s] = IF quiet'[s] > Limit[s] THEN Limit[s] ELSE quiet'[s]
    BY DEF Measured
  <2> QED
    BY <1>5
<1>7. Fresh'
  <2> SUFFICES ASSUME CTB \in readout' PROVE quiet'[CTB] <= INTERNAL_COMM_TIMEOUT
    BY DEF Fresh
  <2>1. CTB \in readout /\ ~(counter[CTB] >= INTERNAL_COMM_TIMEOUT)
    BY Addresses DEF req_io_mb_scan_handler, Silent
  <2> QED
    BY <1>5, <2>1, Addresses DEF Inv, Fresh
<1> QED
  BY <1>1, <1>2, <1>4, <1>6, <1>7 DEF Inv

\* A frame arrives only where none has come, so no waiting reply is lost by it.
LEMMA ArrivalKeeps ==
  ASSUME Inv, NEW c \in Channel, NEW frame \in frame_t, Arrives(c, frame),
         frame.crc /\ frame.button => frame.slave_add \in Pressable,
         UNCHANGED <<mb_instance, pressed>>, asked' \subseteq asked,
         UNCHANGED <<req_mb_hall_stage, counter, readout>>,
         quiet' \in [Stations[0] -> Nat],
         \A s \in Stations[0] :
           quiet'[s] = IF rx' # rx /\ c = 0 /\ frame.crc /\ frame.slave_add = s
                          /\ frame.came /\ mb_instance[0].slave_add = s
                       THEN 0 ELSE quiet[s]
  PROVE  Typed' /\ Instances' /\ Genuine' /\ Measured' /\ Fresh'
<1>1. Typed'
  BY DEF Inv, Typed, Arrives
<1>2. Instances'
  BY DEF Inv, Instances
<1>3. Genuine'
  BY DEF Inv, Genuine, Typed, Arrives
<1>4. Measured'
  <2>1. CASE rx' = rx
    <3>1. \A s \in Stations[0] : quiet'[s] = quiet[s] /\ (Pending(s)' <=> Pending(s))
      BY <2>1 DEF Pending
    <3> QED
      BY <3>1 DEF Inv, Measured
  <2>2. CASE rx' # rx
    <3>1. /\ mb_instance[c].state = "REPLY_WAIT" /\ ~rx[c].came
          /\ rx'[c] = frame /\ \A d \in Channel : d # c => rx'[d] = rx[d]
      BY <2>2 DEF Arrives, Inv, Typed
    <3>2. CASE c = 0
      <4>1. ASSUME NEW s \in Stations[0]
            PROVE  /\ ~Pending(s)
                   /\ Pending(s)' => quiet'[s] = 0
                   /\ ~Pending(s)' => quiet'[s] = quiet[s]
        BY <2>2, <3>1, <3>2 DEF Pending
      <4> HIDE DEF Pending
      <4>2. ASSUME NEW s \in Stations[0] PROVE quiet'[s] \in {0, quiet[s]}
        OBVIOUS
      <4> QED
        BY <4>1, <4>2 DEF Inv, Measured
    <3>3. CASE c # 0
      <4>1. \A s \in Stations[0] : quiet'[s] = quiet[s] /\ (Pending(s)' <=> Pending(s))
        BY <3>1, <3>3 DEF Pending, Channel
      <4> QED
        BY <4>1 DEF Inv, Measured
    <3> QED
      BY <3>2, <3>3
  <2> QED
    BY <2>1, <2>2
<1>5. Fresh'
  BY Addresses DEF Inv, Fresh
<1> QED
  BY <1>1, <1>2, <1>3, <1>4, <1>5

LEMMA LineKeeps ==
  ASSUME Inv, NEW s \in Station, Answer(s) \/ Lose(s) \/ Garble(s) \/ Press(s)
  PROVE  Inv'
<1>0. UNCHANGED <<table, mb_instance, req_mb_hall_stage, mb_ereq, readout, counter>>
  BY DEF Answer, Lose, Garble, Press, reader
<1>1. Good(Table)' /\ NoPhantomCall'
  BY <1>0 DEF table, Table, Good, Slots, Counts, Inv, NoPhantomCall
<1>2. ChannelOf(s) \in Channel /\ (s \in Stations[0] <=> ChannelOf(s) = 0)
  BY DEF ChannelOf, Channel
<1>3. CASE Answer(s)
  <2> DEFINE frame == [slave_add |-> s, crc |-> TRUE, button |-> s \in pressed, came |-> TRUE]
  <2>1. frame \in frame_t /\ (frame.button => s \in Pressable)
    <3>0. (s \in pressed) \in BOOLEAN
      OBVIOUS
    <3>1. s \in pressed => s \in Pressable
      BY DEF Inv, Genuine
    <3> DEFINE held == s \in pressed
    <3> HIDE DEF held
    <3>2. [slave_add |-> s, crc |-> TRUE, button |-> held, came |-> TRUE] \in frame_t
      <4>1. held \in BOOLEAN
        BY <3>0 DEF held
      <4> QED
        BY <4>1 DEF frame_t
    <3> QED
      BY <3>1, <3>2, Zenon DEF held
  <2>2. Arrives(ChannelOf(s), frame) /\ UNCHANGED pressed /\ asked' \subseteq asked
    BY <1>3 DEF Answer
  <2>3. \A q \in Stations[0] :
          quiet'[q] = IF rx' # rx /\ ChannelOf(s) = 0 /\ frame.crc /\ frame.slave_add = q
                         /\ frame.came /\ mb_instance[0].slave_add = q
                      THEN 0 ELSE quiet[q]
    BY <1>2, <1>3 DEF Answer, Inv, Typed
  <2>4. quiet' \in [Stations[0] -> Nat]
    BY <1>3 DEF Answer, Inv, Typed
  <2> QED
    BY <1>0, <1>1, <1>2, <2>1, <2>2, <2>3, <2>4, ArrivalKeeps DEF Inv
<1>4. CASE Garble(s)
  <2> DEFINE c == ChannelOf(s)
             frame == [slave_add |-> mb_instance[c].slave_add, crc |-> FALSE, button |-> TRUE,
                       came |-> TRUE]
  <2>1. frame \in frame_t /\ ~frame.crc
    BY <1>2 DEF frame_t, Inv, Typed
  <2>2. /\ Arrives(c, frame) /\ UNCHANGED <<pressed, quiet>> /\ asked' \subseteq asked
        /\ quiet' \in [Stations[0] -> Nat]
    BY <1>4 DEF Garble, Inv, Typed
  <2> QED
    BY <1>0, <1>1, <1>2, <2>1, <2>2, ArrivalKeeps DEF Inv
<1>5. CASE Lose(s)
  BY <1>0, <1>1, <1>5 DEF Lose, Inv, Typed, Instances, Genuine, Measured, Pending, Fresh
<1>6. CASE Press(s)
  BY <1>0, <1>1, <1>6 DEF Press, Inv, Typed, Instances, Genuine, Measured, Pending, Fresh
<1> QED
  BY <1>3, <1>4, <1>5, <1>6

LEMMA StutterKeeps == Inv /\ UNCHANGED vars => Inv'
  BY DEF Inv, vars, table, reader, Good, Slots, Counts, Table, Typed, Instances, Genuine,
         Measured, Pending, Fresh, NoPhantomCall

THEOREM InvHolds == Spec => []Inv
<1>1. Inv /\ [Next]_vars => Inv'
  <2>1. ASSUME Inv, mb_handler PROVE Inv'
    BY <2>1, HandlerTyped, HandlerKeeps, HandlerKeepsTable DEF Inv
  <2> QED
    BY <2>1, ScanKeeps, LineKeeps, StutterKeeps DEF Next
<1> QED
  BY InitInv, <1>1, PTL DEF Spec

\* The counts agree with the table whatever the line does, and a channel is
\* refused only when its own transactions fill its quota.
THEOREM QuotaExactSafe == Spec => []QuotaExact
<1>1. Inv => QuotaExact
  <2> SUFFICES ASSUME Inv, NEW c \in Channel
      PROVE  /\ mb_channel_transaction_pending_count[c] = Cardinality(Mine(transactions_buffers, c))
             /\ HasQuota(Table, c) => FreeSlots(Table) # {}
    BY DEF QuotaExact, Mine, Used
  <2>1. /\ mb_channel_transaction_pending_count \in [Channel -> 0 .. Quota]
        /\ \A d \in Channel : mb_channel_transaction_pending_count[d]
                              = Cardinality(Mine(transactions_buffers, d))
    BY DEF Inv, Good, Counts, Table
  <2>2. ASSUME HasQuota(Table, c), FreeSlots(Table) = {} PROVE FALSE
    <3> DEFINE M(d) == Mine(transactions_buffers, d)
    <3>1. Slot = M(0) \cup M(1)
      BY <2>2 DEF FreeSlots, Table, Mine, Inv, Good, Slots, transaction_t, Channel
    <3>2. \A d \in Channel : IsFiniteSet(M(d)) /\ Cardinality(M(d)) \in Nat
      BY FiniteSlots DEF Mine
    <3>3. Cardinality(Slot) <= Cardinality(M(0)) + Cardinality(M(1))
      <4>1. Cardinality(M(0) \cap M(1)) \in Nat
        BY FiniteSlots DEF Mine
      <4>2. Cardinality(M(0) \cup M(1)) =
              Cardinality(M(0)) + Cardinality(M(1)) - Cardinality(M(0) \cap M(1))
        BY <3>2, FS_Union DEF Channel
      <4> QED
        BY <3>1, <3>2, <4>1, <4>2 DEF Channel
    <3>4. /\ Cardinality(M(0)) <= Quota /\ Cardinality(M(1)) <= Quota
          /\ Cardinality(M(0)) < Quota \/ Cardinality(M(1)) < Quota
      BY <2>1, <2>2, QuotaHalf DEF HasQuota, Table, Channel
    <3> HIDE DEF M
    <3> QED
      BY <3>2, <3>3, <3>4, FiniteSlots, QuotaHalf DEF Channel
  <2> QED
    BY <2>1, <2>2
<1> QED
  BY InvHolds, <1>1, PTL

\* No frame that is late, garbled or another station's becomes a call.
THEOREM NoPhantomCallSafe == Spec => []NoPhantomCall
<1>1. Inv => NoPhantomCall
  BY DEF Inv
<1> QED
  BY InvHolds, <1>1, PTL

\* The counters measure for how long a cabin board has been silent.
THEOREM SilenceMeasuredSafe == Spec => []SilenceMeasured
<1>1. Inv => SilenceMeasured
  BY DEF Inv, Measured, Fresh, SilenceMeasured
<1> QED
  BY InvHolds, <1>1, PTL
=============================================================================
