------------------------------- MODULE Faults -------------------------------
(***************************************************************************)
(* sph_faults/sph_faults.c: the table of faults, the number of faults of   *)
(* each class that are present, and the handler that times faults out.     *)
(* The lift stops when sph_faults_sie_check finds such a number non-zero.  *)
(*                                                                         *)
(* sph_faults_handler runs in the main loop; sph_faults_setfault runs in   *)
(* the main loop (level 1), in the 1 kHz timer interrupt and in the        *)
(* current-loop and PWM interrupts, each level preempting the lower ones   *)
(* and nothing masking them.  A step is one access to the shared memory,   *)
(* as the build orders them: the compiler keeps the four numbers in        *)
(* registers while sph_faults_handler goes through the table and stores at *)
(* the end the ones it has decremented.                                    *)
(*                                                                         *)
(* A register is 0 while nothing uses it.                                  *)
(*                                                                         *)
(* fault_history_setFault, between the increment and the store of the      *)
(* counter, is the atomic operation of RecentFaults; its own steps are     *)
(* those of FaultHistory.  Choosing the fault to display is left out.      *)
(***************************************************************************)
EXTENDS Naturals, Sequences, FiniteSets

CONSTANTS
  SPH_FAULT_COUNT,  \* slots of sph_faults (45)
  Registrations,    \* the calls of sph_faults_add_fault, in order
  WORD,             \* number of values of uint32_t (2^32)
  Levels,           \* priority levels that set faults
  MaySet            \* the registrations each level sets

Slot == 0 .. SPH_FAULT_COUNT - 1
Level == 1 .. Levels
Type == {"STOP_IMMEDIATE", "T_STOP_IMMEDIATE", "POS_FAULT", "T_POS_FAULT"}
uint32_t == 0 .. WORD - 1

SetBit == WORD \div 2  \* 0x80000000, "the fault set bit"
Never == WORD - 1      \* 0xFFFFFFFF
NoSlot == WORD - 1     \* what sph_faults_add_fault returns when the table is full

ASSUME FaultsAssumption ==
  /\ SPH_FAULT_COUNT \in Nat \ {0}
  /\ SetBit \in Nat
  /\ WORD = 2 * SetBit
  /\ SPH_FAULT_COUNT < SetBit
  /\ Registrations \in Seq([type : Type, timeout : 1 .. SetBit - 1])
  /\ Levels \in Nat \ {0}
  /\ MaySet \in [Level -> SUBSET DOMAIN Registrations]

VARIABLES
  fault_counter,  \* per slot: the set bit and the time left
  number,         \* per class: sph_faults_stop_i, _stop_i_to, _pos, _pos_to;
                  \* they stay small (NoPhantom), so their width is left out
  pc,             \* where each level stands
  fault_index,    \* the slot it is at
  reg,            \* the register of number[type]++, per level
  counts,         \* the handler's registers with the four numbers
  dirty,          \* the numbers it has decremented
  recent          \* the fault history

vars == <<fault_counter, number, pc, fault_index, reg, counts, dirty, recent>>

History == INSTANCE RecentFaults WITH Fault <- Slot

\* sph_faults_add_fault, called once per registration: the first free slot.
Registered(s) == s < Len(Registrations)
TypeOf(s) == Registrations[s + 1].type
IndexOf(r) == IF r <= SPH_FAULT_COUNT THEN r - 1 ELSE NoSlot
Timeout(s) == IF TypeOf(s) \in {"STOP_IMMEDIATE", "POS_FAULT"}
              THEN Never ELSE Registrations[s + 1].timeout

IsSet(counter) == counter >= SetBit
Left(counter) == IF IsSet(counter) THEN counter - SetBit ELSE counter
WithSetBit(x) == IF IsSet(x) THEN x ELSE x + SetBit

\* sph_faults_is_present, sph_faults_sie_check and sph_faults_pose_check
is_present(s) == IsSet(fault_counter[s])
sie_check == number["STOP_IMMEDIATE"] # 0 \/ number["T_STOP_IMMEDIATE"] # 0
pose_check == number["POS_FAULT"] # 0 \/ number["T_POS_FAULT"] # 0

\* Interrupt handlers run to completion before the level they preempted.
At(c, here) == pc[c] = here /\ \A d \in Level : d > c => pc[d] = "idle"
Goto(c, there) == pc' = [pc EXCEPT ![c] = there]

-----------------------------------------------------------------------------
Init ==
  /\ fault_counter = [s \in Slot |-> 0]
  /\ number = [t \in Type |-> 0]
  /\ pc = [c \in Level |-> "idle"]
  /\ fault_index = [c \in Level |-> 0]
  /\ reg = [c \in Level |-> 0]
  /\ counts = [t \in Type |-> 0]
  /\ dirty = {}
  /\ recent = <<>>

SetFaultCountsAgain(c, r) ==  \* mutant
  /\ At(c, "idle")
  /\ r \in MaySet[c]
  /\ IndexOf(r) \in Slot
  /\ fault_index' = [fault_index EXCEPT ![c] = IndexOf(r)]
  /\ Goto(c, "load")
  /\ UNCHANGED <<fault_counter, number, reg, counts, dirty, recent>>

\* sph_faults_setfault(fault_index): a fault already set only has its time
\* renewed, and the index of a fault that found no slot is out of range.
SetFault(c, r) ==
  /\ At(c, "idle")
  /\ r \in MaySet[c]
  /\ IndexOf(r) \in Slot
  /\ fault_index' = [fault_index EXCEPT ![c] = IndexOf(r)]
  /\ Goto(c, IF is_present(IndexOf(r)) THEN "set" ELSE "load")
  /\ UNCHANGED <<fault_counter, number, reg, counts, dirty, recent>>

LoadNumber(c) ==
  /\ At(c, "load")
  /\ reg' = [reg EXCEPT ![c] = number[TypeOf(fault_index[c])]]
  /\ Goto(c, "store")
  /\ UNCHANGED <<fault_counter, number, fault_index, counts, dirty, recent>>

StoreNumberOfTimed(c) ==  \* mutant
  /\ At(c, "store")
  /\ LET t == TypeOf(fault_index[c])
     IN  number' = [number EXCEPT ![IF t = "STOP_IMMEDIATE" THEN "T_STOP_IMMEDIATE" ELSE t] =
                      reg[c] + 1]
  /\ reg' = [reg EXCEPT ![c] = 0]
  /\ Goto(c, "record")
  /\ UNCHANGED <<fault_counter, fault_index, counts, dirty, recent>>

StoreNumber(c) ==
  /\ At(c, "store")
  /\ number' = [number EXCEPT ![TypeOf(fault_index[c])] = reg[c] + 1]
  /\ reg' = [reg EXCEPT ![c] = 0]
  /\ Goto(c, "record")
  /\ UNCHANGED <<fault_counter, fault_index, counts, dirty, recent>>

RecordFault(c) ==
  /\ At(c, "record")
  /\ recent' = History!Touch(recent, fault_index[c])
  /\ Goto(c, "set")
  /\ UNCHANGED <<fault_counter, number, fault_index, reg, counts, dirty>>

SetCounter(c) ==
  /\ At(c, "set")
  /\ fault_counter' = [fault_counter EXCEPT ![fault_index[c]] =
                         WithSetBit(Timeout(fault_index[c]))]
  /\ fault_index' = [fault_index EXCEPT ![c] = 0]
  /\ Goto(c, "idle")
  /\ UNCHANGED <<number, reg, counts, dirty, recent>>

Continue(c) == LoadNumber(c) \/ StoreNumber(c) \/ RecordFault(c) \/ SetCounter(c)

sph_faults_setfault(c) ==
  \/ \E r \in MaySet[c] : SetFault(c, r)
  \/ Continue(c)

-----------------------------------------------------------------------------
\* sph_faults_handler: the four numbers are read at the start ...
StartHandler ==
  /\ At(1, "idle")
  /\ counts' = number
  /\ Goto(1, "visit")
  /\ UNCHANGED <<fault_counter, number, fault_index, reg, dirty, recent>>

\* ... the slots are visited in turn ...
Timed(s) == Registered(s) /\ Timeout(s) # Never

NextSlotOverruns ==  \* mutant
  IF fault_index[1] = SPH_FAULT_COUNT
  THEN Goto(1, "write") /\ fault_index' = [fault_index EXCEPT ![1] = 0]
  ELSE Goto(1, "visit") /\ fault_index' = [fault_index EXCEPT ![1] = @ + 1]

NextSlot ==
  IF fault_index[1] = SPH_FAULT_COUNT - 1
  THEN Goto(1, "write") /\ fault_index' = [fault_index EXCEPT ![1] = 0]
  ELSE Goto(1, "visit") /\ fault_index' = [fault_index EXCEPT ![1] = @ + 1]

VisitSlot ==
  /\ At(1, "visit")
  /\ LET s == fault_index[1]
         counter == fault_counter[s]
     IN  \/ /\ Timed(s) /\ Left(counter) > 0
            /\ reg' = [reg EXCEPT ![1] = counter]
            /\ Goto(1, "tick")
            /\ UNCHANGED fault_index
         \/ /\ Timed(s) /\ counter = SetBit
            /\ Goto(1, "clear")
            /\ UNCHANGED <<fault_index, reg>>
         \/ /\ Timed(s) => counter = 0
            /\ NextSlot
            /\ UNCHANGED reg
  /\ UNCHANGED <<fault_counter, number, counts, dirty, recent>>

TickForgotten ==  \* mutant
  /\ At(1, "tick")
  /\ reg' = [reg EXCEPT ![1] = 0]
  /\ NextSlot
  /\ UNCHANGED <<fault_counter, number, counts, dirty, recent>>

Tick ==
  /\ At(1, "tick")
  /\ fault_counter' = [fault_counter EXCEPT ![fault_index[1]] = WithSetBit(Left(reg[1]) - 1)]
  /\ reg' = [reg EXCEPT ![1] = 0]
  /\ NextSlot
  /\ UNCHANGED <<number, counts, dirty, recent>>

Dec(n) == IF n > 0 THEN n - 1 ELSE n

ClearKeepsNumber ==  \* mutant
  /\ At(1, "clear")
  /\ fault_counter' = [fault_counter EXCEPT ![fault_index[1]] = 0]
  /\ NextSlot
  /\ UNCHANGED <<number, reg, counts, dirty, recent>>

Clear ==
  /\ At(1, "clear")
  /\ fault_counter' = [fault_counter EXCEPT ![fault_index[1]] = 0]
  /\ counts' = [counts EXCEPT ![TypeOf(fault_index[1])] = Dec(@)]
  /\ dirty' = dirty \cup {TypeOf(fault_index[1])}
  /\ NextSlot
  /\ UNCHANGED <<number, reg, recent>>

\* ... and the numbers that went down are stored.
WriteBack ==
  /\ At(1, "write")
  /\ dirty # {}
  /\ LET t == IF "T_STOP_IMMEDIATE" \in dirty THEN "T_STOP_IMMEDIATE" ELSE "T_POS_FAULT"
     IN  /\ number' = [number EXCEPT ![t] = counts[t]]
         /\ dirty' = dirty \ {t}
  /\ UNCHANGED <<fault_counter, pc, fault_index, reg, counts, recent>>

EndHandler ==
  /\ At(1, "write")
  /\ dirty = {}
  /\ counts' = [t \in Type |-> 0]
  /\ Goto(1, "idle")
  /\ UNCHANGED <<fault_counter, number, fault_index, reg, dirty, recent>>

sph_faults_handler ==
  StartHandler \/ VisitSlot \/ Tick \/ Clear \/ WriteBack \/ EndHandler

\* fault_history_eraseAll, by the menu
EraseHistory ==
  /\ At(1, "idle")
  /\ History!Erase
  /\ UNCHANGED <<fault_counter, number, pc, fault_index, reg, counts, dirty>>

Next ==
  \/ \E c \in Level : sph_faults_setfault(c)
  \/ sph_faults_handler
  \/ EraseHistory

Spec == Init /\ [][Next]_vars

\* The scheduler calls sph_faults_handler again and again, whatever else the
\* main loop does (Scheduler, NoStarvation), and the interrupt handlers, which
\* are short, let the main loop go on.
Fairness ==
  /\ SF_vars(sph_faults_handler)
  /\ \A c \in Level : SF_vars(Continue(c))

FairSpec == Spec /\ Fairness

-----------------------------------------------------------------------------
Step == {"idle", "load", "store", "record", "set", "visit", "tick", "clear", "write"}

\* Every variable of sph_faults.c keeps its type, and only the numbers of timed
\* classes are written back.
TypeOK ==
  /\ fault_counter \in [Slot -> uint32_t]
  /\ number \in [Type -> Nat]
  /\ pc \in [Level -> Step]
  /\ fault_index \in [Level -> Slot]
  /\ reg \in [Level -> Nat]
  /\ counts \in [Type -> Nat]
  /\ dirty \subseteq {"T_STOP_IMMEDIATE", "T_POS_FAULT"}

Present(t) == {s \in Slot : Registered(s) /\ TypeOf(s) = t /\ is_present(s)}
Quiet == \A c \in Level : pc[c] = "idle"

\* sph_faults_pose_check tells whether a positioning fault is present: only the
\* main loop sets them, and the interrupts that preempt it change other numbers.
PoseCheckExact ==
  Quiet => (pose_check <=> Present("POS_FAULT") \cup Present("T_POS_FAULT") # {})

\* A fault without timeout (a short circuit, say) stops the lift from when it
\* is present, for good, whatever increments the races lose.
LatchedStops == Present("STOP_IMMEDIATE") # {} => sie_check

\* A number of a class with a timeout never counts more faults than are present
\* or being set: nothing keeps the lift stopped after its faults are gone.  (The
\* short circuit, which never goes, is set at two levels and may count twice.)
TimedType == {"T_STOP_IMMEDIATE", "T_POS_FAULT"}
Setting(t) == {s \in Slot : \E c \in Level :
                 pc[c] \in {"record", "set"} /\ fault_index[c] = s /\ TypeOf(s) = t}
NoPhantom ==
  pc[1] \notin {"visit", "tick", "clear", "write"} =>
    \A t \in TimedType : number[t] <= Cardinality(Present(t) \cup Setting(t))

\* A fault with a timeout that is not set again goes away.
TimedFaultClears ==
  \A s \in Slot : Registered(s) /\ Timed(s) =>
    []<>(~is_present(s) \/ \E c \in Level : pc[c] = "set" /\ fault_index[c] = s)
=============================================================================
