---------------------------- MODULE FaultHistory ----------------------------
(***************************************************************************)
(* sph_faults/sph_faults_history.c: the fault history is a doubly linked   *)
(* list through faults_history_list, most recent fault first, and 0xFF     *)
(* ends it.  Every recorded fault queues two EEPROM writes, of the entry   *)
(* pointer and of the array; the queue keeps the addresses of the live     *)
(* variables, so a write stores what they hold when it is performed.       *)
(* After a restart the two are read back, again one after the other.       *)
(*                                                                         *)
(* fault_history_setFault runs in the main loop and in interrupt handlers; *)
(* level 1 is the main loop and a higher level preempts a lower one.  It   *)
(* reads the entry pointer once (Enter), takes the fault out of the list   *)
(* (Unlink), puts it in front of what it read (Link) and queues the writes *)
(* (Save); an interrupt falls between two of these steps.  One EEPROM      *)
(* operation is one step.  The data of a fault's record are left out.      *)
(***************************************************************************)
EXTENDS Naturals, Sequences, FiniteSets

CONSTANTS
  SPH_FAULT_COUNT,              \* length of faults_history_list (45)
  Levels,                       \* priority levels that record faults
  AT24CXX_DYNAMIC_SCH_ARR_MAX,  \* length of the EEPROM queue (20)
  Disturbances  \* the adverse events that happen, see Disturbance

Fault == 0 .. SPH_FAULT_COUNT - 1
NULL == 255
Pointer == Fault \cup {NULL}
Level == 1 .. Levels

\* Power fails with operations pending; a fault occurs before the history is
\* read back; the history changes with the EEPROM queue full.
Disturbance == {"power_cut", "early_fault", "full_queue"}

ASSUME FaultHistoryAssumption ==
  /\ SPH_FAULT_COUNT \in 1 .. 255
  /\ Levels \in Nat \ {0}
  /\ AT24CXX_DYNAMIC_SCH_ARR_MAX \in Nat \ {0}
  /\ Disturbances \subseteq Disturbance

VARIABLES
  ram,    \* fault_history_entry_pointer and the links of faults_history_list
  ee,     \* their copies in the EEPROM
  queue,  \* the EEPROM operations pending
  pc,     \* where each level stands in fault_history_setFault
  fault,  \* its parameter
  entry   \* the entry pointer it read

vars == <<ram, ee, queue, pc, fault, entry>>

\* fault_history_init; also what a blank EEPROM holds
Empty == [entry |-> NULL, next |-> [f \in Fault |-> NULL], prev |-> [f \in Fault |-> NULL]]

Loading == \E i \in DOMAIN queue : queue[i] \in {"read_entry", "read_list"}

\* Interrupt handlers run to completion before the level they preempted.
Running(c) == \A d \in Level : d > c => pc[d] = "idle"
MainLoop == \A d \in Level : pc[d] = "idle"

\* A change of the history, when it would be a disturbance, is one that happens
Admitted ==
  /\ Loading => "early_fault" \in Disturbances
  /\ Len(queue) + 2 > AT24CXX_DYNAMIC_SCH_ARR_MAX => "full_queue" \in Disturbances

\* A level that is preempted by none of the others, at step here
At(c, here) == Running(c) /\ pc[c] = here
Goto(c, there) == pc' = [pc EXCEPT ![c] = there]

\* Two calls of at24cxx_dynamic_sch_read_array or _write_array, whose results
\* nobody looks at: what finds the queue full is dropped.
Queued(q, op) == IF Len(q) < AT24CXX_DYNAMIC_SCH_ARR_MAX THEN Append(q, op) ELSE q
saveAll == queue' = Queued(Queued(queue, "write_entry"), "write_list")

-----------------------------------------------------------------------------
Init ==
  /\ ram = Empty
  /\ ee = Empty
  /\ queue = <<>>
  /\ pc = [c \in Level |-> "idle"]
  /\ fault = [c \in Level |-> 0]
  /\ entry = [c \in Level |-> NULL]

Enter(c, f) ==
  /\ At(c, "idle")
  /\ Admitted
  /\ fault' = [fault EXCEPT ![c] = f]
  /\ entry' = [entry EXCEPT ![c] = ram.entry]
  /\ Goto(c, IF f # ram.entry THEN "unlink" ELSE "save")
  /\ UNCHANGED <<ram, ee, queue>>

\* The neighbours of f, where it has any, become each other's.
UnlinkForgetsPrev(h, f) ==  \* mutant
  [h EXCEPT !.next = [g \in Fault |-> IF g = h.prev[f] THEN h.next[f] ELSE h.next[g]]]

Unlinked(h, f) ==
  [h EXCEPT
     !.next = [g \in Fault |-> IF g = h.prev[f] THEN h.next[f] ELSE h.next[g]],
     !.prev = [g \in Fault |-> IF g = h.next[f] THEN h.prev[f] ELSE h.prev[g]]]

\* f in front of e, the head when fault_history_setFault began.
Linked(h, f, e) ==
  [h EXCEPT !.entry = f,
            !.next[f] = e,
            !.prev = [g \in Fault |-> IF g = f THEN NULL ELSE IF g = e THEN f ELSE h.prev[g]]]

Unlink(c) ==
  /\ At(c, "unlink")
  /\ ram' = Unlinked(ram, fault[c])
  /\ Goto(c, "link")
  /\ UNCHANGED <<ee, queue, fault, entry>>

Link(c) ==
  /\ At(c, "link")
  /\ ram' = Linked(ram, fault[c], entry[c])
  /\ Goto(c, "save")
  /\ UNCHANGED <<ee, queue, fault, entry>>

\* A fault that would be its own successor becomes the last one.
CutSelfLoop(h, f) == [h EXCEPT !.next[f] = IF @ = f THEN NULL ELSE @]

SaveIfIdle(c) ==  \* mutant
  /\ At(c, "save")
  /\ ram' = CutSelfLoop(ram, fault[c])
  /\ IF queue = <<>> THEN saveAll ELSE UNCHANGED queue
  /\ Goto(c, "idle")
  /\ UNCHANGED <<ee, fault, entry>>

Save(c) ==
  /\ At(c, "save")
  /\ ram' = CutSelfLoop(ram, fault[c])
  /\ saveAll
  /\ Goto(c, "idle")
  /\ UNCHANGED <<ee, fault, entry>>

fault_history_setFault(c) ==
  (\E f \in Fault : Enter(c, f)) \/ Unlink(c) \/ Link(c) \/ Save(c)

\* The menu's "Clear history".
fault_history_eraseAndSaveAll ==
  /\ MainLoop
  /\ Admitted
  /\ ram' = Empty
  /\ saveAll
  /\ UNCHANGED <<ee, pc, fault, entry>>

-----------------------------------------------------------------------------
PerformedEntryOnly(op) ==  \* mutant
  /\ ee' = [ee EXCEPT !.entry = IF op = "write_entry" THEN ram.entry ELSE @]
  /\ ram' = [ram EXCEPT !.entry = IF op = "read_entry" THEN ee.entry ELSE @]

\* at24cxx_dynamic_handler performs the oldest operation of the queue.
Performed(op) ==
  /\ ee' = CASE op = "write_entry" -> [ee EXCEPT !.entry = ram.entry]
             [] op = "write_list" -> [ram EXCEPT !.entry = ee.entry]
             [] OTHER -> ee
  /\ ram' = CASE op = "read_entry" -> [ram EXCEPT !.entry = ee.entry]
              [] op = "read_list" -> [ee EXCEPT !.entry = ram.entry]
              [] OTHER -> ram

at24cxx_dynamic_handler ==
  /\ MainLoop
  /\ queue # <<>>
  /\ Performed(Head(queue))
  /\ queue' = Tail(queue)
  /\ UNCHANGED <<pc, fault, entry>>

\* The supply fails and returns; main() calls fault_history_init and
\* fault_history_loadAll.
Restart ==
  /\ "power_cut" \in Disturbances \/ (MainLoop /\ queue = <<>>)
  /\ ram' = Empty
  /\ queue' = Queued(Queued(<<>>, "read_entry"), "read_list")
  /\ pc' = [c \in Level |-> "idle"]
  /\ fault' = [c \in Level |-> 0]
  /\ entry' = [c \in Level |-> NULL]
  /\ UNCHANGED ee

Next ==
  \/ \E c \in Level : fault_history_setFault(c)
  \/ fault_history_eraseAndSaveAll
  \/ at24cxx_dynamic_handler
  \/ Restart

Spec == Init /\ [][Next]_vars

-----------------------------------------------------------------------------
\* The faults that "View faults" shows from the last one on, by get_next_fault:
\* walk[n] is where it stands after n - 1 calls.
View(h) ==
  LET walk[n \in 1 .. SPH_FAULT_COUNT] ==
        IF n = 1 THEN h.entry ELSE IF walk[n - 1] = NULL THEN NULL ELSE h.next[walk[n - 1]]
  IN  [i \in 1 .. Cardinality({n \in 1 .. SPH_FAULT_COUNT : walk[n] # NULL}) |-> walk[i]]

\* get_next_fault comes to an end: following the links from the entry pointer
\* no fault is met twice.  fault_history_setFault cuts a fault that points to
\* itself "to prevent infinite loop" (sph_faults_history.c:116).
NoInfiniteLoop ==
  MainLoop /\ ~Loading =>
    LET view == View(ram)
    IN  \A i, j \in DOMAIN view : view[i] = view[j] => i = j

\* get_previous_fault undoes get_next_fault along the whole list, the head has
\* no predecessor, and a fault outside the list points nowhere.
WellLinked ==
  MainLoop /\ ~Loading =>
    LET view == View(ram)
    IN  /\ view # <<>> => ram.prev[view[1]] = NULL /\ ram.next[view[Len(view)]] = NULL
        /\ \A i \in 2 .. Len(view) : ram.prev[view[i]] = view[i - 1]
        /\ \A f \in Fault : (\A i \in DOMAIN view : view[i] # f) =>
                             ram.next[f] = NULL /\ ram.prev[f] = NULL

\* The queue may drop a save, but when it has run dry the EEPROM holds the
\* history as it is: the writes already queued stored the newest contents.
SavedWhenDrained == MainLoop /\ queue = <<>> => ee = ram

\* The list, seen as a sequence: while a fault is out of the list between
\* Unlink and Link it already counts as the most recent; while the history is
\* read back it is what the EEPROM holds.
Recent == IF Loading THEN View(ee)
          ELSE IF pc[1] = "link" THEN <<fault[1]>> \o View(ram)
          ELSE View(ram)

Abstract == INSTANCE RecentFaults WITH recent <- Recent

\* Recording, erasing, saving, a restart and reading back never lose, repeat or
\* misplace a fault: the linked list implements the sequence of RecentFaults.
Refines == Abstract!Spec
=============================================================================
