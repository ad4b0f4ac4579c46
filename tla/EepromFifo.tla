------------------------------ MODULE EepromFifo ------------------------------
(***************************************************************************)
(* What the users of AT24Cxx_dynamic.c are promised: reads and writes of   *)
(* the EEPROM are performed one at a time, in the order in which they were *)
(* scheduled and each as a whole; the parts of a write lie within a page,  *)
(* since the memory chip wraps around at the end of one.                   *)
(***************************************************************************)
EXTENDS Naturals, Sequences

CONSTANTS Operation,      \* the operations: [rw, start, len]
          MaxWaiting,     \* how many can wait
          PAGE_SIZE

VARIABLES waiting,        \* scheduled operations
          performing,     \* the operation under way, or None
          todo            \* the bytes of it that are still to be transferred

None == [rw |-> 2, start |-> 0, len |-> 0]
Bytes(op) == op.start .. op.start + op.len - 1
Page(b) == b \div PAGE_SIZE

Init == waiting = <<>> /\ performing = None /\ todo = {}

Schedule(op) ==
  /\ Len(waiting) < MaxWaiting
  /\ waiting' = Append(waiting, op)
  /\ UNCHANGED <<performing, todo>>

Begin ==
  /\ performing = None /\ waiting # <<>>
  /\ performing' = Head(waiting)
  /\ todo' = Bytes(performing')
  /\ waiting' = Tail(waiting)

Transfer ==
  /\ todo' \subseteq todo /\ todo' # todo
  /\ performing.rw = 0 =>
       \A b1, b2 \in todo \ todo' : Page(b1) = Page(b2)
  /\ UNCHANGED <<waiting, performing>>

Finish ==
  /\ performing # None /\ todo = {}
  /\ performing' = None
  /\ UNCHANGED <<waiting, todo>>

\* One call of the handler may end an operation and begin the next.
FinishAndBegin ==
  /\ performing # None /\ todo = {} /\ waiting # <<>>
  /\ performing' = Head(waiting)
  /\ todo' = Bytes(performing')
  /\ waiting' = Tail(waiting)

Next == (\E op \in Operation : Schedule(op)) \/ Begin \/ Transfer \/ Finish \/ FinishAndBegin
Spec == Init /\ [][Next]_<<waiting, performing, todo>>
=============================================================================
