----------------------------- MODULE EepromQueue -----------------------------
(***************************************************************************)
(* services/sph modules/AT24Cxx_dynamic.c: the queue of EEPROM reads and   *)
(* writes and the machine that performs them in parts.                     *)
(*                                                                         *)
(* The main loop (level 0) calls at24cxx_dynamic_handler every 4 ms and    *)
(* schedules operations; an interrupt that records a fault schedules some, *)
(* too (level 1).  A level runs to the end of what it does unless a higher *)
(* one preempts it.  A place of the ring is claimed and then filled, and   *)
(* the handler takes the count to a register before it stores it: levels   *)
(* that overlap interleave there.  Whether the bus takes a transfer is up  *)
(* to the chip, which is busy after a write.                               *)
(***************************************************************************)
EXTENDS Integers, Sequences

CONSTANTS
  AT24CXX_DYNAMIC_SCH_ARR_MAX,   \* slots of the ring (20)
  PAGE_SIZE,                     \* AT24CXX_DYNAMICS_PAGE_SIZE (32)
  Operation,                     \* the reads (rw = 1) and writes that are scheduled
  Level                          \* {0}, or {0, 1} where interrupts preempt

MAX == AT24CXX_DYNAMIC_SCH_ARR_MAX
Index == 0 .. MAX - 1
Unused == [rw |-> 0, start |-> 0, len |-> 0]   \* a slot that was never filled

ASSUME EepromAssumption ==
  /\ MAX \in Nat \ {0}
  /\ PAGE_SIZE \in Nat \ {0}
  /\ Operation \subseteq [rw : {0, 1}, start : Nat, len : Nat \ {0}]
  /\ Level \in {{0}, {0, 1}}

VARIABLES
  buff, read_ptr, write_ptr, count,  \* at24cxx_dynamic_SCHarray_...
  state, op, n,                      \* at24cxx_instance[0]
  datasent,                          \* at24cxx_d_datasent
  pc, arg, reg,                      \* each level: where it is, its operation and a register
  moved                              \* history: <<byte of the memory, byte of the buffer>> of op

ring == <<buff, read_ptr, write_ptr, count>>
instance == <<state, op, n, datasent, moved>>
local == <<pc, arg, reg>>
vars == <<ring, instance, local>>

Succ(i) == IF i + 1 >= MAX THEN 0 ELSE i + 1

Init ==
  /\ buff = [i \in Index |-> Unused]
  /\ read_ptr = 0 /\ write_ptr = 0 /\ count = 0
  /\ state = "IDLE" /\ op = Unused /\ n = 0 /\ datasent = 0
  /\ pc = [l \in Level |-> "idle"]
  /\ arg = [l \in Level |-> Unused]
  /\ reg = [l \in Level |-> 0]
  /\ moved = {}

Running(l) == \A h \in Level : h > l => pc[h] = "idle"
At(l, here) == Running(l) /\ pc[l] = here

-----------------------------------------------------------------------------
\* get_chunks: the k-th part of o.  The first one ends with its page, each of
\* the others is a page, and the last one is cut to the operation's length.
Offset(o) == o.start % PAGE_SIZE
End(o) == o.start + o.len
ChunkStart(o, k) == IF k = 0 THEN o.start ELSE k * PAGE_SIZE + (o.start - Offset(o))
ChunkBufferOfPages(o, k) == k * PAGE_SIZE  \* mutant
ChunkBuffer(o, k) == IF k = 0 THEN 0 ELSE k * PAGE_SIZE - Offset(o)
ChunkSize(o, k) == IF k = 0 THEN PAGE_SIZE - Offset(o) ELSE PAGE_SIZE
Excess(o, k) == ChunkStart(o, k) + ChunkSize(o, k) - End(o)
ChunkUnlessFull(o, k) ==  \* mutant
  CASE o.len = 0                      -> "ERROR"
    [] Excess(o, k) \in 1 .. PAGE_SIZE - 1 -> "END"
    [] Excess(o, k) >= PAGE_SIZE      -> "ERROR"
    [] OTHER                          -> "OK"

Chunk(o, k) ==
  CASE o.len = 0                      -> "ERROR"
    [] Excess(o, k) \in 0 .. PAGE_SIZE - 1 -> "END"
    [] Excess(o, k) >= PAGE_SIZE      -> "ERROR"
    [] OTHER                          -> "OK"
ChunkLengthUncut(o, k) == ChunkSize(o, k)  \* mutant
ChunkLength(o, k) == IF Chunk(o, k) = "END" THEN ChunkSize(o, k) - Excess(o, k)
                                             ELSE ChunkSize(o, k)

\* at24cxx_dynamic_rw_exe as the instance s after a call of it: a part that was
\* sent is passed over, else it is sent if the bus takes it.
Sent(s, from, to, length) ==
  [s EXCEPT !.datasent = 1,
            !.moved = @ \cup {<<from + b, to + b>> : b \in 0 .. length - 1}]
Idle(s) == [s EXCEPT !.state = "IDLE", !.n = 0, !.datasent = 0]

rw_exe(s, taken) ==
  CASE s.state = "WRITE" /\ Chunk(s.op, s.n) = "OK" /\ s.datasent = 1 ->
         [s EXCEPT !.n = @ + 1, !.datasent = 0]
    [] s.state = "WRITE" /\ Chunk(s.op, s.n) = "END" /\ s.datasent = 1 -> Idle(s)
    [] s.state = "WRITE" /\ Chunk(s.op, s.n) # "ERROR" /\ s.datasent = 0 /\ taken ->
         Sent(s, ChunkStart(s.op, s.n), ChunkBuffer(s.op, s.n), ChunkLength(s.op, s.n))
    [] s.state = "READ" /\ s.datasent = 1 -> Idle(s)
    [] s.state = "READ" /\ s.datasent = 0 /\ taken -> Sent(s, s.op.start, 0, s.op.len)
    [] OTHER -> s

\* at24cxx_dynamic_read_array and at24cxx_dynamic_write_array
Started(s, o) == [s EXCEPT !.state = IF o.rw = 1 THEN "READ" ELSE "WRITE",
                           !.op = o, !.n = 0, !.moved = {}]

Instance == [state |-> state, op |-> op, n |-> n, datasent |-> datasent, moved |-> moved]
Becomes(s) ==
  /\ state' = s.state /\ op' = s.op /\ n' = s.n
  /\ datasent' = s.datasent /\ moved' = s.moved

\* at24cxx_dynamic_handler: what the bus takes, then the head of the queue if
\* the instance is idle; it leaves the queue in the steps that follow.
at24cxx_dynamic_handler(taken) ==
  /\ At(0, "idle")
  /\ LET s == rw_exe(Instance, taken)
         starts == count # 0 /\ s.state = "IDLE"
     IN  /\ Becomes(IF starts THEN Started(s, buff[Succ(read_ptr)]) ELSE s)
         /\ pc' = IF starts THEN [pc EXCEPT ![0] = "advance"] ELSE pc
  /\ UNCHANGED <<ring, arg, reg>>

Advance ==
  /\ At(0, "advance")
  /\ read_ptr' = Succ(read_ptr)
  /\ reg' = [reg EXCEPT ![0] = count]
  /\ pc' = [pc EXCEPT ![0] = "count"]
  /\ UNCHANGED <<buff, write_ptr, count, instance, arg>>

CountDown ==
  /\ At(0, "count")
  /\ count' = reg[0] - 1
  /\ pc' = [pc EXCEPT ![0] = "idle"]
  /\ UNCHANGED <<buff, read_ptr, write_ptr, instance, arg, reg>>

\* at24cxx_dynamic_sch_read_array and at24cxx_dynamic_sch_write_array: a place
\* is claimed (at24cxx_dynamic_sch_wrbuff_full), then filled.
Claim(l) ==
  /\ At(l, "idle")
  /\ count < MAX
  /\ \E o \in Operation : arg' = [arg EXCEPT ![l] = o]
  /\ reg' = [reg EXCEPT ![l] = write_ptr]
  /\ pc' = [pc EXCEPT ![l] = "claim"]
  /\ UNCHANGED <<ring, instance>>

Claimed(l) ==
  /\ At(l, "claim")
  /\ count' = count + 1
  /\ write_ptr' = Succ(reg[l])
  /\ pc' = [pc EXCEPT ![l] = "fill"]
  /\ UNCHANGED <<buff, read_ptr, instance, arg, reg>>

Fill(l) ==
  /\ At(l, "fill")
  /\ buff' = [buff EXCEPT ![write_ptr] = arg[l]]
  /\ pc' = [pc EXCEPT ![l] = "idle"]
  /\ UNCHANGED <<read_ptr, write_ptr, count, instance, arg, reg>>

Next ==
  \/ \E taken \in BOOLEAN : at24cxx_dynamic_handler(taken)
  \/ Advance \/ CountDown
  \/ \E l \in Level : Claim(l) \/ Claimed(l) \/ Fill(l)

Spec == Init /\ [][Next]_vars

\* The scheduler calls the handler again and again, what a level has begun it
\* ends, and the chip takes a transfer when it is offered often enough.
FairSpec ==
  /\ Spec
  /\ WF_vars(\E taken \in BOOLEAN : at24cxx_dynamic_handler(taken))
  /\ SF_vars(at24cxx_dynamic_handler(TRUE))
  /\ WF_vars(Advance) /\ WF_vars(CountDown)
  /\ \A l \in Level : WF_vars(Claimed(l)) /\ WF_vars(Fill(l))

-----------------------------------------------------------------------------
\* The queue as its users see it: the slots that are claimed and filled and
\* whose operation has not begun, the operation under way, and the bytes of it
\* that are not yet where they belong.
Begun == IF pc[0] \in {"advance", "count"} THEN 1 ELSE 0
Passed == IF pc[0] = "advance" THEN 1 ELSE 0
Unfilled == IF \E l \in Level : pc[l] = "fill" THEN 1 ELSE 0
Slot(i) == (read_ptr + Passed + i) % MAX
Waiting == [i \in 1 .. count - Begun - Unfilled |-> buff[Slot(i)]]
Todo ==
  IF state = "IDLE" THEN {}
  ELSE {b \in op.start .. End(op) - 1 : <<b, b - op.start>> \notin moved}

\* Operations are performed one at a time, in the order in which they were
\* scheduled, as a whole and each byte once, and no part of a write crosses a
\* page (at24cxx_dynamic_handler, get_chunks).
Fifo == INSTANCE EepromFifo WITH
  MaxWaiting <- MAX, waiting <- Waiting, todo <- Todo,
  performing <- IF state = "IDLE" THEN [rw |-> 2, start |-> 0, len |-> 0] ELSE op
Refines == Fifo!Spec

\* A transfer moves each byte between its place in the memory and its place in
\* the caller's buffer, and none outside the operation (get_chunks adds up the
\* offsets of the buffer and of the memory separately).
BytesInPlace == \A m \in moved : m[1] - op.start = m[2] /\ m[2] \in 0 .. op.len - 1

\* The queue never gets stuck: as long as there is something to do, another
\* operation begins or the last one ends (a length of 0 would be the end).
WorkProceeds ==
  (state # "IDLE" \/ count > 0) ~> (state = "IDLE" /\ count = 0) \/ pc[0] = "advance"
=============================================================================
