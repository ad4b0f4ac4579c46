------------------------- MODULE FaultHistoryProofs -------------------------
(***************************************************************************)
(* Proofs about FaultHistory for every number of faults and every length   *)
(* of the EEPROM queue.                                                    *)
(*                                                                         *)
(* A drained queue means a saved history (SavedWhenDrained), with any      *)
(* number of levels that preempt each other, with power cuts and with      *)
(* faults that occur before the history is read back, as long as no change *)
(* finds the queue full.  Inductive is that a field in which the EEPROM    *)
(* differs has a transfer queued, and that a level under way either has    *)
(* room for its two writes or finds both already queued (Covered, Room).   *)
(*                                                                         *)
(* The list is well linked and implements RecentFaults if only the main    *)
(* loop records faults, outside disturbances: the links are those of the   *)
(* sequence that get_next_fault walks along (Ordered), between Unlink and  *)
(* Link but for the fault that is out of the list, and while the history   *)
(* is read back those in the EEPROM are, by the first result.              *)
(***************************************************************************)
EXTENDS FaultHistory, SequenceTheorems, FiniteSetTheorems,
        WellFoundedInduction, TLAPS

Op == {"write_entry", "write_list", "read_entry", "read_list"}
History == [entry : Pointer, next : [Fault -> Pointer], prev : [Fault -> Pointer]]

\* Every variable of sph_faults_history.c keeps its type.
Types ==
  /\ ram \in History /\ ee \in History
  /\ queue \in Seq(Op)
  /\ pc \in [Level -> {"idle", "unlink", "link", "save"}]
  /\ fault \in [Level -> Fault]
  /\ entry \in [Level -> Pointer]

\* What SavedWhenDrained needs to be inductive.
Has(q, ops) == \E i \in DOMAIN q : q[i] \in ops
EntryPending == Has(queue, {"write_entry", "read_entry"})
ListPending == Has(queue, {"write_list", "read_list"})
SameEntry == ee.entry = ram.entry
SameList == ee.next = ram.next /\ ee.prev = ram.prev

Covered == MainLoop => (SameEntry \/ EntryPending) /\ (SameList \/ ListPending)

Room == ~MainLoop =>
          \/ Len(queue) + 2 <= AT24CXX_DYNAMIC_SCH_ARR_MAX
          \/ EntryPending /\ ListPending

SavedInv == Types /\ Covered /\ Room
-----------------------------------------------------------------------------
\* What the assumptions say of the constants: the end of the list is no fault.
LEMMA ConstantTypes ==
  /\ SPH_FAULT_COUNT \in Nat /\ SPH_FAULT_COUNT >= 1
  /\ 0 \in Fault /\ NULL \notin Fault /\ NULL \in Pointer /\ Fault \subseteq Pointer
  /\ Levels \in Nat /\ 1 \in Level
  /\ AT24CXX_DYNAMIC_SCH_ARR_MAX \in Nat
BY FaultHistoryAssumption DEF FaultHistoryAssumption, Fault, NULL, Pointer, Level

\* The list without faults.
LEMMA EmptyType ==
  /\ Empty \in History /\ Empty.entry = NULL
  /\ \A f \in Fault : Empty.next[f] = NULL /\ Empty.prev[f] = NULL
BY ConstantTypes DEF Empty, History

\* Unlink changes the links of the neighbours only.
LEMMA UnlinkedFields ==
  ASSUME NEW h \in History, NEW f \in Fault
  PROVE  /\ Unlinked(h, f) \in History
         /\ Unlinked(h, f).entry = h.entry
         /\ \A g \in Fault :
              /\ Unlinked(h, f).next[g] = IF g = h.prev[f] THEN h.next[f] ELSE h.next[g]
              /\ Unlinked(h, f).prev[g] = IF g = h.next[f] THEN h.prev[f] ELSE h.prev[g]
<1> DEFINE n == [g \in Fault |-> IF g = h.prev[f] THEN h.next[f] ELSE h.next[g]]
           p == [g \in Fault |-> IF g = h.next[f] THEN h.prev[f] ELSE h.prev[g]]
           u == [h EXCEPT !.next = n]
<1>1. n \in [Fault -> Pointer] /\ p \in [Fault -> Pointer]
  BY DEF History
<1>2. Unlinked(h, f) = [u EXCEPT !.prev = p]
  BY DEF Unlinked
<1> HIDE DEF n, p
<1>3. u \in History /\ u.entry = h.entry /\ u.next = n
  BY <1>1 DEF History
<1> HIDE DEF u
<1>4. /\ [u EXCEPT !.prev = p] \in History /\ [u EXCEPT !.prev = p].entry = u.entry
      /\ [u EXCEPT !.prev = p].next = u.next /\ [u EXCEPT !.prev = p].prev = p
  BY <1>1, <1>3 DEF History
<1> QED
  BY <1>2, <1>3, <1>4 DEF n, p

\* Link puts f in front of e.
LEMMA LinkedFields ==
  ASSUME NEW h \in History, NEW f \in Fault, NEW e \in Pointer
  PROVE  /\ Linked(h, f, e) \in History
         /\ Linked(h, f, e).entry = f
         /\ \A g \in Fault :
              /\ Linked(h, f, e).next[g] = IF g = f THEN e ELSE h.next[g]
              /\ Linked(h, f, e).prev[g] =
                   IF g = f THEN NULL ELSE IF g = e THEN f ELSE h.prev[g]
<1> DEFINE p == [g \in Fault |-> IF g = f THEN NULL ELSE IF g = e THEN f ELSE h.prev[g]]
           u == [h EXCEPT !.entry = f]
           v == [u EXCEPT !.next[f] = e]
<1>1. p \in [Fault -> Pointer]
  BY ConstantTypes DEF History
<1>2. Linked(h, f, e) = [v EXCEPT !.prev = p]
  BY DEF Linked
<1> HIDE DEF p
<1>3. u \in History /\ u.entry = f /\ u.next = h.next
  BY ConstantTypes DEF History
<1> HIDE DEF u
<1>4. /\ v \in History /\ v.entry = u.entry
      /\ \A g \in Fault : v.next[g] = IF g = f THEN e ELSE u.next[g]
  BY <1>3 DEF History
<1> HIDE DEF v
<1>5. /\ [v EXCEPT !.prev = p] \in History /\ [v EXCEPT !.prev = p].entry = v.entry
      /\ [v EXCEPT !.prev = p].next = v.next /\ [v EXCEPT !.prev = p].prev = p
  BY <1>1, <1>4 DEF History
<1> QED
  BY <1>2, <1>3, <1>4, <1>5 DEF p

\* The cut changes at most the successor of f.
LEMMA CutFields ==
  ASSUME NEW h \in History, NEW f \in Fault
  PROVE  /\ CutSelfLoop(h, f) \in History
         /\ h.next[f] # f => CutSelfLoop(h, f) = h
<1>1. CutSelfLoop(h, f) = [h EXCEPT !.next = [h.next EXCEPT ![f] = IF h.next[f] = f THEN NULL ELSE h.next[f]]]
  BY DEF CutSelfLoop, History
<1> DEFINE n == [h.next EXCEPT ![f] = IF h.next[f] = f THEN NULL ELSE h.next[f]]
<1>2. n \in [Fault -> Pointer] /\ (h.next[f] # f => n = h.next)
  BY ConstantTypes DEF History
<1> HIDE DEF n
<1>3. /\ [h EXCEPT !.next = n] \in History
      /\ n = h.next => [h EXCEPT !.next = n] = h
  BY <1>2 DEF History
<1> QED
  BY <1>1, <1>2, <1>3 DEF n

\* A transfer copies one of the two parts and leaves the other.
LEMMA PerformedFields ==
  ASSUME Types, NEW op \in Op, Performed(op)
  PROVE  /\ ram' \in History /\ ee' \in History
         /\ op \in {"write_entry", "read_entry"} => SameEntry'
         /\ op \in {"write_list", "read_list"} => SameList'
         /\ op \in {"write_entry", "read_entry"} /\ SameList => SameList'
         /\ op \in {"write_list", "read_list"} /\ SameEntry => SameEntry'
         /\ op \in {"read_entry", "read_list"} => ee' = ee
<1>t. ram \in History /\ ee \in History
  BY DEF Types
<1>0. ASSUME NEW a \in History, NEW b \in History
      PROVE  /\ [a EXCEPT !.entry = b.entry] \in History
             /\ [a EXCEPT !.entry = b.entry].entry = b.entry
             /\ [a EXCEPT !.entry = b.entry].next = a.next
             /\ [a EXCEPT !.entry = b.entry].prev = a.prev
  BY DEF History
<1>1. CASE op = "write_entry"
  <2>1. ee' = [ee EXCEPT !.entry = ram.entry] /\ ram' = ram
    BY <1>1 DEF Performed
  <2> QED
    BY <1>t, <1>0, <1>1, <2>1 DEF SameEntry, SameList
<1>2. CASE op = "write_list"
  <2>1. ee' = [ram EXCEPT !.entry = ee.entry] /\ ram' = ram
    BY <1>2 DEF Performed
  <2> QED
    BY <1>t, <1>0, <1>2, <2>1 DEF SameEntry, SameList
<1>3. CASE op = "read_entry"
  <2>1. ram' = [ram EXCEPT !.entry = ee.entry] /\ ee' = ee
    BY <1>3 DEF Performed
  <2> QED
    BY <1>t, <1>0, <1>3, <2>1 DEF SameEntry, SameList
<1>4. CASE op = "read_list"
  <2>1. ram' = [ee EXCEPT !.entry = ram.entry] /\ ee' = ee
    BY <1>4 DEF Performed
  <2> QED
    BY <1>t, <1>0, <1>4, <2>1 DEF SameEntry, SameList
<1> QED
  BY <1>1, <1>2, <1>3, <1>4 DEF Op


-----------------------------------------------------------------------------
\* Queueing an operation keeps those queued; if there is room it is among them.
LEMMA QueuedOps ==
  ASSUME NEW q \in Seq(Op), NEW op \in Op
  PROVE  /\ Queued(q, op) \in Seq(Op)
         /\ \A ops : Has(q, ops) => Has(Queued(q, op), ops)
         /\ Len(q) < AT24CXX_DYNAMIC_SCH_ARR_MAX =>
              /\ Len(Queued(q, op)) = Len(q) + 1
              /\ \A ops : op \in ops => Has(Queued(q, op), ops)
<1>1. CASE Len(q) < AT24CXX_DYNAMIC_SCH_ARR_MAX
  <2>1. /\ Queued(q, op) = Append(q, op) /\ Append(q, op) \in Seq(Op)
        /\ Len(Append(q, op)) = Len(q) + 1 /\ Len(q) \in Nat
        /\ \A i \in 1 .. Len(q) : Append(q, op)[i] = q[i]
        /\ Append(q, op)[Len(q) + 1] = op
    BY <1>1, AppendProperties, LenProperties DEF Queued
  <2>2. /\ DOMAIN q = 1 .. Len(q)
        /\ DOMAIN Append(q, op) = 1 .. Len(q) + 1
    BY <2>1, LenProperties
  <2>3. ASSUME NEW ops, Has(q, ops) PROVE Has(Append(q, op), ops)
    BY <2>1, <2>2, <2>3 DEF Has
  <2>4. ASSUME NEW ops, op \in ops PROVE Has(Append(q, op), ops)
    BY <2>1, <2>2, <2>4 DEF Has
  <2> QED
    BY <2>1, <2>3, <2>4
<1>2. CASE ~(Len(q) < AT24CXX_DYNAMIC_SCH_ARR_MAX)
  BY <1>2 DEF Queued
<1> QED
  BY <1>1, <1>2

\* Performing the oldest operation drops at most what the operation was.
LEMMA TailOps ==
  ASSUME NEW q \in Seq(Op), q # <<>>
  PROVE  /\ Head(q) \in Op /\ Tail(q) \in Seq(Op)
         /\ \A ops : Has(q, ops) => Head(q) \in ops \/ Has(Tail(q), ops)
<1>1. /\ Head(q) \in Op /\ Head(q) = q[1] /\ Tail(q) \in Seq(Op)
      /\ Len(Tail(q)) = Len(q) - 1 /\ Len(q) \in Nat \ {0}
      /\ \A i \in 1 .. Len(q) - 1 : Tail(q)[i] = q[i + 1]
  BY HeadTailProperties, LenProperties, EmptySeq
<1>2. DOMAIN q = 1 .. Len(q) /\ DOMAIN Tail(q) = 1 .. Len(q) - 1
  BY <1>1, LenProperties
<1>3. ASSUME NEW ops, Has(q, ops), Head(q) \notin ops PROVE Has(Tail(q), ops)
  <2>1. PICK i \in 1 .. Len(q) : q[i] \in ops
    BY <1>2, <1>3 DEF Has
  <2>2. i # 1
    BY <1>1, <1>3, <2>1
  <2>3. i - 1 \in 1 .. Len(q) - 1 /\ Tail(q)[i - 1] = q[i]
    BY <1>1, <2>1, <2>2
  <2> QED
    BY <1>2, <2>1, <2>3 DEF Has
<1> QED
  BY <1>1, <1>3

\* After saveAll both writes are queued, if there was room or both were before.
LEMMA SaveAllOps ==
  ASSUME Types, saveAll,
         \/ Len(queue) + 2 <= AT24CXX_DYNAMIC_SCH_ARR_MAX
         \/ EntryPending /\ ListPending
  PROVE  queue' \in Seq(Op) /\ EntryPending' /\ ListPending'
<1> DEFINE q == Queued(queue, "write_entry")
<1>1. queue \in Seq(Op) /\ Len(queue) \in Nat
  BY LenProperties DEF Types
<1>2. "write_entry" \in Op /\ "write_list" \in Op
  BY DEF Op
<1>3. /\ q \in Seq(Op)
      /\ \A ops : Has(queue, ops) => Has(q, ops)
      /\ Len(queue) < AT24CXX_DYNAMIC_SCH_ARR_MAX =>
           /\ Len(q) = Len(queue) + 1
           /\ \A ops : "write_entry" \in ops => Has(q, ops)
  BY <1>1, <1>2, QueuedOps
<1>4. queue' = Queued(q, "write_list")
  BY DEF saveAll
<1> HIDE DEF q
<1>5. /\ queue' \in Seq(Op)
      /\ \A ops : Has(q, ops) => Has(queue', ops)
      /\ Len(q) < AT24CXX_DYNAMIC_SCH_ARR_MAX =>
           \A ops : "write_list" \in ops => Has(queue', ops)
  BY <1>2, <1>3, <1>4, QueuedOps
<1>6. CASE Len(queue) + 2 <= AT24CXX_DYNAMIC_SCH_ARR_MAX
  <2>1. /\ Has(q, {"write_entry", "read_entry"})
        /\ Len(q) < AT24CXX_DYNAMIC_SCH_ARR_MAX
    BY <1>1, <1>3, <1>6, ConstantTypes
  <2> QED
    BY <1>5, <2>1 DEF EntryPending, ListPending, Has
<1>7. CASE EntryPending /\ ListPending
  BY <1>3, <1>5, <1>7 DEF EntryPending, ListPending, Has
<1> QED
  BY <1>6, <1>7

\* The initial state: nothing queued, nothing to save.
LEMMA InitSaved == Init => SavedInv
<1> SUFFICES ASSUME Init PROVE SavedInv
  OBVIOUS
<1>1. <<>> \in Seq(Op)
  OBVIOUS
<1>2. Types
  BY <1>1, EmptyType, ConstantTypes DEF Init, Types
<1>3. MainLoop /\ SameEntry /\ SameList
  BY DEF Init, MainLoop, SameEntry, SameList
<1> QED
  BY <1>2, <1>3 DEF SavedInv, Covered, Room

\* A step of fault_history_setFault: Enter finds room, Save queues both writes.
LEMMA SetFaultSaved ==
  ASSUME SavedInv, "full_queue" \notin Disturbances,
         NEW c \in Level, fault_history_setFault(c)
  PROVE  SavedInv'
<1>t. /\ Types /\ ram \in History /\ ee \in History /\ queue \in Seq(Op)
      /\ pc \in [Level -> {"idle", "unlink", "link", "save"}]
      /\ fault \in [Level -> Fault] /\ entry \in [Level -> Pointer]
      /\ ram.entry \in Pointer
  BY DEF SavedInv, Types, History
<1>r. Room
  BY DEF SavedInv
<1>k. ASSUME NEW here \in {"unlink", "link", "save"}, Goto(c, here), ram' \in History,
             UNCHANGED <<ee, queue>>,
             fault' \in [Level -> Fault], entry' \in [Level -> Pointer],
             \/ Len(queue) + 2 <= AT24CXX_DYNAMIC_SCH_ARR_MAX
             \/ EntryPending /\ ListPending
      PROVE  SavedInv'
  <2>1. Types'
    BY <1>t, <1>k DEF Types, Goto
  <2>2. ~MainLoop'
    BY <1>t, <1>k DEF MainLoop, Goto
  <2>3. EntryPending' = EntryPending /\ ListPending' = ListPending
    BY <1>k DEF EntryPending, ListPending, Has
  <2> QED
    BY <1>k, <2>1, <2>2, <2>3 DEF SavedInv, Covered, Room
<1>1. ASSUME NEW f \in Fault, Enter(c, f) PROVE SavedInv'
  <2>1. Len(queue) + 2 <= AT24CXX_DYNAMIC_SCH_ARR_MAX
    <3>1. ~(Len(queue) + 2 > AT24CXX_DYNAMIC_SCH_ARR_MAX)
      BY <1>1 DEF Enter, Admitted
    <3> QED
      BY <1>t, <3>1, ConstantTypes, LenProperties
  <2>2. fault' \in [Level -> Fault] /\ entry' \in [Level -> Pointer]
    BY <1>t, <1>1 DEF Enter
  <2>3. ram' \in History /\ UNCHANGED <<ee, queue>>
    BY <1>t, <1>1 DEF Enter
  <2>4. Goto(c, "unlink") \/ Goto(c, "save")
    BY <1>1 DEF Enter
  <2> QED
    BY <1>k, <2>1, <2>2, <2>3, <2>4
<1>a. ASSUME pc[c] # "idle"
      PROVE  \/ Len(queue) + 2 <= AT24CXX_DYNAMIC_SCH_ARR_MAX
             \/ EntryPending /\ ListPending
  BY <1>r, <1>a DEF Room, MainLoop
<1>2. CASE Unlink(c)
  <2>1. /\ pc[c] # "idle" /\ Goto(c, "link") /\ UNCHANGED <<ee, queue, fault, entry>>
        /\ ram' = Unlinked(ram, fault[c]) /\ fault[c] \in Fault
    BY <1>t, <1>2 DEF Unlink, At
  <2>2. ram' \in History
    BY <1>t, <2>1, UnlinkedFields
  <2> QED
    BY <1>t, <1>k, <1>a, <2>1, <2>2
<1>3. CASE Link(c)
  <2>1. /\ pc[c] # "idle" /\ Goto(c, "save") /\ UNCHANGED <<ee, queue, fault, entry>>
        /\ ram' = Linked(ram, fault[c], entry[c]) /\ fault[c] \in Fault /\ entry[c] \in Pointer
    BY <1>t, <1>3 DEF Link, At
  <2>2. ram' \in History
    BY <1>t, <2>1, LinkedFields
  <2> QED
    BY <1>t, <1>k, <1>a, <2>1, <2>2
<1>4. CASE Save(c)
  <2>1. /\ pc[c] # "idle" /\ Goto(c, "idle") /\ UNCHANGED <<ee, fault, entry>>
        /\ ram' = CutSelfLoop(ram, fault[c]) /\ fault[c] \in Fault /\ saveAll
    BY <1>t, <1>4 DEF Save, At
  <2>2. ram' \in History
    BY <1>t, <2>1, CutFields
  <2>3. queue' \in Seq(Op) /\ EntryPending' /\ ListPending'
    BY <1>t, <1>a, <2>1, SaveAllOps
  <2>4. Types'
    BY <1>t, <2>1, <2>2, <2>3 DEF Types, Goto
  <2> QED
    BY <2>3, <2>4 DEF SavedInv, Covered, Room
<1> QED
  BY <1>1, <1>2, <1>3, <1>4 DEF fault_history_setFault

\* The menu's erasure queues both writes too.
LEMMA EraseSaved ==
  ASSUME SavedInv, "full_queue" \notin Disturbances, fault_history_eraseAndSaveAll
  PROVE  SavedInv'
<1>t. Types /\ queue \in Seq(Op)
  BY DEF SavedInv, Types
<1>1. Len(queue) + 2 <= AT24CXX_DYNAMIC_SCH_ARR_MAX
  <2>1. ~(Len(queue) + 2 > AT24CXX_DYNAMIC_SCH_ARR_MAX)
    BY DEF fault_history_eraseAndSaveAll, Admitted
  <2> QED
    BY <1>t, <2>1, ConstantTypes, LenProperties
<1>2. queue' \in Seq(Op) /\ EntryPending' /\ ListPending'
  BY <1>t, <1>1, SaveAllOps DEF fault_history_eraseAndSaveAll
<1>3. Types'
  BY <1>t, <1>2, EmptyType DEF Types, fault_history_eraseAndSaveAll
<1> QED
  BY <1>2, <1>3 DEF SavedInv, Covered, Room

\* A transfer makes its part equal and leaves the other part to the others.
LEMMA PerformSaved ==
  ASSUME SavedInv, at24cxx_dynamic_handler
  PROVE  SavedInv'
<1>t. Types /\ Covered /\ queue \in Seq(Op) /\ queue # <<>> /\ MainLoop
  BY DEF SavedInv, Types, at24cxx_dynamic_handler
<1> DEFINE op == Head(queue)
<1>1. /\ op \in Op /\ Tail(queue) \in Seq(Op)
      /\ EntryPending => op \in {"write_entry", "read_entry"} \/ EntryPending'
      /\ ListPending => op \in {"write_list", "read_list"} \/ ListPending'
  <2>1. queue' = Tail(queue)
    BY DEF at24cxx_dynamic_handler
  <2>2. /\ op \in Op /\ Tail(queue) \in Seq(Op)
        /\ \A ops : Has(queue, ops) => op \in ops \/ Has(Tail(queue), ops)
    BY <1>t, TailOps
  <2>3. \A ops : Has(queue, ops)' <=> Has(Tail(queue), ops)
    BY <2>1 DEF Has
  <2> QED
    BY <2>2, <2>3 DEF EntryPending, ListPending
<1>2. Performed(op) /\ queue' = Tail(queue) /\ UNCHANGED <<pc, fault, entry>>
  BY DEF at24cxx_dynamic_handler
<1> HIDE DEF op
<1>3. /\ ram' \in History /\ ee' \in History
      /\ op \in {"write_entry", "read_entry"} => SameEntry'
      /\ op \in {"write_list", "read_list"} => SameList'
      /\ op \in {"write_entry", "read_entry"} /\ SameList => SameList'
      /\ op \in {"write_list", "read_list"} /\ SameEntry => SameEntry'
  BY <1>t, <1>1, <1>2, PerformedFields
<1>4. Types'
  BY <1>t, <1>1, <1>2, <1>3 DEF Types
<1>5. MainLoop'
  BY <1>t, <1>2 DEF MainLoop
<1>6. (SameEntry \/ EntryPending) /\ (SameList \/ ListPending)
  BY <1>t DEF Covered
<1>7. op \in {"write_entry", "read_entry"} \/ op \in {"write_list", "read_list"}
  BY <1>1 DEF Op
<1>8. SameEntry' \/ EntryPending'
  BY <1>1, <1>3, <1>6, <1>7, Zenon
<1>9. SameList' \/ ListPending'
  BY <1>1, <1>3, <1>6, <1>7, Zenon
<1> QED
  BY <1>4, <1>5, <1>8, <1>9 DEF SavedInv, Covered, Room

\* Appending to one operation makes two.
LEMMA AppendToOne == ASSUME NEW x, NEW y PROVE Append(<<x>>, y) = <<x, y>>
<1> DEFINE S == {x, y}
           s == Append(<<x>>, y)
           t == <<x, y>>
<1>1. <<x>> \in Seq(S) /\ y \in S /\ t \in Seq(S)
  OBVIOUS
<1>2. Len(<<x>>) = 1 /\ Len(t) = 2 /\ <<x>>[1] = x /\ t[1] = x /\ t[2] = y
  OBVIOUS
<1>3. s \in Seq(S) /\ Len(s) = 2 /\ s[2] = y /\ s[1] = x
  BY <1>1, <1>2, AppendProperties
<1> HIDE DEF s, t, S
<1>4. \A i \in 1 .. 2 : s[i] = t[i]
  <2>1. \A i \in 1 .. 2 : i = 1 \/ i = 2
    OBVIOUS
  <2> QED
    BY <2>1, <1>2, <1>3
<1>5. Len(s) = Len(t) /\ \A i \in 1 .. Len(s) : s[i] = t[i]
  BY <1>2, <1>3, <1>4
<1>6. s = t
  BY <1>1, <1>3, <1>5, SeqEqual
<1> QED
  BY <1>6 DEF s, t

\* After a restart both parts are to be read back.
LEMMA RestartSaved ==
  ASSUME SavedInv, AT24CXX_DYNAMIC_SCH_ARR_MAX >= 2, Restart
  PROVE  /\ SavedInv' /\ ram' = Empty /\ ee' = ee /\ MainLoop'
         /\ queue' = <<"read_entry", "read_list">>
<1>1. queue' = <<"read_entry", "read_list">>
  <2>1. Queued(<<>>, "read_entry") = <<"read_entry">>
    BY ConstantTypes DEF Queued
  <2>2. /\ Len(<<"read_entry">>) = 1
        /\ Append(<<"read_entry">>, "read_list") = <<"read_entry", "read_list">>
    BY AppendToOne
  <2>3. Queued(<<"read_entry">>, "read_list") = <<"read_entry", "read_list">>
    BY <2>2, ConstantTypes DEF Queued
  <2> QED
    BY <2>1, <2>3 DEF Restart
<1>2. queue' \in Seq(Op) /\ EntryPending' /\ ListPending'
  <2>1. queue' \in Seq(Op)
    BY <1>1 DEF Op
  <2>2. 1 \in DOMAIN queue' /\ 2 \in DOMAIN queue'
    BY <1>1
  <2>3. queue'[1] = "read_entry" /\ queue'[2] = "read_list"
    BY <1>1
  <2>4. EntryPending'
    BY <2>2, <2>3 DEF EntryPending, Has
  <2>5. ListPending'
    BY <2>2, <2>3 DEF ListPending, Has
  <2> QED
    BY <2>1, <2>4, <2>5
<1>3. Types'
  BY <1>2, EmptyType, ConstantTypes DEF Restart, Types, SavedInv
<1>4. MainLoop'
  BY DEF Restart, MainLoop
<1> QED
  BY <1>1, <1>2, <1>3, <1>4 DEF SavedInv, Covered, Room, Restart

\* Every step preserves SavedInv.
LEMMA StepSaved ==
  ASSUME "full_queue" \notin Disturbances, AT24CXX_DYNAMIC_SCH_ARR_MAX >= 2,
         SavedInv, [Next]_vars
  PROVE  SavedInv'
<1>1. CASE \E c \in Level : fault_history_setFault(c)
  BY <1>1, SetFaultSaved
<1>2. CASE fault_history_eraseAndSaveAll
  BY <1>2, EraseSaved
<1>3. CASE at24cxx_dynamic_handler
  BY <1>3, PerformSaved
<1>4. CASE Restart
  BY <1>4, RestartSaved
<1>5. CASE UNCHANGED vars
  BY <1>5 DEF vars, SavedInv, Types, Covered, Room, MainLoop, SameEntry, SameList,
              EntryPending, ListPending, Has
<1> QED
  BY <1>1, <1>2, <1>3, <1>4, <1>5 DEF Next

\* When the queue has run dry the EEPROM holds the history, whichever levels recorded
\* it, whatever was cut off by power failures and whatever occurred while the history
\* was read back: no change is forgotten, provided none finds the queue full.
THEOREM SavedWhenDrainedSafe ==
  ASSUME "full_queue" \notin Disturbances, AT24CXX_DYNAMIC_SCH_ARR_MAX >= 2
  PROVE  Spec => []SavedWhenDrained
<1>1. SavedInv /\ [Next]_vars => SavedInv'
  BY StepSaved
<1>2. SavedInv => SavedWhenDrained
  <2> SUFFICES ASSUME SavedInv, MainLoop, queue = <<>> PROVE ee = ram
    BY DEF SavedWhenDrained
  <2>1. ~EntryPending /\ ~ListPending
    BY DEF EntryPending, ListPending, Has
  <2>2. SameEntry /\ SameList
    BY <2>1 DEF SavedInv, Covered
  <2>3. ram \in History /\ ee \in History
    BY DEF SavedInv, Types
  <2> QED
    BY <2>2, <2>3 DEF History, SameEntry, SameList
<1> QED
  BY InitSaved, <1>1, <1>2, PTL DEF Spec


-----------------------------------------------------------------------------
\* A set of numbers that contains 0 and each successor contains all.
LEMMA SetInduction ==
  ASSUME NEW S, 0 \in S, \A n \in Nat : n \in S => n + 1 \in S
  PROVE  Nat \subseteq S
<1> DEFINE T == {n \in Nat : n \notin S}
           R == OpToRel(<, Nat)
<1> SUFFICES ASSUME T # {} PROVE FALSE
  OBVIOUS
<1>1. PICK m \in T : \A y \in T : <<y, m>> \notin R
  <2>1. IsWellFoundedOn(R, Nat)
    BY NatLessThanWellFounded
  <2>2. T \subseteq Nat
    OBVIOUS
  <2> HIDE DEF T, R
  <2> QED
    BY <2>1, <2>2, WFMin
<1>2. m # 0 /\ m - 1 \in Nat
  OBVIOUS
<1>3. m - 1 \in T
  BY <1>2
<1>4. <<m - 1, m>> \in R
  BY <1>2 DEF OpToRel
<1> QED
  BY <1>1, <1>3, <1>4

\* The links of h list the faults of s and no other, but perhaps for those of X.
Ordered(h, s, X) ==
  /\ \A i, j \in 1 .. Len(s) : s[i] = s[j] => i = j
  /\ h.entry = IF s = <<>> THEN NULL ELSE s[1]
  /\ \A i \in 1 .. Len(s) :
        /\ h.next[s[i]] = IF i = Len(s) THEN NULL ELSE s[i + 1]
        /\ h.prev[s[i]] = IF i = 1 THEN NULL ELSE s[i - 1]
  /\ \A f \in Fault \ X : (\A i \in 1 .. Len(s) : s[i] # f) =>
        h.next[f] = NULL /\ h.prev[f] = NULL

\* The numbers up to n are n.
LEMMA UpTo ==
  ASSUME NEW n \in Nat
  PROVE  IsFiniteSet(1 .. n) /\ Cardinality(1 .. n) = n
<1>1. 1 \in Int /\ n \in Int /\ (1 > n => n = 0)
  OBVIOUS
<1> QED
  BY <1>1, FS_Interval

\* No list is longer than the array.
LEMMA OrderedLength ==
  ASSUME NEW h, NEW s \in Seq(Fault), NEW X, Ordered(h, s, X)
  PROVE  Len(s) \in 0 .. SPH_FAULT_COUNT
<1>1. s \in [1 .. Len(s) -> Fault] /\ Len(s) \in Nat
  BY LenProperties
<1>2. IsFiniteSet(Fault) /\ Cardinality(Fault) = SPH_FAULT_COUNT
  BY ConstantTypes, FS_Interval DEF Fault
<1>3. IsFiniteSet(1 .. Len(s)) /\ Cardinality(1 .. Len(s)) = Len(s)
  BY <1>1, UpTo
<1>4. ~ \E x, y \in 1 .. Len(s) : x # y /\ s[x] = s[y]
  BY DEF Ordered
<1>5. ~ SPH_FAULT_COUNT < Len(s)
  BY <1>1, <1>2, <1>3, <1>4, FS_PigeonHole
<1> QED
  BY <1>1, <1>5, ConstantTypes

\* get_next_fault, from the entry pointer on, meets the faults of the list in its order.
LEMMA ViewOrdered ==
  ASSUME NEW h, NEW s \in Seq(Fault), NEW X, Ordered(h, s, X)
  PROVE  View(h) = s
<1> DEFINE N == SPH_FAULT_COUNT
           Step(w, n) == IF n = 1 THEN h.entry
                         ELSE IF w[n - 1] = NULL THEN NULL ELSE h.next[w[n - 1]]
           g == [n \in 1 .. N |-> IF n <= Len(s) THEN s[n] ELSE NULL]
           walk == CHOOSE w : w = [n \in 1 .. N |-> Step(w, n)]
           count(w) == Cardinality({n \in 1 .. N : w[n] # NULL})
<1>1. /\ s \in [1 .. Len(s) -> Fault] /\ Len(s) \in 0 .. N /\ N \in Nat /\ N >= 1
      /\ NULL \notin Fault
  BY LenProperties, OrderedLength, ConstantTypes
<1>2. /\ h.entry = IF s = <<>> THEN NULL ELSE s[1]
      /\ \A i \in 1 .. Len(s) : h.next[s[i]] = IF i = Len(s) THEN NULL ELSE s[i + 1]
      /\ s = <<>> <=> Len(s) = 0
  BY EmptySeq DEF Ordered
<1>g. \A n \in 1 .. N : g[n] = IF n <= Len(s) THEN s[n] ELSE NULL
  OBVIOUS
<1>s. \A i \in 1 .. Len(s) : s[i] \in Fault /\ s[i] # NULL
  BY <1>1
<1>3. \A n \in 1 .. N : g[n] = Step(g, n)
  <2> HIDE DEF g
  <2> SUFFICES ASSUME NEW n \in 1 .. N PROVE g[n] = Step(g, n)
    OBVIOUS
  <2>1. CASE n = 1
    <3>1. Step(g, 1) = IF Len(s) = 0 THEN NULL ELSE s[1]
      BY <1>2
    <3>2. g[1] = IF 1 <= Len(s) THEN s[1] ELSE NULL
      BY <1>1, <1>g
    <3>3. Len(s) = 0 <=> ~(1 <= Len(s))
      BY <1>1
    <3> QED
      BY <2>1, <3>1, <3>2, <3>3
  <2>2. CASE n # 1
    <3>1. n - 1 \in 1 .. N
      BY <1>1, <2>2
    <3>2. CASE n - 1 <= Len(s)
      <4>1. n - 1 \in 1 .. Len(s) /\ g[n - 1] = s[n - 1] /\ s[n - 1] # NULL
        BY <1>1, <1>g, <1>s, <3>1, <3>2
      <4>2. Step(g, n) = h.next[s[n - 1]]
        BY <2>2, <4>1
      <4>3. n - 1 + 1 = n
        OBVIOUS
      <4>4. h.next[s[n - 1]] = IF n - 1 = Len(s) THEN NULL ELSE s[n]
        BY <1>2, <4>1, <4>3
      <4> QED
        BY <1>1, <1>g, <3>2, <4>2, <4>4
    <3>3. CASE ~(n - 1 <= Len(s))
      BY <1>1, <1>g, <2>2, <3>1, <3>3
    <3> QED
      BY <3>2, <3>3
  <2> QED
    BY <2>1, <2>2
<1>4. g = [n \in 1 .. N |-> Step(g, n)]
  BY <1>3
<1>5. walk = [n \in 1 .. N |-> Step(walk, n)]
  <2> HIDE DEF g, Step
  <2> QED
    BY <1>4
<1> HIDE DEF walk
<1>6. \A n \in 1 .. N : walk[n] = Step(walk, n)
  BY <1>5
<1>7. \A n \in 1 .. N : walk[n] = g[n]
  <2> DEFINE S == {n \in Nat : n \in 1 .. N => walk[n] = g[n]}
  <2>1. 0 \in S
    OBVIOUS
  <2>2. ASSUME NEW n \in Nat, n \in S PROVE n + 1 \in S
    <3> SUFFICES ASSUME n + 1 \in 1 .. N PROVE walk[n + 1] = g[n + 1]
      OBVIOUS
    <3>1. walk[n + 1] = Step(walk, n + 1) /\ g[n + 1] = Step(g, n + 1)
      BY <1>3, <1>6
    <3>2. n # 0 => walk[n] = g[n]
      BY <1>1, <2>2
    <3>3. n + 1 - 1 = n /\ (n + 1 = 1 <=> n = 0)
      OBVIOUS
    <3> HIDE DEF g
    <3> QED
      BY <3>1, <3>2, <3>3
  <2>3. Nat \subseteq S
    <3> HIDE DEF S
    <3> QED
      BY <2>1, <2>2, SetInduction
  <2> HIDE DEF g
  <2> QED
    BY <1>1, <2>3
<1>8. walk = g
  BY <1>5, <1>7
<1>9. count(g) = Len(s)
  <2>1. {n \in 1 .. N : g[n] # NULL} = 1 .. Len(s)
    BY <1>1, <1>g, <1>s
  <2>2. Cardinality(1 .. Len(s)) = Len(s)
    BY <1>1, UpTo
  <2> HIDE DEF g
  <2> QED
    BY <2>1, <2>2
<1>10. View(h) = [i \in 1 .. count(walk) |-> walk[i]]
  BY DEF View, walk
<1>11. \A i \in 1 .. Len(s) : g[i] = s[i]
  BY <1>1
<1> QED
  BY <1>1, <1>8, <1>9, <1>10, <1>11

\* A sequence without its k-th element: those behind move up.
LEMMA CutOut ==
  ASSUME NEW S, NEW s \in Seq(S), NEW k \in 1 .. Len(s)
  PROVE  LET w == SubSeq(s, 1, k - 1) \o SubSeq(s, k + 1, Len(s))
         IN  /\ w \in Seq(S) /\ Len(w) = Len(s) - 1
             /\ \A i \in 1 .. Len(w) : w[i] = IF i < k THEN s[i] ELSE s[i + 1]
<1> DEFINE a == SubSeq(s, 1, k - 1)
           b == SubSeq(s, k + 1, Len(s))
           n == Len(s)
<1>1. n \in Nat /\ \A i \in 1 .. n : s[i] \in S
  BY LenProperties, ElementOfSeq
<1>2. k \in 1 .. n
  OBVIOUS
<1>3. /\ a \in Seq(S) /\ Len(a) = IF 1 <= k - 1 THEN k - 1 - 1 + 1 ELSE 0
      /\ \A i \in 1 .. k - 1 - 1 + 1 : a[i] = s[1 + i - 1]
  <2>1. 1 \in Int /\ k - 1 \in Int /\ \A i \in 1 .. k - 1 : s[i] \in S
    BY <1>1, <1>2
  <2> QED
    BY <2>1, SubSeqProperties
<1>4. /\ b \in Seq(S) /\ Len(b) = IF k + 1 <= n THEN n - (k + 1) + 1 ELSE 0
      /\ \A i \in 1 .. n - (k + 1) + 1 : b[i] = s[k + 1 + i - 1]
  <2>1. k + 1 \in Int /\ n \in Int /\ \A i \in k + 1 .. n : s[i] \in S
    BY <1>1, <1>2
  <2> QED
    BY <2>1, SubSeqProperties
<1> HIDE DEF a, b, n
<1>5. /\ a \o b \in Seq(S) /\ Len(a \o b) = Len(a) + Len(b)
      /\ \A i \in 1 .. Len(a) + Len(b) :
            (a \o b)[i] = IF i <= Len(a) THEN a[i] ELSE b[i - Len(a)]
  BY <1>3, <1>4, ConcatProperties
<1>6. Len(a) = k - 1 /\ \A i \in 1 .. k - 1 : a[i] = s[i]
  BY <1>1, <1>2, <1>3
<1>7. Len(b) = n - k
  BY <1>1, <1>2, <1>4
<1>8. ASSUME NEW i \in 1 .. n - k PROVE b[i] = s[k + i]
  <2>1. i \in 1 .. n - (k + 1) + 1 /\ k + 1 + i - 1 = k + i
    BY <1>1, <1>2
  <2> QED
    BY <1>4, <2>1
<1>9. ASSUME NEW i \in 1 .. n - 1 PROVE (a \o b)[i] = IF i < k THEN s[i] ELSE s[i + 1]
  <2>1. i \in 1 .. Len(a) + Len(b) /\ (i <= Len(a) <=> i < k)
    BY <1>1, <1>2, <1>6, <1>7
  <2>2. (a \o b)[i] = IF i < k THEN a[i] ELSE b[i - (k - 1)]
    BY <1>5, <1>6, <2>1
  <2>3. i < k => a[i] = s[i]
    BY <1>2, <1>6
  <2>4. ASSUME ~(i < k) PROVE b[i - (k - 1)] = s[i + 1]
    <3>1. i - (k - 1) \in 1 .. n - k /\ k + (i - (k - 1)) = i + 1
      BY <1>1, <1>2, <2>4
    <3> QED
      BY <1>8, <3>1
  <2> QED
    BY <2>2, <2>3, <2>4
<1>10. Len(a \o b) = n - 1
  BY <1>1, <1>2, <1>5, <1>6, <1>7
<1> QED
  BY <1>5, <1>9, <1>10 DEF a, b, n

\* A list without f stays; from another f goes, and the others move up.
LEMMA WithoutAbsent ==
  ASSUME NEW s \in Seq(Fault), NEW f, \A i \in 1 .. Len(s) : s[i] # f
  PROVE  Abstract!Without(s, f) = s
<1>1. Abstract!Place(s, f) = Len(s) + 1 /\ Len(s) \in Nat
  BY LenProperties DEF Abstract!Place
<1> DEFINE k == Abstract!Place(s, f)
<1>2. SubSeq(s, 1, k - 1) = s
  <2>1. k - 1 = Len(s)
    BY <1>1
  <2> QED
    BY <2>1, SubSeqFull
<1>3. SubSeq(s, k + 1, Len(s)) = <<>>
  <2>1. k + 1 \in Int /\ Len(s) \in Int /\ Len(s) < k + 1
    BY <1>1
  <2> QED
    BY <2>1, SubSeqEmpty
<1>4. s \o <<>> = s
  BY ConcatEmptySeq
<1>5. Abstract!Without(s, f) = SubSeq(s, 1, k - 1) \o SubSeq(s, k + 1, Len(s))
  BY DEF Abstract!Without
<1> QED
  BY <1>2, <1>3, <1>4, <1>5

LEMMA WithoutPresent ==
  ASSUME NEW s \in Seq(Fault), NEW k \in 1 .. Len(s), NEW f, s[k] = f,
         \A i, j \in 1 .. Len(s) : s[i] = s[j] => i = j
  PROVE  LET w == Abstract!Without(s, f)
         IN  /\ w \in Seq(Fault) /\ Len(w) = Len(s) - 1
             /\ \A i \in 1 .. Len(w) : w[i] = IF i < k THEN s[i] ELSE s[i + 1]
<1>1. Len(s) \in Nat /\ DOMAIN s = 1 .. Len(s)
  BY LenProperties
<1>2. Abstract!Place(s, f) = k
  BY <1>1 DEF Abstract!Place
<1> DEFINE w == SubSeq(s, 1, k - 1) \o SubSeq(s, k + 1, Len(s))
<1>3. Abstract!Without(s, f) = w
  BY <1>2 DEF Abstract!Without
<1>4. /\ w \in Seq(Fault) /\ Len(w) = Len(s) - 1
      /\ \A i \in 1 .. Len(w) : w[i] = IF i < k THEN s[i] ELSE s[i + 1]
  BY CutOut, Zenon
<1> HIDE DEF w
<1> QED
  BY <1>3, <1>4

\* Taking a fault that is not the head out of the list leaves the others in order.
LEMMA UnlinkOrdered ==
  ASSUME NEW h \in History, NEW s \in Seq(Fault), NEW f \in Fault,
         Ordered(h, s, {}), f # h.entry
  PROVE  LET w == Abstract!Without(s, f)
         IN  /\ w \in Seq(Fault) /\ Ordered(Unlinked(h, f), w, {f})
             /\ \A i \in 1 .. Len(w) : w[i] # f
<1> DEFINE u == Unlinked(h, f)
           n == h.next[f]
           p == h.prev[f]
           w == Abstract!Without(s, f)
<1> SUFFICES w \in Seq(Fault) /\ Ordered(u, w, {f}) /\ \A i \in 1 .. Len(w) : w[i] # f
  OBVIOUS
<1>1. /\ u.entry = h.entry
      /\ \A g \in Fault : u.next[g] = IF g = p THEN n ELSE h.next[g]
      /\ \A g \in Fault : u.prev[g] = IF g = n THEN p ELSE h.prev[g]
  BY UnlinkedFields
<1>2. /\ \A i, j \in 1 .. Len(s) : s[i] = s[j] => i = j
      /\ h.entry = IF s = <<>> THEN NULL ELSE s[1]
      /\ \A i \in 1 .. Len(s) :
            /\ h.next[s[i]] = IF i = Len(s) THEN NULL ELSE s[i + 1]
            /\ h.prev[s[i]] = IF i = 1 THEN NULL ELSE s[i - 1]
      /\ \A a \in Fault : (\A i \in 1 .. Len(s) : s[i] # a) =>
            h.next[a] = NULL /\ h.prev[a] = NULL
  BY DEF Ordered
<1>3. /\ Len(s) \in Nat /\ \A i \in 1 .. Len(s) : s[i] \in Fault /\ s[i] # NULL
      /\ NULL \notin Fault /\ (s = <<>> <=> Len(s) = 0)
  BY LenProperties, ElementOfSeq, EmptySeq, ConstantTypes
<1>4. CASE \A i \in 1 .. Len(s) : s[i] # f
  <2>1. n = NULL /\ p = NULL /\ w = s
    BY <1>2, <1>4, WithoutAbsent
  <2>2. \A g \in Fault : u.next[g] = h.next[g] /\ u.prev[g] = h.prev[g]
    BY <1>1, <1>3, <2>1
  <2> HIDE DEF u, w, n, p
  <2>3. Ordered(u, s, {f})
    <3>1. u.entry = IF s = <<>> THEN NULL ELSE s[1]
      BY <1>1, <1>2
    <3>2. \A i \in 1 .. Len(s) :
            /\ u.next[s[i]] = IF i = Len(s) THEN NULL ELSE s[i + 1]
            /\ u.prev[s[i]] = IF i = 1 THEN NULL ELSE s[i - 1]
      BY <1>2, <1>3, <2>2
    <3>3. \A a \in Fault \ {f} : (\A i \in 1 .. Len(s) : s[i] # a) =>
            u.next[a] = NULL /\ u.prev[a] = NULL
      BY <1>2, <2>2
    <3> QED
      BY <1>2, <3>1, <3>2, <3>3 DEF Ordered
  <2> QED
    BY <1>4, <2>1, <2>3
<1>5. ASSUME NEW k \in 1 .. Len(s), s[k] = f
      PROVE  w \in Seq(Fault) /\ Ordered(u, w, {f}) /\ \A i \in 1 .. Len(w) : w[i] # f
  <2>1. k > 1 /\ k - 1 \in 1 .. Len(s)
    BY <1>2, <1>3, <1>5
  <2>2. p = s[k - 1] /\ n = IF k = Len(s) THEN NULL ELSE s[k + 1]
    BY <1>2, <1>5, <2>1
  <2>3. /\ w \in Seq(Fault) /\ Len(w) = Len(s) - 1
        /\ \A i \in 1 .. Len(w) : w[i] = IF i < k THEN s[i] ELSE s[i + 1]
    BY <1>2, <1>5, WithoutPresent
  <2> HIDE DEF u, w, n, p
  <2>4. \A i \in 1 .. Len(s) : s[i] = p <=> i = k - 1
    BY <1>2, <2>1, <2>2
  <2>5. \A i \in 1 .. Len(s) : s[i] = n <=> k # Len(s) /\ i = k + 1
    <3>1. CASE k = Len(s)
      BY <1>3, <2>2, <3>1
    <3>2. CASE k # Len(s)
      <4>1. k + 1 \in 1 .. Len(s)
        BY <1>3, <3>2
      <4> QED
        BY <1>2, <2>2, <3>2, <4>1
    <3> QED
      BY <3>1, <3>2
  <2>6. ASSUME NEW i \in 1 .. Len(w)
        PROVE  u.next[w[i]] = IF i = Len(w) THEN NULL ELSE w[i + 1]
    <3>1. CASE i < k - 1
      <4>1. /\ i \in 1 .. Len(s) /\ i + 1 \in 1 .. Len(w) /\ i # Len(s) /\ i # Len(w)
            /\ w[i] = s[i] /\ w[i + 1] = s[i + 1]
        BY <1>3, <2>3, <3>1
      <4>2. s[i] # p /\ s[i] \in Fault /\ h.next[s[i]] = s[i + 1]
        BY <1>2, <1>3, <2>4, <3>1, <4>1
      <4> QED
        BY <1>1, <4>1, <4>2
    <3>2. CASE i = k - 1
      <4>1. w[i] = p /\ p \in Fault
        BY <1>3, <2>1, <2>2, <2>3, <3>2
      <4>2. u.next[w[i]] = n
        BY <1>1, <4>1
      <4>3. i = Len(w) <=> k = Len(s)
        BY <1>3, <2>3, <3>2
      <4>4. i # Len(w) => w[i + 1] = s[k + 1]
        BY <1>3, <2>3, <3>2
      <4> QED
        BY <2>2, <4>2, <4>3, <4>4
    <3>3. CASE i >= k
      <4>1. i + 1 \in 1 .. Len(s) /\ w[i] = s[i + 1] /\ (i = Len(w) <=> i + 1 = Len(s))
        BY <1>3, <2>3, <3>3
      <4>2. s[i + 1] # p /\ s[i + 1] \in Fault
        BY <1>3, <2>4, <3>3, <4>1
      <4>3. h.next[s[i + 1]] = IF i + 1 = Len(s) THEN NULL ELSE s[i + 1 + 1]
        BY <1>2, <4>1
      <4>4. i # Len(w) => w[i + 1] = s[i + 1 + 1]
        BY <1>3, <2>3, <3>3
      <4> QED
        BY <1>1, <4>1, <4>2, <4>3, <4>4
    <3> QED
      BY <1>3, <2>3, <3>1, <3>2, <3>3
  <2>7. ASSUME NEW i \in 1 .. Len(w)
        PROVE  u.prev[w[i]] = IF i = 1 THEN NULL ELSE w[i - 1]
    <3>1. CASE i < k
      <4>1. i \in 1 .. Len(s) /\ w[i] = s[i] /\ (i # 1 => w[i - 1] = s[i - 1])
        BY <1>3, <2>3, <3>1
      <4>2. s[i] # n /\ s[i] \in Fault
        BY <1>3, <2>5, <3>1, <4>1
      <4>3. h.prev[s[i]] = IF i = 1 THEN NULL ELSE s[i - 1]
        BY <1>2, <4>1
      <4> QED
        BY <1>1, <4>1, <4>2, <4>3
    <3>2. CASE i = k
      <4>1. k # Len(s) /\ k + 1 \in 1 .. Len(s) /\ w[i] = s[k + 1] /\ w[i - 1] = s[k - 1] /\ i # 1
        BY <1>3, <2>1, <2>3, <3>2
      <4>2. w[i] = n /\ n \in Fault
        BY <1>3, <2>2, <4>1
      <4> QED
        BY <1>1, <2>2, <4>1, <4>2
    <3>3. CASE i > k
      <4>1. i + 1 \in 1 .. Len(s) /\ w[i] = s[i + 1] /\ w[i - 1] = s[i] /\ i # 1
        BY <1>3, <2>1, <2>3, <3>3
      <4>2. s[i + 1] # n /\ s[i + 1] \in Fault
        BY <1>3, <2>5, <3>3, <4>1
      <4>3. h.prev[s[i + 1]] = s[i]
        <5>1. i + 1 # 1 /\ i + 1 - 1 = i
          BY <4>1
        <5> QED
          BY <1>2, <4>1, <5>1
      <4> QED
        BY <1>1, <4>1, <4>2, <4>3
    <3> QED
      BY <1>3, <2>3, <3>1, <3>2, <3>3
  <2>8. \A i, j \in 1 .. Len(w) : w[i] = w[j] => i = j
    <3> SUFFICES ASSUME NEW i \in 1 .. Len(w), NEW j \in 1 .. Len(w), w[i] = w[j] PROVE i = j
      OBVIOUS
    <3> DEFINE a == IF i < k THEN i ELSE i + 1
               b == IF j < k THEN j ELSE j + 1
    <3>1. a \in 1 .. Len(s) /\ b \in 1 .. Len(s) /\ s[a] = w[i] /\ s[b] = w[j]
      BY <1>3, <2>3
    <3>2. a = b
      BY <1>2, <3>1
    <3> QED
      BY <3>2
  <2>9. \A i \in 1 .. Len(w) : w[i] # f
    <3> SUFFICES ASSUME NEW i \in 1 .. Len(w) PROVE w[i] # f
      OBVIOUS
    <3> DEFINE a == IF i < k THEN i ELSE i + 1
    <3>1. a \in 1 .. Len(s) /\ s[a] = w[i] /\ a # k
      BY <1>3, <2>3
    <3> QED
      BY <1>2, <1>5, <3>1
  <2>10. u.entry = IF w = <<>> THEN NULL ELSE w[1]
    <3>1. h.entry = s[1]
      BY <1>2, <1>3, <2>1
    <3>2. 1 \in 1 .. Len(w) /\ w[1] = s[1]
      BY <1>3, <2>1, <2>3
    <3>3. w # <<>>
      BY <2>3, <3>2, EmptySeq
    <3> QED
      BY <1>1, <3>1, <3>2, <3>3
  <2>11. ASSUME NEW a \in Fault \ {f}, \A i \in 1 .. Len(w) : w[i] # a
         PROVE  u.next[a] = NULL /\ u.prev[a] = NULL
    <3>1. \A i \in 1 .. Len(s) : s[i] # a
      <4> SUFFICES ASSUME NEW i \in 1 .. Len(s), s[i] = a PROVE FALSE
        OBVIOUS
      <4>1. i # k
        BY <1>5, <2>11
      <4> DEFINE b == IF i < k THEN i ELSE i - 1
      <4>2. b \in 1 .. Len(w) /\ w[b] = s[i]
        <5>1. i - 1 + 1 = i
          OBVIOUS
        <5> QED
          BY <1>3, <2>3, <4>1, <5>1
      <4> QED
        BY <2>11, <4>2
    <3>2. a # p
      BY <2>1, <2>2, <3>1
    <3>3. a # n
      <4>1. k # Len(s) => k + 1 \in 1 .. Len(s)
        BY <1>3
      <4> QED
        BY <1>3, <2>2, <3>1, <4>1
    <3> QED
      BY <1>1, <1>2, <3>1, <3>2, <3>3
  <2> QED
    BY <2>3, <2>6, <2>7, <2>8, <2>9, <2>10, <2>11 DEF Ordered
<1> QED
  BY <1>4, <1>5

\* Putting it in front makes a list of all.
LEMMA LinkOrdered ==
  ASSUME NEW h \in History, NEW s \in Seq(Fault), NEW f \in Fault,
         Ordered(h, s, {f}), \A i \in 1 .. Len(s) : s[i] # f
  PROVE  <<f>> \o s \in Seq(Fault) /\ Ordered(Linked(h, f, h.entry), <<f>> \o s, {})
<1> DEFINE e == h.entry
           l == Linked(h, f, e)
           t == <<f>> \o s
<1>1. /\ Len(s) \in Nat /\ \A i \in 1 .. Len(s) : s[i] \in Fault /\ s[i] # NULL
      /\ NULL \notin Fault /\ (s = <<>> <=> Len(s) = 0)
  BY LenProperties, ElementOfSeq, EmptySeq, ConstantTypes
<1>2. /\ \A i, j \in 1 .. Len(s) : s[i] = s[j] => i = j
      /\ e = IF s = <<>> THEN NULL ELSE s[1]
      /\ \A i \in 1 .. Len(s) :
            /\ h.next[s[i]] = IF i = Len(s) THEN NULL ELSE s[i + 1]
            /\ h.prev[s[i]] = IF i = 1 THEN NULL ELSE s[i - 1]
      /\ \A a \in Fault \ {f} : (\A i \in 1 .. Len(s) : s[i] # a) =>
            h.next[a] = NULL /\ h.prev[a] = NULL
  BY DEF Ordered
<1>3. e \in Pointer
  BY DEF History
<1>4. /\ l.entry = f
      /\ \A g \in Fault : l.next[g] = IF g = f THEN e ELSE h.next[g]
      /\ \A g \in Fault : l.prev[g] = IF g = f THEN NULL ELSE IF g = e THEN f ELSE h.prev[g]
  BY <1>3, LinkedFields
<1>5. /\ t \in Seq(Fault) /\ Len(t) = Len(s) + 1 /\ t # <<>>
      /\ t[1] = f /\ \A i \in 2 .. Len(t) : t[i] = s[i - 1]
  BY <1>1
<1> HIDE DEF e, l, t
<1>6. ASSUME NEW i \in 1 .. Len(t)
      PROVE  /\ l.next[t[i]] = IF i = Len(t) THEN NULL ELSE t[i + 1]
             /\ l.prev[t[i]] = IF i = 1 THEN NULL ELSE t[i - 1]
  <2>1. CASE i = 1
    <3>1. l.next[t[1]] = e /\ l.prev[t[1]] = NULL
      BY <1>4, <1>5
    <3>2. 1 # Len(t) => t[1 + 1] = s[1] /\ s # <<>>
      BY <1>1, <1>5
    <3>3. 1 = Len(t) => s = <<>>
      BY <1>1, <1>5
    <3> QED
      BY <1>2, <2>1, <3>1, <3>2, <3>3
  <2>2. CASE i # 1
    <3>1. i - 1 \in 1 .. Len(s) /\ t[i] = s[i - 1] /\ i - 1 + 1 = i
      BY <1>1, <1>5, <2>2
    <3>2. s[i - 1] \in Fault /\ s[i - 1] # f
      BY <1>1, <3>1
    <3>3. h.next[s[i - 1]] = IF i - 1 = Len(s) THEN NULL ELSE s[i]
      BY <1>2, <3>1
    <3>4. (i = Len(t) <=> i - 1 = Len(s)) /\ (i # Len(t) => t[i + 1] = s[i])
      <4>1. i = Len(t) <=> i - 1 = Len(s)
        BY <1>1, <1>5
      <4>2. i # Len(t) => i + 1 \in 2 .. Len(t) /\ i + 1 - 1 = i
        BY <1>1, <1>5
      <4> QED
        BY <1>5, <4>1, <4>2
    <3>5. l.next[t[i]] = IF i = Len(t) THEN NULL ELSE t[i + 1]
      BY <1>4, <3>1, <3>2, <3>3, <3>4
    <3>6. CASE i = 2
      <4>1. s[i - 1] = e
        BY <1>1, <1>2, <3>1, <3>6
      <4>2. l.prev[t[i]] = f
        BY <1>4, <3>1, <3>2, <4>1
      <4>3. t[i - 1] = f
        BY <1>5, <3>6
      <4> QED
        BY <2>2, <3>5, <4>2, <4>3
    <3>7. CASE i > 2
      <4>1. s[i - 1] # e
        BY <1>1, <1>2, <3>1, <3>7
      <4>2. h.prev[s[i - 1]] = s[i - 1 - 1]
        BY <1>2, <3>1, <3>7
      <4>3. t[i - 1] = s[i - 1 - 1]
        BY <1>5, <3>7
      <4> QED
        BY <1>4, <2>2, <3>1, <3>2, <3>5, <4>1, <4>2, <4>3
    <3> QED
      BY <2>2, <3>6, <3>7
  <2> QED
    BY <2>1, <2>2
<1>7. \A i, j \in 1 .. Len(t) : t[i] = t[j] => i = j
  <2> SUFFICES ASSUME NEW i \in 1 .. Len(t), NEW j \in 1 .. Len(t), t[i] = t[j] PROVE i = j
    OBVIOUS
  <2>1. \A k \in 1 .. Len(t) : k # 1 => k - 1 \in 1 .. Len(s) /\ t[k] = s[k - 1] /\ t[k] # f
    BY <1>1, <1>5
  <2> QED
    <3>1. CASE i = 1 \/ j = 1
      BY <1>5, <2>1, <3>1
    <3>2. CASE i # 1 /\ j # 1
      <4>1. i - 1 \in 1 .. Len(s) /\ j - 1 \in 1 .. Len(s) /\ s[i - 1] = s[j - 1]
        BY <2>1, <3>2
      <4>2. i - 1 = j - 1
        BY <1>2, <4>1
      <4> QED
        BY <4>2
    <3> QED
      BY <3>1, <3>2
<1>8. ASSUME NEW a \in Fault, \A i \in 1 .. Len(t) : t[i] # a
      PROVE  l.next[a] = NULL /\ l.prev[a] = NULL
  <2>1. a # f
    BY <1>1, <1>5, <1>8
  <2>2. \A i \in 1 .. Len(s) : s[i] # a
    <3> SUFFICES ASSUME NEW i \in 1 .. Len(s) PROVE s[i] # a
      OBVIOUS
    <3>1. i + 1 \in 2 .. Len(t) /\ i + 1 \in 1 .. Len(t) /\ i + 1 - 1 = i
      BY <1>1, <1>5
    <3>2. t[i + 1] = s[i + 1 - 1]
      BY <1>5, <3>1
    <3>3. t[i + 1] # a
      BY <1>8, <3>1
    <3> QED
      BY <3>1, <3>2, <3>3
  <2>3. a # e
    BY <1>1, <1>2, <2>2, ConstantTypes
  <2> QED
    BY <1>2, <1>4, <2>1, <2>2, <2>3
<1> QED
  BY <1>4, <1>5, <1>6, <1>7, <1>8 DEF Ordered, l, e, t

-----------------------------------------------------------------------------
\* saveAll queues no reads.
LEMMA SaveAllReads ==
  ASSUME Types, saveAll, Loading'
  PROVE  Loading
<1>1. ASSUME NEW q \in Seq(Op), NEW op \in Op, NEW ops, op \notin ops, Has(Queued(q, op), ops)
      PROVE  Has(q, ops)
  <2>1. CASE Queued(q, op) = q
    BY <1>1, <2>1
  <2>2. CASE Queued(q, op) = Append(q, op)
    <3>1. /\ Len(Append(q, op)) = Len(q) + 1 /\ Len(q) \in Nat
          /\ Append(q, op) \in Seq(Op)
          /\ \A i \in 1 .. Len(q) : Append(q, op)[i] = q[i]
          /\ Append(q, op)[Len(q) + 1] = op
      BY AppendProperties, LenProperties
    <3>2. DOMAIN q = 1 .. Len(q) /\ DOMAIN Append(q, op) = 1 .. Len(q) + 1
      BY <3>1, LenProperties
    <3>3. PICK i \in 1 .. Len(q) + 1 : Append(q, op)[i] \in ops
      BY <1>1, <2>2, <3>2 DEF Has
    <3>4. i # Len(q) + 1
      BY <1>1, <3>1, <3>3
    <3>5. i \in 1 .. Len(q)
      BY <3>1, <3>4
    <3> QED
      BY <3>1, <3>2, <3>3, <3>5 DEF Has
  <2> QED
    BY <2>1, <2>2 DEF Queued
<1> DEFINE q == Queued(queue, "write_entry")
           reads == {"read_entry", "read_list"}
<1>2. queue \in Seq(Op) /\ "write_entry" \in Op /\ "write_list" \in Op
  BY DEF Types, Op
<1>3. q \in Seq(Op)
  BY <1>2, QueuedOps
<1>4. "write_entry" \notin reads /\ "write_list" \notin reads
  OBVIOUS
<1>5. Has(queue', reads)
  BY DEF Loading, Has
<1>6. queue' = Queued(q, "write_list")
  BY DEF saveAll
<1> HIDE DEF reads, q
<1>7. Has(q, reads)
  BY <1>1, <1>2, <1>3, <1>4, <1>5, <1>6
<1>8. Has(queue, reads)
  BY <1>1, <1>2, <1>4, <1>7 DEF q
<1> QED
  BY <1>8 DEF Loading, Has, reads

\* What performing an operation leaves was queued before.
LEMMA TailReads ==
  ASSUME NEW q \in Seq(Op), q # <<>>
  PROVE  \A ops : /\ Has(Tail(q), ops) => Has(q, ops)
                  /\ Head(q) \in ops => Has(q, ops)
<1>1. /\ Head(q) = q[1] /\ Tail(q) \in Seq(Op)
      /\ Len(Tail(q)) = Len(q) - 1 /\ Len(q) \in Nat \ {0}
      /\ \A i \in 1 .. Len(q) - 1 : Tail(q)[i] = q[i + 1]
  BY HeadTailProperties, LenProperties, EmptySeq
<1>2. DOMAIN q = 1 .. Len(q) /\ DOMAIN Tail(q) = 1 .. Len(q) - 1
  BY <1>1, LenProperties
<1>3. ASSUME NEW ops, Has(Tail(q), ops) PROVE Has(q, ops)
  <2>1. PICK i \in 1 .. Len(q) - 1 : Tail(q)[i] \in ops
    BY <1>2, <1>3 DEF Has
  <2>2. i + 1 \in 1 .. Len(q) /\ q[i + 1] \in ops
    BY <1>1, <2>1
  <2> QED
    BY <1>2, <2>2 DEF Has
<1>4. ASSUME NEW ops, Head(q) \in ops PROVE Has(q, ops)
  <2>1. 1 \in DOMAIN q /\ q[1] \in ops
    BY <1>1, <1>2, <1>4
  <2> QED
    BY <2>1 DEF Has
<1> QED
  BY <1>3, <1>4


-----------------------------------------------------------------------------
\* What WellLinked and Refines need to be inductive.  The links of h are those of the
\* sequence that View finds, but perhaps for the faults of X, which are out of it.
Proper(h, X) == View(h) \in Seq(Fault) /\ Ordered(h, View(h), X)

\* While the history is read back nothing else happens to it.
Reading ==
  Loading => /\ MainLoop /\ Proper(ee, {})
             /\ \/ queue = <<"read_entry", "read_list">>
                \/ queue = <<"read_list">> /\ SameEntry

\* The links at each step of fault_history_setFault.
Stages ==
  /\ pc[1] = "idle" /\ ~Loading => Proper(ram, {})
  /\ pc[1] = "unlink" => Proper(ram, {}) /\ fault[1] # ram.entry /\ entry[1] = ram.entry
  /\ pc[1] = "link" => /\ Proper(ram, {fault[1]}) /\ entry[1] = ram.entry
                       /\ \A i \in 1 .. Len(View(ram)) : View(ram)[i] # fault[1]
  /\ pc[1] = "save" => Proper(ram, {}) /\ fault[1] = ram.entry

LinksInv == Reading /\ Stages

\* The condition of WellLinked and Refines: faults are recorded in the main loop, and
\* no disturbance happens.  The queue has room for what a restart reads.
Undisturbed ==
  Levels = 1 /\ Disturbances = {} /\ AT24CXX_DYNAMIC_SCH_ARR_MAX >= 2

Simulated == Abstract!Next \/ UNCHANGED Recent

\* With one level the main loop is under way exactly when level 1 is.
LEMMA OneLevel ==
  ASSUME Undisturbed
  PROVE  Level = {1} /\ (MainLoop <=> pc[1] = "idle") /\ (MainLoop' <=> pc'[1] = "idle")
<1>1. Level = {1}
  BY DEF Undisturbed, Level
<1> QED
  BY <1>1 DEF MainLoop

\* The empty list is in order.
LEMMA EmptyProper == Proper(Empty, {}) /\ View(Empty) = <<>>
<1>1. <<>> \in Seq(Fault) /\ Len(<<>>) = 0
  OBVIOUS
<1>2. Ordered(Empty, <<>>, {})
  BY <1>1, EmptyType DEF Ordered
<1>3. View(Empty) = <<>>
  BY <1>1, <1>2, ViewOrdered
<1> QED
  BY <1>1, <1>2, <1>3 DEF Proper

\* Unlink and Link do to the sequence what RecentFaults says, in two steps.
LEMMA UnlinkProper ==
  ASSUME NEW h \in History, NEW f \in Fault, Proper(h, {}), f # h.entry
  PROVE  /\ Proper(Unlinked(h, f), {f}) /\ Unlinked(h, f).entry = h.entry
         /\ View(Unlinked(h, f)) = Abstract!Without(View(h), f)
         /\ \A i \in 1 .. Len(View(Unlinked(h, f))) : View(Unlinked(h, f))[i] # f
<1> DEFINE s == View(h)
           w == Abstract!Without(s, f)
           u == Unlinked(h, f)
<1>1. s \in Seq(Fault) /\ Ordered(h, s, {})
  BY DEF Proper
<1>2. u.entry = h.entry
  BY UnlinkedFields
<1>3. w \in Seq(Fault) /\ Ordered(u, w, {f}) /\ \A i \in 1 .. Len(w) : w[i] # f
  <2> HIDE DEF s
  <2> QED
    BY <1>1, UnlinkOrdered
<1> HIDE DEF u, w
<1>4. View(u) = w
  BY <1>3, ViewOrdered
<1>5. Proper(u, {f}) /\ \A i \in 1 .. Len(View(u)) : View(u)[i] # f
  BY <1>3, <1>4 DEF Proper
<1> QED
  BY <1>2, <1>4, <1>5 DEF u, w, s

LEMMA LinkProper ==
  ASSUME NEW h \in History, NEW f \in Fault, Proper(h, {f}),
         \A i \in 1 .. Len(View(h)) : View(h)[i] # f
  PROVE  /\ Proper(Linked(h, f, h.entry), {}) /\ Linked(h, f, h.entry).entry = f
         /\ View(Linked(h, f, h.entry)) = <<f>> \o View(h)
<1> DEFINE s == View(h)
           t == <<f>> \o s
           l == Linked(h, f, h.entry)
<1>1. s \in Seq(Fault) /\ Ordered(h, s, {f}) /\ \A i \in 1 .. Len(s) : s[i] # f
  BY DEF Proper
<1>2. l.entry = f
  <2>1. h.entry \in Pointer
    BY DEF History
  <2> QED
    BY <2>1, LinkedFields
<1>3. t \in Seq(Fault) /\ Ordered(l, t, {})
  <2> HIDE DEF s
  <2> QED
    BY <1>1, LinkOrdered
<1> HIDE DEF l, t
<1>4. View(l) = t
  BY <1>3, ViewOrdered
<1>5. Proper(l, {})
  BY <1>3, <1>4 DEF Proper
<1> QED
  BY <1>2, <1>4, <1>5 DEF l, t, s

\* The head is not its own successor: the cut of Save finds nothing to do.
LEMMA HeadNotLooped ==
  ASSUME NEW h \in History, NEW f \in Fault, Proper(h, {}), f = h.entry
  PROVE  h.next[f] # f
<1> DEFINE s == View(h)
<1>1. s \in Seq(Fault) /\ Ordered(h, s, {})
  BY DEF Proper
<1> HIDE DEF s
<1>2. f # NULL
  BY ConstantTypes
<1>3. s # <<>> /\ s[1] = f
  BY <1>1, <1>2 DEF Ordered
<1>4. Len(s) \in Nat \ {0}
  BY <1>1, <1>3, EmptySeq
<1>o. /\ \A i, j \in 1 .. Len(s) : s[i] = s[j] => i = j
      /\ \A i \in 1 .. Len(s) : h.next[s[i]] = IF i = Len(s) THEN NULL ELSE s[i + 1]
  BY <1>1 DEF Ordered
<1> DEFINE n == Len(s)
<1>n. n \in Nat /\ n >= 1
  BY <1>4
<1> HIDE DEF n
<1>5. h.next[s[1]] = IF 1 = n THEN NULL ELSE s[2]
  <2>1. 1 \in 1 .. n /\ 1 + 1 = 2
    BY <1>n
  <2> QED
    BY <1>o, <2>1 DEF n
<1>6. 1 # n => s[2] # s[1]
  <2> SUFFICES ASSUME 1 # n, s[2] = s[1] PROVE FALSE
    OBVIOUS
  <2>1. 1 \in 1 .. n /\ 2 \in 1 .. n
    BY <1>n
  <2> QED
    BY <1>o, <2>1 DEF n
<1> QED
  BY <1>2, <1>3, <1>5, <1>6

-----------------------------------------------------------------------------
\* The initial links are in order.
LEMMA InitLinks == ASSUME Init, Undisturbed PROVE LinksInv /\ Abstract!Init
<1>1. ~Loading
  BY DEF Init, Loading
<1>2. Proper(ram, {}) /\ pc[1] = "idle" /\ View(ram) = <<>>
  BY EmptyProper, ConstantTypes DEF Init
<1>3. LinksInv
  BY <1>1, <1>2 DEF LinksInv, Reading, Stages
<1>4. Recent = <<>>
  BY <1>1, <1>2 DEF Recent
<1> QED
  BY <1>3, <1>4 DEF Abstract!Init

\* Each step of fault_history_setFault leads from one stage to the next; Unlink is
\* the one that records the fault.
LEMMA SetFaultLinks ==
  ASSUME SavedInv, LinksInv, Undisturbed, fault_history_setFault(1)
  PROVE  LinksInv' /\ Simulated
<1>t. /\ Types /\ ram \in History /\ queue \in Seq(Op)
      /\ pc \in [Level -> {"idle", "unlink", "link", "save"}]
      /\ fault \in [Level -> Fault] /\ entry \in [Level -> Pointer] /\ 1 \in Level
      /\ fault[1] \in Fault
  BY ConstantTypes DEF SavedInv, Types
<1>s. /\ pc[1] = "idle" /\ ~Loading => Proper(ram, {})
      /\ pc[1] = "unlink" => Proper(ram, {}) /\ fault[1] # ram.entry /\ entry[1] = ram.entry
      /\ pc[1] = "link" => /\ Proper(ram, {fault[1]}) /\ entry[1] = ram.entry
                           /\ \A i \in 1 .. Len(View(ram)) : View(ram)[i] # fault[1]
      /\ pc[1] = "save" => Proper(ram, {}) /\ fault[1] = ram.entry
  BY DEF LinksInv, Stages
<1>l. pc[1] # "idle" => ~Loading
  BY OneLevel DEF LinksInv, Reading
<1>q. ASSUME queue' = queue PROVE Loading' <=> Loading
  BY <1>q DEF Loading
<1>r. ~Loading => Recent = IF pc[1] = "link" THEN <<fault[1]>> \o View(ram) ELSE View(ram)
  BY DEF Recent
<1>n. ~Loading' => Recent' = IF pc'[1] = "link" THEN <<fault'[1]>> \o View(ram') ELSE View(ram')
  BY DEF Recent
<1>1. ASSUME NEW f \in Fault, Enter(1, f) PROVE LinksInv' /\ Simulated
  <2>1. ~Loading /\ pc[1] = "idle"
    BY <1>1 DEF Enter, At, Admitted, Undisturbed
  <2>2. ram' = ram /\ queue' = queue
    BY <1>1 DEF Enter
  <2>3. /\ fault'[1] = f /\ entry'[1] = ram.entry
        /\ pc'[1] = IF f # ram.entry THEN "unlink" ELSE "save"
    BY <1>t, <1>1 DEF Enter, Goto
  <2>4. Proper(ram', {}) /\ ~Loading'
    BY <1>s, <1>q, <2>1, <2>2
  <2>5. Recent' = Recent
    BY <1>r, <1>n, <2>1, <2>2, <2>3, <2>4
  <2>6. LinksInv'
    BY <2>2, <2>3, <2>4 DEF LinksInv, Reading, Stages
  <2> QED
    BY <2>5, <2>6 DEF Simulated
<1>2. CASE Unlink(1)
  <2>1. /\ pc[1] = "unlink" /\ pc'[1] = "link" /\ ram' = Unlinked(ram, fault[1])
        /\ queue' = queue /\ fault' = fault /\ entry' = entry
    BY <1>t, <1>2 DEF Unlink, At, Goto
  <2>2. /\ Proper(ram', {fault[1]}) /\ ram'.entry = ram.entry
        /\ View(ram') = Abstract!Without(View(ram), fault[1])
        /\ \A i \in 1 .. Len(View(ram')) : View(ram')[i] # fault[1]
    BY <1>t, <1>s, <2>1, UnlinkProper
  <2>3. ~Loading' /\ ~Loading
    BY <1>l, <1>q, <2>1
  <2>4. Recent = View(ram) /\ Recent' = <<fault[1]>> \o View(ram')
    BY <1>r, <1>n, <2>1, <2>3
  <2>5. Abstract!Record(fault[1])
    BY <2>2, <2>4 DEF Abstract!Record, Abstract!Touch
  <2>6. LinksInv'
    BY <1>s, <2>1, <2>2, <2>3 DEF LinksInv, Reading, Stages
  <2> QED
    BY <1>t, <2>5, <2>6 DEF Simulated, Abstract!Next
<1>3. CASE Link(1)
  <2>1. /\ pc[1] = "link" /\ pc'[1] = "save" /\ ram' = Linked(ram, fault[1], entry[1])
        /\ queue' = queue /\ fault' = fault
    BY <1>t, <1>3 DEF Link, At, Goto
  <2>2. Proper(ram', {}) /\ ram'.entry = fault[1] /\ View(ram') = <<fault[1]>> \o View(ram)
    BY <1>t, <1>s, <2>1, LinkProper
  <2>3. ~Loading' /\ ~Loading
    BY <1>l, <1>q, <2>1
  <2>4. Recent' = Recent
    BY <1>r, <1>n, <2>1, <2>2, <2>3
  <2>5. LinksInv'
    BY <2>1, <2>2, <2>3 DEF LinksInv, Reading, Stages
  <2> QED
    BY <2>4, <2>5 DEF Simulated
<1>4. CASE Save(1)
  <2>1. /\ pc[1] = "save" /\ pc'[1] = "idle" /\ ram' = CutSelfLoop(ram, fault[1]) /\ saveAll
    BY <1>t, <1>4 DEF Save, At, Goto
  <2>2. ram' = ram /\ Proper(ram, {})
    BY <1>t, <1>s, <2>1, HeadNotLooped, CutFields
  <2>3. ~Loading' /\ ~Loading
    BY <1>t, <1>l, <2>1, SaveAllReads
  <2>4. Recent' = Recent
    BY <1>r, <1>n, <2>1, <2>2, <2>3
  <2>5. LinksInv'
    BY <2>1, <2>2, <2>3 DEF LinksInv, Reading, Stages
  <2> QED
    BY <2>4, <2>5 DEF Simulated
<1> QED
  BY <1>1, <1>2, <1>3, <1>4 DEF fault_history_setFault

\* The erasure leaves an empty list.
LEMMA EraseLinks ==
  ASSUME SavedInv, LinksInv, Undisturbed, fault_history_eraseAndSaveAll
  PROVE  LinksInv' /\ Simulated
<1>1. ~Loading /\ saveAll /\ ram' = Empty /\ pc' = pc /\ MainLoop /\ Types
  BY DEF fault_history_eraseAndSaveAll, Admitted, Undisturbed, SavedInv
<1>2. ~Loading'
  BY <1>1, SaveAllReads
<1>3. pc'[1] = "idle"
  BY <1>1, OneLevel
<1>4. LinksInv'
  BY <1>1, <1>2, <1>3, EmptyProper DEF LinksInv, Reading, Stages
<1>5. Recent' = <<>>
  BY <1>1, <1>2, <1>3, EmptyProper DEF Recent
<1> QED
  BY <1>4, <1>5 DEF Simulated, Abstract!Next, Abstract!Erase

\* Reading back ends with the links of the EEPROM, which are in order; a write changes
\* nothing of the history.
LEMMA PerformLinks ==
  ASSUME SavedInv, LinksInv, Undisturbed, at24cxx_dynamic_handler
  PROVE  LinksInv' /\ Simulated
<1>t. /\ Types /\ queue \in Seq(Op) /\ queue # <<>> /\ MainLoop /\ MainLoop'
      /\ ram \in History /\ ee \in History
  BY DEF SavedInv, Types, at24cxx_dynamic_handler, MainLoop
<1>i. pc[1] = "idle" /\ pc'[1] = "idle"
  BY <1>t, OneLevel
<1>p. Performed(Head(queue)) /\ queue' = Tail(queue)
  BY DEF at24cxx_dynamic_handler
<1>r. /\ Recent = IF Loading THEN View(ee) ELSE View(ram)
      /\ Recent' = IF Loading' THEN View(ee') ELSE View(ram')
  BY <1>i DEF Recent
<1>1. CASE ~Loading
  <2>1. ~Loading'
    <3>1. ~Has(queue, {"read_entry", "read_list"})
      BY <1>1 DEF Loading, Has
    <3>2. ~Has(Tail(queue), {"read_entry", "read_list"})
      BY <1>t, <3>1, TailReads
    <3> QED
      BY <1>p, <3>2 DEF Loading, Has
  <2>2. Head(queue) \notin {"read_entry", "read_list"}
    <3>1. ~Has(queue, {"read_entry", "read_list"})
      BY <1>1 DEF Loading, Has
    <3> QED
      BY <1>t, <3>1, TailReads
  <2>3. ram' = ram
    BY <1>p, <2>2 DEF Performed
  <2>4. Proper(ram, {})
    BY <1>1, <1>i DEF LinksInv, Stages
  <2>5. LinksInv'
    BY <1>i, <2>1, <2>3, <2>4 DEF LinksInv, Reading, Stages
  <2> QED
    BY <1>1, <1>r, <2>1, <2>3, <2>5 DEF Simulated
<1>2. CASE Loading
  <2>1. /\ Proper(ee, {})
        /\ \/ queue = <<"read_entry", "read_list">>
           \/ queue = <<"read_list">> /\ SameEntry
    BY <1>2 DEF LinksInv, Reading
  <2>2. CASE queue = <<"read_entry", "read_list">>
    <3>1. Head(queue) = "read_entry" /\ Tail(queue) = <<"read_list">>
      BY <2>2
    <3>2. ee' = ee /\ SameEntry'
      BY <1>t, <1>p, <3>1, PerformedFields DEF Op
    <3>3. Loading'
      <4>1. queue' = <<"read_list">>
        BY <1>p, <3>1
      <4>2. 1 \in DOMAIN queue' /\ queue'[1] = "read_list"
        BY <4>1
      <4> QED
        BY <4>2 DEF Loading
    <3>4. LinksInv'
      BY <1>t, <1>i, <1>p, <2>1, <3>1, <3>2, <3>3 DEF LinksInv, Reading, Stages
    <3> QED
      BY <1>2, <1>r, <3>2, <3>3, <3>4 DEF Simulated
  <2>3. CASE queue = <<"read_list">> /\ SameEntry
    <3>1. Head(queue) = "read_list" /\ Tail(queue) = <<>>
      BY <2>3
    <3>2. ee' = ee /\ SameEntry' /\ SameList' /\ ram' \in History
      BY <1>t, <1>p, <2>3, <3>1, PerformedFields DEF Op
    <3>3. ~Loading'
      BY <1>p, <3>1 DEF Loading
    <3>4. ram' = ee
      BY <1>t, <3>2 DEF SameEntry, SameList, History
    <3>5. LinksInv'
      BY <1>i, <2>1, <3>3, <3>4 DEF LinksInv, Reading, Stages
    <3> QED
      BY <1>2, <1>r, <3>3, <3>4, <3>5 DEF Simulated
  <2> QED
    BY <2>1, <2>2, <2>3
<1> QED
  BY <1>1, <1>2

\* A restart without a power cut finds the history saved, so that what is to be
\* read back is in order, and the same.
LEMMA RestartLinks ==
  ASSUME SavedInv, LinksInv, Undisturbed, Restart
  PROVE  LinksInv' /\ Simulated
<1>1. MainLoop /\ queue = <<>>
  BY DEF Restart, Undisturbed
<1>2. ~Loading
  BY <1>1 DEF Loading
<1>3. Proper(ram, {}) /\ pc[1] = "idle"
  BY <1>1, <1>2, OneLevel DEF LinksInv, Stages
<1>4. ee = ram
  <2>1. ~EntryPending /\ ~ListPending
    BY <1>1 DEF EntryPending, ListPending, Has
  <2>2. SameEntry /\ SameList
    BY <1>1, <2>1 DEF SavedInv, Covered
  <2>3. ram \in History /\ ee \in History
    BY DEF SavedInv, Types
  <2> QED
    BY <2>2, <2>3 DEF History, SameEntry, SameList
<1>5. ee' = ee /\ MainLoop' /\ queue' = <<"read_entry", "read_list">>
  BY RestartSaved DEF Undisturbed
<1>6. pc'[1] = "idle"
  BY <1>5, OneLevel
<1>7. Loading'
  <2>1. 1 \in DOMAIN queue' /\ queue'[1] = "read_entry"
    BY <1>5
  <2> QED
    BY <2>1 DEF Loading
<1>8. LinksInv'
  BY <1>3, <1>4, <1>5, <1>6, <1>7 DEF LinksInv, Reading, Stages
<1>9. Recent' = Recent
  BY <1>2, <1>3, <1>4, <1>5, <1>7 DEF Recent
<1> QED
  BY <1>8, <1>9 DEF Simulated

\* Every step preserves LinksInv, and is a step of RecentFaults or none.
LEMMA StepLinks ==
  ASSUME SavedInv, LinksInv, Undisturbed, [Next]_vars
  PROVE  LinksInv' /\ Simulated
<1>1. CASE \E c \in Level : fault_history_setFault(c)
  BY <1>1, SetFaultLinks, OneLevel
<1>2. CASE fault_history_eraseAndSaveAll
  BY <1>2, EraseLinks
<1>3. CASE at24cxx_dynamic_handler
  BY <1>3, PerformLinks
<1>4. CASE Restart
  BY <1>4, RestartLinks
<1>5. CASE UNCHANGED vars
  <2>1. LinksInv'
    BY <1>5 DEF vars, LinksInv, Reading, Stages, Loading, MainLoop, SameEntry
  <2>2. Recent' = Recent
    BY <1>5 DEF vars, Recent, Loading
  <2> QED
    BY <2>1, <2>2 DEF Simulated
<1> QED
  BY <1>1, <1>2, <1>3, <1>4, <1>5 DEF Next

\* In order, the list is well linked.
LEMMA ProperWellLinked ==
  ASSUME Proper(ram, {})
  PROVE  LET view == View(ram)
         IN  /\ view # <<>> => ram.prev[view[1]] = NULL /\ ram.next[view[Len(view)]] = NULL
             /\ \A i \in 2 .. Len(view) : ram.prev[view[i]] = view[i - 1]
             /\ \A f \in Fault : (\A i \in DOMAIN view : view[i] # f) =>
                                  ram.next[f] = NULL /\ ram.prev[f] = NULL
<1> DEFINE view == View(ram)
<1>1. view \in Seq(Fault) /\ Ordered(ram, view, {})
  BY DEF Proper
<1> HIDE DEF view
<1>2. DOMAIN view = 1 .. Len(view) /\ Len(view) \in Nat /\ (view # <<>> => Len(view) # 0)
  BY <1>1, LenProperties, EmptySeq
<1>o. \A i \in 1 .. Len(view) :
        /\ ram.next[view[i]] = IF i = Len(view) THEN NULL ELSE view[i + 1]
        /\ ram.prev[view[i]] = IF i = 1 THEN NULL ELSE view[i - 1]
  BY <1>1 DEF Ordered
<1>3. ASSUME view # <<>>
      PROVE  ram.prev[view[1]] = NULL /\ ram.next[view[Len(view)]] = NULL
  <2>1. 1 \in 1 .. Len(view) /\ Len(view) \in 1 .. Len(view)
    BY <1>2, <1>3
  <2> QED
    BY <1>o, <2>1
<1>4. ASSUME NEW i \in 2 .. Len(view) PROVE ram.prev[view[i]] = view[i - 1]
  <2>1. i \in 1 .. Len(view) /\ i # 1
    BY <1>2
  <2> QED
    BY <1>o, <2>1
<1>5. \A f \in Fault : (\A i \in DOMAIN view : view[i] # f) =>
                        ram.next[f] = NULL /\ ram.prev[f] = NULL
  BY <1>1, <1>2 DEF Ordered
<1> QED
  BY <1>3, <1>4, <1>5 DEF view

\* Outside disturbances get_previous_fault undoes get_next_fault along the whole list,
\* the head has no predecessor, and a fault that is not in the list points nowhere, for
\* any number of faults: recording a fault again, erasing, saving, a restart and reading
\* back leave no link behind.
THEOREM WellLinkedSafe ==
  ASSUME Undisturbed
  PROVE  Spec => []WellLinked
<1>1. "full_queue" \notin Disturbances /\ AT24CXX_DYNAMIC_SCH_ARR_MAX >= 2
  BY DEF Undisturbed
<1>2. Init => LinksInv
  BY InitLinks
<1>3. SavedInv /\ [Next]_vars => SavedInv'
  BY <1>1, StepSaved
<1>4. SavedInv /\ LinksInv /\ [Next]_vars => LinksInv'
  BY StepLinks
<1>5. LinksInv => WellLinked
  BY OneLevel, ProperWellLinked DEF LinksInv, Stages, WellLinked
<1> QED
  BY InitSaved, <1>2, <1>3, <1>4, <1>5, PTL DEF Spec

\* Under the same condition the list, its copy in the EEPROM and the queue implement
\* the sequence of the faults that occurred, the most recent first and each once: the
\* initial state is its initial state, and every step is one of its steps or none.
THEOREM HistoryImplemented ==
  ASSUME Undisturbed
  PROVE  Spec => Refines
<1>1. "full_queue" \notin Disturbances /\ AT24CXX_DYNAMIC_SCH_ARR_MAX >= 2
  BY DEF Undisturbed
<1>2. Init => LinksInv /\ Abstract!Init
  BY InitLinks
<1>3. SavedInv /\ [Next]_vars => SavedInv'
  BY <1>1, StepSaved
<1>4. SavedInv /\ LinksInv /\ [Next]_vars => LinksInv' /\ [Abstract!Next]_Recent
  BY StepLinks DEF Simulated
<1> QED
  BY InitSaved, <1>2, <1>3, <1>4, PTL DEF Spec, Refines, Abstract!Spec
=============================================================================
