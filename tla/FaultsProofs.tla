---------------------------- MODULE FaultsProofs ----------------------------
(***************************************************************************)
(* Proofs about Faults for every table, every number of priority levels    *)
(* and every assignment of faults to them: type correctness, and that a    *)
(* fault without timeout stops the lift for good (LatchedStops).  The      *)
(* latter is not inductive: a level that is past StoreNumber has counted   *)
(* its fault but not stored the counter, so the invariant also says that   *)
(* the number is not 0 then, and that the handler writes back only numbers *)
(* of classes with a timeout.                                              *)
(*                                                                         *)
(* The other two properties compare a number with how many slots it should *)
(* count.  NoPhantom holds if each fault with a timeout is set at one      *)
(* level (Bounded), PoseCheckExact if only the main loop sets positioning  *)
(* faults (Exact).  Both need the same facts about the registers that hold *)
(* a number between a load and a store.                                    *)
(***************************************************************************)
EXTENDS Faults, SequenceTheorems, FiniteSetTheorems, TLAPS

Counted(c) == pc[c] \in {"record", "set"} /\ TypeOf(fault_index[c]) = "STOP_IMMEDIATE"

\* A level handles slots that are registered; the handler stops at timed ones.
Handled(c) ==
  /\ pc[c] \in {"load", "store", "record", "set", "tick", "clear"} => Registered(fault_index[c])
  /\ pc[c] \in {"tick", "clear"} => Timed(fault_index[c])
  /\ pc[c] = "tick" => reg[c] \in uint32_t /\ Left(reg[c]) > 0

\* What TypeOK needs to be inductive.
Handling == \A c \in Level : Handled(c)

\* What LatchedStops needs to be inductive.
Latch ==
  /\ \A s \in Slot : Registered(s) /\ TypeOf(s) = "STOP_IMMEDIATE" /\ is_present(s) =>
                    number["STOP_IMMEDIATE"] > 0
  /\ \A c \in Level : Counted(c) => number["STOP_IMMEDIATE"] > 0

IInv == TypeOK /\ Handling /\ Latch
-----------------------------------------------------------------------------
\* What the assumptions say of the constants.
LEMMA ConstantTypes ==
  /\ SPH_FAULT_COUNT \in Nat \ {0}
  /\ SetBit \in Nat /\ WORD = 2 * SetBit /\ SPH_FAULT_COUNT < SetBit
  /\ Len(Registrations) \in Nat
  /\ DOMAIN Registrations = 1 .. Len(Registrations)
  /\ Levels \in Nat \ {0}
  /\ MaySet \in [Level -> SUBSET DOMAIN Registrations]
<1>1. Registrations \in Seq([type : Type, timeout : 1 .. SetBit - 1])
  BY FaultsAssumption, Zenon DEF FaultsAssumption
<1> QED
  BY <1>1, FaultsAssumption, LenProperties DEF FaultsAssumption

\* The main loop is a level; slots are numbered from 0 and the one after a slot
\* that is not the last is a slot.
LEMMA IndexTypes ==
  /\ 1 \in Level
  /\ 0 \in Slot
  /\ \A s \in Slot : s # SPH_FAULT_COUNT - 1 => s + 1 \in Slot
BY ConstantTypes DEF Level, Slot

\* A counter that has just been set is set, one that is ticked keeps the set bit.
LEMMA CounterTypes ==
  /\ 0 \in uint32_t /\ ~IsSet(0)
  /\ \A x \in uint32_t : /\ WithSetBit(x) \in uint32_t
                         /\ Left(x) \in Nat
                         /\ Left(x) > 0 => WithSetBit(Left(x) - 1) \in uint32_t
BY ConstantTypes DEF uint32_t, WithSetBit, Left, IsSet

\* The table that sph_faults_add_fault builds: types and timeouts, which of
\* them are timed, and the slot of a registration.
LEMMA TableTypes ==
  /\ \A s \in Slot : Registered(s) =>
       /\ TypeOf(s) \in Type
       /\ Timeout(s) \in uint32_t
       /\ Timed(s) => TypeOf(s) \in {"T_STOP_IMMEDIATE", "T_POS_FAULT"}
  /\ \A r \in DOMAIN Registrations : IndexOf(r) \in Slot => Registered(IndexOf(r))
<1>1. ASSUME NEW s \in Slot, Registered(s)
      PROVE  /\ TypeOf(s) \in Type
             /\ Timeout(s) \in uint32_t
             /\ Timed(s) => TypeOf(s) \in {"T_STOP_IMMEDIATE", "T_POS_FAULT"}
  <2>1. s + 1 \in 1 .. Len(Registrations)
    BY <1>1, ConstantTypes DEF Slot, Registered
  <2>2. Registrations \in Seq([type : Type, timeout : 1 .. SetBit - 1])
    BY FaultsAssumption, Zenon DEF FaultsAssumption
  <2>3. Registrations[s + 1] \in [type : Type, timeout : 1 .. SetBit - 1]
    BY <2>1, <2>2, ElementOfSeq
  <2>4. TypeOf(s) \in Type
    BY <2>3 DEF TypeOf
  <2>5. Registrations[s + 1].timeout \in uint32_t /\ Never \in uint32_t
    BY <2>3, ConstantTypes DEF uint32_t, Never
  <2>6. Timeout(s) \in uint32_t
    BY <2>5 DEF Timeout
  <2>7. Timed(s) => TypeOf(s) \in {"T_STOP_IMMEDIATE", "T_POS_FAULT"}
    BY <2>4 DEF Timed, Timeout, Type
  <2> QED
    BY <2>4, <2>6, <2>7
<1>2. ASSUME NEW r \in DOMAIN Registrations, IndexOf(r) \in Slot
      PROVE  Registered(IndexOf(r))
  BY <1>2, ConstantTypes DEF IndexOf, Slot, NoSlot, Registered
<1> QED
  BY <1>1, <1>2

\* NextSlot leads from slot to slot.
LEMMA NextSlotType ==
  ASSUME TypeOK, NextSlot
  PROVE  /\ pc' \in [Level -> Step]
         /\ fault_index' \in [Level -> Slot]
         /\ pc'[1] \in {"visit", "write"}
         /\ \A c \in Level \ {1} : pc'[c] = pc[c] /\ fault_index'[c] = fault_index[c]
<1>1. pc \in [Level -> Step] /\ fault_index \in [Level -> Slot]
  BY DEF TypeOK
<1>2. CASE fault_index[1] = SPH_FAULT_COUNT - 1
  BY <1>1, <1>2, IndexTypes DEF NextSlot, Goto, Step
<1>3. CASE fault_index[1] # SPH_FAULT_COUNT - 1
  BY <1>1, <1>3, IndexTypes DEF NextSlot, Goto, Step
<1> QED
  BY <1>2, <1>3
-----------------------------------------------------------------------------
\* The initial state satisfies the invariant.
LEMMA InitInv == Init => IInv
<1> SUFFICES ASSUME Init PROVE IInv
  OBVIOUS
<1>1. TypeOK
  BY IndexTypes, CounterTypes DEF Init, TypeOK, Step
<1>2. Handling
  BY DEF Init, Handling, Handled
<1>3. Latch
  BY CounterTypes DEF Init, Latch, Counted, is_present
<1> QED
  BY <1>1, <1>2, <1>3 DEF IInv

\* A step of sph_faults_setfault preserves types and Handling.
LEMMA SetFaultTypes ==
  ASSUME TypeOK, Handling, NEW c \in Level, sph_faults_setfault(c)
  PROVE  TypeOK' /\ Handling'
<1> USE DEF TypeOK
<1>h. Handled(c) /\ \A d \in Level : Handled(d)
  BY DEF Handling
<1>1. ASSUME NEW r \in MaySet[c], SetFault(c, r)
      PROVE  TypeOK' /\ Handling'
  <2>1. r \in DOMAIN Registrations
    BY ConstantTypes
  <2>2. Registered(IndexOf(r)) /\ IndexOf(r) \in Slot
    BY <1>1, <2>1, TableTypes DEF SetFault
  <2>3. TypeOK'
    BY <1>1, <2>2 DEF SetFault, Goto, Step
  <2>4. ASSUME NEW d \in Level PROVE Handled(d)'
    <3>1. CASE d = c
      BY <1>1, <2>2, <3>1 DEF SetFault, Goto, Handled, Registered
    <3>2. CASE d # c
      BY <1>1, <1>h, <3>2 DEF SetFault, Goto, Handled, Registered, Timed
    <3> QED
      BY <3>1, <3>2
  <2> QED
    BY <2>3, <2>4 DEF Handling
<1>2. ASSUME LoadNumber(c) PROVE TypeOK' /\ Handling'
  <2>1. TypeOf(fault_index[c]) \in Type
    BY <1>2, <1>h, TableTypes DEF LoadNumber, At, Handled
  <2>2. TypeOK'
    BY <1>2, <2>1 DEF LoadNumber, Goto, Step
  <2>3. ASSUME NEW d \in Level PROVE Handled(d)'
    BY <1>2, <1>h DEF LoadNumber, At, Goto, Handled, Registered, Timed
  <2> QED
    BY <2>2, <2>3 DEF Handling
<1>3. ASSUME StoreNumber(c) PROVE TypeOK' /\ Handling'
  <2>0. number' \in [Type -> Nat] /\ reg' \in [Level -> Nat]
    <3>1. reg[c] + 1 \in Nat
      OBVIOUS
    <3> QED
      BY <1>3, <3>1 DEF StoreNumber
  <2>1. TypeOK'
    <3>1. pc' \in [Level -> Step]
      BY <1>3 DEF StoreNumber, Goto, Step
    <3> QED
      BY <1>3, <2>0, <3>1 DEF StoreNumber
  <2>2. ASSUME NEW d \in Level PROVE Handled(d)'
    BY <1>3, <1>h DEF StoreNumber, At, Goto, Handled, Registered, Timed
  <2> QED
    BY <2>1, <2>2 DEF Handling
<1>4. ASSUME RecordFault(c) PROVE TypeOK' /\ Handling'
  <2>1. TypeOK'
    BY <1>4 DEF RecordFault, Goto, Step
  <2>2. ASSUME NEW d \in Level PROVE Handled(d)'
    BY <1>4, <1>h DEF RecordFault, At, Goto, Handled, Registered, Timed
  <2> QED
    BY <2>1, <2>2 DEF Handling
<1>5. ASSUME SetCounter(c) PROVE TypeOK' /\ Handling'
  <2>1. Timeout(fault_index[c]) \in uint32_t
    BY <1>5, <1>h, TableTypes DEF SetCounter, At, Handled
  <2>2. WithSetBit(Timeout(fault_index[c])) \in uint32_t
    BY <2>1, CounterTypes
  <2>3. TypeOK'
    BY <1>5, <2>2, IndexTypes DEF SetCounter, Goto, Step
  <2>4. ASSUME NEW d \in Level PROVE Handled(d)'
    BY <1>5, <1>h DEF SetCounter, At, Goto, Handled, Registered, Timed
  <2> QED
    BY <2>3, <2>4 DEF Handling
<1> QED
  BY <1>1, <1>2, <1>3, <1>4, <1>5 DEF sph_faults_setfault, Continue

\* A step of sph_faults_handler preserves types and Handling.
LEMMA HandlerTypes ==
  ASSUME TypeOK, Handling, sph_faults_handler
  PROVE  TypeOK' /\ Handling'
<1> USE DEF TypeOK
<1>h. Handled(1) /\ \A d \in Level : Handled(d)
  BY IndexTypes DEF Handling
<1>n. ASSUME NextSlot, reg' \in [Level -> Nat], \A c \in Level \ {1} : reg'[c] = reg[c]
      PROVE  /\ pc' \in [Level -> Step]
             /\ fault_index' \in [Level -> Slot]
             /\ Handling'
  <2>1. \A d \in Level : Handled(d)'
    BY <1>n, <1>h, NextSlotType DEF Handled, Registered, Timed
  <2> QED
    BY <1>n, <2>1, NextSlotType DEF Handling
<1>1. ASSUME StartHandler PROVE TypeOK' /\ Handling'
  <2>1. TypeOK'
    BY <1>1, IndexTypes DEF StartHandler, Goto, Step
  <2>2. ASSUME NEW d \in Level PROVE Handled(d)'
    BY <1>1, <1>h DEF StartHandler, At, Goto, Handled, Registered, Timed
  <2> QED
    BY <2>1, <2>2 DEF Handling
<1>2. ASSUME VisitSlot PROVE TypeOK' /\ Handling'
  <2> DEFINE s == fault_index[1]
  <2>1. s \in Slot /\ fault_counter[s] \in uint32_t /\ fault_counter[s] \in Nat
    BY IndexTypes, ConstantTypes DEF uint32_t
  <2>2. ASSUME Timed(s), Left(fault_counter[s]) > 0,
               reg' = [reg EXCEPT ![1] = fault_counter[s]],
               Goto(1, "tick"), UNCHANGED fault_index
        PROVE  TypeOK' /\ Handling'
    <3>1. TypeOK'
      BY <1>2, <2>1, <2>2 DEF VisitSlot, Goto, Step
    <3>2. ASSUME NEW d \in Level PROVE Handled(d)'
      BY <1>h, <2>1, <2>2, <3>1 DEF Goto, Handled, Registered, Timed
    <3> QED
      BY <3>1, <3>2 DEF Handling
  <2>3. ASSUME Timed(s), Goto(1, "clear"), UNCHANGED <<fault_index, reg>>
        PROVE  TypeOK' /\ Handling'
    <3>1. TypeOK'
      BY <1>2, <2>3 DEF VisitSlot, Goto, Step
    <3>2. ASSUME NEW d \in Level PROVE Handled(d)'
      BY <1>h, <2>3, <3>1 DEF Goto, Handled, Registered, Timed
    <3> QED
      BY <3>1, <3>2 DEF Handling
  <2>4. ASSUME NextSlot, UNCHANGED reg
        PROVE  TypeOK' /\ Handling'
    BY <1>2, <1>n, <2>4 DEF VisitSlot
  <2> QED
    BY <1>2, <2>2, <2>3, <2>4 DEF VisitSlot
<1>3. ASSUME Tick PROVE TypeOK' /\ Handling'
  <2>1. WithSetBit(Left(reg[1]) - 1) \in uint32_t
    BY <1>3, <1>h, CounterTypes DEF Tick, At, Handled
  <2>2. reg' \in [Level -> Nat] /\ \A c \in Level \ {1} : reg'[c] = reg[c]
    BY <1>3 DEF Tick
  <2> QED
    BY <1>3, <1>n, <2>1, <2>2 DEF Tick
<1>4. ASSUME Clear PROVE TypeOK' /\ Handling'
  <2>1. TypeOf(fault_index[1]) \in {"T_STOP_IMMEDIATE", "T_POS_FAULT"}
    BY <1>4, <1>h, IndexTypes, TableTypes DEF Clear, At, Handled
  <2>2. \A n \in Nat : Dec(n) \in Nat
    BY DEF Dec
  <2>3. dirty' \subseteq {"T_STOP_IMMEDIATE", "T_POS_FAULT"} /\ counts' \in [Type -> Nat]
    BY <1>4, <2>1, <2>2 DEF Clear, Type
  <2>4. fault_counter' \in [Slot -> uint32_t]
    BY <1>4, CounterTypes DEF Clear
  <2> QED
    BY <1>4, <1>n, <2>3, <2>4 DEF Clear
<1>5. ASSUME WriteBack PROVE TypeOK' /\ Handling'
  <2>1. TypeOK'
    BY <1>5 DEF WriteBack, Type
  <2>2. ASSUME NEW d \in Level PROVE Handled(d)'
    BY <1>5, <1>h DEF WriteBack, Handled, Registered, Timed
  <2> QED
    BY <2>1, <2>2 DEF Handling
<1>6. ASSUME EndHandler PROVE TypeOK' /\ Handling'
  <2>1. TypeOK'
    BY <1>6 DEF EndHandler, Goto, Step
  <2>2. ASSUME NEW d \in Level PROVE Handled(d)'
    BY <1>6, <1>h DEF EndHandler, At, Goto, Handled, Registered, Timed
  <2> QED
    BY <2>1, <2>2 DEF Handling
<1> QED
  BY <1>1, <1>2, <1>3, <1>4, <1>5, <1>6 DEF sph_faults_handler

-----------------------------------------------------------------------------
\* Types of the slots that levels handle, as the next lemmas use them.
LEMMA HandledSlots ==
  ASSUME TypeOK, Handling
  PROVE  \A c \in Level :
           /\ fault_index[c] \in Slot
           /\ pc[c] \in {"load", "store", "record", "set"} =>
                Registered(fault_index[c]) /\ TypeOf(fault_index[c]) \in Type
           /\ pc[c] \in {"tick", "clear"} =>
                TypeOf(fault_index[c]) \in {"T_STOP_IMMEDIATE", "T_POS_FAULT"}
<1>1. \A c \in Level : fault_index[c] \in Slot
  BY DEF TypeOK
<1>2. \A c \in Level : Handled(c)
  BY DEF Handling
<1> QED
  BY <1>1, <1>2, TableTypes DEF Handled

\* A step of sph_faults_setfault preserves the latch: StoreNumber makes the
\* number positive before SetCounter makes the fault present.
LEMMA SetFaultLatch ==
  ASSUME IInv, NEW c \in Level, sph_faults_setfault(c)
  PROVE  Latch'
<1>t. TypeOK /\ Handling /\ pc \in [Level -> Step] /\ fault_index \in [Level -> Slot]
      /\ number \in [Type -> Nat] /\ reg \in [Level -> Nat]
      /\ fault_counter \in [Slot -> uint32_t]
  BY DEF IInv, TypeOK
<1>p. \A s \in Slot : Registered(s) /\ TypeOf(s) = "STOP_IMMEDIATE" /\ is_present(s) =>
                    number["STOP_IMMEDIATE"] > 0
  BY DEF IInv, Latch
<1>c. \A d \in Level : Counted(d) => number["STOP_IMMEDIATE"] > 0
  BY DEF IInv, Latch
<1>1. ASSUME NEW r \in MaySet[c], SetFault(c, r) PROVE Latch'
  <2>1. Registered(IndexOf(r)) /\ IndexOf(r) \in Slot
    BY <1>1, ConstantTypes, TableTypes DEF SetFault
  <2>2. ASSUME NEW d \in Level, Counted(d)' PROVE number'["STOP_IMMEDIATE"] > 0
    <3>1. CASE d = c
      BY <1>t, <1>1, <1>p, <2>1, <2>2, <3>1 DEF SetFault, Goto, Counted, TypeOf
    <3>2. CASE d # c
      BY <1>t, <1>1, <1>c, <2>2, <3>2 DEF SetFault, Goto, Counted, TypeOf
    <3> QED
      BY <3>1, <3>2
  <2> QED
    BY <1>1, <1>p, <2>2 DEF SetFault, Latch, is_present, Registered, TypeOf
<1>2. ASSUME LoadNumber(c) PROVE Latch'
  BY <1>t, <1>2, <1>p, <1>c DEF LoadNumber, Goto, Latch, Counted, is_present, Registered, TypeOf
<1>3. ASSUME StoreNumber(c) PROVE Latch'
  <2>1. TypeOf(fault_index[c]) \in Type
    BY <1>t, <1>3, HandledSlots DEF StoreNumber, At
  <2>2. CASE TypeOf(fault_index[c]) = "STOP_IMMEDIATE"
    <3>1. number'["STOP_IMMEDIATE"] > 0
      BY <1>t, <1>3, <2>2 DEF StoreNumber, Type
    <3> QED
      BY <3>1 DEF Latch
  <2>3. CASE TypeOf(fault_index[c]) # "STOP_IMMEDIATE"
    <3>1. number'["STOP_IMMEDIATE"] = number["STOP_IMMEDIATE"]
      BY <1>t, <1>3, <2>1, <2>3 DEF StoreNumber, Type
    <3> QED
      BY <1>t, <1>3, <1>p, <1>c, <2>3, <3>1
         DEF StoreNumber, Goto, Latch, Counted, is_present, Registered, TypeOf
  <2> QED
    BY <2>2, <2>3
<1>4. ASSUME RecordFault(c) PROVE Latch'
  BY <1>t, <1>4, <1>p, <1>c
     DEF RecordFault, At, Goto, Latch, Counted, is_present, Registered, TypeOf
<1>5. ASSUME SetCounter(c) PROVE Latch'
  <2>1. ASSUME NEW s \in Slot, Registered(s), TypeOf(s) = "STOP_IMMEDIATE", is_present(s)'
        PROVE  number'["STOP_IMMEDIATE"] > 0
    <3>1. CASE s = fault_index[c]
      BY <1>5, <1>c, <2>1, <3>1 DEF SetCounter, At, Counted
    <3>2. CASE s # fault_index[c]
      BY <1>t, <1>5, <1>p, <2>1, <3>2 DEF SetCounter, is_present
    <3> QED
      BY <3>1, <3>2
  <2>2. ASSUME NEW d \in Level, Counted(d)' PROVE number'["STOP_IMMEDIATE"] > 0
    BY <1>t, <1>5, <1>c, <2>2 DEF SetCounter, Goto, Counted, TypeOf
  <2> QED
    BY <2>1, <2>2 DEF Latch, Registered, TypeOf
<1> QED
  BY <1>1, <1>2, <1>3, <1>4, <1>5 DEF sph_faults_setfault, Continue

\* A step of sph_faults_handler preserves the latch: it changes counters and
\* numbers of timed faults only.
LEMMA HandlerLatch ==
  ASSUME IInv, sph_faults_handler
  PROVE  Latch'
<1>t. TypeOK /\ Handling /\ pc \in [Level -> Step] /\ fault_index \in [Level -> Slot]
      /\ number \in [Type -> Nat] /\ fault_counter \in [Slot -> uint32_t]
      /\ dirty \subseteq {"T_STOP_IMMEDIATE", "T_POS_FAULT"}
  BY DEF IInv, TypeOK
<1>p. \A s \in Slot : Registered(s) /\ TypeOf(s) = "STOP_IMMEDIATE" /\ is_present(s) =>
                    number["STOP_IMMEDIATE"] > 0
  BY DEF IInv, Latch
<1>c. \A d \in Level : Counted(d) => number["STOP_IMMEDIATE"] > 0
  BY DEF IInv, Latch
<1>k. ASSUME number'["STOP_IMMEDIATE"] = number["STOP_IMMEDIATE"],
             \A d \in Level : Counted(d)' => Counted(d),
             \A s \in Slot : Registered(s) /\ TypeOf(s) = "STOP_IMMEDIATE" =>
                            fault_counter'[s] = fault_counter[s]
      PROVE  Latch'
  BY <1>k, <1>p, <1>c DEF Latch, is_present, Registered, TypeOf
<1>n. NextSlot => \A d \in Level : Counted(d)' => Counted(d)
  BY <1>t, NextSlotType DEF Counted, TypeOf
<1>1. ASSUME StartHandler PROVE Latch'
  <2>1. \A d \in Level : Counted(d)' => Counted(d)
    BY <1>t, <1>1 DEF StartHandler, Goto, Counted, TypeOf
  <2> QED
    BY <1>1, <1>k, <2>1 DEF StartHandler
<1>2. ASSUME VisitSlot PROVE Latch'
  <2>1. \A d \in Level : Counted(d)' => Counted(d)
    BY <1>t, <1>2, <1>n DEF VisitSlot, Goto, Counted, TypeOf
  <2> QED
    BY <1>2, <1>k, <2>1 DEF VisitSlot
<1>3. ASSUME Tick \/ Clear PROVE Latch'
  <2>1. TypeOf(fault_index[1]) # "STOP_IMMEDIATE"
    BY <1>t, <1>3, HandledSlots, IndexTypes DEF Tick, Clear, At
  <2>2. \A s \in Slot : s # fault_index[1] => fault_counter'[s] = fault_counter[s]
    BY <1>t, <1>3 DEF Tick, Clear
  <2> QED
    BY <1>3, <1>k, <1>n, <2>1, <2>2 DEF Tick, Clear
<1>4. ASSUME WriteBack PROVE Latch'
  <2>1. number'["STOP_IMMEDIATE"] = number["STOP_IMMEDIATE"]
    BY <1>t, <1>4 DEF WriteBack, Type
  <2>2. \A d \in Level : Counted(d)' => Counted(d)
    BY <1>4 DEF WriteBack, Counted, TypeOf
  <2> QED
    BY <1>4, <1>k, <2>1, <2>2 DEF WriteBack
<1>5. ASSUME EndHandler PROVE Latch'
  <2>1. \A d \in Level : Counted(d)' => Counted(d)
    BY <1>t, <1>5 DEF EndHandler, Goto, Counted, TypeOf
  <2> QED
    BY <1>5, <1>k, <2>1 DEF EndHandler
<1> QED
  BY <1>1, <1>2, <1>3, <1>4, <1>5 DEF sph_faults_handler

-----------------------------------------------------------------------------
\* Every step preserves the invariant.
LEMMA StepInv == IInv /\ [Next]_vars => IInv'
<1> SUFFICES ASSUME IInv, [Next]_vars PROVE IInv'
  OBVIOUS
<1>t. TypeOK /\ Handling
  BY DEF IInv
<1>1. CASE \E c \in Level : sph_faults_setfault(c)
  BY <1>1, <1>t, SetFaultTypes, SetFaultLatch DEF IInv
<1>2. CASE sph_faults_handler
  BY <1>2, <1>t, HandlerTypes, HandlerLatch DEF IInv
<1>3. CASE EraseHistory
  BY <1>3 DEF EraseHistory, IInv, TypeOK, Handling, Handled, Latch, Counted, is_present,
              Registered, Timed, Timeout, TypeOf
<1>4. CASE UNCHANGED vars
  BY <1>4 DEF vars, IInv, TypeOK, Handling, Handled, Latch, Counted, is_present,
              Registered, Timed, Timeout, TypeOf
<1> QED
  BY <1>1, <1>2, <1>3, <1>4 DEF Next

\* IInv is an invariant of Faults.
THEOREM Inductive == Spec => []IInv
BY InitInv, StepInv, PTL DEF Spec

\* sph_faults.c keeps its types, and writes back only numbers of timed classes.
THEOREM TypeCorrect == Spec => []TypeOK
<1>1. IInv => TypeOK
  BY DEF IInv
<1> QED
  BY <1>1, Inductive, PTL

\* A fault without timeout stops the lift from when it is present, whatever the
\* levels that preempt each other do to the numbers.
THEOREM LatchedStopsSafe == Spec => []LatchedStops
<1>1. IInv => LatchedStops
  <2> SUFFICES ASSUME IInv, NEW s \in Present("STOP_IMMEDIATE") PROVE sie_check
    BY DEF LatchedStops
  <2>1. number["STOP_IMMEDIATE"] > 0
    BY DEF IInv, Latch, Present
  <2> QED
    BY <2>1 DEF sie_check
<1> QED
  BY <1>1, Inductive, PTL


-----------------------------------------------------------------------------
\* The slots a number should count, and how many they are.
Counting(t) == Present(t) \cup Setting(t)
Count(t) == Cardinality(Counting(t))

\* Where sph_faults_handler has its registers in use.
InHandler == pc[1] \in {"visit", "tick", "clear", "write"}

\* No fault with a timeout is set at two levels, as e_faults.h and d_faults.h
\* have it: a fault comes from a task of the main loop or from one interrupt.
TimedByOneLevel ==
  \A c, d \in Level : c # d =>
    \A r \in MaySet[c] \cap MaySet[d] : IndexOf(r) \in Slot => Registrations[r].type \notin TimedType

\* What NoPhantom needs to be inductive: a level that is about to count a fault
\* with a timeout finds it unset until it sets it itself, and neither the registers
\* of the increments nor those of the handler exceed what they count.
Owned(c) ==
  pc[c] \in {"load", "store", "record", "set"} => fault_index[c] + 1 \in MaySet[c]

Unset(c) ==
  pc[c] \in {"load", "store"} /\ TypeOf(fault_index[c]) \in TimedType =>
    ~is_present(fault_index[c])

Loaded(c) ==
  pc[c] = "store" /\ TypeOf(fault_index[c]) \in TimedType \ dirty =>
    reg[c] <= Count(TypeOf(fault_index[c]))

Bounded ==
  /\ dirty # {} => InHandler
  /\ \A t \in TimedType \ dirty : number[t] <= Count(t)
  /\ InHandler => \A t \in TimedType : counts[t] <= Count(t)
  /\ \A c \in Level : Owned(c) /\ Unset(c) /\ Loaded(c)

\* A slot is counted when it is present or about to be.
LEMMA InCounting ==
  \A t, s :
    /\ s \in Counting(t) <=>
         /\ s \in Slot /\ TypeOf(s) = t
         /\ \/ Registered(s) /\ is_present(s)
            \/ \E c \in Level : pc[c] \in {"record", "set"} /\ fault_index[c] = s
    /\ s \in Counting(t)' <=>
         /\ s \in Slot /\ TypeOf(s) = t
         /\ \/ Registered(s) /\ is_present(s)'
            \/ \E c \in Level : pc'[c] \in {"record", "set"} /\ fault_index'[c] = s
BY DEF Counting, Present, Setting, TypeOf, Registered

\* The slots counted are finitely many.
LEMMA CountTypes ==
  \A t : /\ IsFiniteSet(Counting(t)) /\ Count(t) \in Nat
         /\ IsFiniteSet(Counting(t)') /\ Count(t)' \in Nat
<1>1. IsFiniteSet(Slot)
  BY ConstantTypes, FS_Interval DEF Slot
<1>2. \A t : Counting(t) \in SUBSET Slot /\ Counting(t)' \in SUBSET Slot
  BY InCounting
<1> QED
  BY <1>1, <1>2, FS_Subset, FS_CardinalityType DEF Count

\* More slots counted, a greater number.
LEMMA CountGrows ==
  ASSUME NEW t, Counting(t) \subseteq Counting(t)'
  PROVE  Count(t) <= Count(t)'
BY CountTypes, FS_Subset DEF Count

\* A slot more, a number one greater.
LEMMA CountAdds ==
  ASSUME NEW t, NEW s, s \notin Counting(t), Counting(t)' = Counting(t) \cup {s}
  PROVE  Count(t)' = Count(t) + 1
BY CountTypes, FS_AddElement DEF Count

\* A slot less, a number one smaller.
LEMMA CountDrops ==
  ASSUME NEW t, NEW s, Counting(t)' = Counting(t) \ {s}
  PROVE  Count(t)' = IF s \in Counting(t) THEN Count(t) - 1 ELSE Count(t)
BY CountTypes, FS_RemoveElement DEF Count

\* What is stored as a fault's counter has the set bit.
LEMMA CounterSet == \A x \in Nat : IsSet(WithSetBit(x))
BY ConstantTypes DEF IsSet, WithSetBit

\* StoreNumber counts its slot, the other steps of sph_faults_setfault leave the
\* slots counted as they are: SetCounter makes present what was being set.
LEMMA SetFaultCounting ==
  ASSUME TypeOK, Handling, NEW c \in Level, sph_faults_setfault(c), NEW t
  PROVE  Counting(t)' = IF StoreNumber(c) /\ TypeOf(fault_index[c]) = t
                        THEN Counting(t) \cup {fault_index[c]} ELSE Counting(t)
<1>t. pc \in [Level -> Step] /\ fault_index \in [Level -> Slot]
      /\ fault_counter \in [Slot -> uint32_t]
  BY DEF TypeOK
<1>h. Handled(c)
  BY DEF Handling
<1>1. ASSUME NEW r \in MaySet[c], SetFault(c, r)
      PROVE  Counting(t)' = Counting(t) /\ ~StoreNumber(c)
  <2>1. Registered(IndexOf(r)) /\ IndexOf(r) \in Slot
    BY <1>1, ConstantTypes, TableTypes DEF SetFault
  <2>2. ASSUME NEW s PROVE s \in Counting(t)' <=> s \in Counting(t)
    BY <1>t, <1>1, <2>1, InCounting DEF SetFault, At, Goto, is_present
  <2> QED
    BY <1>1, <2>2 DEF SetFault, StoreNumber, At
<1>2. ASSUME LoadNumber(c) PROVE Counting(t)' = Counting(t) /\ ~StoreNumber(c)
  <2>2. ASSUME NEW s PROVE s \in Counting(t)' <=> s \in Counting(t)
    BY <1>t, <1>2, InCounting DEF LoadNumber, At, Goto, is_present
  <2> QED
    BY <1>2, <2>2 DEF LoadNumber, StoreNumber, At
<1>3. ASSUME StoreNumber(c)
      PROVE  Counting(t)' = IF TypeOf(fault_index[c]) = t
                            THEN Counting(t) \cup {fault_index[c]} ELSE Counting(t)
  <2>1. fault_index[c] \in Slot
    BY <1>t
  <2>2. ASSUME NEW s
        PROVE  s \in Counting(t)' <=> s \in Counting(t) \/ (s = fault_index[c] /\ TypeOf(s) = t)
    BY <1>t, <1>3, <2>1, InCounting DEF StoreNumber, At, Goto, is_present
  <2> QED
    BY <2>2
<1>4. ASSUME RecordFault(c) PROVE Counting(t)' = Counting(t) /\ ~StoreNumber(c)
  <2>2. ASSUME NEW s PROVE s \in Counting(t)' <=> s \in Counting(t)
    BY <1>t, <1>4, InCounting DEF RecordFault, At, Goto, is_present
  <2> QED
    BY <1>4, <2>2 DEF RecordFault, StoreNumber, At
<1>5. ASSUME SetCounter(c) PROVE Counting(t)' = Counting(t) /\ ~StoreNumber(c)
  <2>1. Registered(fault_index[c]) /\ fault_index[c] \in Slot
    BY <1>t, <1>h, <1>5 DEF SetCounter, At, Handled
  <2>2. IsSet(WithSetBit(Timeout(fault_index[c])))
    BY <2>1, TableTypes, CounterSet, ConstantTypes DEF uint32_t
  <2>3. /\ pc[c] = "set" /\ pc'[c] = "idle"
        /\ \A d \in Level \ {c} : pc'[d] = pc[d] /\ fault_index'[d] = fault_index[d]
        /\ fault_counter' = [fault_counter EXCEPT ![fault_index[c]] =
                               WithSetBit(Timeout(fault_index[c]))]
    BY <1>t, <1>5 DEF SetCounter, At, Goto
  <2>4. \A s \in Slot : is_present(s)' <=> is_present(s) \/ s = fault_index[c]
    BY <1>t, <2>1, <2>2, <2>3 DEF is_present
  <2>5. ASSUME NEW s PROVE s \in Counting(t)' <=> s \in Counting(t)
    BY <2>1, <2>3, <2>4, InCounting
  <2> QED
    BY <1>5, <2>5 DEF SetCounter, StoreNumber, At
<1> QED
  BY <1>1, <1>2, <1>3, <1>4, <1>5 DEF sph_faults_setfault, Continue

\* Clear drops its slot, Tick keeps it, and the other steps of sph_faults_handler
\* leave the slots counted as they are.
LEMMA HandlerCounting ==
  ASSUME TypeOK, Handling, sph_faults_handler, NEW t
  PROVE  /\ ~Clear => Counting(t) \subseteq Counting(t)'
         /\ ~Clear /\ (Tick => is_present(fault_index[1])) => Counting(t)' = Counting(t)
         /\ Clear => Counting(t)' = Counting(t) \ {fault_index[1]}
<1>t. pc \in [Level -> Step] /\ fault_index \in [Level -> Slot]
      /\ fault_counter \in [Slot -> uint32_t] /\ 1 \in Level
  BY IndexTypes DEF TypeOK
<1>h. Handled(1)
  BY <1>t DEF Handling
<1>k. ASSUME \A d \in Level : pc'[d] \in {"record", "set"} <=> pc[d] \in {"record", "set"},
             \A d \in Level : pc[d] \in {"record", "set"} => fault_index'[d] = fault_index[d],
             fault_counter' = fault_counter
      PROVE  Counting(t)' = Counting(t)
  <2>1. ASSUME NEW s PROVE s \in Counting(t)' <=> s \in Counting(t)
    BY <1>k, InCounting DEF is_present
  <2> QED
    BY <2>1
<1>n. ASSUME NextSlot, pc[1] \in {"visit", "tick", "clear"}
      PROVE  /\ \A d \in Level : pc'[d] \in {"record", "set"} <=> pc[d] \in {"record", "set"}
             /\ \A d \in Level : pc[d] \in {"record", "set"} => fault_index'[d] = fault_index[d]
  BY <1>n, <1>t, NextSlotType
<1>1. ASSUME StartHandler \/ EndHandler \/ WriteBack
      PROVE  Counting(t)' = Counting(t) /\ ~Clear
  <2>1. \A d \in Level : pc'[d] \in {"record", "set"} <=> pc[d] \in {"record", "set"}
    BY <1>1, <1>t DEF StartHandler, EndHandler, WriteBack, At, Goto
  <2>2. fault_counter' = fault_counter /\ fault_index' = fault_index
    BY <1>1 DEF StartHandler, EndHandler, WriteBack
  <2> QED
    BY <1>1, <1>k, <2>1, <2>2 DEF StartHandler, EndHandler, WriteBack, Clear, At
<1>2. ASSUME VisitSlot PROVE Counting(t)' = Counting(t) /\ ~Clear
  <2>1. pc[1] = "visit" /\ fault_counter' = fault_counter
    BY <1>2 DEF VisitSlot, At
  <2>2. \/ Goto(1, "tick") /\ UNCHANGED fault_index
        \/ Goto(1, "clear") /\ UNCHANGED fault_index
        \/ NextSlot
    BY <1>2 DEF VisitSlot
  <2>3. /\ \A d \in Level : pc'[d] \in {"record", "set"} <=> pc[d] \in {"record", "set"}
        /\ \A d \in Level : pc[d] \in {"record", "set"} => fault_index'[d] = fault_index[d]
    BY <1>t, <1>n, <2>1, <2>2 DEF Goto
  <2> QED
    BY <1>k, <2>1, <2>3 DEF Clear, At
<1>3. ASSUME Tick
      PROVE  /\ Counting(t) \subseteq Counting(t)' /\ ~Clear
             /\ is_present(fault_index[1]) => Counting(t)' = Counting(t)
  <2>1. pc[1] = "tick" /\ NextSlot
    BY <1>3 DEF Tick, At
  <2>2. IsSet(WithSetBit(Left(reg[1]) - 1))
    BY <1>h, <2>1, CounterTypes, CounterSet DEF Handled
  <2>3. \A s \in Slot : is_present(s)' <=> is_present(s) \/ s = fault_index[1]
    BY <1>3, <1>t, <2>2 DEF Tick, is_present
  <2>4. ASSUME NEW s
        PROVE  /\ s \in Counting(t) => s \in Counting(t)'
               /\ is_present(fault_index[1]) => (s \in Counting(t)' <=> s \in Counting(t))
    BY <1>n, <2>1, <2>3, InCounting
  <2> QED
    BY <2>1, <2>4 DEF Clear, At
<1>4. ASSUME Clear PROVE Counting(t)' = Counting(t) \ {fault_index[1]}
  <2>1. pc[1] = "clear" /\ NextSlot
    BY <1>4 DEF Clear, At
  <2>2. \A d \in Level : pc[d] \notin {"record", "set"}
    BY <1>4, <1>t DEF Clear, At, Level
  <2>3. \A s \in Slot : is_present(s)' <=> is_present(s) /\ s # fault_index[1]
    BY <1>4, <1>t, CounterTypes DEF Clear, is_present
  <2>4. ASSUME NEW s
        PROVE  s \in Counting(t)' <=> s \in Counting(t) /\ s # fault_index[1]
    BY <1>n, <2>1, <2>2, <2>3, InCounting
  <2> QED
    BY <2>4
<1> QED
  BY <1>1, <1>2, <1>3, <1>4 DEF sph_faults_handler


-----------------------------------------------------------------------------
\* A step of sph_faults_setfault: what it does to where the levels stand, to the
\* numbers and to the registers.
LEMMA SetFaultChanges ==
  ASSUME TypeOK, NEW c \in Level, sph_faults_setfault(c)
  PROVE  /\ \A d \in Level \ {c} : /\ pc'[d] = pc[d] /\ fault_index'[d] = fault_index[d]
                                   /\ reg'[d] = reg[d]
         /\ UNCHANGED <<counts, dirty>>
         /\ pc[c] \in {"idle", "load", "store", "record", "set"}
         /\ pc'[c] \in {"idle", "load", "store", "record", "set"}
         /\ ~StoreNumber(c) => number' = number
         /\ ~SetCounter(c) => fault_counter' = fault_counter
         /\ pc[c] # "idle" /\ pc'[c] # "idle" => fault_index'[c] = fault_index[c]
         /\ pc'[c] = "store" => pc[c] = "load" /\ reg'[c] = number[TypeOf(fault_index[c])]
         /\ pc[c] = "idle" /\ pc'[c] # "idle" =>
              \E r \in MaySet[c] : /\ fault_index'[c] = IndexOf(r) /\ IndexOf(r) \in Slot
                                   /\ pc'[c] = "load" => ~is_present(IndexOf(r))
         /\ pc'[c] = "load" => pc[c] = "idle"
<1>t. /\ pc \in [Level -> Step] /\ fault_index \in [Level -> Slot]
      /\ reg \in [Level -> Nat]
  BY DEF TypeOK
<1>1. ASSUME NEW r \in MaySet[c], SetFault(c, r)
      PROVE  /\ pc[c] = "idle" /\ pc'[c] = (IF is_present(IndexOf(r)) THEN "set" ELSE "load")
             /\ fault_index'[c] = IndexOf(r) /\ IndexOf(r) \in Slot
             /\ \A d \in Level \ {c} : pc'[d] = pc[d] /\ fault_index'[d] = fault_index[d]
             /\ UNCHANGED <<counts, dirty, number, fault_counter, reg>>
  BY <1>t, <1>1 DEF SetFault, At, Goto
<1>2. ASSUME LoadNumber(c)
      PROVE  /\ pc[c] = "load" /\ pc'[c] = "store" /\ reg'[c] = number[TypeOf(fault_index[c])]
             /\ \A d \in Level \ {c} : pc'[d] = pc[d] /\ reg'[d] = reg[d]
             /\ UNCHANGED <<counts, dirty, number, fault_counter, fault_index>>
  BY <1>t, <1>2 DEF LoadNumber, At, Goto
<1>3. ASSUME StoreNumber(c)
      PROVE  /\ pc[c] = "store" /\ pc'[c] = "record"
             /\ \A d \in Level \ {c} : pc'[d] = pc[d] /\ reg'[d] = reg[d]
             /\ UNCHANGED <<counts, dirty, fault_counter, fault_index>>
  BY <1>t, <1>3 DEF StoreNumber, At, Goto
<1>4. ASSUME RecordFault(c)
      PROVE  /\ pc[c] = "record" /\ pc'[c] = "set"
             /\ \A d \in Level \ {c} : pc'[d] = pc[d]
             /\ UNCHANGED <<counts, dirty, number, fault_counter, fault_index, reg>>
  BY <1>t, <1>4 DEF RecordFault, At, Goto
<1>5. ASSUME SetCounter(c)
      PROVE  /\ pc[c] = "set" /\ pc'[c] = "idle"
             /\ \A d \in Level \ {c} : pc'[d] = pc[d] /\ fault_index'[d] = fault_index[d]
             /\ UNCHANGED <<counts, dirty, number, reg>>
  BY <1>t, <1>5 DEF SetCounter, At, Goto
<1>6. CASE \E r \in MaySet[c] : SetFault(c, r)
  <2>1. PICK r \in MaySet[c] : SetFault(c, r)
    BY <1>6
  <2> QED
    BY <1>1, <2>1
<1> QED
  BY <1>2, <1>3, <1>4, <1>5, <1>6 DEF sph_faults_setfault, Continue

\* Two levels never set the same fault with a timeout.
LEMMA SlotsApart ==
  ASSUME TypeOK, TimedByOneLevel,
         NEW c \in Level, NEW d \in Level, c # d, Owned(c), Owned(d),
         pc[c] \in {"load", "store", "record", "set"},
         pc[d] \in {"load", "store", "record", "set"},
         TypeOf(fault_index[c]) \in TimedType
  PROVE  fault_index[c] # fault_index[d]
<1> SUFFICES ASSUME fault_index[c] = fault_index[d] PROVE FALSE
  OBVIOUS
<1>1. fault_index[c] + 1 \in MaySet[c] \cap MaySet[d]
  BY DEF Owned
<1>2. fault_index[c] \in Slot
  BY DEF TypeOK
<1>3. IndexOf(fault_index[c] + 1) = fault_index[c]
  BY <1>2, ConstantTypes DEF IndexOf, Slot
<1> QED
  BY <1>1, <1>2, <1>3 DEF TimedByOneLevel, TypeOf

\* The initial state is bounded: nothing is counted.
LEMMA InitBounded == Init => Bounded
<1> SUFFICES ASSUME Init PROVE Bounded
  OBVIOUS
<1>1. \A t \in TimedType : number[t] <= Count(t)
  BY CountTypes DEF Init, TimedType, Type
<1>2. \A c \in Level : pc[c] = "idle"
  BY DEF Init
<1> QED
  BY <1>1, <1>2, IndexTypes DEF Bounded, InHandler, Owned, Unset, Loaded, Init

\* A step of sph_faults_setfault preserves the bounds: the number it stores counts
\* one slot more, and so do the slots.
LEMMA SetFaultBounded ==
  ASSUME TypeOK, Handling, TimedByOneLevel, Bounded, NEW c \in Level, sph_faults_setfault(c)
  PROVE  Bounded'
<1>t. /\ pc \in [Level -> Step] /\ fault_index \in [Level -> Slot] /\ 1 \in Level
      /\ reg \in [Level -> Nat] /\ number \in [Type -> Nat] /\ counts \in [Type -> Nat]
      /\ TimedType \subseteq Type
  BY IndexTypes DEF TypeOK, TimedType, Type
<1>b. /\ dirty # {} => InHandler
      /\ \A t \in TimedType \ dirty : number[t] <= Count(t)
      /\ InHandler => \A t \in TimedType : counts[t] <= Count(t)
      /\ \A d \in Level : Owned(d) /\ Unset(d) /\ Loaded(d)
  BY DEF Bounded
<1>g. \A t : Count(t) <= Count(t)'
  BY SetFaultCounting, CountGrows
<1>i. InHandler' <=> InHandler
  BY <1>t, SetFaultChanges DEF InHandler
<1>1. dirty' # {} => InHandler'
  BY <1>b, <1>i, SetFaultChanges
<1>2. ASSUME NEW t \in TimedType \ dirty PROVE number'[t] <= Count(t)'
  <2>1. CASE StoreNumber(c)
    <3>1. CASE TypeOf(fault_index[c]) = t
      <4>1. pc[c] = "store" /\ number' = [number EXCEPT ![t] = reg[c] + 1]
        BY <2>1, <3>1 DEF StoreNumber, At
      <4>2. reg[c] <= Count(t) /\ ~is_present(fault_index[c])
        BY <1>b, <3>1, <4>1 DEF Loaded, Unset
      <4>3. fault_index[c] \notin Counting(t)
        <5>1. ASSUME NEW d \in Level, pc[d] \in {"record", "set"}
              PROVE  fault_index[d] # fault_index[c]
          BY <1>b, <3>1, <4>1, <5>1, SlotsApart
        <5> QED
          BY <4>2, <5>1, InCounting
      <4>4. Counting(t)' = Counting(t) \cup {fault_index[c]}
        BY <2>1, <3>1, SetFaultCounting
      <4>5. Count(t)' = Count(t) + 1
        BY <4>3, <4>4, CountAdds
      <4> QED
        BY <1>t, <4>1, <4>2, <4>5, CountTypes
    <3>2. CASE TypeOf(fault_index[c]) # t
      <4>1. number'[t] = number[t]
        BY <1>t, <2>1, <3>2 DEF StoreNumber
      <4> QED
        BY <1>t, <1>b, <1>g, <4>1, CountTypes
    <3> QED
      BY <3>1, <3>2
  <2>2. CASE ~StoreNumber(c)
    <3>1. number' = number
      BY <2>2, SetFaultChanges
    <3> QED
      BY <1>t, <1>b, <1>g, <3>1, CountTypes
  <2> QED
    BY <2>1, <2>2
<1>3. ASSUME InHandler', NEW t \in TimedType PROVE counts'[t] <= Count(t)'
  <2>1. counts'[t] = counts[t] /\ counts[t] <= Count(t) /\ counts[t] \in Nat
    BY <1>t, <1>b, <1>i, <1>3, SetFaultChanges
  <2> QED
    BY <1>g, <2>1, CountTypes
<1>4. ASSUME NEW d \in Level PROVE Owned(d)'
  <2>1. CASE d = c /\ pc[c] = "idle" /\ pc'[c] # "idle"
    <3>1. PICK r \in MaySet[c] : fault_index'[c] = IndexOf(r) /\ IndexOf(r) \in Slot
      BY <2>1, SetFaultChanges
    <3>2. r \in Nat /\ IndexOf(r) + 1 = r
      BY <3>1, ConstantTypes DEF IndexOf, Slot, NoSlot
    <3> QED
      BY <2>1, <3>1, <3>2 DEF Owned
  <2>2. CASE d = c /\ ~(pc[c] = "idle" /\ pc'[c] # "idle")
    BY <1>b, <2>2, SetFaultChanges DEF Owned
  <2>3. CASE d # c
    BY <1>b, <2>3, SetFaultChanges DEF Owned
  <2> QED
    BY <2>1, <2>2, <2>3
<1>5. ASSUME NEW d \in Level PROVE Unset(d)'
  <2> SUFFICES ASSUME pc'[d] \in {"load", "store"}, TypeOf(fault_index'[d]) \in TimedType
               PROVE  ~IsSet(fault_counter'[fault_index'[d]])
    BY DEF Unset, is_present, TypeOf
  <2>1. CASE d # c
    <3>1. /\ pc[d] \in {"load", "store"} /\ fault_index'[d] = fault_index[d]
          /\ ~is_present(fault_index[d])
      BY <1>b, <2>1, SetFaultChanges DEF Unset
    <3>2. CASE SetCounter(c)
      <4>1. pc[c] = "set" /\ fault_counter' = [fault_counter EXCEPT ![fault_index[c]] =
                                                WithSetBit(Timeout(fault_index[c]))]
        BY <3>2 DEF SetCounter, At
      <4>2. fault_index[c] # fault_index[d]
        BY <1>b, <2>1, <3>1, <4>1, SlotsApart
      <4> QED
        BY <3>1, <4>1, <4>2 DEF is_present, TypeOK
    <3>3. CASE ~SetCounter(c)
      BY <3>1, <3>3, SetFaultChanges DEF is_present
    <3> QED
      BY <3>2, <3>3
  <2>2. CASE d = c
    <3>1. fault_counter' = fault_counter
      BY <2>2, <1>t, SetFaultChanges DEF SetCounter, Goto
    <3>2. CASE pc[c] = "idle"
      <4>1. PICK r \in MaySet[c] : /\ fault_index'[c] = IndexOf(r)
                                   /\ pc'[c] = "load" => ~is_present(IndexOf(r))
        BY <2>2, <3>2, SetFaultChanges
      <4>2. pc'[c] = "load"
        BY <2>2, <3>2, SetFaultChanges
      <4> QED
        BY <2>2, <3>1, <4>1, <4>2 DEF is_present
    <3>3. CASE pc[c] # "idle"
      <4>1. pc[c] = "load" /\ fault_index'[c] = fault_index[c]
        BY <2>2, <3>3, SetFaultChanges
      <4> QED
        BY <1>b, <2>2, <3>1, <4>1 DEF is_present, Unset
    <3> QED
      BY <3>2, <3>3
  <2> QED
    BY <2>1, <2>2
<1>6. ASSUME NEW d \in Level PROVE Loaded(d)'
  <2> SUFFICES ASSUME NEW t \in TimedType \ dirty,
                      pc'[d] = "store", TypeOf(fault_index'[d]) = t
               PROVE  reg'[d] <= Count(t)'
    <3>1. dirty' = dirty
      BY SetFaultChanges
    <3> QED
      BY <3>1 DEF Loaded, TypeOf, Count, Counting, Present, Setting, is_present, Registered
  <2>1. CASE d # c
    <3>1. pc[d] = "store" /\ TypeOf(fault_index[d]) = t /\ reg'[d] = reg[d]
      BY <2>1, SetFaultChanges
    <3>2. reg[d] <= Count(t) /\ reg[d] \in Nat
      BY <1>b, <1>t, <3>1 DEF Loaded
    <3> QED
      BY <1>g, <3>1, <3>2, CountTypes
  <2>2. CASE d = c
    <3>1. TypeOf(fault_index[c]) = t /\ reg'[c] = number[t]
      BY <2>2, SetFaultChanges
    <3>2. number[t] <= Count(t) /\ number[t] \in Nat
      BY <1>b, <1>t
    <3> QED
      BY <1>g, <2>2, <3>1, <3>2, CountTypes
  <2> QED
    BY <2>1, <2>2
<1>7. dirty' = dirty
  BY SetFaultChanges
<1> QED
  BY <1>1, <1>2, <1>3, <1>4, <1>5, <1>6, <1>7 DEF Bounded


\* A step of sph_faults_handler: no other level is under way, the main loop does
\* not set a fault, and only StartHandler enters the handler.
LEMMA HandlerChanges ==
  ASSUME TypeOK, sph_faults_handler
  PROVE  /\ \A d \in Level : pc[d] \notin {"load", "store", "record", "set"}
         /\ \A d \in Level : pc'[d] \notin {"load", "store", "record", "set"}
         /\ InHandler <=> ~StartHandler
         /\ InHandler' <=> ~EndHandler
         /\ ~WriteBack => number' = number
         /\ StartHandler => counts' = number /\ dirty' = dirty
         /\ VisitSlot \/ Tick \/ WriteBack => counts' = counts
         /\ VisitSlot \/ Tick \/ EndHandler => dirty' = dirty
         /\ EndHandler => dirty = {}
<1>t. pc \in [Level -> Step] /\ 1 \in Level
  BY IndexTypes DEF TypeOK
<1>a. \A here \in Step : At(1, here) => \A d \in Level \ {1} : pc[d] = "idle"
  BY <1>t DEF At, Level
<1>n. NextSlot => /\ pc'[1] \in {"visit", "write"}
                  /\ \A d \in Level \ {1} : pc'[d] = pc[d]
  BY NextSlotType
<1>1. ASSUME StartHandler
      PROVE  /\ At(1, "idle") /\ pc[1] = "idle" /\ pc'[1] = "visit"
             /\ \A d \in Level \ {1} : pc'[d] = pc[d]
             /\ counts' = number /\ dirty' = dirty /\ number' = number
  BY <1>t, <1>1 DEF StartHandler, At, Goto
<1>2. ASSUME VisitSlot
      PROVE  /\ At(1, "visit") /\ pc[1] = "visit" /\ pc'[1] \in {"tick", "clear", "visit", "write"}
             /\ \A d \in Level \ {1} : pc'[d] = pc[d]
             /\ counts' = counts /\ dirty' = dirty /\ number' = number
  BY <1>t, <1>n, <1>2 DEF VisitSlot, At, Goto
<1>3. ASSUME Tick
      PROVE  /\ At(1, "tick") /\ pc[1] = "tick" /\ pc'[1] \in {"visit", "write"}
             /\ \A d \in Level \ {1} : pc'[d] = pc[d]
             /\ counts' = counts /\ dirty' = dirty /\ number' = number
  BY <1>t, <1>n, <1>3 DEF Tick, At
<1>4. ASSUME Clear
      PROVE  /\ At(1, "clear") /\ pc[1] = "clear" /\ pc'[1] \in {"visit", "write"}
             /\ \A d \in Level \ {1} : pc'[d] = pc[d]
             /\ number' = number
  BY <1>t, <1>n, <1>4 DEF Clear, At
<1>5. ASSUME WriteBack
      PROVE  /\ At(1, "write") /\ pc[1] = "write" /\ pc' = pc /\ dirty # {} /\ counts' = counts
  BY <1>5 DEF WriteBack, At
<1>6. ASSUME EndHandler
      PROVE  /\ At(1, "write") /\ pc[1] = "write" /\ pc'[1] = "idle"
             /\ \A d \in Level \ {1} : pc'[d] = pc[d]
             /\ dirty = {} /\ dirty' = dirty /\ number' = number
  BY <1>t, <1>6 DEF EndHandler, At, Goto
<1> QED
  BY <1>t, <1>a, <1>1, <1>2, <1>3, <1>4, <1>5, <1>6 DEF sph_faults_handler, InHandler, Step

\* A step of sph_faults_handler preserves the bounds: Clear takes one off the
\* register and at most one off the slots counted.
LEMMA HandlerBounded ==
  ASSUME TypeOK, Handling, Bounded, sph_faults_handler
  PROVE  Bounded'
<1>t. /\ number \in [Type -> Nat] /\ counts \in [Type -> Nat] /\ TimedType \subseteq Type
  BY DEF TypeOK, TimedType, Type
<1>b. /\ dirty # {} => InHandler
      /\ \A t \in TimedType \ dirty : number[t] <= Count(t)
      /\ InHandler => \A t \in TimedType : counts[t] <= Count(t)
  BY DEF Bounded
<1>l. \A d \in Level : Owned(d)' /\ Unset(d)' /\ Loaded(d)'
  BY HandlerChanges DEF Owned, Unset, Loaded
<1>g. ~Clear => \A t : Count(t) <= Count(t)'
  BY HandlerCounting, CountGrows
<1>1. dirty' # {} => InHandler'
  BY <1>b, HandlerChanges
<1>k. ASSUME ~Clear, dirty' = dirty, number' = number,
             InHandler' => \A t \in TimedType : counts'[t] = counts[t] /\ counts[t] <= Count(t)
      PROVE  Bounded'
  <2>1. ASSUME NEW t \in TimedType \ dirty' PROVE number'[t] <= Count(t)'
    BY <1>t, <1>b, <1>g, <1>k, CountTypes
  <2>2. ASSUME InHandler', NEW t \in TimedType PROVE counts'[t] <= Count(t)'
    BY <1>t, <1>g, <1>k, <2>2, CountTypes
  <2> QED
    BY <1>1, <1>l, <2>1, <2>2 DEF Bounded
<1>2. CASE StartHandler
  <2>1. ~Clear
    BY <1>2 DEF StartHandler, Clear, At
  <2>2. dirty = {} /\ dirty' = {} /\ counts' = number /\ number' = number
    BY <1>2, <1>b, HandlerChanges DEF StartHandler
  <2>3. ASSUME NEW t \in TimedType PROVE number[t] <= Count(t)'
    BY <1>t, <1>b, <1>g, <2>1, <2>2, CountTypes
  <2> QED
    BY <1>1, <1>l, <2>2, <2>3 DEF Bounded
<1>3. CASE VisitSlot \/ Tick
  <2>1. ~Clear /\ ~StartHandler /\ ~WriteBack
    BY <1>3 DEF VisitSlot, Tick, Clear, StartHandler, WriteBack, At
  <2>2. InHandler /\ dirty' = dirty /\ number' = number /\ counts' = counts
    BY <1>3, <2>1, HandlerChanges
  <2> QED
    BY <1>b, <1>k, <2>1, <2>2
<1>4. CASE Clear
  <2>0. PICK s, u : s = fault_index[1] /\ u = TypeOf(s)
    OBVIOUS
  <2>1. InHandler /\ number' = number
    BY <1>4, HandlerChanges DEF Clear, StartHandler, WriteBack, At
  <2>2. dirty' = dirty \cup {u} /\ counts' = [counts EXCEPT ![u] = Dec(@)]
    BY <1>4, <2>0 DEF Clear
  <2>3. \A t : Counting(t)' = Counting(t) \ {s}
    BY <1>4, <2>0, HandlerCounting
  <2>4. ASSUME NEW t, t # u PROVE Counting(t)' = Counting(t)
    <3>1. s \notin Counting(t)
      BY <2>0, <2>4, InCounting
    <3>2. Counting(t)' = Counting(t) \ {s}
      BY <2>3
    <3> QED
      BY <3>1, <3>2
  <2>5. ASSUME NEW t, t # u PROVE Count(t)' = Count(t)
    BY <2>4, <2>5 DEF Count
  <2>6. Count(u)' = IF s \in Counting(u) THEN Count(u) - 1 ELSE Count(u)
    BY <2>3, CountDrops
  <2>7. ASSUME NEW t \in TimedType \ dirty' PROVE number'[t] <= Count(t)'
    BY <1>b, <2>1, <2>2, <2>5, <2>7
  <2>8. ASSUME NEW t \in TimedType PROVE counts'[t] <= Count(t)'
    <3>1. counts[t] <= Count(t) /\ counts[t] \in Nat /\ Count(t) \in Nat /\ Count(t)' \in Nat
      BY <1>t, <1>b, <2>1, CountTypes
    <3>2. CASE t = u
      <4>1. counts'[t] = Dec(counts[t])
        BY <1>t, <2>2, <3>2
      <4>2. Count(t)' = Count(t) \/ Count(t)' = Count(t) - 1
        BY <2>6, <3>2
      <4> QED
        BY <3>1, <4>1, <4>2 DEF Dec
    <3>3. CASE t # u
      <4>1. counts'[t] = counts[t]
        BY <1>t, <2>2, <3>3
      <4> QED
        BY <2>5, <3>1, <3>3, <4>1
    <3> QED
      BY <3>2, <3>3
  <2> QED
    BY <1>1, <1>l, <2>7, <2>8 DEF Bounded
<1>5. CASE WriteBack
  <2>1. ~Clear /\ ~StartHandler
    BY <1>5 DEF WriteBack, Clear, StartHandler, At
  <2>2. InHandler /\ counts' = counts
    BY <1>5, <2>1, HandlerChanges
  <2>3. PICK u \in Type : number' = [number EXCEPT ![u] = counts[u]] /\ dirty' = dirty \ {u}
    BY <1>5 DEF WriteBack, Type
  <2>4. ASSUME NEW t \in TimedType \ dirty' PROVE number'[t] <= Count(t)'
    BY <1>t, <1>b, <1>g, <2>1, <2>2, <2>3, CountTypes
  <2>5. ASSUME NEW t \in TimedType PROVE counts'[t] <= Count(t)'
    BY <1>t, <1>b, <1>g, <2>1, <2>2, CountTypes
  <2> QED
    BY <1>1, <1>l, <2>4, <2>5 DEF Bounded
<1>6. CASE EndHandler
  <2>1. ~Clear /\ ~InHandler' /\ dirty' = dirty /\ number' = number
    BY <1>6, HandlerChanges DEF EndHandler, Clear, At
  <2> QED
    BY <1>k, <2>1
<1> QED
  BY <1>2, <1>3, <1>4, <1>5, <1>6 DEF sph_faults_handler

\* No step but those of the table changes what Bounded speaks of.
LEMMA OtherBounded ==
  ASSUME Bounded, UNCHANGED <<fault_counter, number, pc, fault_index, reg, counts, dirty>>
  PROVE  Bounded'
BY DEF Bounded, InHandler, Owned, Unset, Loaded, Count, Counting, Present, Setting,
       is_present, Registered, TypeOf

\* A number of a class with a timeout never exceeds the faults that are present or
\* being set, whichever increments the races lose: the lift is not kept stopped after
\* its faults are gone.
THEOREM NoPhantomSafe ==
  ASSUME TimedByOneLevel
  PROVE  Spec => []NoPhantom
<1>1. Init => Bounded
  BY InitBounded
<1>2. IInv /\ Bounded /\ [Next]_vars => Bounded'
  <2> SUFFICES ASSUME IInv, Bounded, [Next]_vars PROVE Bounded'
    OBVIOUS
  <2>t. TypeOK /\ Handling
    BY DEF IInv
  <2>1. CASE \E c \in Level : sph_faults_setfault(c)
    BY <2>1, <2>t, SetFaultBounded
  <2>2. CASE sph_faults_handler
    BY <2>2, <2>t, HandlerBounded
  <2>3. CASE EraseHistory \/ UNCHANGED vars
    BY <2>3, OtherBounded DEF EraseHistory, vars
  <2> QED
    BY <2>1, <2>2, <2>3 DEF Next
<1>3. Bounded => NoPhantom
  BY DEF Bounded, InHandler, NoPhantom, Count, Counting
<1> QED
  BY <1>1, <1>2, <1>3, Inductive, PTL DEF Spec


-----------------------------------------------------------------------------
\* Only the main loop sets positioning faults that found a slot: fault_dis_dev_idx,
\* which the speed loop sets, is the one that found none.
PosType == {"POS_FAULT", "T_POS_FAULT"}

PosByMainLoop ==
  \A c \in Level \ {1} : \A r \in MaySet[c] :
    IndexOf(r) \in Slot => Registrations[r].type \notin PosType

\* What PoseCheckExact needs to be inductive: the slot that the handler times out
\* is present, and the numbers of positioning faults, in memory or in registers,
\* are exact.
HandledPresent == pc[1] \in {"tick", "clear"} => is_present(fault_index[1])

Foreign(c) ==
  pc[c] \in {"load", "store", "record", "set"} => TypeOf(fault_index[c]) \notin PosType

LoadedExactly ==
  pc[1] = "store" /\ TypeOf(fault_index[1]) \in PosType =>
    reg[1] = Count(TypeOf(fault_index[1]))

UnsetPos ==
  pc[1] \in {"load", "store"} /\ TypeOf(fault_index[1]) \in PosType =>
    ~is_present(fault_index[1])

Exact ==
  /\ \A s \in Slot : fault_counter[s] = 0 \/ is_present(s)
  /\ HandledPresent
  /\ dirty # {} => InHandler
  /\ \A t \in PosType \ dirty : number[t] = Count(t)
  /\ InHandler => \A t \in PosType : counts[t] = Count(t)
  /\ LoadedExactly
  /\ UnsetPos
  /\ \A c \in Level \ {1} : Foreign(c)

\* The initial state is exact: nothing is present.
LEMMA InitExact == Init => Exact
<1> SUFFICES ASSUME Init PROVE Exact
  OBVIOUS
<1>1. \A s \in Slot : fault_counter[s] = 0 /\ ~is_present(s)
  BY CounterTypes DEF Init, is_present
<1>2. \A c \in Level : pc[c] = "idle"
  BY DEF Init
<1>3. \A t : Counting(t) = {}
  BY <1>1, <1>2, InCounting
<1>4. \A t \in PosType : number[t] = Count(t)
  BY <1>3, FS_EmptySet DEF Count, Init, PosType, Type
<1> QED
  BY <1>1, <1>2, <1>4, IndexTypes
     DEF Exact, InHandler, HandledPresent, LoadedExactly, UnsetPos, Foreign, Init

\* SetCounter, the only step of sph_faults_setfault that changes a counter, sets it.
LEMMA SetFaultCounters ==
  ASSUME TypeOK, Handling, NEW c \in Level, sph_faults_setfault(c)
  PROVE  \A s \in Slot : \/ fault_counter'[s] = fault_counter[s]
                         \/ SetCounter(c) /\ s = fault_index[c] /\ IsSet(fault_counter'[s])
<1>1. CASE SetCounter(c)
  <2>1. Registered(fault_index[c]) /\ fault_index[c] \in Slot
    BY <1>1 DEF SetCounter, At, Handled, Handling, TypeOK
  <2>2. IsSet(WithSetBit(Timeout(fault_index[c])))
    BY <2>1, TableTypes, CounterSet, ConstantTypes DEF uint32_t
  <2> QED
    BY <1>1, <2>1, <2>2 DEF SetCounter, TypeOK
<1>2. CASE ~SetCounter(c)
  BY <1>2, SetFaultChanges
<1> QED
  BY <1>1, <1>2

\* A step of sph_faults_setfault keeps the numbers of positioning faults exact: an
\* interrupt changes neither these numbers nor the slots they count.
LEMMA SetFaultExact ==
  ASSUME TypeOK, Handling, PosByMainLoop, Exact, NEW c \in Level, sph_faults_setfault(c)
  PROVE  Exact'
<1>t. /\ pc \in [Level -> Step] /\ fault_index \in [Level -> Slot] /\ 1 \in Level
      /\ reg \in [Level -> Nat] /\ number \in [Type -> Nat] /\ counts \in [Type -> Nat]
      /\ PosType \subseteq Type
  BY IndexTypes DEF TypeOK, PosType, Type
<1>b. /\ \A s \in Slot : fault_counter[s] = 0 \/ is_present(s)
      /\ HandledPresent /\ LoadedExactly /\ UnsetPos
      /\ dirty # {} => InHandler
      /\ \A t \in PosType \ dirty : number[t] = Count(t)
      /\ InHandler => \A t \in PosType : counts[t] = Count(t)
      /\ \A d \in Level \ {1} : Foreign(d)
  BY DEF Exact
<1>i. /\ InHandler' <=> InHandler
      /\ c = 1 => ~InHandler /\ dirty = {}
  BY <1>b, <1>t, SetFaultChanges DEF InHandler
<1>o. ASSUME ~(c = 1 /\ StoreNumber(1)), NEW t \in PosType
      PROVE  Count(t)' = Count(t) /\ number'[t] = number[t]
  <2>1. CASE StoreNumber(c)
    <3>1. pc[c] = "store" /\ number' = [number EXCEPT ![TypeOf(fault_index[c])] = reg[c] + 1]
      BY <2>1 DEF StoreNumber, At
    <3>2. TypeOf(fault_index[c]) # t
      BY <1>b, <1>o, <2>1, <3>1 DEF Foreign
    <3>3. Counting(t)' = Counting(t)
      BY <3>2, SetFaultCounting
    <3> QED
      BY <1>t, <3>1, <3>2, <3>3 DEF Count
  <2>2. CASE ~StoreNumber(c)
    <3>1. Counting(t)' = Counting(t)
      BY <2>2, SetFaultCounting
    <3> QED
      BY <2>2, <3>1, SetFaultChanges DEF Count
  <2> QED
    BY <2>1, <2>2
<1>1. \A s \in Slot : fault_counter'[s] = 0 \/ is_present(s)'
  BY <1>b, SetFaultCounters DEF is_present
<1>2. HandledPresent'
  <2> SUFFICES ASSUME pc'[1] \in {"tick", "clear"} PROVE IsSet(fault_counter'[fault_index'[1]])
    BY DEF HandledPresent, is_present
  <2>1. c # 1
    BY SetFaultChanges
  <2>2. pc[1] \in {"tick", "clear"} /\ fault_index'[1] = fault_index[1]
    BY <1>t, <2>1, SetFaultChanges
  <2> QED
    BY <1>t, <1>b, <2>2, SetFaultCounters DEF HandledPresent, is_present
<1>3. dirty' # {} => InHandler'
  BY <1>b, <1>i, SetFaultChanges
<1>4. ASSUME NEW t \in PosType \ dirty PROVE number'[t] = Count(t)'
  <2>1. CASE c = 1 /\ StoreNumber(1)
    <3>0. pc[1] = "store"
      BY <2>1 DEF StoreNumber, At
    <3>1. PICK s, u : s \in Slot /\ s = fault_index[1] /\ u = TypeOf(s)
      BY <1>t
    <3>2. number' = [number EXCEPT ![u] = reg[1] + 1]
      BY <2>1, <3>1 DEF StoreNumber
    <3>3. CASE u = t
      <4>1. reg[1] = Count(t) /\ ~is_present(s)
        BY <1>b, <3>0, <3>1, <3>3 DEF LoadedExactly, UnsetPos
      <4>2. ASSUME NEW d \in Level, pc[d] \in {"record", "set"} PROVE fault_index[d] # s
        <5>1. d # 1
          BY <3>0, <4>2
        <5>2. Foreign(d)
          BY <1>b, <5>1
        <5>3. TypeOf(fault_index[d]) # t
          BY <4>2, <5>2 DEF Foreign
        <5> QED
          BY <3>1, <3>3, <5>3
      <4>3. s \notin Counting(t)
        BY <4>1, <4>2, InCounting
      <4>4. Counting(t)' = Counting(t) \cup {s}
        BY <2>1, <3>1, <3>3, SetFaultCounting
      <4>5. Count(t)' = Count(t) + 1
        BY <4>3, <4>4, CountAdds
      <4> QED
        BY <1>t, <3>2, <3>3, <4>1, <4>5
    <3>4. CASE u # t
      <4>1. Counting(t)' = Counting(t)
        BY <2>1, <3>1, <3>4, SetFaultCounting
      <4> QED
        BY <1>t, <1>b, <3>2, <3>4, <4>1 DEF Count
    <3> QED
      BY <3>3, <3>4
  <2>2. CASE ~(c = 1 /\ StoreNumber(1))
    BY <1>b, <1>o, <2>2
  <2> QED
    BY <2>1, <2>2
<1>5. ASSUME InHandler', NEW t \in PosType PROVE counts'[t] = Count(t)'
  <2>1. c # 1 /\ InHandler /\ counts' = counts
    BY <1>i, <1>5, SetFaultChanges
  <2> QED
    BY <1>b, <1>o, <2>1
<1>6. LoadedExactly'
  <2> SUFFICES ASSUME NEW t \in PosType, pc'[1] = "store", TypeOf(fault_index'[1]) = t
               PROVE  reg'[1] = Count(t)'
    BY DEF LoadedExactly, TypeOf, Count, Counting, Present, Setting, is_present, Registered
  <2>1. CASE c # 1
    <3>1. pc[1] = "store" /\ TypeOf(fault_index[1]) = t /\ reg'[1] = reg[1]
      BY <1>t, <2>1, SetFaultChanges
    <3> QED
      BY <1>b, <1>o, <2>1, <3>1 DEF LoadedExactly
  <2>2. CASE c = 1
    <3>1. pc[1] = "load" /\ TypeOf(fault_index[1]) = t /\ reg'[1] = number[t]
      BY <2>2, SetFaultChanges
    <3>2. ~StoreNumber(1) /\ dirty = {}
      BY <1>i, <2>2, <3>1 DEF StoreNumber, At
    <3> QED
      BY <1>b, <1>o, <3>1, <3>2
  <2> QED
    BY <2>1, <2>2
<1>7. UnsetPos'
  <2> SUFFICES ASSUME pc'[1] \in {"load", "store"}, TypeOf(fault_index'[1]) \in PosType
               PROVE  ~IsSet(fault_counter'[fault_index'[1]])
    BY DEF UnsetPos, is_present, TypeOf
  <2>1. CASE c # 1
    <3>1. pc[1] \in {"load", "store"} /\ fault_index'[1] = fault_index[1]
      BY <1>t, <2>1, SetFaultChanges
    <3>2. SetCounter(c) => fault_index[c] # fault_index[1]
      BY <1>b, <2>1, <3>1 DEF SetCounter, At, Foreign
    <3>3. ~is_present(fault_index[1]) /\ fault_index[1] \in Slot
      BY <1>t, <1>b, <3>1 DEF UnsetPos
    <3>4. fault_counter'[fault_index[1]] = fault_counter[fault_index[1]]
      BY <3>2, <3>3, SetFaultCounters
    <3> QED
      BY <3>1, <3>3, <3>4 DEF is_present
  <2>2. CASE c = 1
    <3>1. fault_counter' = fault_counter
      BY <1>t, <2>2, SetFaultChanges DEF SetCounter, Goto
    <3>2. CASE pc[1] = "idle"
      <4>1. PICK r \in MaySet[1] : /\ fault_index'[1] = IndexOf(r)
                                   /\ pc'[1] = "load" => ~is_present(IndexOf(r))
        BY <2>2, <3>2, SetFaultChanges
      <4>2. pc'[1] = "load"
        BY <2>2, <3>2, SetFaultChanges
      <4> QED
        BY <3>1, <4>1, <4>2 DEF is_present
    <3>3. CASE pc[1] # "idle"
      <4>1. pc[1] = "load" /\ fault_index'[1] = fault_index[1]
        BY <2>2, <3>3, SetFaultChanges
      <4> QED
        BY <1>b, <3>1, <4>1 DEF UnsetPos, is_present
    <3> QED
      BY <3>2, <3>3
  <2> QED
    BY <2>1, <2>2
<1>8. ASSUME NEW d \in Level \ {1} PROVE Foreign(d)'
  <2>1. CASE d = c /\ pc[c] = "idle" /\ pc'[c] # "idle"
    <3>1. PICK r \in MaySet[c] : fault_index'[c] = IndexOf(r) /\ IndexOf(r) \in Slot
      BY <2>1, SetFaultChanges
    <3>2. r \in Nat /\ IndexOf(r) + 1 = r
      BY <3>1, ConstantTypes DEF IndexOf, Slot, NoSlot
    <3>3. TypeOf(fault_index'[c]) \notin PosType
      BY <1>8, <2>1, <3>1, <3>2 DEF PosByMainLoop, TypeOf
    <3> QED
      BY <2>1, <3>3 DEF Foreign, TypeOf
  <2>2. CASE d = c /\ ~(pc[c] = "idle" /\ pc'[c] # "idle")
    BY <1>b, <2>2, SetFaultChanges DEF Foreign, TypeOf
  <2>3. CASE d # c
    BY <1>b, <2>3, SetFaultChanges DEF Foreign, TypeOf
  <2> QED
    BY <2>1, <2>2, <2>3
<1>9. dirty' = dirty
  BY SetFaultChanges
<1> QED
  BY <1>1, <1>2, <1>3, <1>4, <1>5, <1>6, <1>7, <1>8, <1>9 DEF Exact


\* A step of sph_faults_handler keeps the numbers of positioning faults exact: the
\* slot it clears is present, so that it is counted.
LEMMA HandlerExact ==
  ASSUME TypeOK, Handling, Exact, sph_faults_handler
  PROVE  Exact'
<1>t. /\ pc \in [Level -> Step] /\ fault_index \in [Level -> Slot] /\ 1 \in Level
      /\ fault_counter \in [Slot -> uint32_t]
      /\ number \in [Type -> Nat] /\ counts \in [Type -> Nat] /\ PosType \subseteq Type
  BY IndexTypes DEF TypeOK, PosType, Type
<1>b. /\ \A s \in Slot : fault_counter[s] = 0 \/ is_present(s)
      /\ HandledPresent
      /\ dirty # {} => InHandler
      /\ \A t \in PosType \ dirty : number[t] = Count(t)
      /\ InHandler => \A t \in PosType : counts[t] = Count(t)
  BY DEF Exact
<1>l. LoadedExactly' /\ UnsetPos' /\ \A d \in Level \ {1} : Foreign(d)'
  BY <1>t, HandlerChanges DEF LoadedExactly, UnsetPos, Foreign
<1>p. Tick \/ Clear => is_present(fault_index[1])
  BY <1>b DEF Tick, Clear, At, HandledPresent
<1>g. ASSUME ~Clear, NEW t PROVE Count(t)' = Count(t)
  BY <1>g, <1>p, HandlerCounting DEF Count
<1>1. \A s \in Slot : fault_counter'[s] = 0 \/ is_present(s)'
  <2>1. CASE Tick
    <3>1. IsSet(WithSetBit(Left(reg[1]) - 1))
      BY <1>t, <2>1, CounterTypes, CounterSet DEF Tick, At, Handling, Handled
    <3> QED
      BY <1>b, <1>t, <2>1, <3>1 DEF Tick, is_present
  <2>2. CASE Clear
    BY <1>b, <1>t, <2>2 DEF Clear, is_present
  <2>3. CASE ~Tick /\ ~Clear
    <3>1. fault_counter' = fault_counter
      BY <2>3 DEF sph_faults_handler, StartHandler, VisitSlot, WriteBack, EndHandler
    <3> QED
      BY <1>b, <3>1 DEF is_present
  <2> QED
    BY <2>1, <2>2, <2>3
<1>2. HandledPresent'
  <2> SUFFICES ASSUME pc'[1] \in {"tick", "clear"} PROVE IsSet(fault_counter'[fault_index'[1]])
    BY DEF HandledPresent, is_present
  <2>1. /\ VisitSlot /\ fault_index' = fault_index
        /\ \/ Left(fault_counter[fault_index[1]]) > 0
           \/ fault_counter[fault_index[1]] = SetBit
    <3>1. CASE StartHandler \/ EndHandler \/ WriteBack
      BY <1>t, <3>1 DEF StartHandler, EndHandler, WriteBack, At, Goto
    <3>2. CASE Tick \/ Clear
      BY <3>2, NextSlotType DEF Tick, Clear
    <3>3. CASE VisitSlot
      BY <3>3, NextSlotType DEF VisitSlot
    <3> QED
      BY <3>1, <3>2, <3>3 DEF sph_faults_handler
  <2>2. fault_counter' = fault_counter /\ fault_index[1] \in Slot
    BY <1>t, <2>1 DEF VisitSlot
  <2>3. fault_counter[fault_index[1]] # 0
    BY <2>1, ConstantTypes DEF Left, IsSet
  <2> QED
    BY <1>b, <2>1, <2>2, <2>3 DEF is_present
<1>3. dirty' # {} => InHandler'
  BY <1>b, HandlerChanges
<1>k. ASSUME ~Clear, dirty' = dirty, number' = number,
             InHandler' => \A t \in PosType : counts'[t] = Count(t)
      PROVE  Exact'
  <2>1. ASSUME NEW t \in PosType \ dirty' PROVE number'[t] = Count(t)'
    BY <1>b, <1>g, <1>k
  <2>2. ASSUME InHandler', NEW t \in PosType PROVE counts'[t] = Count(t)'
    BY <1>g, <1>k, <2>2
  <2> QED
    BY <1>1, <1>2, <1>3, <1>l, <2>1, <2>2 DEF Exact
<1>4. CASE StartHandler
  <2>1. ~Clear
    BY <1>4 DEF StartHandler, Clear, At
  <2>2. dirty = {} /\ dirty' = {} /\ counts' = number /\ number' = number
    BY <1>4, <1>b, HandlerChanges DEF StartHandler
  <2> QED
    BY <1>b, <1>k, <2>1, <2>2
<1>5. CASE VisitSlot \/ Tick
  <2>1. ~Clear /\ ~StartHandler /\ ~WriteBack
    BY <1>5 DEF VisitSlot, Tick, Clear, StartHandler, WriteBack, At
  <2>2. InHandler /\ dirty' = dirty /\ number' = number /\ counts' = counts
    BY <1>5, <2>1, HandlerChanges
  <2> QED
    BY <1>b, <1>k, <2>1, <2>2
<1>6. CASE Clear
  <2>0. PICK s, u : s \in Slot /\ s = fault_index[1] /\ u = TypeOf(s)
    BY <1>t
  <2>1. InHandler /\ number' = number
    BY <1>6, HandlerChanges DEF Clear, StartHandler, WriteBack, At
  <2>2. dirty' = dirty \cup {u} /\ counts' = [counts EXCEPT ![u] = Dec(@)]
    BY <1>6, <2>0 DEF Clear
  <2>3. \A t : Counting(t)' = Counting(t) \ {s}
    BY <1>6, <2>0, HandlerCounting
  <2>4. ASSUME NEW t, t # u PROVE Counting(t)' = Counting(t)
    <3>1. s \notin Counting(t)
      BY <2>0, <2>4, InCounting
    <3>2. Counting(t)' = Counting(t) \ {s}
      BY <2>3
    <3> QED
      BY <3>1, <3>2
  <2>5. ASSUME NEW t, t # u PROVE Count(t)' = Count(t)
    BY <2>4, <2>5 DEF Count
  <2>6. s \in Counting(u)
    <3>1. Registered(s)
      BY <1>6, <1>t, <2>0 DEF Clear, At, Handling, Handled
    <3> QED
      BY <1>6, <1>p, <2>0, <3>1, InCounting
  <2>7. Count(u)' = Count(u) - 1
    BY <2>3, <2>6, CountDrops
  <2>8. ASSUME NEW t \in PosType \ dirty' PROVE number'[t] = Count(t)'
    BY <1>b, <2>1, <2>2, <2>5, <2>8
  <2>9. ASSUME NEW t \in PosType PROVE counts'[t] = Count(t)'
    <3>1. CASE t = u
      <4>1. counts'[t] = Dec(counts[t])
        BY <1>t, <2>2, <3>1
      <4>2. counts[t] = Count(t) /\ Count(t) \in Nat /\ Count(t)' \in Nat
        BY <1>b, <2>1, CountTypes
      <4>3. Count(t)' = Count(t) - 1
        BY <2>7, <3>1
      <4> QED
        BY <4>1, <4>2, <4>3 DEF Dec
    <3>2. CASE t # u
      <4>1. counts'[t] = counts[t]
        BY <1>t, <2>2, <3>2
      <4> QED
        BY <1>b, <2>1, <2>5, <3>2, <4>1
    <3> QED
      BY <3>1, <3>2
  <2> QED
    BY <1>1, <1>2, <1>3, <1>l, <2>8, <2>9 DEF Exact
<1>7. CASE WriteBack
  <2>1. ~Clear /\ ~StartHandler
    BY <1>7 DEF WriteBack, Clear, StartHandler, At
  <2>2. InHandler /\ counts' = counts
    BY <1>7, <2>1, HandlerChanges
  <2>3. PICK u \in Type : number' = [number EXCEPT ![u] = counts[u]] /\ dirty' = dirty \ {u}
    BY <1>7 DEF WriteBack, Type
  <2>4. ASSUME NEW t \in PosType \ dirty' PROVE number'[t] = Count(t)'
    BY <1>t, <1>b, <1>g, <2>1, <2>2, <2>3
  <2>5. ASSUME NEW t \in PosType PROVE counts'[t] = Count(t)'
    BY <1>b, <1>g, <2>1, <2>2
  <2> QED
    BY <1>1, <1>2, <1>3, <1>l, <2>4, <2>5 DEF Exact
<1>8. CASE EndHandler
  <2>1. ~Clear /\ ~InHandler' /\ dirty' = dirty /\ number' = number
    BY <1>8, HandlerChanges DEF EndHandler, Clear, At
  <2> QED
    BY <1>k, <2>1
<1> QED
  BY <1>4, <1>5, <1>6, <1>7, <1>8 DEF sph_faults_handler

\* No step but those of the table changes what Exact speaks of.
LEMMA OtherExact ==
  ASSUME Exact, UNCHANGED <<fault_counter, number, pc, fault_index, reg, counts, dirty>>
  PROVE  Exact'
BY DEF Exact, HandledPresent, InHandler, LoadedExactly, UnsetPos, Foreign, Count, Counting,
       Present, Setting, is_present, Registered, TypeOf

\* Between two calls sph_faults_pose_check tells whether a positioning fault is
\* present, however the interrupts interleave with the handler and its write-back.
THEOREM PoseCheckExactSafe ==
  ASSUME PosByMainLoop
  PROVE  Spec => []PoseCheckExact
<1>1. Init => Exact
  BY InitExact
<1>2. IInv /\ Exact /\ [Next]_vars => Exact'
  <2> SUFFICES ASSUME IInv, Exact, [Next]_vars PROVE Exact'
    OBVIOUS
  <2>t. TypeOK /\ Handling
    BY DEF IInv
  <2>1. CASE \E c \in Level : sph_faults_setfault(c)
    BY <2>1, <2>t, SetFaultExact
  <2>2. CASE sph_faults_handler
    BY <2>2, <2>t, HandlerExact
  <2>3. CASE EraseHistory \/ UNCHANGED vars
    BY <2>3, OtherExact DEF EraseHistory, vars
  <2> QED
    BY <2>1, <2>2, <2>3 DEF Next
<1>3. Exact => PoseCheckExact
  <2> SUFFICES ASSUME Exact, Quiet
               PROVE  pose_check <=> Present("POS_FAULT") \cup Present("T_POS_FAULT") # {}
    BY DEF PoseCheckExact
  <2>1. dirty = {}
    BY IndexTypes DEF Exact, Quiet, InHandler
  <2>2. \A t \in PosType : number[t] = Count(t)
    BY <2>1 DEF Exact
  <2>3. \A t : Counting(t) = Present(t)
    BY DEF Counting, Setting, Quiet
  <2>4. ASSUME NEW t \in PosType PROVE number[t] = 0 <=> Present(t) = {}
    <3>1. number[t] = Cardinality(Present(t)) /\ IsFiniteSet(Present(t))
      BY <2>2, <2>3, CountTypes DEF Count
    <3> QED
      BY <3>1, FS_EmptySet
  <2>5. /\ number["POS_FAULT"] = 0 <=> Present("POS_FAULT") = {}
        /\ number["T_POS_FAULT"] = 0 <=> Present("T_POS_FAULT") = {}
    BY <2>4 DEF PosType
  <2> HIDE DEF Present
  <2> QED
    BY <2>5, Zenon DEF pose_check
<1> QED
  BY <1>1, <1>2, <1>3, Inductive, PTL DEF Spec

=============================================================================
