-------------------------- MODULE SchedulerProofs --------------------------
(***************************************************************************)
(* Safety of Scheduler for every table size, every list of registrations   *)
(* and every word width.                                                   *)
(***************************************************************************)
EXTENDS Scheduler, SequenceTheorems, TLAPS

\* What the slot at t_index has had stored so far.
DelayStored(s) ==
  sTasks[s].handler /\ ~(t_index = s /\ pc = "add_delay")
PeriodStored(s) ==
  sTasks[s].handler /\ ~(t_index = s /\ pc \in {"add_delay", "add_period"})
RunMeStored(s) ==
  sTasks[s].handler /\ ~(t_index = s /\ pc \in {"add_delay", "add_period", "add_run_me"})

\* A slot belongs to a registration exactly while it has a handler, holds that
\* registration's period, and is without overdue until the last store.
OwnerInv ==
  \A s \in Slot :
    /\ sTasks[s].handler <=> owner[s] # 0
    /\ PeriodStored(s) => sTasks[s].period = Registrations[owner[s]].period
    /\ pc \in Registering /\ ~Registered(s) => ~sTasks[s].overdue
    /\ pc \in Registering \ {"add_handler"} => sTasks[t_index].handler /\ owner[t_index] = next_reg

\* run_me never exceeds what is owed; while run_me-- is under way its register
\* holds no more than run_me does.
CountAt(s) ==
  /\ RunMeStored(s) => /\ sTasks[s].run_me <= owed[s] + Started(s)
                       /\ ~sTasks[s].overdue => sTasks[s].run_me <= 1
  /\ Started(s) = 1 /\ sTasks[s].handler => sTasks[s].run_me >= 1
  /\ t_index = s /\ pc = "store" /\ sTasks[s].handler => reg >= 1 /\ reg <= sTasks[s].run_me

CountInv == \A s \in Slot : CountAt(s)

\* A one-off task that has run is the one being finished.
OneShotInv ==
  \A s \in Slot : owner[s] # 0 /\ Registrations[owner[s]].period = 0 =>
    /\ ran[s] <= 1
    /\ ran[s] = 1 => t_index = s /\ pc \in {"running", "load", "store", "finish"}

\* Until its delay has passed, a slot's delay counter holds what remains of it
\* and nothing is pending.
DelayAt(s) ==
  /\ DelayStored(s) => age[s] <= TicksAsked(s)
  /\ DelayStored(s) /\ age[s] < TicksAsked(s) =>
       sTasks[s].delay = Registrations[owner[s]].delay - age[s]
  /\ RunMeStored(s) /\ age[s] < TicksAsked(s) => sTasks[s].run_me = 0

DelayInv == \A s \in Slot : DelayAt(s)

IInv == TypeOK /\ OwnerInv /\ CountInv /\ OneShotInv /\ DelayInv
-----------------------------------------------------------------------------
\* What the assumptions say of the constants.
LEMMA ConstantTypes ==
  /\ SCH_TASK_MAX \in Nat \ {0}
  /\ WORD \in Nat
  /\ MaxBacklog \in Nat \ {0}
  /\ MaxBacklog < WORD
  /\ Len(Registrations) \in Nat
<1>1. Registrations \in Seq(Registration)
  BY SchedulerAssumption, Zenon DEF SchedulerAssumption
<1> QED
  BY <1>1, SchedulerAssumption, LenProperties DEF SchedulerAssumption

\* Every registration of main has a handler, a delay, a period and a mode.
LEMMA RegistrationType ==
  ASSUME NEW i \in 1 .. Len(Registrations)
  PROVE  Registrations[i] \in Registration
BY SchedulerAssumption, ElementOfSeq DEF SchedulerAssumption

\* uint_t arithmetic stays in uint_t.
LEMMA WordTypes ==
  /\ 0 \in uint_t /\ 1 \in uint_t
  /\ \A x \in uint_t : Inc(x) \in uint_t /\ Dec(x) \in uint_t /\ (x # 0 => x - 1 \in uint_t)
BY ConstantTypes DEF uint_t, Inc, Dec

\* The dispatcher's index stays in the table.
LEMMA SlotTypes ==
  /\ 0 \in Slot
  /\ t_index \in Slot => NextSlot \in Slot
BY ConstantTypes DEF Slot, NextSlot

\* A free slot, and what sch_delete_task leaves of a task, are slots.
LEMMA EmptyType == Empty \in task_t /\ \A task \in task_t : Deleted(task) \in task_t
<1>1. \A task \in task_t : task.overdue \in BOOLEAN
  BY DEF task_t
<1> QED
  BY <1>1, WordTypes DEF Deleted, Empty, task_t

\* What sch_delete_task clears.
LEMMA DeletedFields ==
  ASSUME NEW task
  PROVE  /\ Deleted(task).handler = FALSE
         /\ Deleted(task).period = 0
         /\ Deleted(task).run_me = 0
BY DEF Deleted, Empty

\* One tick on one slot keeps its type.
LEMMA UpdatedType ==
  ASSUME NEW task \in task_t
  PROVE  Updated(task) \in task_t
<1>1. CASE ~task.handler
  BY <1>1 DEF Updated
<1>2. CASE task.handler /\ task.delay # 0
  <2>1. task.delay - 1 \in uint_t
    BY <1>2, WordTypes DEF task_t
  <2> QED
    BY <1>2, <2>1 DEF Updated, task_t
<1>3. CASE task.handler /\ task.delay = 0
  <2> DEFINE r == IF ~task.overdue /\ Inc(task.run_me) > 1 THEN 1 ELSE Inc(task.run_me)
             d == IF task.period # 0 THEN task.period - 1 ELSE task.delay
  <2>1. r \in uint_t /\ d \in uint_t
    BY WordTypes DEF task_t
  <2>2. Updated(task) = [task EXCEPT !.run_me = r, !.delay = d]
    BY <1>3 DEF Updated
  <2> HIDE DEF r, d
  <2> QED
    BY <2>1, <2>2 DEF task_t
<1> QED
  BY <1>1, <1>2, <1>3 DEF task_t

\* What one tick leaves alone.
LEMMA UpdatedFields ==
  ASSUME NEW task \in task_t
  PROVE  /\ Updated(task).handler = task.handler
         /\ Updated(task).period = task.period
         /\ Updated(task).overdue = task.overdue
BY DEF Updated, task_t

\* The ticks asked for before a slot's first run are a count the age can reach.
LEMMA AgeType ==
  ASSUME TypeOK, NEW s \in Slot
  PROVE  TicksAsked(s) \in 0 .. WORD
<1>1. CASE owner[s] = 0
  BY <1>1, ConstantTypes DEF TicksAsked
<1>2. CASE owner[s] # 0
  <2>1. owner[s] \in 1 .. Len(Registrations)
    BY <1>2, ConstantTypes DEF TypeOK
  <2>2. Registrations[owner[s]].delay \in uint_t
    BY <2>1, RegistrationType DEF Registration
  <2> QED
    BY <1>2, <2>2, ConstantTypes DEF TicksAsked, uint_t
<1> QED
  BY <1>1, <1>2

\* A counter that stops at a target stays within the target's bound.
LEMMA CountUpTo ==
  ASSUME NEW n \in Nat, NEW a \in 0 .. n, NEW target \in 0 .. n
  PROVE  (IF a < target THEN a + 1 ELSE a) \in 0 .. n
OBVIOUS

\* The registration after one that is not the last exists.
LEMMA NextRegistration ==
  ASSUME NEW l \in Nat, NEW n \in 1 .. l
  PROVE  n + 1 \in 1 .. l + 1 /\ (n # l => n + 1 <= l)
OBVIOUS

\* The scheduler starts well typed.
LEMMA TypeCorrectInit == Init => TypeOK
<1> SUFFICES ASSUME Init PROVE TypeOK
  OBVIOUS
<1>1. 1 \in 1 .. Len(Registrations) + 1 /\ (Registrations # <<>> => 1 <= Len(Registrations))
  BY ConstantTypes, SchedulerAssumption, EmptySeq DEF SchedulerAssumption
<1>2. 0 \in 0 .. Len(Registrations) /\ 0 \in 0 .. MaxBacklog /\ 0 \in 0 .. WORD
  BY ConstantTypes
<1> QED
  BY <1>1, <1>2, EmptyType, WordTypes, SlotTypes DEF Init, TypeOK, Registering, Dispatching

\* Every step of the dispatcher, the timer and main keeps the types.
LEMMA TypeCorrectStep == TypeOK /\ [Next]_vars => TypeOK'
<1> SUFFICES ASSUME TypeOK, [Next]_vars PROVE TypeOK'
  OBVIOUS
<1> USE ConstantTypes, WordTypes, SlotTypes DEF TypeOK, Registering, Dispatching, history
<1>0. /\ sTasks[t_index] \in task_t
      /\ pc \in Registering => next_reg \in 1 .. Len(Registrations)
      /\ pc \in Registering => Registrations[next_reg] \in Registration
  BY RegistrationType
<1>1. CASE AddHandler
  <2>1. PICK s \in Slot : sTasks' = [sTasks EXCEPT ![s].handler = TRUE] /\ t_index' = s
          /\ owner' = [owner EXCEPT ![s] = next_reg] /\ owed' = [owed EXCEPT ![s] = 0]
          /\ ran' = [ran EXCEPT ![s] = 0]
    BY <1>1 DEF AddHandler
  <2>2. [sTasks[s] EXCEPT !.handler = TRUE] \in task_t
    BY DEF task_t
  <2>3. sTasks' \in [Slot -> task_t]
    BY <2>1, <2>2
  <2>4. pc = "add_handler" /\ pc' = "add_delay" /\ UNCHANGED <<next_reg, reg, ticked, age>>
    BY <1>1 DEF AddHandler
  <2>5. owner' \in [Slot -> 0 .. Len(Registrations)]
    <3>1. next_reg \in 0 .. Len(Registrations)
      BY <1>0, <2>4
    <3>2. owner \in [Slot -> 0 .. Len(Registrations)]
      OBVIOUS
    <3> HIDE DEF TypeOK
    <3> QED
      BY <2>1, <3>1, <3>2
  <2>6. owed' \in [Slot -> 0 .. MaxBacklog] /\ ran' \in [Slot -> 0 .. 2]
    <3>1. owed \in [Slot -> 0 .. MaxBacklog] /\ ran \in [Slot -> 0 .. 2]
      OBVIOUS
    <3>2. 0 \in 0 .. MaxBacklog /\ 0 \in 0 .. 2
      OBVIOUS
    <3> HIDE DEF TypeOK
    <3> QED
      BY <2>1, <3>1, <3>2
  <2> QED
    BY <1>0, <2>1, <2>3, <2>4, <2>5, <2>6
<1>2. CASE AddDelay
  <2>1. [sTasks[t_index] EXCEPT !.delay = Registrations[next_reg].delay] \in task_t
    BY <1>0, <1>2 DEF AddDelay, task_t, Registration
  <2> QED
    BY <1>2, <2>1 DEF AddDelay
<1>3. CASE AddPeriod
  <2>1. [sTasks[t_index] EXCEPT !.period = Registrations[next_reg].period] \in task_t
    BY <1>0, <1>3 DEF AddPeriod, task_t, Registration
  <2> QED
    BY <1>3, <2>1 DEF AddPeriod
<1>4. CASE AddRunMe
  <2>1. [sTasks[t_index] EXCEPT !.run_me = 0] \in task_t
    BY <1>0 DEF task_t
  <2>2. sTasks' = [sTasks EXCEPT ![t_index].run_me = 0]
        /\ owed' = [owed EXCEPT ![t_index] = 0]
        /\ pc = "add_run_me" /\ pc' = "add_overdue"
        /\ UNCHANGED <<t_index, next_reg, reg, ticked, owner, ran, age>>
    BY <1>4 DEF AddRunMe
  <2>3. sTasks' \in [Slot -> task_t]
    BY <2>1, <2>2
  <2>4. owed' \in [Slot -> 0 .. MaxBacklog]
    <3>1. owed \in [Slot -> 0 .. MaxBacklog] /\ 0 \in 0 .. MaxBacklog
      OBVIOUS
    <3> HIDE DEF TypeOK
    <3> QED
      BY <2>2, <3>1
  <2> QED
    BY <2>2, <2>3, <2>4
<1>5. CASE AddOverdue
  <2>1. [sTasks[t_index] EXCEPT !.overdue = Registrations[next_reg].overdue] \in task_t
    BY <1>0, <1>5 DEF AddOverdue, task_t, Registration
  <2>2. next_reg + 1 \in 1 .. Len(Registrations) + 1
        /\ (next_reg # Len(Registrations) => next_reg + 1 <= Len(Registrations))
    <3>1. next_reg \in 1 .. Len(Registrations)
      BY <1>0, <1>5 DEF AddOverdue
    <3>2. Len(Registrations) \in Nat
      BY ConstantTypes
    <3> HIDE DEF TypeOK
    <3> QED
      BY <3>1, <3>2, NextRegistration, Zenon
  <2> QED
    BY <1>5, <2>1, <2>2 DEF AddOverdue
<1>6. CASE Skip
  BY <1>6 DEF Skip
<1>7. CASE Call
  <2>0. owed[t_index] \in 0 .. MaxBacklog /\ ran[t_index] \in 0 .. 2
    OBVIOUS
  <2>1. (IF owed[t_index] = 0 THEN 0 ELSE owed[t_index] - 1) \in 0 .. MaxBacklog
    <3> HIDE DEF TypeOK, history
    <3> QED
      BY <2>0, ConstantTypes
  <2>2. (IF ran[t_index] = 2 THEN 2 ELSE ran[t_index] + 1) \in 0 .. 2
    <3> HIDE DEF TypeOK, history
    <3> QED
      BY <2>0
  <2> QED
    BY <1>7, <2>1, <2>2 DEF Call
<1>8. CASE Return
  <2>1. Deleted(sTasks[t_index]) \in task_t
    BY <1>0, EmptyType
  <2>2. sTasks' = sTasks \/ sTasks' = [sTasks EXCEPT ![t_index] = Deleted(@)]
    BY <1>8 DEF Return
  <2>3. owner' = owner \/ owner' = [owner EXCEPT ![t_index] = 0]
    BY <1>8 DEF Return
  <2>4. owed' = owed \/ owed' = [owed EXCEPT ![t_index] = 0]
    BY <1>8 DEF Return
  <2>5. sTasks' \in [Slot -> task_t]
    BY <2>1, <2>2
  <2>6. owner' \in [Slot -> 0 .. Len(Registrations)] /\ owed' \in [Slot -> 0 .. MaxBacklog]
    <3>1. 0 \in 0 .. Len(Registrations) /\ 0 \in 0 .. MaxBacklog
      OBVIOUS
    <3>2. owner \in [Slot -> 0 .. Len(Registrations)] /\ owed \in [Slot -> 0 .. MaxBacklog]
      OBVIOUS
    <3> HIDE DEF TypeOK
    <3> QED
      BY <2>3, <2>4, <3>1, <3>2
  <2> QED
    BY <1>8, <2>5, <2>6 DEF Return
<1>9. CASE Load
  <2>1. sTasks[t_index].run_me \in uint_t
    BY <1>0 DEF task_t
  <2> QED
    BY <1>9, <2>1 DEF Load
<1>10. CASE Store
  <2>1. [sTasks[t_index] EXCEPT !.run_me = Dec(reg)] \in task_t
    BY <1>0 DEF task_t
  <2> QED
    BY <1>10, <2>1 DEF Store
<1>11. CASE Finish
  <2>1. Deleted(sTasks[t_index]) \in task_t
    BY <1>0, EmptyType
  <2>2. sTasks' = sTasks \/ sTasks' = [sTasks EXCEPT ![t_index] = Deleted(@)]
    BY <1>11 DEF Finish
  <2>3. owner' = owner \/ owner' = [owner EXCEPT ![t_index] = 0]
    BY <1>11 DEF Finish
  <2>4. owed' = owed \/ owed' = [owed EXCEPT ![t_index] = 0]
    BY <1>11 DEF Finish
  <2>5. sTasks' \in [Slot -> task_t]
    BY <2>1, <2>2
  <2>6. owner' \in [Slot -> 0 .. Len(Registrations)] /\ owed' \in [Slot -> 0 .. MaxBacklog]
    <3>1. 0 \in 0 .. Len(Registrations) /\ 0 \in 0 .. MaxBacklog
      OBVIOUS
    <3>2. owner \in [Slot -> 0 .. Len(Registrations)] /\ owed \in [Slot -> 0 .. MaxBacklog]
      OBVIOUS
    <3> HIDE DEF TypeOK
    <3> QED
      BY <2>3, <2>4, <3>1, <3>2
  <2> QED
    BY <1>11, <2>5, <2>6 DEF Finish
<1>12. CASE sch_update
  <2>1. sTasks' \in [Slot -> task_t]
    BY <1>12, UpdatedType DEF sch_update
  <2>2. owed' \in [Slot -> 0 .. MaxBacklog]
    <3>1. \A s \in Slot : owed[s] \in 0 .. MaxBacklog
      OBVIOUS
    <3>2. \A s \in Slot : (IF Due(sTasks[s]) /\ owed[s] < MaxBacklog
                           THEN owed[s] + 1 ELSE owed[s]) \in 0 .. MaxBacklog
      <4> HIDE DEF TypeOK, history
      <4> QED
        BY <3>1, ConstantTypes
    <3> HIDE DEF TypeOK
    <3> QED
      BY <1>12, <3>2 DEF sch_update
  <2>3. age' \in [Slot -> 0 .. WORD]
    <3>1. \A s \in Slot : age[s] \in 0 .. WORD /\ TicksAsked(s) \in 0 .. WORD
      BY AgeType
    <3> DEFINE Older(s) == IF age[s] < TicksAsked(s) THEN age[s] + 1 ELSE age[s]
    <3>2. \A s \in Slot : Older(s) \in 0 .. WORD
      BY <3>1, CountUpTo, ConstantTypes, Zenon
    <3>3. age' = [s \in Slot |-> Older(s)]
      BY <1>12 DEF sch_update
    <3> HIDE DEF Older
    <3> QED
      BY <3>2, <3>3
  <2> QED
    BY <1>12, <2>1, <2>2, <2>3 DEF sch_update
<1>13. CASE UNCHANGED vars
  BY <1>13 DEF vars
<1> QED
  BY <1>1, <1>2, <1>3, <1>4, <1>5, <1>6, <1>7, <1>8, <1>9, <1>10, <1>11, <1>12, <1>13
  DEF Next, Main, sch_add_task, sch_dispatch_tasks

\* The table, the program counter and the history variables keep their types,
\* whatever is registered and wherever the interrupt falls.
THEOREM TypeCorrect == Spec => []TypeOK
BY TypeCorrectInit, TypeCorrectStep, PTL DEF Spec
-----------------------------------------------------------------------------
\* Every step keeps the slots and their registrations together.
LEMMA OwnerStep ==
  ASSUME TypeOK, OwnerInv, [Next]_vars
  PROVE  OwnerInv'
<1> USE ConstantTypes DEF OwnerInv, PeriodStored, Registered, Registering, history
<1>0. \A s \in Slot : sTasks[s] \in task_t
  BY DEF TypeOK
<1>00. t_index \in Slot /\ pc \in Registering \cup Dispatching
  BY DEF TypeOK
<1>1. CASE AddHandler
  <2>1. PICK s \in Slot : FirstFree(s) /\ sTasks' = [sTasks EXCEPT ![s].handler = TRUE]
          /\ t_index' = s /\ owner' = [owner EXCEPT ![s] = next_reg]
    BY <1>1 DEF AddHandler
  <2>2. next_reg # 0
    BY DEF TypeOK
  <2>3. owner'[s] = next_reg /\ sTasks'[s].handler /\ sTasks'[s].overdue = sTasks[s].overdue
    BY <1>0, <2>1 DEF TypeOK, task_t
  <2>4. \A r \in Slot \ {s} : owner'[r] = owner[r] /\ sTasks'[r] = sTasks[r]
    BY <2>1 DEF TypeOK
  <2>5. pc = "add_handler" /\ pc' = "add_delay" /\ next_reg' = next_reg
    BY <1>1 DEF AddHandler
  <2> QED
    BY <2>1, <2>2, <2>3, <2>4, <2>5 DEF FirstFree
<1>2. CASE AddDelay
  BY <1>0, <1>00, <1>2 DEF AddDelay, TypeOK, task_t
<1>3. CASE AddPeriod
  BY <1>0, <1>00, <1>3 DEF AddPeriod, TypeOK, task_t
<1>4. CASE AddRunMe
  BY <1>0, <1>00, <1>4 DEF AddRunMe, TypeOK, task_t
<1>5. CASE AddOverdue
  <2>1. /\ pc = "add_overdue" /\ pc' \in {"scan", "add_handler"} /\ owner' = owner
        /\ sTasks' = [sTasks EXCEPT ![t_index].overdue = Registrations[next_reg].overdue]
    BY <1>5 DEF AddOverdue
  <2>2. \A s \in Slot : /\ sTasks'[s].handler = sTasks[s].handler
                        /\ sTasks'[s].period = sTasks[s].period
                        /\ s # t_index => sTasks'[s] = sTasks[s]
    BY <1>0, <1>00, <2>1 DEF TypeOK, task_t
  <2> QED
    BY <1>00, <2>1, <2>2
<1>6. CASE Skip
  BY <1>0, <1>00, <1>6 DEF Skip, TypeOK, task_t
<1>7. CASE Call
  BY <1>0, <1>00, <1>7 DEF Call, TypeOK, task_t
<1>8. CASE Return
  <2>1. pc = "running" /\ pc' = "load" /\ UNCHANGED <<t_index, next_reg>>
    BY <1>8 DEF Return
  <2>2. CASE UNCHANGED <<sTasks, owner>>
    BY <1>00, <2>1, <2>2
  <2>3. CASE /\ sTasks' = [sTasks EXCEPT ![t_index] = Deleted(@)]
             /\ owner' = [owner EXCEPT ![t_index] = 0]
    <3>1. /\ ~sTasks'[t_index].handler /\ owner'[t_index] = 0
          /\ \A s \in Slot \ {t_index} : sTasks'[s] = sTasks[s] /\ owner'[s] = owner[s]
      BY <1>00, <2>3, DeletedFields DEF TypeOK
    <3> QED
      BY <1>00, <2>1, <3>1
  <2> QED
    BY <1>8, <2>2, <2>3 DEF Return
<1>9. CASE Load
  BY <1>0, <1>00, <1>9 DEF Load, TypeOK, task_t
<1>10. CASE Store
  BY <1>0, <1>00, <1>10 DEF Store, TypeOK, task_t
<1>11. CASE Finish
  <2>1. pc = "finish" /\ pc' = "scan"
    BY <1>11 DEF Finish
  <2>2. CASE sTasks[t_index].period = 0
    <3>1. owner'[t_index] = 0 /\ ~sTasks'[t_index].handler
      <4>1. owner'[t_index] = 0 /\ sTasks'[t_index] = Deleted(sTasks[t_index])
        BY <1>00, <1>11, <2>2 DEF Finish, TypeOK
      <4> QED
        BY <4>1, DeletedFields
    <3>2. \A r \in Slot \ {t_index} : owner'[r] = owner[r] /\ sTasks'[r] = sTasks[r]
      BY <1>11, <2>2 DEF Finish, TypeOK
    <3>3. next_reg' = next_reg
      BY <1>11 DEF Finish
    <3> QED
      BY <2>1, <3>1, <3>2, <3>3
  <2>3. CASE sTasks[t_index].period # 0
    BY <1>11, <2>1, <2>3 DEF Finish
  <2> QED
    BY <2>2, <2>3
<1>12. CASE sch_update
  <2>1. /\ \A s \in Slot : sTasks'[s] = Updated(sTasks[s])
        /\ UNCHANGED <<pc, t_index, next_reg, owner>>
    BY <1>12 DEF sch_update
  <2>2. \A s \in Slot : /\ sTasks'[s].handler = sTasks[s].handler
                        /\ sTasks'[s].period = sTasks[s].period
                        /\ sTasks'[s].overdue = sTasks[s].overdue
    BY <1>0, <2>1, UpdatedFields, Zenon
  <2> QED
    BY <1>00, <2>1, <2>2
<1>13. CASE UNCHANGED vars
  BY <1>13 DEF vars
<1> QED
  BY <1>1, <1>2, <1>3, <1>4, <1>5, <1>6, <1>7, <1>8, <1>9, <1>10, <1>11, <1>12, <1>13
  DEF Next, Main, sch_add_task, sch_dispatch_tasks

\* Every step keeps run_me covered by the activations that fell due.
LEMMA CountStep ==
  ASSUME TypeOK, OwnerInv, CountInv, [Next]_vars
  PROVE  CountInv'
<1> USE ConstantTypes DEF CountInv, CountAt, RunMeStored, Started, OwnerInv, Registered, Registering, history
<1>0. \A s \in Slot : sTasks[s] \in task_t
  BY DEF TypeOK
<1>000. \A s \in Slot : /\ sTasks[s].run_me \in Nat
                         /\ owed[s] \in Nat /\ owed[s] <= MaxBacklog
  BY <1>0 DEF TypeOK, task_t, uint_t
<1>00. t_index \in Slot /\ pc \in Registering \cup Dispatching
  BY DEF TypeOK
<1>1. CASE AddHandler
  BY <1>0, <1>00, <1>1 DEF AddHandler, TypeOK, task_t
<1>2. CASE AddDelay
  BY <1>0, <1>00, <1>2 DEF AddDelay, TypeOK, task_t
<1>3. CASE AddPeriod
  BY <1>0, <1>00, <1>3 DEF AddPeriod, TypeOK, task_t
<1>4. CASE AddRunMe
  BY <1>0, <1>00, <1>4 DEF AddRunMe, TypeOK, task_t
<1>5. CASE AddOverdue
  BY <1>0, <1>00, <1>5 DEF AddOverdue, TypeOK, task_t
<1>6. CASE Skip
  BY <1>0, <1>00, <1>6 DEF Skip, TypeOK, task_t
<1>7. CASE Call
  <2>1. /\ pc = "scan" /\ pc' = "running" /\ t_index' = t_index /\ reg' = reg
        /\ sTasks' = sTasks /\ sTasks[t_index].handler /\ sTasks[t_index].run_me # 0
        /\ owed'[t_index] = IF owed[t_index] = 0 THEN 0 ELSE owed[t_index] - 1
        /\ \A s \in Slot \ {t_index} : owed'[s] = owed[s]
    BY <1>00, <1>7 DEF Call, TypeOK
  <2>2. \A s \in Slot \ {t_index} : CountAt(s)'
    BY <1>000, <2>1
  <2>3. CountAt(t_index)'
    <3>1. sTasks[t_index].run_me <= owed[t_index]
      BY <1>00, <1>000, <2>1
    <3>2. sTasks[t_index].run_me <= owed'[t_index] + 1 /\ sTasks[t_index].run_me >= 1
      BY <1>00, <1>000, <2>1, <3>1
    <3> QED
      BY <1>00, <1>000, <2>1, <3>2
  <2> QED
    BY <2>1, <2>2, <2>3
<1>8. CASE Return
  <2>1. pc = "running" /\ pc' = "load" /\ t_index' = t_index /\ reg' = reg
    BY <1>8 DEF Return
  <2>2. CASE UNCHANGED <<sTasks, owed>>
    BY <1>000, <2>1, <2>2
  <2>3. CASE /\ sTasks' = [sTasks EXCEPT ![t_index] = Deleted(@)]
             /\ owed' = [owed EXCEPT ![t_index] = 0]
    <3>1. ~sTasks'[t_index].handler
      BY <1>00, <2>3, DeletedFields DEF TypeOK
    <3>2. \A s \in Slot \ {t_index} : sTasks'[s] = sTasks[s] /\ owed'[s] = owed[s]
      BY <2>3 DEF TypeOK
    <3> QED
      BY <1>000, <2>1, <3>1, <3>2
  <2> QED
    BY <1>8, <2>2, <2>3 DEF Return
<1>9. CASE Load
  <2>1. /\ pc = "load" /\ pc' = "store" /\ reg' = sTasks[t_index].run_me
        /\ UNCHANGED <<sTasks, t_index, owed>>
    BY <1>9 DEF Load
  <2> QED
    BY <1>00, <1>000, <2>1
<1>10. CASE Store
  <2>1. /\ pc = "store" /\ pc' = "finish" /\ UNCHANGED <<t_index, owed>>
        /\ sTasks'[t_index] = [sTasks[t_index] EXCEPT !.run_me = Dec(reg)]
        /\ \A s \in Slot \ {t_index} : sTasks'[s] = sTasks[s]
    BY <1>00, <1>10 DEF Store, TypeOK
  <2>2. /\ sTasks'[t_index].run_me = Dec(reg)
        /\ sTasks'[t_index].handler = sTasks[t_index].handler
        /\ sTasks'[t_index].overdue = sTasks[t_index].overdue
    BY <1>0, <1>00, <2>1 DEF task_t
  <2>3. sTasks[t_index].handler => Dec(reg) <= sTasks[t_index].run_me - 1
    BY <1>00, <1>000, <2>1 DEF TypeOK, uint_t, Dec
  <2>4. Dec(reg) \in Nat
    BY DEF TypeOK, uint_t, Dec
  <2>5. \A s \in Slot \ {t_index} : CountAt(s)'
    BY <1>000, <2>1
  <2>6. CountAt(t_index)'
    <3>1. CASE sTasks[t_index].handler
      <4>1. sTasks[t_index].run_me <= owed[t_index] + 1
            /\ (~sTasks[t_index].overdue => sTasks[t_index].run_me <= 1)
        BY <1>00, <2>1, <3>1
      <4> QED
        BY <1>00, <1>000, <2>1, <2>2, <2>3, <2>4, <3>1, <4>1
    <3>2. CASE ~sTasks[t_index].handler
      BY <2>1, <2>2, <3>2
    <3> QED
      BY <3>1, <3>2
  <2> QED
    BY <2>1, <2>5, <2>6
<1>11. CASE Finish
  <2>1. pc = "finish" /\ pc' = "scan"
    BY <1>11 DEF Finish
  <2>2. CASE sTasks[t_index].period = 0
    <3>1. ~sTasks'[t_index].handler
      <4>1. sTasks'[t_index] = Deleted(sTasks[t_index])
        BY <1>00, <1>11, <2>2 DEF Finish, TypeOK
      <4> QED
        BY <4>1, DeletedFields
    <3>2. \A s \in Slot \ {t_index} : sTasks'[s] = sTasks[s] /\ owed'[s] = owed[s]
      BY <1>11, <2>2 DEF Finish, TypeOK
    <3> QED
      BY <1>000, <2>1, <3>1, <3>2
  <2>3. CASE sTasks[t_index].period # 0
    BY <1>000, <1>11, <2>1, <2>3 DEF Finish
  <2> QED
    BY <2>2, <2>3
<1>12. CASE sch_update
  <2>1. \A s \in Slot :
          /\ sTasks'[s].handler = sTasks[s].handler /\ sTasks'[s].overdue = sTasks[s].overdue
          /\ sTasks[s].handler /\ sTasks[s].delay # 0 =>
               sTasks'[s].run_me = sTasks[s].run_me /\ owed'[s] = owed[s]
          /\ sTasks[s].handler /\ sTasks[s].delay = 0 =>
               /\ sTasks'[s].run_me = IF sTasks[s].overdue \/ sTasks[s].run_me = 0
                                      THEN sTasks[s].run_me + 1 ELSE 1
               /\ owed'[s] = IF owed[s] < MaxBacklog THEN owed[s] + 1 ELSE owed[s]
    <3> SUFFICES ASSUME NEW s \in Slot
                 PROVE  /\ sTasks'[s].handler = sTasks[s].handler
                        /\ sTasks'[s].overdue = sTasks[s].overdue
                        /\ sTasks[s].handler /\ sTasks[s].delay # 0 =>
                             sTasks'[s].run_me = sTasks[s].run_me /\ owed'[s] = owed[s]
                        /\ sTasks[s].handler /\ sTasks[s].delay = 0 =>
                             /\ sTasks'[s].run_me = IF sTasks[s].overdue \/ sTasks[s].run_me = 0
                                                    THEN sTasks[s].run_me + 1 ELSE 1
                             /\ owed'[s] = IF owed[s] < MaxBacklog THEN owed[s] + 1 ELSE owed[s]
      OBVIOUS
    <3>1. /\ sTasks'[s] = Updated(sTasks[s])
          /\ owed'[s] = IF Due(sTasks[s]) /\ owed[s] < MaxBacklog THEN owed[s] + 1 ELSE owed[s]
          /\ sTasks[s].handler => sTasks[s].run_me < MaxBacklog
      BY <1>12 DEF sch_update
    <3>2. sTasks[s].handler => Inc(sTasks[s].run_me) = sTasks[s].run_me + 1
      BY <1>000, <3>1 DEF Inc
    <3>3. CASE ~sTasks[s].handler
      BY <3>1, <3>3 DEF Updated
    <3>4. CASE sTasks[s].handler /\ sTasks[s].delay # 0
      BY <1>0, <3>1, <3>4 DEF Updated, Due, task_t
    <3>5. CASE sTasks[s].handler /\ sTasks[s].delay = 0
      <4>1. (~sTasks[s].overdue /\ Inc(sTasks[s].run_me) > 1)
              <=> ~(sTasks[s].overdue \/ sTasks[s].run_me = 0)
        BY <1>000, <3>2, <3>5
      <4> QED
        BY <1>0, <3>1, <3>2, <3>5, <4>1 DEF Updated, Due, task_t
    <3> QED
      BY <1>0, <3>3, <3>4, <3>5
  <2>2. /\ UNCHANGED <<pc, t_index, reg>>
        /\ \A s \in Slot : sTasks[s].handler => sTasks[s].run_me < MaxBacklog
    BY <1>12 DEF sch_update
  <2>3. ASSUME NEW s \in Slot PROVE CountAt(s)'
    <3>1. CASE ~sTasks[s].handler
      BY <2>1, <2>2, <3>1
    <3>2. CASE sTasks[s].handler /\ sTasks[s].delay # 0
      BY <1>000, <2>1, <2>2, <3>2
    <3>3. CASE sTasks[s].handler /\ sTasks[s].delay = 0
      <4> DEFINE n == sTasks'[s].run_me
      <4>1. RunMeStored(s) => n >= sTasks[s].run_me
        <5>1. RunMeStored(s) /\ ~sTasks[s].overdue => sTasks[s].run_me <= 1
          OBVIOUS
        <5> QED
          BY <1>000, <2>1, <3>3, <5>1
      <4>2. n >= 1 /\ n \in Nat /\ (~sTasks[s].overdue => n <= 1)
        BY <1>000, <2>1, <3>3
      <4>3. RunMeStored(s) => n <= owed'[s] + Started(s)
        BY <1>000, <2>1, <2>2, <3>3
      <4>4. t_index = s /\ pc = "store" => reg >= 1 /\ reg <= n
        <5>1. t_index = s /\ pc = "store" => reg >= 1 /\ reg <= sTasks[s].run_me
          BY <3>3
        <5>2. reg \in Nat
          BY DEF TypeOK, uint_t
        <5> QED
          BY <1>000, <3>3, <4>1, <4>2, <5>1, <5>2
      <4> QED
        BY <2>1, <2>2, <3>3, <4>2, <4>3, <4>4
    <3> QED
      BY <3>1, <3>2, <3>3
  <2> QED
    BY <2>3
<1>13. CASE UNCHANGED vars
  BY <1>13 DEF vars
<1> QED
  BY <1>1, <1>2, <1>3, <1>4, <1>5, <1>6, <1>7, <1>8, <1>9, <1>10, <1>11, <1>12, <1>13
  DEF Next, Main, sch_add_task, sch_dispatch_tasks

\* Every step keeps a one-off task from running again.
LEMMA OneShotStep ==
  ASSUME TypeOK, OwnerInv, OneShotInv, [Next]_vars
  PROVE  OneShotInv'
<1> USE ConstantTypes DEF OneShotInv, OwnerInv, PeriodStored, Registering, history
<1>0. \A s \in Slot : sTasks[s] \in task_t
  BY DEF TypeOK
<1>00. t_index \in Slot /\ pc \in Registering \cup Dispatching
  BY DEF TypeOK
<1>1. CASE AddHandler
  BY <1>0, <1>00, <1>1 DEF AddHandler, TypeOK, task_t
<1>2. CASE AddDelay
  BY <1>0, <1>00, <1>2 DEF AddDelay, TypeOK, task_t
<1>3. CASE AddPeriod
  BY <1>0, <1>00, <1>3 DEF AddPeriod, TypeOK, task_t
<1>4. CASE AddRunMe
  BY <1>0, <1>00, <1>4 DEF AddRunMe, TypeOK, task_t
<1>5. CASE AddOverdue
  BY <1>0, <1>00, <1>5 DEF AddOverdue, TypeOK, task_t
<1>6. CASE Skip
  BY <1>0, <1>00, <1>6 DEF Skip, TypeOK, task_t
<1>7. CASE Call
  BY <1>0, <1>00, <1>7 DEF Call, TypeOK, task_t
<1>8. CASE Return
  BY <1>0, <1>00, <1>8 DEF Return, TypeOK, task_t, Deleted, Empty
<1>9. CASE Load
  BY <1>0, <1>00, <1>9 DEF Load, TypeOK, task_t
<1>10. CASE Store
  BY <1>0, <1>00, <1>10 DEF Store, TypeOK, task_t, Dec
<1>11. CASE Finish
  <2>1. pc = "finish" /\ pc' = "scan" /\ ran' = ran
    BY <1>11 DEF Finish
  <2>2. CASE sTasks[t_index].period = 0
    <3>1. owner'[t_index] = 0 /\ \A s \in Slot \ {t_index} : owner'[s] = owner[s]
      BY <1>00, <1>11, <2>2 DEF Finish, TypeOK
    <3> QED
      BY <2>1, <3>1
  <2>3. CASE sTasks[t_index].period # 0
    <3>1. owner' = owner
      BY <1>11, <2>3 DEF Finish
    <3>2. owner[t_index] # 0 => Registrations[owner[t_index]].period # 0
      BY <1>00, <2>1, <2>3
    <3> QED
      BY <1>00, <2>1, <3>1, <3>2
  <2> QED
    BY <2>2, <2>3
<1>12. CASE sch_update
  <2>1. UNCHANGED <<pc, t_index, owner, ran>>
    BY <1>12 DEF sch_update
  <2> QED
    BY <2>1
<1>13. CASE UNCHANGED vars
  BY <1>13 DEF vars
<1> QED
  BY <1>1, <1>2, <1>3, <1>4, <1>5, <1>6, <1>7, <1>8, <1>9, <1>10, <1>11, <1>12, <1>13
  DEF Next, Main, sch_add_task, sch_dispatch_tasks

\* Every step keeps the delay counters in phase with the ticks.
LEMMA DelayStep ==
  ASSUME TypeOK, OwnerInv, CountInv, DelayInv, [Next]_vars
  PROVE  DelayInv'
<1>0. \A s \in Slot : sTasks[s] \in task_t
  BY DEF TypeOK
<1>000. \A s \in Slot : /\ sTasks[s].run_me \in Nat /\ sTasks[s].delay \in Nat
                         /\ age[s] \in Nat /\ owed[s] \in Nat
  <2>1. \A s \in Slot : sTasks[s].run_me \in Nat /\ sTasks[s].delay \in Nat
    BY <1>0 DEF task_t, uint_t
  <2>2. \A s \in Slot : age[s] \in 0 .. WORD /\ owed[s] \in 0 .. MaxBacklog
    BY DEF TypeOK
  <2> QED
    BY <2>1, <2>2
<1>0000. \A s \in Slot : owner[s] # 0 => Registrations[owner[s]].delay \in Nat
  <2>1. \A s \in Slot : owner[s] # 0 => owner[s] \in 1 .. Len(Registrations)
    BY ConstantTypes DEF TypeOK
  <2> QED
    BY <2>1, RegistrationType DEF Registration, uint_t
<1> USE ConstantTypes DEF DelayInv, DelayAt, CountAt, OwnerInv, CountInv, DelayStored, RunMeStored, Started, TicksAsked, Registering, history
<1>00. t_index \in Slot /\ pc \in Registering \cup Dispatching
  BY DEF TypeOK
<1>1. CASE AddHandler
  BY <1>0, <1>00, <1>1 DEF AddHandler, TypeOK, task_t
<1>2. CASE AddDelay
  <2>1. /\ pc = "add_delay" /\ pc' = "add_period" /\ UNCHANGED <<t_index, owner>>
        /\ sTasks'[t_index].delay = Registrations[next_reg].delay /\ age'[t_index] = 0
        /\ \A s \in Slot \ {t_index} : sTasks'[s] = sTasks[s] /\ age'[s] = age[s]
    BY <1>0, <1>00, <1>2 DEF AddDelay, TypeOK, task_t
  <2>2. owner[t_index] = next_reg /\ next_reg # 0
    BY <1>00, <2>1 DEF TypeOK
  <2>3. 0 <= Registrations[next_reg].delay + 1
        /\ Registrations[next_reg].delay = Registrations[next_reg].delay - 0
    BY <1>00, <1>0000, <2>2
  <2> QED
    BY <1>00, <2>1, <2>2, <2>3
<1>3. CASE AddPeriod
  BY <1>0, <1>00, <1>3 DEF AddPeriod, TypeOK, task_t
<1>4. CASE AddRunMe
  BY <1>0, <1>00, <1>4 DEF AddRunMe, TypeOK, task_t
<1>5. CASE AddOverdue
  BY <1>0, <1>00, <1>5 DEF AddOverdue, TypeOK, task_t
<1>6. CASE Skip
  BY <1>0, <1>00, <1>6 DEF Skip, TypeOK, task_t
<1>7. CASE Call
  BY <1>0, <1>00, <1>7 DEF Call, TypeOK, task_t
<1>8. CASE Return
  <2>1. pc = "running" /\ pc' = "load" /\ UNCHANGED <<t_index, age>>
    BY <1>8 DEF Return
  <2>2. CASE UNCHANGED <<sTasks, owner>>
    BY <2>1, <2>2
  <2>3. CASE /\ sTasks' = [sTasks EXCEPT ![t_index] = Deleted(@)]
             /\ owner' = [owner EXCEPT ![t_index] = 0]
    <3>1. ~sTasks'[t_index].handler
      BY <1>00, <2>3, DeletedFields DEF TypeOK
    <3>2. \A s \in Slot \ {t_index} : sTasks'[s] = sTasks[s] /\ owner'[s] = owner[s]
      BY <2>3 DEF TypeOK
    <3> QED
      BY <2>1, <3>1, <3>2
  <2> QED
    BY <1>8, <2>2, <2>3 DEF Return
<1>9. CASE Load
  BY <1>0, <1>00, <1>9 DEF Load, TypeOK, task_t
<1>10. CASE Store
  <2>1. /\ pc = "store" /\ pc' = "finish" /\ UNCHANGED <<t_index, owner, age>>
        /\ sTasks'[t_index] = [sTasks[t_index] EXCEPT !.run_me = Dec(reg)]
        /\ \A s \in Slot \ {t_index} : sTasks'[s] = sTasks[s]
    BY <1>00, <1>10 DEF Store, TypeOK
  <2>2. /\ sTasks'[t_index].handler = sTasks[t_index].handler
        /\ sTasks'[t_index].delay = sTasks[t_index].delay
    BY <1>0, <1>00, <2>1 DEF task_t
  <2>3. sTasks[t_index].handler => age[t_index] >= TicksAsked(t_index)
    <3>1. age[t_index] \in Nat /\ TicksAsked(t_index) \in Nat
      BY <1>00, <1>000, <1>0000
    <3>2. sTasks[t_index].handler => sTasks[t_index].run_me # 0
      <4>1. reg \in Nat /\ CountAt(t_index) /\ sTasks[t_index].run_me \in Nat
        BY <1>00, <1>000 DEF TypeOK, uint_t
      <4> QED
        BY <2>1, <4>1
    <3>3. DelayAt(t_index) /\ (sTasks[t_index].handler => RunMeStored(t_index))
      BY <1>00, <2>1
    <3> QED
      BY <3>1, <3>2, <3>3
  <2>4. \A s \in Slot \ {t_index} : DelayAt(s)'
    BY <2>1
  <2>5. DelayAt(t_index)'
    <3>1. CASE sTasks[t_index].handler
      <4>1. age[t_index] <= TicksAsked(t_index)
        BY <1>00, <2>1, <3>1
      <4>2. ~(age[t_index] < TicksAsked(t_index))
        BY <1>00, <1>000, <1>0000, <2>3, <3>1
      <4> QED
        BY <2>1, <4>1, <4>2
    <3>2. CASE ~sTasks[t_index].handler
      BY <2>1, <2>2, <3>2
    <3> QED
      BY <3>1, <3>2
  <2> QED
    BY <2>1, <2>4, <2>5
<1>11. CASE Finish
  <2>1. pc = "finish" /\ pc' = "scan" /\ age' = age
    BY <1>11 DEF Finish
  <2>2. CASE sTasks[t_index].period = 0
    <3>1. /\ sTasks'[t_index] = Deleted(sTasks[t_index])
          /\ \A s \in Slot \ {t_index} : sTasks'[s] = sTasks[s] /\ owner'[s] = owner[s]
      BY <1>00, <1>11, <2>2 DEF Finish, TypeOK
    <3>2. ~sTasks'[t_index].handler
      BY <3>1, DeletedFields
    <3> QED
      BY <2>1, <3>1, <3>2
  <2>3. CASE sTasks[t_index].period # 0
    BY <1>11, <2>1, <2>3 DEF Finish
  <2> QED
    BY <2>2, <2>3
<1>12. CASE sch_update
  <2>1. /\ UNCHANGED <<pc, t_index, owner>>
        /\ \A s \in Slot : /\ sTasks'[s] = Updated(sTasks[s])
                           /\ age'[s] = IF age[s] < TicksAsked(s) THEN age[s] + 1 ELSE age[s]
    BY <1>12 DEF sch_update
  <2>2. ASSUME NEW s \in Slot
        PROVE  /\ sTasks'[s].handler = sTasks[s].handler
               /\ sTasks[s].handler /\ sTasks[s].delay # 0 =>
                    /\ sTasks'[s].delay = sTasks[s].delay - 1
                    /\ sTasks'[s].run_me = sTasks[s].run_me
    <3>1. sTasks[s] \in task_t /\ sTasks'[s] = Updated(sTasks[s])
      BY <1>0, <2>1
    <3>2. CASE ~sTasks[s].handler
      BY <3>1, <3>2 DEF Updated
    <3>3. CASE sTasks[s].handler /\ sTasks[s].delay # 0
      BY <3>1, <3>3 DEF Updated, task_t
    <3>4. CASE sTasks[s].handler /\ sTasks[s].delay = 0
      BY <3>1, <3>4 DEF Updated, task_t
    <3> QED
      BY <3>1, <3>2, <3>3, <3>4 DEF task_t
  <2>3. ASSUME NEW s \in Slot PROVE DelayAt(s)'
    <3>1. CASE ~DelayStored(s)
      BY <2>1, <2>2, <3>1
    <3>2. CASE DelayStored(s) /\ age[s] = TicksAsked(s)
      BY <1>000, <1>0000, <2>1, <2>2, <3>2
    <3>3. CASE DelayStored(s) /\ age[s] < TicksAsked(s)
      <4> DEFINE d == Registrations[owner[s]].delay
      <4>1. owner[s] # 0 /\ d \in Nat /\ TicksAsked(s) = d + 1 /\ sTasks[s].delay = d - age[s]
        BY <1>0000, <3>3
      <4>2. age'[s] = age[s] + 1 /\ owner'[s] = owner[s] /\ age'[s] <= d + 1
        BY <1>000, <2>1, <3>3, <4>1
      <4>3. age'[s] < d + 1 => sTasks[s].delay # 0 /\ sTasks'[s].delay = d - age'[s]
                               /\ sTasks'[s].run_me = sTasks[s].run_me
        BY <1>000, <2>2, <3>3, <4>1, <4>2
      <4> HIDE DEF d
      <4> QED
        BY <2>1, <2>2, <3>3, <4>1, <4>2, <4>3 DEF d
    <3> QED
      BY <1>000, <1>0000, <3>1, <3>2, <3>3
  <2> QED
    BY <2>3
<1>13. CASE UNCHANGED vars
  BY <1>13 DEF vars
<1> QED
  BY <1>1, <1>2, <1>3, <1>4, <1>5, <1>6, <1>7, <1>8, <1>9, <1>10, <1>11, <1>12, <1>13
  DEF Next, Main, sch_add_task, sch_dispatch_tasks

\* The initial state satisfies the inductive invariant.
LEMMA InitInv == Init => OwnerInv /\ CountInv /\ OneShotInv /\ DelayInv
<1> SUFFICES ASSUME Init PROVE OwnerInv /\ CountInv /\ OneShotInv /\ DelayInv
  OBVIOUS
<1>1. \A s \in Slot : ~sTasks[s].handler /\ ~sTasks[s].overdue /\ owner[s] = 0
  BY DEF Init, Empty
<1>2. pc \in {"scan", "add_handler"}
  BY DEF Init
<1> QED
  BY <1>1, <1>2
  DEF OwnerInv, CountInv, CountAt, OneShotInv, DelayInv, DelayAt, Registered, DelayStored,
      PeriodStored, RunMeStored, Started, Registering

\* The inductive invariant, of which the three properties below are weakenings.
THEOREM Inductive == Spec => []IInv
<1>1. Init => IInv
  BY TypeCorrectInit, InitInv DEF IInv
<1>2. IInv /\ [Next]_vars => IInv'
  BY TypeCorrectStep, OwnerStep, CountStep, OneShotStep, DelayStep DEF IInv
<1> QED
  BY <1>1, <1>2, PTL DEF Spec

\* No task is run for an activation that did not fall due, in spite of run_me--
\* being preempted between its load and its store.
THEOREM NoInventedRunSafe == Spec => []NoInventedRun
<1>1. IInv => NoInventedRun
  BY DEF IInv, CountInv, CountAt, NoInventedRun, RunMeStored, Registered, Registering
<1> QED
  BY <1>1, Inductive, PTL

\* A one-off task runs once.
THEOREM OneShotOnceSafe == Spec => []OneShotOnce
<1>1. IInv => OneShotOnce
  <2> SUFFICES ASSUME IInv, NEW s \in Slot, owner[s] # 0, ran[s] > 1,
                      Registrations[owner[s]].period = 0
               PROVE  FALSE
    BY DEF OneShotOnce
  <2>1. ran[s] <= 1
    BY DEF IInv, OneShotInv
  <2>2. ran[s] \in 0 .. 2
    BY DEF IInv, TypeOK
  <2> QED
    BY <2>1, <2>2
<1> QED
  BY <1>1, Inductive, PTL

\* No task becomes pending before its delay has passed.
THEOREM NotEarlySafe == Spec => []NotEarly
<1>1. IInv => NotEarly
  <2> SUFFICES ASSUME IInv, NEW s \in Slot, Registered(s), sTasks[s].run_me > 0
               PROVE  age[s] = TicksAsked(s)
    BY DEF NotEarly
  <2>1. DelayStored(s) /\ RunMeStored(s)
    BY DEF DelayStored, RunMeStored, Registered, Registering
  <2>2. age[s] <= TicksAsked(s) /\ ~(age[s] < TicksAsked(s))
    BY <2>1 DEF IInv, DelayInv, DelayAt
  <2>3. age[s] \in Nat /\ TicksAsked(s) \in Nat
    BY AgeType, ConstantTypes DEF IInv, TypeOK
  <2> QED
    BY <2>2, <2>3
<1> QED
  BY <1>1, Inductive, PTL
=============================================================================
