----------------------------- MODULE Scheduler -----------------------------
(***************************************************************************)
(* scheduler/Kernel/scheduler.c: the time-triggered cooperative scheduler. *)
(* main() registers the tasks with the tick interrupt already running      *)
(* (sch_init starts TC7 before the first sch_add_task) and then calls      *)
(* sch_dispatch_tasks forever.  sch_update runs in the TC7 handler, every  *)
(* 100 us, and may preempt the main loop between any two of its memory     *)
(* accesses; nothing masks interrupts.  sch_update itself is one step: no  *)
(* interrupt of higher priority touches sTasks.                            *)
(*                                                                         *)
(* sch_add_task stores the handler first, so from that store on the        *)
(* interrupt counts the slot: each later store is a step of its own, in    *)
(* the order the compiler kept.  sTasks[i].run_me-- is a load and a store. *)
(* A slot whose handler is 0 is invisible to the interrupt, so the four    *)
(* stores of sch_delete_task, handler first, are one step.                 *)
(*                                                                         *)
(* Ticks are 100 us apart and the stores of one registration, like the     *)
(* instructions after a handler returns, take less than 1 us: one tick at  *)
(* most falls between them (ticked).  A handler may last any time.         *)
(***************************************************************************)
EXTENDS Naturals, Sequences

CONSTANTS
  SCH_TASK_MAX,   \* slots of sTasks (40 in the source)
  Registrations,  \* the calls of sch_add_task, in order
  SelfDeleting,   \* the registrations whose handler calls sch_delete_task on itself
  WORD,           \* number of values of uint_t (2^32)
  MaxBacklog      \* bound: ticks stop while some task is this far overdue

Slot == 0 .. SCH_TASK_MAX - 1
uint_t == 0 .. WORD - 1
task_t == [handler : BOOLEAN, period : uint_t, delay : uint_t, run_me : uint_t,
           overdue : BOOLEAN]
Registration == [delay : uint_t, period : uint_t, overdue : BOOLEAN]

\* The bound check of sch_add_task reads sTasks[SCH_TASK_MAX] first, and the
\* build drops it: a program registers no more tasks than the table has slots.
ASSUME SchedulerAssumption ==
  /\ SCH_TASK_MAX \in Nat \ {0}
  /\ WORD \in Nat
  /\ MaxBacklog \in Nat \ {0}
  /\ MaxBacklog < WORD
  /\ Registrations \in Seq(Registration)
  /\ Len(Registrations) <= SCH_TASK_MAX
  /\ SelfDeleting \subseteq DOMAIN Registrations

VARIABLES
  sTasks,    \* the task table
  pc,        \* where the main loop stands
  t_index,   \* its slot
  next_reg,  \* the registration main() is at
  reg,       \* the register of run_me--
  ticked,    \* a tick fell in the straight-line code the main loop is in
  owner,     \* history: the registration a slot was last given to, 0 none
  owed,      \* history: activations that fell due and were not started
  ran,       \* history: runs of the slot's task, counted up to 2
  age        \* history: ticks since the delay was stored, up to what it asks for

vars == <<sTasks, pc, t_index, next_reg, reg, ticked, owner, owed, ran, age>>
history == <<owner, owed, ran, age>>

Registering == {"add_handler", "add_delay", "add_period", "add_run_me", "add_overdue"}
Dispatching == {"scan", "running", "load", "store", "finish"}

\* uint_t arithmetic
Inc(x) == IF x = WORD - 1 THEN 0 ELSE x + 1
DecSigned(x) == x - 1  \* mutant
Dec(x) == IF x = 0 THEN WORD - 1 ELSE x - 1

Empty == [handler |-> FALSE, period |-> 0, delay |-> 0, run_me |-> 0, overdue |-> FALSE]

\* sch_delete_task: overdue_enable keeps its value
Deleted(task) == [Empty EXCEPT !.overdue = task.overdue]

-----------------------------------------------------------------------------
\* sch_init leaves every slot deleted; the tick is running.
Init ==
  /\ sTasks = [s \in Slot |-> Empty]
  /\ pc = IF Registrations = <<>> THEN "scan" ELSE "add_handler"
  /\ t_index = 0
  /\ next_reg = 1
  /\ reg = 0
  /\ ticked = FALSE
  /\ owner = [s \in Slot |-> 0]
  /\ owed = [s \in Slot |-> 0]
  /\ ran = [s \in Slot |-> 0]
  /\ age = [s \in Slot |-> 0]

\* One slot in sch_update.
Due(task) == task.handler /\ task.delay = 0

Updated(task) ==
  IF ~task.handler THEN task
  ELSE IF task.delay # 0 THEN [task EXCEPT !.delay = @ - 1]
  ELSE [task EXCEPT
          !.run_me = IF ~task.overdue /\ Inc(@) > 1 THEN 1 ELSE Inc(@),
          !.delay = IF task.period # 0 THEN task.period - 1 ELSE @]

TicksAsked(s) == IF owner[s] = 0 THEN 0 ELSE Registrations[owner[s]].delay + 1

\* TC7 handler -> sch_update
sch_update ==
  /\ pc = "running" \/ ~ticked
  /\ ticked' = (pc # "running")
  /\ \A s \in Slot : sTasks[s].handler => sTasks[s].run_me < MaxBacklog
  /\ sTasks' = [s \in Slot |-> Updated(sTasks[s])]
  /\ owed' = [s \in Slot |-> IF Due(sTasks[s]) /\ owed[s] < MaxBacklog
                             THEN owed[s] + 1 ELSE owed[s]]
  /\ age' = [s \in Slot |-> IF age[s] < TicksAsked(s) THEN age[s] + 1 ELSE age[s]]
  /\ UNCHANGED <<pc, t_index, next_reg, reg, owner, ran>>

-----------------------------------------------------------------------------
\* sch_add_task: the search stops at the first slot without a handler.
FirstFree(s) ==
  /\ ~sTasks[s].handler
  /\ \A r \in Slot : r < s => sTasks[r].handler

AddHandler ==
  /\ pc = "add_handler"
  /\ \E s \in Slot :
       /\ FirstFree(s)
       /\ t_index' = s
       /\ sTasks' = [sTasks EXCEPT ![s].handler = TRUE]
       /\ owner' = [owner EXCEPT ![s] = next_reg]
       /\ owed' = [owed EXCEPT ![s] = 0]
       /\ ran' = [ran EXCEPT ![s] = 0]
  /\ pc' = "add_delay"
  /\ UNCHANGED <<next_reg, reg, ticked, age>>

AddDelay ==
  /\ pc = "add_delay"
  /\ sTasks' = [sTasks EXCEPT ![t_index].delay = Registrations[next_reg].delay]
  /\ age' = [age EXCEPT ![t_index] = 0]
  /\ pc' = "add_period"
  /\ UNCHANGED <<t_index, next_reg, reg, ticked, owner, owed, ran>>

AddPeriod ==
  /\ pc = "add_period"
  /\ sTasks' = [sTasks EXCEPT ![t_index].period = Registrations[next_reg].period]
  /\ pc' = "add_run_me"
  /\ UNCHANGED <<t_index, next_reg, reg, ticked, history>>

AddRunMeForgotten ==  \* mutant
  /\ pc = "add_run_me"
  /\ pc' = "add_overdue"
  /\ UNCHANGED <<sTasks, t_index, next_reg, reg, ticked, history>>

AddRunMe ==
  /\ pc = "add_run_me"
  /\ sTasks' = [sTasks EXCEPT ![t_index].run_me = 0]
  /\ owed' = [owed EXCEPT ![t_index] = 0]
  /\ pc' = "add_overdue"
  /\ UNCHANGED <<t_index, next_reg, reg, ticked, owner, ran, age>>

\* The last store, and main() goes on to its next call or to the dispatch loop.
AddOverdue ==
  /\ pc = "add_overdue"
  /\ sTasks' = [sTasks EXCEPT ![t_index].overdue = Registrations[next_reg].overdue]
  /\ next_reg' = next_reg + 1
  /\ pc' = IF next_reg = Len(Registrations) THEN "scan" ELSE "add_handler"
  /\ t_index' = 0
  /\ ticked' = FALSE
  /\ UNCHANGED <<reg, history>>

-----------------------------------------------------------------------------
\* sch_dispatch_tasks, called again as soon as it returns.
NextSlotStopsShort == IF t_index = SCH_TASK_MAX - 2 THEN 0 ELSE t_index + 1  \* mutant
NextSlot == IF t_index = SCH_TASK_MAX - 1 THEN 0 ELSE t_index + 1

Skip ==
  /\ pc = "scan"
  /\ ~sTasks[t_index].handler \/ sTasks[t_index].run_me = 0
  /\ t_index' = NextSlot
  /\ ticked' = FALSE
  /\ UNCHANGED <<sTasks, pc, next_reg, reg, history>>

\* The handler is called; ticks go on while it runs.
Call ==
  /\ pc = "scan"
  /\ sTasks[t_index].handler /\ sTasks[t_index].run_me # 0
  /\ pc' = "running"
  /\ owed' = [owed EXCEPT ![t_index] = IF @ = 0 THEN 0 ELSE @ - 1]
  /\ ran' = [ran EXCEPT ![t_index] = IF @ = 2 THEN 2 ELSE @ + 1]
  /\ ticked' = FALSE
  /\ UNCHANGED <<sTasks, t_index, next_reg, reg, owner, age>>

\* The handler returns, having deleted its own task or not.
Return ==
  /\ pc = "running"
  /\ \/ UNCHANGED <<sTasks, owner, owed>>
     \/ /\ owner[t_index] \in SelfDeleting
        /\ sTasks' = [sTasks EXCEPT ![t_index] = Deleted(@)]
        /\ owner' = [owner EXCEPT ![t_index] = 0]
        /\ owed' = [owed EXCEPT ![t_index] = 0]
  /\ pc' = "load"
  /\ ticked' = FALSE
  /\ UNCHANGED <<t_index, next_reg, reg, ran, age>>

\* run_me--, its load
Load ==
  /\ pc = "load"
  /\ reg' = sTasks[t_index].run_me
  /\ pc' = "store"
  /\ UNCHANGED <<sTasks, t_index, next_reg, ticked, history>>

StoreForgotten ==  \* mutant
  /\ pc = "store"
  /\ pc' = "finish"
  /\ reg' = 0
  /\ UNCHANGED <<sTasks, t_index, next_reg, ticked, history>>

\* run_me--, its store
Store ==
  /\ pc = "store"
  /\ sTasks' = [sTasks EXCEPT ![t_index].run_me = Dec(reg)]
  /\ pc' = "finish"
  /\ reg' = 0
  /\ UNCHANGED <<t_index, next_reg, ticked, history>>

FinishKeepsOneShot ==  \* mutant
  /\ pc = "finish"
  /\ pc' = "scan"
  /\ t_index' = NextSlot
  /\ ticked' = FALSE
  /\ UNCHANGED <<sTasks, next_reg, reg, history>>

\* A one-off task is deleted; the loop goes on.
Finish ==
  /\ pc = "finish"
  /\ IF sTasks[t_index].period = 0
     THEN /\ sTasks' = [sTasks EXCEPT ![t_index] = Deleted(@)]
          /\ owner' = [owner EXCEPT ![t_index] = 0]
          /\ owed' = [owed EXCEPT ![t_index] = 0]
     ELSE UNCHANGED <<sTasks, owner, owed>>
  /\ pc' = "scan"
  /\ t_index' = NextSlot
  /\ ticked' = FALSE
  /\ UNCHANGED <<next_reg, reg, ran, age>>

sch_add_task == AddHandler \/ AddDelay \/ AddPeriod \/ AddRunMe \/ AddOverdue
sch_dispatch_tasks == Skip \/ Call \/ Return \/ Load \/ Store \/ Finish
Main == sch_add_task \/ sch_dispatch_tasks

Next == Main \/ sch_update

Spec == Init /\ [][Next]_vars

\* The main loop is never stopped for good by a handler of bounded length.
FairSpec == Spec /\ WF_vars(Main)
-----------------------------------------------------------------------------
\* Every entry of sTasks stays a task_t whatever the interleaving: its counters within
\* uint_t, its slot owned by a registration made, the indices within the table.
TypeOK ==
  /\ sTasks \in [Slot -> task_t]
  /\ pc \in Registering \cup Dispatching
  /\ t_index \in Slot
  /\ next_reg \in 1 .. Len(Registrations) + 1
  /\ pc \in Registering => next_reg <= Len(Registrations)
  /\ reg \in uint_t
  /\ ticked \in BOOLEAN
  /\ owner \in [Slot -> 0 .. Len(Registrations)]
  /\ owed \in [Slot -> 0 .. MaxBacklog]
  /\ ran \in [Slot -> 0 .. 2]
  /\ age \in [Slot -> 0 .. WORD]

\* The slot's registration is complete: sch_add_task has returned its index.
Registered(s) == sTasks[s].handler /\ ~(pc \in Registering /\ t_index = s /\ pc # "add_handler")

\* The activation of slot s that has been started is not yet counted off run_me.
Started(s) == IF t_index = s /\ pc \in {"running", "load", "store"} THEN 1 ELSE 0

\* The dispatcher never runs a task for an activation that did not fall due:
\* what run_me holds is covered by owed activations and the one being run, and
\* a task registered without overdue has one pending activation at most.
\* run_me-- preempted by sch_update may lose an activation, never add one.
NoInventedRun ==
  \A s \in Slot : Registered(s) =>
    /\ sTasks[s].run_me <= owed[s] + Started(s)
    /\ ~sTasks[s].overdue => sTasks[s].run_me <= 1

\* A task registered with period 0 runs once, however many ticks pass while it
\* waits for the dispatcher, while its handler runs and while it is deleted.
OneShotOnce ==
  \A s \in Slot : owner[s] # 0 /\ ran[s] > 1 => Registrations[owner[s]].period # 0

\* No task becomes pending before its delay has passed since sch_add_task stored
\* it, although the interrupt counts the slot as soon as the handler is stored.
NotEarly ==
  \A s \in Slot : Registered(s) /\ sTasks[s].run_me > 0 => age[s] = TicksAsked(s)

\* A pending task is run: no other task, whatever its period, starves it.
NoStarvation ==
  \A s \in Slot :
    (sTasks[s].handler /\ sTasks[s].run_me > 0 /\ (pc = "scan" \/ (pc \in Dispatching /\ t_index # s)))
      ~> (pc = "running" /\ t_index = s)
=============================================================================
