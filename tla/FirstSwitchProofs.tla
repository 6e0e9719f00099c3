------------------------- MODULE FirstSwitchProofs -------------------------
(***************************************************************************)
(* Proofs about the first switch to a task, for every list of tasks and    *)
(* wherever in the boot path the interrupts come: a trap always saves the  *)
(* registers of the running task to that task's own context.               *)
(***************************************************************************)
EXTENDS FirstSwitch, SequenceTheorems, TLAPS

(* first_switch_to, once sscratch points to the context of its task *)
HandedOver == {"sepc", "spp", "sret"}

(* Whose registers a context may hold *)
Registers == {"entry", "task", "boot", "lost", "handler"}

SwitchTypeOK ==
    /\ at \in {"timer", "enable", "lock", "restore", "release", "sscratch"} \cup HandedOver
    /\ who \in {"boot", "task", "lost", "stuck", "faulted", "off"}
    /\ current_task_id \in TaskSet \cup {NoTask}
    /\ next_ctx \in TaskSet \cup {NoTask}
    /\ ready_queue \in Seq(TaskSet)
    /\ sscratch \in TaskSet \cup {InitContext}
    /\ context \in [TaskSet \cup {InitContext} -> Registers]

(* The idle task is never lost from the scheduler. *)
IdleIsThere(rq) == \E i \in 1 .. Len(rq) : rq[i] = Tasks[1]
IdleKept == current_task_id = Tasks[1] \/ IdleIsThere(ready_queue)

(* What sscratch points to, by what the hart executes *)
SscratchInStep ==
    /\ who = "boot" => IF at \in HandedOver
                       THEN sscratch = next_ctx /\ current_task_id = next_ctx
                       ELSE sscratch = InitContext
    /\ who = "boot" /\ at \in {"restore", "release", "sscratch"} =>
           current_task_id = next_ctx /\ next_ctx \in TaskSet
    /\ who = "task" => sscratch = current_task_id /\ current_task_id \in TaskSet
    /\ who = "lost" => at = "sret" /\ sscratch = next_ctx /\ current_task_id = next_ctx
    /\ at \in HandedOver => next_ctx \in TaskSet
    /\ current_task_id = NoTask => ready_queue = Tasks

(* The registers of the boot path are in its own context, or in that of    *)
(* the task it was about to switch to; those of a handler are nowhere      *)
(* until one faults.                                                       *)
BootContext ==
    /\ ContextsKept
    /\ \A t \in TaskSet : context[t] = "lost" => at = "sret"
    /\ who # "faulted" => /\ context[InitContext] = "boot"
                          /\ \A t \in TaskSet : context[t] # "handler"

SwitchInv == SwitchTypeOK /\ IdleKept /\ SscratchInStep /\ BootContext

----------------------------------------------------------------------------
LEMMA IdleIsATask == Tasks[1] \in TaskSet /\ Len(Tasks) \in Nat \ {0}
BY TasksAssumption, EmptySeq DEF TaskSet

LEMMA InitSwitchInv == SwitchInit => SwitchInv
<1> SUFFICES ASSUME SwitchInit PROVE SwitchInv
  OBVIOUS
<1>1. SwitchTypeOK
  BY TasksAssumption DEF SwitchInit, SwitchTypeOK, Registers
<1>2. IdleKept
  BY IdleIsATask DEF SwitchInit, IdleKept, IdleIsThere
<1>3. SscratchInStep
  BY DEF SwitchInit, SscratchInStep, HandedOver
<1>4. BootContext
  BY TasksAssumption DEF SwitchInit, BootContext, ContextsKept
<1>5. QED
  BY <1>1, <1>2, <1>3, <1>4 DEF SwitchInv

(* prepare_next_task makes a task of the queue the current one, and keeps  *)
(* the idle task.                                                          *)
LEMMA NextTask ==
    ASSUME NEW rq \in Seq(TaskSet), IdleIsThere(rq), prepare_next_task(rq)
    PROVE  current_task_id' \in TaskSet /\ ready_queue' \in Seq(TaskSet) /\ IdleKept'
<1>1. Len(rq) \in Nat /\ rq # << >> /\ Len(rq) > 0
  <2>1. Len(<< >>) = 0 /\ Len(rq) \in Nat
    BY EmptySeq, LenProperties
  <2>2. QED
    BY <2>1 DEF IdleIsThere
<1>2. /\ Head(rq) \in TaskSet /\ Tail(rq) \in Seq(TaskSet) /\ Len(Tail(rq)) = Len(rq) - 1
      /\ \A i \in 1 .. Len(rq) - 1 : Tail(rq)[i] = rq[i + 1]
      /\ Head(rq) = rq[1]
  BY <1>1, HeadTailProperties
<1>3. CASE Head(rq) = Tasks[1] /\ Len(rq) > 1
  <2>1. current_task_id' = rq[2] /\ ready_queue' = Append(Tail(Tail(rq)), Tasks[1])
    BY <1>3, Zenon DEF prepare_next_task
  <2>2. rq[2] \in TaskSet
    <3>1. 2 \in 1 .. Len(rq)
      BY <1>1, <1>3
    <3>2. QED
      BY <3>1, ElementOfSeq
  <2>3. Tail(rq) # << >>
    BY <1>1, <1>2, <1>3, EmptySeq
  <2>4. Tail(Tail(rq)) \in Seq(TaskSet)
    BY <1>2, <2>3, HeadTailProperties
  <2> DEFINE q == Tail(Tail(rq))
  <2>5. /\ Append(q, Tasks[1]) \in Seq(TaskSet) /\ Len(Append(q, Tasks[1])) = Len(q) + 1
        /\ Append(q, Tasks[1])[Len(q) + 1] = Tasks[1] /\ Len(q) \in Nat
    BY <2>4, IdleIsATask, AppendProperties, LenProperties
  <2> HIDE DEF q
  <2>6. IdleIsThere(Append(q, Tasks[1]))
    <3>1. Len(q) + 1 \in 1 .. Len(Append(q, Tasks[1]))
      BY <2>5
    <3>2. QED
      BY <2>5, <3>1 DEF IdleIsThere
  <2>7. ready_queue' = Append(q, Tasks[1])
    BY <2>1 DEF q
  <2>8. QED
    BY <2>1, <2>2, <2>5, <2>6, <2>7, Zenon DEF IdleKept, IdleIsThere
<1>4. CASE ~(Head(rq) = Tasks[1] /\ Len(rq) > 1)
  <2>1. current_task_id' = Head(rq) /\ ready_queue' = Tail(rq)
    BY <1>4 DEF prepare_next_task
  <2>2. CASE Head(rq) = Tasks[1]
    BY <1>2, <2>1, <2>2 DEF IdleKept
  <2>3. CASE Head(rq) # Tasks[1]
    <3>1. PICK i \in 1 .. Len(rq) : rq[i] = Tasks[1]
      BY DEF IdleIsThere
    <3>2. i - 1 \in 1 .. Len(rq) - 1 /\ (i - 1) + 1 = i
      BY <1>1, <1>2, <2>3, <3>1
    <3>3. Tail(rq)[i - 1] = Tasks[1] /\ i - 1 \in 1 .. Len(Tail(rq))
      BY <1>2, <3>1, <3>2
    <3>4. QED
      BY <1>2, <2>1, <3>3 DEF IdleKept, IdleIsThere
  <2>4. QED
    BY <2>2, <2>3
<1>5. QED
  BY <1>3, <1>4

LEMMA RequeuedHasIdle ==
    ASSUME SwitchInv
    PROVE  requeued \in Seq(TaskSet) /\ IdleIsThere(requeued)
<1>1. /\ ready_queue \in Seq(TaskSet) /\ current_task_id \in TaskSet \cup {NoTask}
      /\ Len(ready_queue) \in Nat
  BY LenProperties DEF SwitchInv, SwitchTypeOK
<1>2. CASE current_task_id = NoTask
  <2>1. requeued = ready_queue /\ current_task_id # Tasks[1]
    BY <1>2, IdleIsATask, TasksAssumption DEF requeued
  <2>2. QED
    BY <1>1, <2>1 DEF SwitchInv, IdleKept
<1>3. CASE current_task_id # NoTask
  <2>1. /\ requeued = Append(ready_queue, current_task_id)
        /\ current_task_id \in TaskSet
    BY <1>1, <1>3 DEF requeued
  <2>2. /\ requeued \in Seq(TaskSet) /\ Len(requeued) = Len(ready_queue) + 1
        /\ \A i \in 1 .. Len(ready_queue) : requeued[i] = ready_queue[i]
        /\ requeued[Len(ready_queue) + 1] = current_task_id
    BY <1>1, <2>1, AppendProperties
  <2>3. CASE current_task_id = Tasks[1]
    BY <1>1, <2>2, <2>3 DEF IdleIsThere
  <2>4. CASE current_task_id # Tasks[1]
    <3>1. PICK i \in 1 .. Len(ready_queue) : ready_queue[i] = Tasks[1]
      BY <2>4 DEF SwitchInv, IdleKept, IdleIsThere
    <3>2. i \in 1 .. Len(requeued) /\ requeued[i] = Tasks[1]
      BY <1>1, <2>2, <3>1
    <3>3. QED
      BY <2>2, <3>2 DEF IdleIsThere
  <2>5. QED
    BY <2>3, <2>4
<1>4. QED
  BY <1>2, <1>3

----------------------------------------------------------------------------
(* One lemma for every kind of step *)

(* trap_entry never saves the boot path's registers anywhere but to a      *)
(* context that the invariant allows to hold them.                         *)
LEMMA TrapSaves ==
    ASSUME SwitchInv, interruptible, trap_entry_saves, at' = at, next_ctx' = next_ctx
    PROVE  /\ context' \in [TaskSet \cup {InitContext} -> Registers]
           /\ \A t \in TaskSet : context'[t] # "handler"
           /\ BootContext'
<1>1. /\ context \in [TaskSet \cup {InitContext} -> Registers]
      /\ sscratch \in TaskSet \cup {InitContext} /\ who \in {"boot", "task", "lost"}
  BY DEF SwitchInv, SwitchTypeOK, interruptible
<1>2. context' = [context EXCEPT ![sscratch] = who]
  BY DEF trap_entry_saves
<1>3. /\ context' \in [TaskSet \cup {InitContext} -> Registers]
      /\ context'[sscratch] = who
      /\ \A c \in TaskSet \cup {InitContext} : c # sscratch => context'[c] = context[c]
  BY <1>1, <1>2 DEF Registers
<1>4. sscratch = InitContext => who = "boot"
  BY <1>1, TasksAssumption DEF SwitchInv, SscratchInStep, HandedOver
<1>5. sscratch # InitContext /\ who \in {"boot", "lost"} =>
          sscratch = next_ctx /\ at \in HandedOver /\ (who = "lost" => at = "sret")
  BY DEF SwitchInv, SscratchInStep, HandedOver
<1>6. context'[InitContext] = "boot" /\ \A t \in TaskSet : context'[t] # "handler"
  BY <1>1, <1>3, <1>4 DEF SwitchInv, BootContext
<1>7. ContextsKept'
  BY <1>1, <1>3, <1>5, TasksAssumption DEF SwitchInv, BootContext, ContextsKept, HandedOver
<1>8. \A t \in TaskSet : context'[t] = "lost" => at' = "sret"
  BY <1>3, <1>5, TasksAssumption DEF SwitchInv, BootContext
<1>9. QED
  BY <1>3, <1>6, <1>7, <1>8 DEF BootContext

LEMMA TimerKeeps ==
    ASSUME SwitchInv, timer_interrupt
    PROVE  SwitchInv'
<1>1. at' = at /\ next_ctx' = next_ctx
  BY DEF timer_interrupt, return_from_trap
<1>2. /\ context' \in [TaskSet \cup {InitContext} -> Registers]
      /\ \A t \in TaskSet : context'[t] # "handler"
      /\ BootContext'
  BY <1>1, TrapSaves DEF timer_interrupt
<1>3. current_task_id' \in TaskSet /\ ready_queue' \in Seq(TaskSet) /\ IdleKept'
  BY RequeuedHasIdle, NextTask DEF timer_interrupt
<1>4. sscratch' = current_task_id'
  BY DEF timer_interrupt, switch_context
<1>5. who' = IF context'[current_task_id'] = "entry" THEN "task" ELSE context'[current_task_id']
  BY <1>4 DEF timer_interrupt, return_from_trap, resumed
<1>6. /\ at \in {"timer", "enable", "lock", "restore", "release", "sscratch"} \cup HandedOver
      /\ next_ctx \in TaskSet \cup {NoTask}
      /\ at \in HandedOver => next_ctx \in TaskSet
  BY DEF SwitchInv, SwitchTypeOK, SscratchInStep
<1>7. who' \in {"boot", "task", "lost"}
  BY <1>2, <1>3, <1>5 DEF Registers
<1>8. who' = "boot" => at \in HandedOver /\ current_task_id' = next_ctx
  BY <1>1, <1>2, <1>3, <1>5 DEF BootContext, ContextsKept, HandedOver
<1>9. who' = "lost" => at = "sret" /\ current_task_id' = next_ctx
  BY <1>1, <1>2, <1>3, <1>5 DEF BootContext, ContextsKept, HandedOver
<1>10. SwitchTypeOK'
  BY <1>1, <1>2, <1>3, <1>4, <1>6, <1>7 DEF SwitchTypeOK
<1>11. SscratchInStep'
  BY <1>1, <1>3, <1>4, <1>6, <1>8, <1>9, TasksAssumption DEF SscratchInStep, HandedOver
<1>12. QED
  BY <1>2, <1>3, <1>10, <1>11 DEF SwitchInv

(* A handler that faults for good: it is the last that happens. *)
LEMMA FaultKeeps ==
    ASSUME SwitchInv, handler_faults
    PROVE  SwitchInv'
<1>1. /\ UNCHANGED <<at, next_ctx, sscratch, current_task_id, ready_queue>> /\ who' = "faulted"
      /\ context' = [context EXCEPT ![sscratch] = "handler"]
  BY DEF handler_faults
<1>2. /\ context \in [TaskSet \cup {InitContext} -> Registers]
      /\ sscratch \in TaskSet \cup {InitContext}
  BY DEF SwitchInv, SwitchTypeOK
<1>3. /\ context' \in [TaskSet \cup {InitContext} -> Registers]
      /\ context'[sscratch] = "handler"
      /\ \A c \in TaskSet \cup {InitContext} : c # sscratch => context'[c] = context[c]
  BY <1>1, <1>2 DEF Registers
<1>4. BootContext'
  BY <1>1, <1>3 DEF SwitchInv, BootContext, ContextsKept
<1>5. QED
  BY <1>1, <1>3, <1>4 DEF SwitchInv, SwitchTypeOK, SscratchInStep, IdleKept

LEMMA StuckKeeps ==
    ASSUME SwitchInv, timer_interrupt_locked
    PROVE  SwitchInv'
<1>1. /\ UNCHANGED <<at, next_ctx, sscratch, current_task_id, ready_queue>>
      /\ interruptible /\ trap_entry_saves /\ who' = "stuck"
  BY DEF timer_interrupt_locked
<1>2. /\ context' \in [TaskSet \cup {InitContext} -> Registers]
      /\ BootContext'
  BY <1>1, TrapSaves
<1>3. QED
  BY <1>1, <1>2 DEF SwitchInv, SwitchTypeOK, SscratchInStep, IdleKept

LEMMA RunSchedulerKeeps ==
    ASSUME SwitchInv, run_scheduler
    PROVE  SwitchInv'
<1>1. /\ who = "boot" /\ at = "lock" /\ at' = "restore" /\ next_ctx' = current_task_id'
      /\ UNCHANGED <<who, sscratch, context>> /\ prepare_next_task(requeued)
  BY DEF run_scheduler, step
<1>2. current_task_id' \in TaskSet /\ ready_queue' \in Seq(TaskSet) /\ IdleKept'
  BY <1>1, RequeuedHasIdle, NextTask
<1>3. \A t \in TaskSet : context[t] \in {"entry", "task"}
  BY <1>1 DEF SwitchInv, BootContext, ContextsKept
<1>4. BootContext'
  BY <1>1, <1>3 DEF SwitchInv, BootContext, ContextsKept
<1>5. SwitchTypeOK'
  BY <1>1, <1>2 DEF SwitchInv, SwitchTypeOK
<1>6. SscratchInStep'
  BY <1>1, <1>2, TasksAssumption DEF SwitchInv, SscratchInStep, HandedOver
<1>7. QED
  BY <1>2, <1>4, <1>5, <1>6 DEF SwitchInv

(* The other instructions of the boot path *)
LEMMA BootStepKeeps ==
    ASSUME SwitchInv, boot_step, ~run_scheduler
    PROVE  SwitchInv'
<1>1. /\ UNCHANGED <<current_task_id, ready_queue, next_ctx, context>>
      /\ who = "boot" /\ SwitchTypeOK /\ IdleKept /\ SscratchInStep /\ BootContext
  BY DEF boot_step, set_next_timer_tick, init_supervisor_interrupts, restore_interrupts,
         release, csrw_sscratch, csrw_sepc, csrc_spp, sret, step, SwitchInv
<1>2. IdleKept'
  BY <1>1 DEF IdleKept
<1>3. CASE set_next_timer_tick \/ init_supervisor_interrupts \/ restore_interrupts \/ release
  <2>1. /\ UNCHANGED <<who, sscratch>> /\ at \notin HandedOver
        /\ at' \in {"enable", "lock", "release", "sscratch"}
        /\ at' \in {"release", "sscratch"} => at \in {"restore", "release"}
    BY <1>3 DEF set_next_timer_tick, init_supervisor_interrupts, restore_interrupts, release,
                step, csrs, HandedOver
  <2>2. SwitchTypeOK' /\ SscratchInStep'
    BY <1>1, <2>1 DEF SwitchTypeOK, SscratchInStep, HandedOver
  <2>3. BootContext'
    BY <1>1, <2>1 DEF BootContext, ContextsKept, HandedOver
  <2>4. QED
    BY <1>2, <2>2, <2>3 DEF SwitchInv
<1>4. CASE csrw_sscratch
  <2>1. at = "sscratch" /\ at' = "sepc" /\ sscratch' = next_ctx /\ who' = who
    BY <1>4 DEF csrw_sscratch, step
  <2>2. SwitchTypeOK' /\ SscratchInStep'
    BY <1>1, <2>1 DEF SwitchTypeOK, SscratchInStep, HandedOver
  <2>3. BootContext'
    BY <1>1, <2>1 DEF BootContext, ContextsKept
  <2>4. QED
    BY <1>2, <2>2, <2>3 DEF SwitchInv
<1>5. CASE csrw_sepc \/ csrc_spp
  <2>1. at \in {"sepc", "spp"} /\ at' \in {"spp", "sret"} /\ UNCHANGED <<who, sscratch>>
    BY <1>5 DEF csrw_sepc, csrc_spp, step
  <2>2. SwitchTypeOK' /\ SscratchInStep'
    BY <1>1, <2>1 DEF SwitchTypeOK, SscratchInStep, HandedOver
  <2>3. BootContext'
    BY <1>1, <2>1 DEF BootContext, ContextsKept
  <2>4. QED
    BY <1>2, <2>2, <2>3 DEF SwitchInv
<1>6. CASE sret
  <2>1. at = "sret" /\ who' \in {"task", "lost"} /\ UNCHANGED <<at, sscratch>>
    BY <1>6 DEF sret
  <2>2. SwitchTypeOK' /\ SscratchInStep'
    BY <1>1, <2>1 DEF SwitchTypeOK, SscratchInStep, HandedOver
  <2>3. BootContext'
    BY <1>1, <2>1 DEF BootContext, ContextsKept
  <2>4. QED
    BY <1>2, <2>2, <2>3 DEF SwitchInv
<1>7. QED
  BY <1>3, <1>4, <1>5, <1>6 DEF boot_step

LEMMA NextSwitchInv == SwitchInv /\ [SwitchNext]_switchVars => SwitchInv'
<1> SUFFICES ASSUME SwitchInv, [SwitchNext]_switchVars PROVE SwitchInv'
  OBVIOUS
<1>1. CASE boot_step
  BY <1>1, RunSchedulerKeeps, BootStepKeeps
<1>2. CASE timer_interrupt
  BY <1>2, TimerKeeps
<1>3. CASE timer_interrupt_locked
  BY <1>3, StuckKeeps
<1>4. CASE external_interrupt \/ instruction_page_fault
  BY <1>4, FaultKeeps DEF external_interrupt, instruction_page_fault
<1>5. CASE task_ends
  <2>1. /\ UNCHANGED <<at, sscratch, current_task_id, ready_queue, next_ctx, context>>
        /\ who = "task" /\ who' = "off"
    BY <1>5 DEF task_ends, csrs
  <2>2. QED
    BY <2>1 DEF SwitchInv, SwitchTypeOK, IdleKept, SscratchInStep, BootContext, ContextsKept
<1>6. CASE stays_halted \/ UNCHANGED switchVars
  <2>1. UNCHANGED <<at, who, sscratch, current_task_id, ready_queue, next_ctx, context>>
    BY <1>6 DEF stays_halted, switchVars, csrs
  <2>2. QED
    BY <2>1 DEF SwitchInv, SwitchTypeOK, IdleKept, SscratchInStep, BootContext, ContextsKept
<1>7. QED
  BY <1>1, <1>2, <1>3, <1>4, <1>5, <1>6 DEF SwitchNext

(* What sscratch, the contexts and the ready queue have to do with each    *)
(* other through first_switch_to, trap_entry and switch_context            *)
THEOREM SwitchInvariant == SwitchSpec => []SwitchInv
<1>1. QED
  BY InitSwitchInv, NextSwitchInv, PTL DEF SwitchSpec

(* Whenever a task runs, trap_entry will save its registers to the context *)
(* of the task the scheduler calls current.                                *)
THEOREM TrapsSaveToCurrent == SwitchSpec => []ContextOfCurrent
<1>1. SwitchInv => ContextOfCurrent
  BY DEF SwitchInv, SscratchInStep, ContextOfCurrent
<1>2. QED
  BY <1>1, SwitchInvariant, PTL

(* The registers of the boot path end up in no task's context but that of  *)
(* the task first_switch_to has already handed sscratch over to, and those *)
(* of a handler in none but that of the task it will never return to.      *)
THEOREM ContextsAreKept == SwitchSpec => []ContextsKept
<1>1. SwitchInv => ContextsKept
  BY DEF SwitchInv, BootContext
<1>2. QED
  BY <1>1, SwitchInvariant, PTL

(* prepare_next_task never takes a task from an empty queue: the idle task *)
(* is current or waiting.                                                  *)
THEOREM IdleTaskKept == SwitchSpec => []IdleKept
<1>1. SwitchInv => IdleKept
  BY DEF SwitchInv
<1>2. QED
  BY <1>1, SwitchInvariant, PTL
=============================================================================
