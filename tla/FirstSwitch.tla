---------------------------- MODULE FirstSwitch ----------------------------
(***************************************************************************)
(* From the boot path to the tasks: the end of virt_rust_main,             *)
(* run_scheduler and first_switch_to (main.rs, task/scheduler.rs,          *)
(* task/switch.rs), instruction by instruction where interrupts are        *)
(* enabled, with the timer interrupt and the way trap_entry saves and      *)
(* restores registers and privilege (trap/mod.rs).                         *)
(*                                                                         *)
(* The tasks are those the boot path spawned; they run, are preempted and  *)
(* may come to the end of their functions.  sstatus.SPP is not part of a   *)
(* task's context: sret returns to the privilege the trap came from.       *)
(*                                                                         *)
(* The final page table maps no page with U, and no device at its physical *)
(* address, which is where the handlers use it: a hart in U-mode faults at *)
(* its next fetch, and so does a handler that prints or asks the PLIC.     *)
(***************************************************************************)
EXTENDS Naturals, Sequences

CONSTANTS
    Tasks,          \* the tasks, in the order they were spawned: idle first
    NoTask,
    InitContext     \* KERNEL_INIT_CONTEXT

TaskSet == {Tasks[i] : i \in 1 .. Len(Tasks)}

ASSUME TasksAssumption ==
    /\ Tasks \in Seq(TaskSet) /\ Tasks # << >>
    /\ NoTask \notin TaskSet /\ InitContext \notin TaskSet

VARIABLES
    at,             \* the next step of the boot path
    who,            \* what the hart executes: "boot", "task", "lost" (code
                    \* that is not the task's own), "stuck" (a handler that
                    \* waits for the scheduler's lock), "faulted" (a handler
                    \* that faults again and again) or "off" (nothing, after
                    \* system_reset)
    priv,           \* privilege: "S" or "U"
    sie,            \* sstatus.SIE
    spp,            \* sstatus.SPP
    locked,         \* the spin lock of SCHEDULER
    current_task_id,
    ready_queue,
    next_ctx,       \* a0 of first_switch_to
    sscratch,       \* the context the next trap saves to
    sepc,           \* what the CSR sepc points to
    context         \* what each context holds: "entry" (the trampoline),
                    \* or the registers of "task", "boot", "lost" or a
                    \* "handler" that faulted

csrs       == <<priv, sie, spp, sscratch, sepc>>
switchVars == <<at, who, csrs, locked, current_task_id, ready_queue, next_ctx, context>>

(* The tasks are spawned and sscratch points to KERNEL_INIT_CONTEXT. *)
SwitchInit ==
    /\ at = "timer" /\ who = "boot"
    /\ priv = "S" /\ spp = "S" /\ sie = FALSE /\ locked = FALSE
    /\ current_task_id = NoTask /\ next_ctx = NoTask
    /\ ready_queue = Tasks
    /\ sscratch = InitContext
    /\ sepc = "boot"
    /\ context = [c \in TaskSet \cup {InitContext} |-> IF c = InitContext THEN "boot" ELSE "entry"]

(* prepare_next_task, for tasks that are ready or running: the idle task   *)
(* is passed over while there is another.                                  *)
requeued_bug_front == IF current_task_id = NoTask THEN ready_queue
                      ELSE <<current_task_id>> \o ready_queue
requeued == IF current_task_id = NoTask THEN ready_queue
            ELSE Append(ready_queue, current_task_id)
prepare_next_task(rq) ==
    IF Head(rq) = Tasks[1] /\ Len(rq) > 1
    THEN /\ current_task_id' = rq[2]
         /\ ready_queue' = Append(Tail(Tail(rq)), Tasks[1])
    ELSE /\ current_task_id' = Head(rq)
         /\ ready_queue' = Tail(rq)

----------------------------------------------------------------------------
(* The boot path *)

step(from, to) == who = "boot" /\ at = from /\ at' = to

set_next_timer_tick ==
    /\ step("timer", "enable")
    /\ UNCHANGED <<who, csrs, locked, current_task_id, ready_queue, next_ctx, context>>

init_supervisor_interrupts ==
    /\ step("enable", "lock")
    /\ sie' = TRUE
    /\ UNCHANGED <<who, priv, spp, sscratch, sepc, locked, current_task_id,
                   ready_queue, next_ctx, context>>

run_scheduler_bug_early_sscratch ==
    /\ step("lock", "restore")
    /\ sie' = FALSE
    /\ locked' = TRUE
    /\ prepare_next_task(requeued)
    /\ next_ctx' = current_task_id'
    /\ sscratch' = current_task_id'
    /\ UNCHANGED <<who, priv, spp, sepc, context>>

(* SCHEDULER.lock() and prepare_next_task, with interrupts off *)
run_scheduler ==
    /\ step("lock", "restore")
    /\ sie' = FALSE
    /\ locked' = TRUE
    /\ prepare_next_task(requeued)
    /\ next_ctx' = current_task_id'
    /\ UNCHANGED <<who, priv, spp, sscratch, sepc, context>>

(* The drop of the guard: first restore_interrupts, then the spin lock *)
restore_interrupts ==
    /\ step("restore", "release")
    /\ sie' = TRUE
    /\ UNCHANGED <<who, priv, spp, sscratch, sepc, locked, current_task_id,
                   ready_queue, next_ctx, context>>

release ==
    /\ step("release", "sscratch")
    /\ locked' = FALSE
    /\ UNCHANGED <<who, csrs, current_task_id, ready_queue, next_ctx, context>>

csrw_sscratch ==
    /\ step("sscratch", "sepc")
    /\ sscratch' = next_ctx
    /\ UNCHANGED <<who, priv, sie, spp, sepc, locked, current_task_id,
                   ready_queue, next_ctx, context>>

csrw_sepc ==
    /\ step("sepc", "spp")
    /\ sepc' = context[next_ctx]
    /\ UNCHANGED <<who, priv, sie, spp, sscratch, locked, current_task_id,
                   ready_queue, next_ctx, context>>

csrc_spp ==
    /\ step("spp", "sret")
    /\ spp' = "U"
    /\ UNCHANGED <<who, priv, sie, sscratch, sepc, locked, current_task_id,
                   ready_queue, next_ctx, context>>

(* The registers are loaded from next_ctx; sret jumps to sepc. *)
sret ==
    /\ who = "boot" /\ at = "sret"
    /\ who' = IF sepc = "entry" THEN "task" ELSE "lost"
    /\ priv' = spp
    /\ spp' = "U"
    /\ UNCHANGED <<at, sie, sscratch, sepc, locked, current_task_id,
                   ready_queue, next_ctx, context>>

----------------------------------------------------------------------------
(* Traps *)

(* What the hart executes with the registers of a context *)
resumed(kind) == IF kind = "entry" THEN "task" ELSE kind

(* trap_entry saves the registers to the context sscratch points to. *)
trap_entry_saves == context' = [context EXCEPT ![sscratch] = who]

switch_context_bug_keeps_sscratch == UNCHANGED sscratch

(* csrw sscratch, next_ctx_ptr *)
switch_context == sscratch' = current_task_id'

(* S-mode interrupts are always enabled in U-mode. *)
interruptible == who \in {"boot", "task", "lost"} /\ (priv = "U" \/ sie)

(* The end of a trap that found the lock free: SPP went to the privilege   *)
(* of the trap and sret takes it back from there; sepc is what was         *)
(* resumed.                                                                *)
return_from_trap ==
    /\ who' = resumed(context'[sscratch'])
    /\ sepc' = context'[sscratch']
    /\ spp' = "U"
    /\ UNCHANGED <<at, priv, sie, locked, next_ctx>>

timer_interrupt ==
    /\ interruptible
    /\ ~locked
    /\ trap_entry_saves
    /\ prepare_next_task(requeued)
    /\ switch_context
    /\ return_from_trap

(* finish_sleep finds the lock taken by the code it interrupted, and waits *)
(* for good.                                                               *)
timer_interrupt_locked ==
    /\ interruptible
    /\ locked
    /\ who' = "stuck"
    /\ spp' = priv
    /\ sie' = FALSE
    /\ trap_entry_saves
    /\ UNCHANGED <<at, priv, sscratch, sepc, locked, current_task_id,
                   ready_queue, next_ctx>>

(* A handler uses a device at its physical address, which is not mapped:   *)
(* an unknown exception, whose handler prints through the UART and faults  *)
(* in the same way, for good.  Each of these traps saves the registers of  *)
(* the handler before it to the same context.                              *)
handler_faults ==
    /\ who' = "faulted"
    /\ priv' = "S" /\ spp' = "S" /\ sie' = FALSE
    /\ sepc' = "handler"
    /\ context' = [context EXCEPT ![sscratch] = "handler"]
    /\ UNCHANGED <<at, locked, current_task_id, ready_queue, next_ctx, sscratch>>

(* An external interrupt: plic_handler reads the claim register. *)
external_interrupt == interruptible /\ handler_faults

(* The text is mapped R and X, without U. *)
fetch_faults == priv = "U"

(* The exception that a fetch in U-mode ends in; an interrupt that is      *)
(* pending comes first.                                                    *)
instruction_page_fault ==
    /\ who \in {"task", "lost"}
    /\ fetch_faults
    /\ handler_faults

(* A task in S-mode returns to trampoline.  The ecall of sys_task_exit     *)
(* goes to the firmware, like every system call of a task in S-mode, and   *)
(* comes back to unreachable!(): the panic ends in system_reset.  The idle *)
(* task is a loop.                                                         *)
task_ends ==
    /\ who = "task" /\ ~fetch_faults
    /\ current_task_id # Tasks[1]
    /\ who' = "off"
    /\ UNCHANGED <<at, csrs, locked, current_task_id, ready_queue, next_ctx, context>>

halted == who \in {"stuck", "faulted", "off"}
stays_halted == halted /\ UNCHANGED switchVars

boot_step ==
    \/ set_next_timer_tick
    \/ init_supervisor_interrupts
    \/ run_scheduler
    \/ restore_interrupts
    \/ release
    \/ csrw_sscratch
    \/ csrw_sepc
    \/ csrc_spp
    \/ sret

SwitchNext ==
    \/ boot_step
    \/ timer_interrupt
    \/ timer_interrupt_locked
    \/ external_interrupt
    \/ instruction_page_fault
    \/ task_ends
    \/ stays_halted

(* The hart executes instructions and the timer goes on firing.  A timer   *)
(* interrupt sets the next one 10 ms ahead, so that a boot path which is   *)
(* resumed gets on.                                                        *)
SwitchSpec ==
    /\ SwitchInit
    /\ [][SwitchNext]_switchVars
    /\ SF_switchVars(boot_step)
    /\ WF_switchVars(timer_interrupt \/ timer_interrupt_locked)
    /\ WF_switchVars(instruction_page_fault)

----------------------------------------------------------------------------
(* Properties *)

(* A trap saves the registers of the running task to that task's own       *)
(* context: whenever a task runs, sscratch points to the context of the    *)
(* task the scheduler calls current.                                       *)
ContextOfCurrent == who = "task" => sscratch = current_task_id

(* A task that is not current is resumed where it was: its context holds   *)
(* its own registers, unless the timer hit the boot path after             *)
(* first_switch_to had already handed sscratch over (next_ctx), or the     *)
(* handler that interrupted it never returns.                              *)
ContextsKept ==
    \A t \in TaskSet : context[t] \notin {"entry", "task"} =>
        \/ t = next_ctx /\ at \in {"sepc", "spp", "sret"}
        \/ who = "faulted" /\ t = sscratch

(* The hart executes instructions of task t. *)
executes(t) == who = "task" /\ current_task_id = t /\ ~fetch_faults

(* Every spawned task gets to execute, wherever in the boot path the first *)
(* timer interrupt comes, unless the machine halts: because that interrupt *)
(* came in the drop of the lock's guard, because the hart went to U-mode   *)
(* or took an external interrupt, or because a task came to its end.       *)
EveryTaskStarts ==
    \A t \in TaskSet \ {Tasks[1]} : <>(executes(t) \/ halted)

(* Tasks run in U-mode: first_switch_to will "set sstatus.SPP=0 (U-mode)   *)
(* and prepare sret".                                                      *)
TasksInUserMode == who = "task" => priv = "U"
=============================================================================
