----------------------------- MODULE Scheduler -----------------------------
(***************************************************************************)
(* The task scheduler of the kernel (task/scheduler.rs) with the traps     *)
(* that drive it: the timer interrupt and the schedule, exit, sleep and    *)
(* quit system calls (trap/mod.rs, syslib/syscall.rs).                     *)
(*                                                                         *)
(* The kernel runs on one hart.  A trap handler runs with sstatus.SIE = 0  *)
(* from trap_entry to sret, so every handler is one action.  A task is     *)
(* interrupted between any two of its instructions.                        *)
(*                                                                         *)
(* block_current_task and wake_up_task_with_result are called by the UART  *)
(* code.  Here their callers are left open: the current task may block and *)
(* any task may be woken.  Module UartRead supplies the real callers and   *)
(* implements this specification.                                          *)
(*                                                                         *)
(* A definition named X_bug_... is X with a plausible mistake.  No other   *)
(* definition uses it: it shows that a property can tell the two apart.    *)
(***************************************************************************)
EXTENDS Integers, Sequences, FiniteSetsExt, Functions

CONSTANTS
    NumTasks,       \* tasks the boot path spawns after the idle task
    MaxTasks,       \* bound: slots of task_list, which the code lets grow
    StackBlocks,    \* blocks of memory that can hold a stack
    NoStack,        \* the stack of an empty slot
    Millis,         \* arguments of the sleep system call
    ONE_MS_CYCLES,  \* timer cycles in a millisecond
    TEN_MS_CYCLES,  \* the scheduling quantum
    Word,           \* size of usize: 2^64 in the code
    MaxTime,        \* bound: the clock stops here
    MaxEntries,     \* bound: entries of the sleep heap
    LateSpawn       \* is spawn also called after boot?

TaskIds == 0 .. MaxTasks - 1
Idle    == 0
NoTask  == -1

ASSUME ConstantsAssumption ==
    /\ NumTasks \in Nat
    /\ MaxTasks \in Nat
    /\ NumTasks < MaxTasks
    /\ NoStack \notin StackBlocks
    /\ Millis \subseteq Nat
    /\ ONE_MS_CYCLES \in Nat
    /\ TEN_MS_CYCLES \in Nat
    /\ Word \in Nat \ {0}
    /\ MaxTime \in Nat
    /\ MaxEntries \in Nat
    /\ LateSpawn \in BOOLEAN

VARIABLES
    mode,             \* "init", "spawn", "run", "off", "oom" or "panic"
    status,           \* task_list[t].status, or "None" for an empty slot
    stack,            \* task_list[t].stack_base
    free_blocks,      \* stacks the buddy allocator holds
    current_task_id,
    ready_queue,
    zombie_queue,     \* a Vec used as a stack: its end is popped first
    blocked_queue,    \* the heap of SleepEntry
    now,              \* the time CSR
    next_tick         \* the time the timer is set to

tasks == <<status, stack, free_blocks>>
time  == <<now, next_tick>>
vars  == <<mode, tasks, current_task_id, ready_queue, zombie_queue,
           blocked_queue, time>>

SleepEntry == [wake_time : 0 .. Word - 1, task_id : TaskIds]

TypeOK ==
    /\ mode \in {"init", "spawn", "run", "off", "oom", "panic"}
    /\ status \in [TaskIds -> {"None", "Ready", "Running", "Blocked", "Terminated"}]
    /\ stack \in [TaskIds -> StackBlocks \cup {NoStack}]
    /\ free_blocks \subseteq StackBlocks
    /\ current_task_id \in TaskIds \cup {NoTask}
    /\ ready_queue \in Seq(TaskIds)
    /\ zombie_queue \in Seq(TaskIds)
    /\ blocked_queue \subseteq SleepEntry
    /\ now \in Nat
    /\ next_tick \in Nat

(* Scheduler::new.  How much memory the boot path left is not known. *)
Init ==
    /\ mode = "init"
    /\ status = [t \in TaskIds |-> "None"]
    /\ stack = [t \in TaskIds |-> NoStack]
    /\ free_blocks \in SUBSET StackBlocks
    /\ current_task_id = NoTask
    /\ ready_queue = << >>
    /\ zombie_queue = << >>
    /\ blocked_queue = {}
    /\ now = 0
    /\ next_tick = 0

----------------------------------------------------------------------------
(* Time *)

(* rdtime: the clock runs by itself. *)
tick ==
    /\ now < MaxTime
    /\ now' = now + 1
    /\ UNCHANGED <<mode, tasks, current_task_id, ready_queue, zombie_queue,
                   blocked_queue, next_tick>>

(* A timer set past MaxTime fires at MaxTime, where the clock stops. *)
set_next_timer_tick ==
    /\ next_tick' = IF now + TEN_MS_CYCLES < MaxTime
                    THEN now + TEN_MS_CYCLES
                    ELSE MaxTime
    /\ UNCHANGED now

wake_time_after_bug_no_wrap(ms) == now + ms * ONE_MS_CYCLES

(* The time ms milliseconds from now, as the code adds it up in a usize *)
wake_time_after(ms) == (now + ms * ONE_MS_CYCLES) % Word

----------------------------------------------------------------------------
(* Creating tasks *)

spawn_bug_block_stays_free ==
    \E id \in TaskIds, block \in free_blocks :
        /\ status[id] = "None"
        /\ \A j \in 0 .. id - 1 : status[j] # "None"
        /\ status' = [status EXCEPT ![id] = "Ready"]
        /\ stack' = [stack EXCEPT ![id] = block]
        /\ ready_queue' = Append(ready_queue, id)
        /\ UNCHANGED <<free_blocks, current_task_id, zombie_queue,
                       blocked_queue, time>>

(* Scheduler::spawn, when the stack can be allocated: the new task takes   *)
(* the first empty slot.                                                   *)
spawn ==
    \E id \in TaskIds, block \in free_blocks :
        /\ status[id] = "None"
        /\ \A j \in 0 .. id - 1 : status[j] # "None"
        /\ status' = [status EXCEPT ![id] = "Ready"]
        /\ stack' = [stack EXCEPT ![id] = block]
        /\ free_blocks' = free_blocks \ {block}
        /\ ready_queue' = Append(ready_queue, id)
        /\ UNCHANGED <<current_task_id, zombie_queue, blocked_queue, time>>

(* Scheduler::spawn, when it cannot: Err, with nothing changed *)
spawn_err ==
    /\ free_blocks = {}
    /\ UNCHANGED <<tasks, current_task_id, ready_queue, zombie_queue,
                   blocked_queue, time>>

(* Scheduler::init, whose result virt_rust_main ignores *)
init ==
    /\ mode = "init"
    /\ mode' = "spawn"
    /\ spawn \/ spawn_err

(* The boot path spawns its tasks and expects every spawn to succeed. *)
spawn_boot_task ==
    /\ mode = "spawn"
    /\ status[NumTasks] = "None"
    /\ \/ spawn /\ UNCHANGED mode
       \/ spawn_err /\ mode' = "oom"

spawn_late ==
    /\ mode = "run"
    /\ LateSpawn
    /\ spawn
    /\ UNCHANGED mode

----------------------------------------------------------------------------
(* Choosing the next task *)

(* The task the code picks from the ready queue and what it leaves there:  *)
(* the idle task is passed over, to the back, while another is ready.      *)
passes_over_idle_bug_never(rq) == FALSE
passes_over_idle(rq) == Len(rq) > 1 /\ Head(rq) = Idle
next_task(rq) ==
    IF passes_over_idle(rq) THEN Head(Tail(rq))
    ELSE IF rq = << >> THEN Idle
    ELSE Head(rq)
remaining(rq) ==
    IF passes_over_idle(rq) THEN Append(Tail(Tail(rq)), Idle)
    ELSE IF rq = << >> THEN << >>
    ELSE Tail(rq)

(* The end of prepare_next_task, set_current_task_sleep and                *)
(* block_current_task: run the next task.  An empty slot is a panic.       *)
dispatch(st, rq) ==
    LET next == next_task(rq) IN
    /\ ready_queue' = remaining(rq)
    /\ \/ /\ st[next] # "None"
          /\ mode' = "run"
          /\ status' = [st EXCEPT ![next] = "Running"]
          /\ current_task_id' = next
       \/ /\ st[next] = "None"
          /\ mode' = "panic"
          /\ status' = st
          /\ UNCHANGED current_task_id

zombies_kept_bug_frees_current(zq) == 0
zombies_kept_bug_one_at_a_time(zq) ==
    IF zq = << >> THEN 0
    ELSE IF zq[Len(zq)] = current_task_id THEN Len(zq)
    ELSE Len(zq) - 1

(* How many zombies the reclaiming loop leaves: it pops from the end and   *)
(* stops at the current task, whose stack the handler is running on.       *)
zombies_kept(zq) == Max({0} \cup {i \in 1 .. Len(zq) : zq[i] = current_task_id})
reclaimed(zq)    == {zq[i] : i \in zombies_kept(zq) + 1 .. Len(zq)}

(* ready_queue.retain: drop the tasks in S *)
retain(rq, S) ==
    IF Range(rq) \cap S = {} THEN rq ELSE SelectSeq(rq, LAMBDA t : t \notin S)

requeue_bug_front(rq, t) == <<t>> \o rq

(* A preempted task goes to the back of the ready queue. *)
requeue(rq, t) == Append(rq, t)

free_reclaimed_bug_leak(dead) == UNCHANGED free_blocks

(* The stacks of the reclaimed tasks go back to the buddy allocator. *)
free_reclaimed(dead) ==
    free_blocks' = free_blocks \cup ({stack[t] : t \in dead} \ {NoStack})

(* Scheduler::prepare_next_task, from the given statuses and queues *)
prepare_next_task(st, rq, zq) ==
    LET dead == reclaimed(zq)
        cur  == current_task_id
        preempted == cur # NoTask /\ cur \notin dead /\ st[cur] = "Running"
        st1  == [t \in TaskIds |->
                    IF t \in dead THEN "None"
                    ELSE IF preempted /\ t = cur THEN "Ready"
                    ELSE st[t]]
        rq1  == retain(rq, dead)
    IN  /\ zombie_queue' = SubSeq(zq, 1, zombies_kept(zq))
        /\ stack' = [t \in TaskIds |-> IF t \in dead THEN NoStack ELSE stack[t]]
        /\ free_reclaimed(dead)
        /\ dispatch(st1, IF preempted THEN requeue(rq1, cur) ELSE rq1)

(* The boot path starts the timer and runs the first task. *)
run_scheduler ==
    /\ mode = "spawn"
    /\ status[NumTasks] # "None"
    /\ set_next_timer_tick
    /\ prepare_next_task(status, ready_queue, zombie_queue)
    /\ UNCHANGED blocked_queue

----------------------------------------------------------------------------
(* The timer interrupt *)

due_entries == {e \in blocked_queue : e.wake_time <= now}

wakeable_bug_wrong_status ==
    {t \in TaskIds : status[t] = "Ready" /\ \E e \in due_entries : e.task_id = t}

wakeable_bug_ready_too ==
    {t \in TaskIds : status[t] \in {"Blocked", "Ready"} /\ \E e \in due_entries : e.task_id = t}

(* finish_sleep pops the due entries in the order of SleepEntry and makes  *)
(* ready the tasks that are Blocked when their first due entry is popped.  *)
wakeable == {t \in TaskIds :
                status[t] = "Blocked" /\ \E e \in due_entries : e.task_id = t}
wakes_before(t, u) ==
    \E e \in due_entries :
        /\ e.task_id = t
        /\ \A f \in due_entries : f.task_id = u =>
               \/ e.wake_time < f.wake_time
               \/ e.wake_time = f.wake_time /\ t < u
wake_orders ==
    {q \in [1 .. Cardinality(wakeable) -> wakeable] :
        /\ Range(q) = wakeable
        /\ \A i, j \in DOMAIN q : i < j => wakes_before(q[i], q[j])}

(* trap_handler on SupervisorTimerInterrupt: finish_sleep, the next tick,  *)
(* schedule_on_interrupt.                                                  *)
timer_interrupt ==
    /\ mode = "run"
    /\ now >= next_tick
    /\ set_next_timer_tick
    /\ blocked_queue' = blocked_queue \ due_entries
    /\ \E woken \in wake_orders :
           prepare_next_task(
               [t \in TaskIds |-> IF t \in wakeable THEN "Ready" ELSE status[t]],
               ready_queue \o woken,
               zombie_queue)

----------------------------------------------------------------------------
(* System calls of the current task.  The idle task makes none. *)

in_user_task_bug_idle_too == mode = "run"
in_user_task == mode = "run" /\ current_task_id # Idle

(* syscall 7 *)
schedule ==
    /\ in_user_task
    /\ prepare_next_task(status, ready_queue, zombie_queue)
    /\ UNCHANGED <<blocked_queue, time>>

exit_bug_no_zombie ==
    /\ in_user_task
    /\ prepare_next_task([status EXCEPT ![current_task_id] = "Terminated"],
                         ready_queue, zombie_queue)
    /\ UNCHANGED <<blocked_queue, time>>

(* syscall 9: exit_current_task, then schedule.  The trampoline makes it   *)
(* when the task's function returns.                                       *)
exit ==
    /\ in_user_task
    /\ prepare_next_task([status EXCEPT ![current_task_id] = "Terminated"],
                         ready_queue,
                         Append(zombie_queue, current_task_id))
    /\ UNCHANGED <<blocked_queue, time>>

(* Scheduler::set_current_task_sleep.  The heap is a set: two equal        *)
(* entries are popped one after the other and the second changes nothing.  *)
set_current_task_sleep(wake_time) ==
    /\ status[current_task_id] = "Running"
    /\ Cardinality(blocked_queue) < MaxEntries
    /\ blocked_queue' = blocked_queue \cup
           {[wake_time |-> wake_time, task_id |-> current_task_id]}
    /\ dispatch([status EXCEPT ![current_task_id] = "Blocked"], ready_queue)
    /\ UNCHANGED <<stack, free_blocks, zombie_queue, time>>

(* syscall 17 *)
sleep(ms) == in_user_task /\ set_current_task_sleep(wake_time_after(ms))

(* syscall 10: the machine is shut down. *)
system_quit ==
    /\ in_user_task
    /\ mode' = "off"
    /\ UNCHANGED <<tasks, current_task_id, ready_queue, zombie_queue,
                   blocked_queue, time>>

block_current_task_bug_keeps_running ==
    /\ dispatch(status, ready_queue)
    /\ UNCHANGED <<stack, free_blocks, zombie_queue, blocked_queue, time>>

(* Scheduler::block_current_task *)
block_current_task ==
    /\ status[current_task_id] = "Running"
    /\ dispatch([status EXCEPT ![current_task_id] = "Blocked"], ready_queue)
    /\ UNCHANGED <<stack, free_blocks, zombie_queue, blocked_queue, time>>

(* Scheduler::wake_up_task_with_result; set_task_ready changes the same    *)
(* state.                                                                  *)
wake_up_task(t) ==
    /\ IF status[t] = "Blocked"
       THEN /\ status' = [status EXCEPT ![t] = "Ready"]
            /\ ready_queue' = Append(ready_queue, t)
       ELSE UNCHANGED <<status, ready_queue>>
    /\ UNCHANGED <<mode, stack, free_blocks, current_task_id, zombie_queue,
                   blocked_queue, time>>

(* The calls the UART code makes *)
block == in_user_task /\ block_current_task
wake(t) == mode = "run" /\ wake_up_task(t)

----------------------------------------------------------------------------
(* A machine that is shut down, or whose boot ran out of memory, stays so. *)
halted  == mode \in {"off", "oom"}
stopped == halted /\ UNCHANGED vars

Next ==
    \/ init
    \/ spawn_boot_task
    \/ run_scheduler
    \/ spawn_late
    \/ tick
    \/ timer_interrupt
    \/ schedule
    \/ exit
    \/ \E ms \in Millis : sleep(ms)
    \/ system_quit
    \/ block
    \/ \E t \in TaskIds : wake(t)
    \/ stopped

Spec == Init /\ [][Next]_vars

----------------------------------------------------------------------------
(* Properties *)

Distinct(q) == \A i, j \in 1 .. Len(q) : q[i] = q[j] => i = j

(* The ready queue holds exactly the Ready tasks, each once, whatever      *)
(* mixture of timer wake-ups, character wake-ups and reclaiming filled it: *)
(* a task is never queued twice and never Ready without being queued.      *)
ReadyQueueExact ==
    /\ Range(ready_queue) = {t \in TaskIds : status[t] = "Ready"}
    /\ Distinct(ready_queue)

(* While the machine runs the current task, and no other, is Running.      *)
(* set_current_task_sleep and block_current_task reach unreachable!() when *)
(* it is not, and get_current_task_id unwraps it.                          *)
OneRunning ==
    mode = "run" =>
        \A t \in TaskIds : status[t] = "Running" <=> t = current_task_id

(* task_list[next_id].expect("next task missing") never fails, though      *)
(* next_id may be the default 0 of an empty ready queue.                   *)
NextTaskPresent == mode # "panic"

(* A stack is held by one slot at most, and no free one is held: spawn     *)
(* never hands out a stack that a task, even an exited one, still has.     *)
StacksExclusive ==
    /\ \A t \in TaskIds :
           IF status[t] = "None" THEN stack[t] = NoStack
           ELSE stack[t] \in StackBlocks \ free_blocks
    /\ \A t, u \in TaskIds : stack[t] = stack[u] /\ stack[t] # NoStack => t = u

(* The zombie queue holds exactly the Terminated tasks, each once, so      *)
(* every exited task will be reclaimed and no other ever is.               *)
ZombiesExact ==
    /\ Range(zombie_queue) = {t \in TaskIds : status[t] = "Terminated"}
    /\ Distinct(zombie_queue)

(* No step loses a stack: what spawn takes from the buddy allocator is in  *)
(* a slot until reclaiming gives it back.                                  *)
held_blocks == {stack[t] : t \in TaskIds} \ {NoStack}
StacksConserved ==
    [][free_blocks' \cup held_blocks' = free_blocks \cup held_blocks]_vars

(* No step frees the stack of the task that was running when the trap was  *)
(* taken: the handler keeps using that stack until sret, even for exit.    *)
CurrentStackKept ==
    [][current_task_id # NoTask =>
           stack[current_task_id] \notin free_blocks']_vars

(* Every zombie is reclaimed at the latest by the next timer interrupt.    *)
TimerReclaimsZombies == [][timer_interrupt => zombie_queue' = << >>]_vars

(* The idle task gets the hart only when no other task is ready. *)
IdleOnlyWhenNothingReady ==
    [][current_task_id' = Idle /\ current_task_id # Idle =>
           ready_queue' = << >>]_vars

(* Round robin: a ready task other than idle runs in the end. *)
NoStarvation ==
    \A t \in TaskIds \ {Idle} :
        status[t] = "Ready" ~> status[t] = "Running" \/ halted

(* A sleeping task is woken in the end: its heap entry outlives every      *)
(* other wake-up.                                                          *)
SleepersWake ==
    \A t \in TaskIds \ {Idle} :
        (\E e \in blocked_queue : e.task_id = t /\ e.wake_time <= MaxTime)
            ~> (status[t] # "Blocked" \/ halted)
=============================================================================
