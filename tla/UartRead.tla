------------------------------ MODULE UartRead ------------------------------
(***************************************************************************)
(* Reading characters: the read system call (syslib/syscall.rs) and the    *)
(* UART receive interrupt (trap/interrupts/service/uart_service.rs), on    *)
(* top of the scheduler.                                                   *)
(*                                                                         *)
(* A reader that finds no character puts itself on the wait queue and      *)
(* blocks, with a time limit (a heap entry as well) or without one.  The   *)
(* receive interrupt hands its character to the waiter at the back of the  *)
(* queue, or buffers it.  A time limit that expires leaves the waiter on   *)
(* the queue; a character that comes first leaves the entry in the heap.   *)
(*                                                                         *)
(* Characters are numbered in the order of their arrival, so that a        *)
(* property can tell which one a task got.                                 *)
(***************************************************************************)
EXTENDS Scheduler

CONSTANTS
    BufferSize,     \* capacity of receive_buffer: 4096 in the code
    MaxChars,       \* bound: characters that arrive
    MaxWaiters,     \* bound: length of wait_queue, which the code lets grow
    MAX             \* usize::MAX: "no time limit" as an argument, "no
                    \* character" as a result

ASSUME UartAssumption ==
    /\ BufferSize \in Nat \ {0}
    /\ MaxChars \in Nat
    /\ MaxWaiters \in Nat
    /\ MAX \notin Nat

VARIABLES
    receive_buffer,
    wait_queue,
    a0,             \* register a0 in the context of every task
    arrived,        \* characters that have arrived
    call            \* auxiliary: the call each task is in, or was last in

uart     == <<receive_buffer, wait_queue, arrived>>
uartVars == <<vars, uart, a0, call>>

(* Result of a task that has read nothing, or whose a0 is an argument *)
NoChar  == 0
Chars   == 1 .. MaxChars

UartInit ==
    /\ Init
    /\ receive_buffer = << >>
    /\ wait_queue = << >>
    /\ a0 = [t \in TaskIds |-> NoChar]
    /\ arrived = 0
    /\ call = [t \in TaskIds |-> "none"]

----------------------------------------------------------------------------
(* The receive interrupt *)

wake_up_task_with_result_bug_queue_front(t, c) ==
    /\ IF status[t] = "Blocked"
       THEN /\ status' = [status EXCEPT ![t] = "Ready"]
            /\ ready_queue' = <<t>> \o ready_queue
            /\ a0' = [a0 EXCEPT ![t] = c]
       ELSE UNCHANGED <<status, ready_queue, a0>>
    /\ UNCHANGED <<mode, stack, free_blocks, current_task_id, zombie_queue,
                   blocked_queue, time>>

(* The task gets the character if it is blocked; otherwise the character   *)
(* is gone.                                                                *)
wake_up_task_with_result(t, c) ==
    /\ wake_up_task(t)
    /\ a0' = IF status[t] = "Blocked" THEN [a0 EXCEPT ![t] = c] ELSE a0

pop_waiter_bug_empties_queue == wait_queue' = << >>

(* A waiter is taken from the back of the queue, where uart_read puts it.  *)
pop_waiter == wait_queue' = SubSeq(wait_queue, 1, Len(wait_queue) - 1)

(* receive_buffer.push; the error of a full buffer is ignored. *)
push(c) ==
    receive_buffer' = IF Len(receive_buffer) = BufferSize THEN receive_buffer
                      ELSE Append(receive_buffer, c)

(* uart_interrupt_handler with RX_AVAILABLE and a character below 0x80 *)
uart_receive(c) ==
    IF wait_queue # << >>
    THEN /\ pop_waiter
         /\ wake_up_task_with_result(wait_queue[Len(wait_queue)], c)
         /\ UNCHANGED receive_buffer
    ELSE /\ push(c)
         /\ UNCHANGED <<vars, wait_queue, a0>>

(* trap_handler on SupervisorExternalInterrupt: the current task goes on.  *)
(* Interrupts that change nothing here (spurious, line status, a character *)
(* from 0x80 on) are left out.                                             *)
external_interrupt ==
    /\ mode = "run"
    /\ arrived < MaxChars
    /\ arrived' = arrived + 1
    /\ uart_receive(arrived + 1)
    /\ UNCHANGED call

----------------------------------------------------------------------------
(* The read system call *)

pop_to_a0_bug_newest(cur) ==
    /\ a0' = [a0 EXCEPT ![cur] = receive_buffer[Len(receive_buffer)]]
    /\ receive_buffer' = SubSeq(receive_buffer, 1, Len(receive_buffer) - 1)
    /\ UNCHANGED <<vars, wait_queue>>

(* receive_buffer.pop() into a0 *)
pop_to_a0(cur) ==
    /\ a0' = [a0 EXCEPT ![cur] = Head(receive_buffer)]
    /\ receive_buffer' = Tail(receive_buffer)
    /\ UNCHANGED <<vars, wait_queue>>

uart_read_ready == receive_buffer # << >> /\ pop_to_a0(current_task_id)

(* A time limit of 0: no character, no waiting *)
uart_read_poll ==
    /\ receive_buffer = << >>
    /\ a0' = [a0 EXCEPT ![current_task_id] = MAX]
    /\ UNCHANGED <<vars, receive_buffer, wait_queue>>

uart_read_wait_bug_unchecked(wait) ==
    /\ Len(wait_queue) < MaxWaiters
    /\ wait_queue' = Append(wait_queue, current_task_id)
    /\ a0' = [a0 EXCEPT ![current_task_id] = MAX]
    /\ wait
    /\ UNCHANGED receive_buffer

(* No character: join the wait queue and wait.  The code looks into the    *)
(* buffer once more after joining; interrupts are off, so it is as empty   *)
(* as before.                                                              *)
uart_read_wait(wait) ==
    /\ receive_buffer = << >>
    /\ Len(wait_queue) < MaxWaiters
    /\ wait_queue' = Append(wait_queue, current_task_id)
    /\ a0' = [a0 EXCEPT ![current_task_id] = MAX]
    /\ wait
    /\ UNCHANGED receive_buffer

(* syscall 27 with a time limit of ms milliseconds, 0 or MAX.  (The entry  *)
(* of a wrapped time limit may be in the past.)                            *)
uart_read(ms) ==
    /\ in_user_task
    /\ \/ uart_read_ready
       \/ ms = 0 /\ uart_read_poll
       \/ /\ ms \in Nat \ {0}
          /\ uart_read_wait(set_current_task_sleep(wake_time_after(ms)))
       \/ ms = MAX /\ uart_read_wait(block_current_task)
    /\ call' = [call EXCEPT ![current_task_id] = IF ms = MAX THEN "read" ELSE "timed read"]
    /\ UNCHANGED arrived

----------------------------------------------------------------------------
(* The other steps of the scheduler *)

(* sleep returns with its argument still in a0. *)
sleep_call ==
    /\ \E ms \in Millis : sleep(ms)
    /\ a0' = [a0 EXCEPT ![current_task_id] = NoChar]
    /\ call' = [call EXCEPT ![current_task_id] = "sleep"]
    /\ UNCHANGED uart

(* A new task starts with the address of its closure in a0. *)
spawn_call ==
    /\ init \/ spawn_boot_task \/ spawn_late
    /\ a0' = [t \in TaskIds |-> IF status'[t] # status[t] THEN NoChar ELSE a0[t]]
    /\ call' = [t \in TaskIds |-> IF status'[t] # status[t] THEN "none" ELSE call[t]]
    /\ UNCHANGED uart

other_step ==
    /\ \/ run_scheduler
       \/ tick
       \/ timer_interrupt
       \/ schedule
       \/ exit
       \/ system_quit
       \/ stopped
    /\ UNCHANGED <<uart, a0, call>>

UartNext ==
    \/ external_interrupt
    \/ \E ms \in Millis \cup {0, MAX} : uart_read(ms)
    \/ sleep_call
    \/ spawn_call
    \/ other_step

UartSpec == UartInit /\ [][UartNext]_uartVars

(* The boot path runs on, time passes, and a timer interrupt that is due   *)
(* is taken: the hart delivers it whenever a task runs.  Nothing is        *)
(* assumed of the tasks' calls or of the characters.                       *)
UartFairSpec ==
    /\ UartSpec
    /\ WF_uartVars(spawn_call)
    /\ WF_uartVars(run_scheduler /\ UNCHANGED <<uart, a0, call>>)
    /\ WF_uartVars(tick /\ UNCHANGED <<uart, a0, call>>)
    /\ WF_uartVars(timer_interrupt /\ UNCHANGED <<uart, a0, call>>)

----------------------------------------------------------------------------
(* Properties *)

(* Characters are kept only while nobody waits: uart_read joins the wait   *)
(* queue only when the buffer is empty, and the receive interrupt buffers  *)
(* only when the queue is.                                                 *)
NoCharBesideWaiter == receive_buffer # << >> => wait_queue = << >>

(* No lost wake-up: a task blocked in a read without a time limit is on    *)
(* the wait queue, where the next characters find it, whatever stale       *)
(* entries are there too.                                                  *)
BlockedReaderQueued ==
    \A t \in TaskIds : status[t] = "Blocked" /\ call[t] = "read" =>
        t \in Range(wait_queue)

(* Characters reach the tasks in the order they arrive, through the buffer *)
(* or directly: a task never gets one that is older than one already got.  *)
DeliveredInOrder ==
    [][\A t, u \in TaskIds :
           a0'[t] # a0[t] /\ a0'[t] \in Chars /\ a0[u] \in Chars =>
               a0[u] < a0'[t]]_uartVars

(* A read without a time limit returns a character: "-1 (usize::MAX)       *)
(* stands for blocking without limit" (uart_read).                         *)
UnlimitedReadGetsChar ==
    [][\A t \in TaskIds :
           call[t] = "read" /\ status[t] = "Blocked" /\ status'[t] # "Blocked" =>
               a0'[t] \in Chars]_uartVars

(* The calls of the UART code are calls the scheduler allows. *)
ImplementsScheduler == Spec
=============================================================================
