--------------------------- MODULE UartReadProofs ---------------------------
(***************************************************************************)
(* Proofs about reading characters, for every number of tasks, characters  *)
(* and waiters and every capacity of the buffer: the UART code uses the    *)
(* scheduler as Scheduler allows, no wake-up is lost, and characters are   *)
(* delivered in the order of their arrival.                                *)
(***************************************************************************)
EXTENDS UartRead, SchedulerProofs

Calls == {"none", "read", "timed read", "sleep"}

UartTypeOK ==
    /\ receive_buffer \in Seq(Chars)
    /\ wait_queue \in Seq(TaskIds)
    /\ a0 \in [TaskIds -> Chars \cup {NoChar, MAX}]
    /\ arrived \in 0 .. MaxChars
    /\ call \in [TaskIds -> Calls]

(* The buffer holds the characters that came last, in their order: every   *)
(* one in it came after every one that a task has.                         *)
CharsOrdered ==
    /\ \A i \in 1 .. Len(receive_buffer) : receive_buffer[i] <= arrived
    /\ \A i, j \in 1 .. Len(receive_buffer) :
           i < j => receive_buffer[i] < receive_buffer[j]
    /\ \A t \in TaskIds : a0[t] \in Chars =>
           /\ a0[t] <= arrived
           /\ \A i \in 1 .. Len(receive_buffer) : a0[t] < receive_buffer[i]

UartInv ==
    /\ SchedulerInv
    /\ UartTypeOK
    /\ NoCharBesideWaiter
    /\ BlockedReaderQueued
    /\ CharsOrdered

InOrder == \A t, u \in TaskIds :
               a0'[t] # a0[t] /\ a0'[t] \in Chars /\ a0[u] \in Chars => a0[u] < a0'[t]

LEMMA MaxIsNoChar == MAX \notin Nat /\ MAX \notin Chars /\ NoChar \notin Chars /\ MaxChars \in Nat
BY UartAssumption DEF Chars, NoChar

----------------------------------------------------------------------------
(* The scheduler's part of a step *)

(* A system call comes from a Running task. *)
LEMMA CallerRuns ==
    ASSUME SchedulerInv, in_user_task
    PROVE  /\ current_task_id \in TaskIds
           /\ status[current_task_id] = "Running"
           /\ status \in [TaskIds -> Statuses]
BY DEF SchedulerInv, in_user_task, WithStatus, TypeOK, Statuses

(* Every step of the UART code is a step of the scheduler, or none. *)
LEMMA StepImplements ==
    ASSUME SchedulerInv, UartTypeOK, [UartNext]_uartVars
    PROVE  [Next]_vars
<1>1. CASE external_interrupt
  <2>1. CASE wait_queue # << >>
    <3>1. wait_queue[Len(wait_queue)] \in TaskIds
      BY <2>1 DEF UartTypeOK
    <3>2. wake(wait_queue[Len(wait_queue)])
      BY <1>1, <2>1 DEF external_interrupt, uart_receive, wake_up_task_with_result, wake
    <3> QED
      BY <3>1, <3>2 DEF Next
  <2>2. CASE wait_queue = << >>
    BY <1>1, <2>2 DEF external_interrupt, uart_receive
  <2> QED
    BY <2>1, <2>2
<1>2. ASSUME NEW ms \in Millis \cup {0, MAX}, uart_read(ms)
      PROVE  [Next]_vars
  <2>1. CASE uart_read_ready
    BY <2>1 DEF uart_read_ready, pop_to_a0
  <2>2. CASE uart_read_poll
    BY <2>2 DEF uart_read_poll
  <2>3. CASE ms \in Nat \ {0} /\ uart_read_wait(set_current_task_sleep(wake_time_after(ms)))
    <3>1. ms \in Millis
      BY <1>2, <2>3, MaxIsNoChar
    <3>2. sleep(ms)
      BY <1>2, <2>3, Zenon DEF uart_read, uart_read_wait, sleep
    <3> QED
      BY <3>1, <3>2 DEF Next
  <2>4. CASE uart_read_wait(block_current_task)
    BY <1>2, <2>4, Zenon DEF uart_read, uart_read_wait, block, Next
  <2> QED
    BY <1>2, <2>1, <2>2, <2>3, <2>4, Zenon DEF uart_read
<1>3. CASE sleep_call
  BY <1>3 DEF sleep_call, Next
<1>4. CASE spawn_call
  BY <1>4 DEF spawn_call, Next
<1>5. CASE other_step
  BY <1>5 DEF other_step, Next
<1>6. CASE UNCHANGED uartVars
  BY <1>6 DEF uartVars
<1> QED
  BY <1>1, <1>2, <1>3, <1>4, <1>5, <1>6 DEF UartNext

(* Choosing the next task blocks nobody. *)
LEMMA DispatchBlocksNone ==
    ASSUME NEW st \in [TaskIds -> Statuses], NEW rq, dispatch(st, rq), NEW t \in TaskIds,
           status'[t] = "Blocked"
    PROVE  st[t] = "Blocked"
<1> DEFINE next == next_task(rq)
<1>1. status' = st \/ status' = [st EXCEPT ![next] = "Running"]
  BY DEF dispatch
<1> HIDE DEF next
<1> QED
  BY <1>1

LEMMA PrepareBlocksNone ==
    ASSUME NEW st \in [TaskIds -> Statuses], NEW rq, NEW zq, prepare_next_task(st, rq, zq),
           NEW t \in TaskIds, status'[t] = "Blocked"
    PROVE  st[t] = "Blocked"
<1> DEFINE dead == reclaimed(zq)
           cur  == current_task_id
           preempted == cur # NoTask /\ cur \notin dead /\ st[cur] = "Running"
           st1  == [u \in TaskIds |->
                       IF u \in dead THEN "None"
                       ELSE IF preempted /\ u = cur THEN "Ready"
                       ELSE st[u]]
           rq1  == retain(rq, dead)
           rq2  == IF preempted THEN requeue(rq1, cur) ELSE rq1
<1>1. dispatch(st1, rq2)
  BY DEF prepare_next_task
<1> HIDE DEF dead, preempted, rq2
<1>2. st1 \in [TaskIds -> Statuses]
  BY DEF Statuses
<1>3. st1[t] = "Blocked"
  BY <1>1, <1>2, DispatchBlocksNone
<1> QED
  BY <1>3

LEMMA SpawnBlocksNone ==
    ASSUME status \in [TaskIds -> Statuses], init \/ spawn_boot_task \/ spawn_late,
           NEW t \in TaskIds, status'[t] = "Blocked"
    PROVE  status[t] = "Blocked"
<1>1. CASE spawn
  <2>1. PICK id \in TaskIds : status' = [status EXCEPT ![id] = "Ready"]
    BY <1>1, Zenon DEF spawn
  <2> QED
    BY <2>1
<1>2. CASE spawn_err
  BY <1>2 DEF spawn_err, tasks
<1> QED
  BY <1>1, <1>2 DEF init, spawn_boot_task, spawn_late

LEMMA OtherStepBlocksNone ==
    ASSUME SchedulerInv, other_step, NEW t \in TaskIds, status'[t] = "Blocked"
    PROVE  status[t] = "Blocked"
<1>0. status \in [TaskIds -> Statuses]
  BY DEF SchedulerInv, TypeOK, Statuses
<1>1. CASE run_scheduler
  BY <1>0, <1>1, PrepareBlocksNone DEF run_scheduler
<1>2. CASE tick \/ stopped \/ system_quit
  BY <1>2 DEF tick, stopped, system_quit, vars, tasks
<1>3. CASE timer_interrupt
  <2> DEFINE st == [u \in TaskIds |-> IF u \in wakeable THEN "Ready" ELSE status[u]]
  <2>1. PICK woken \in wake_orders : prepare_next_task(st, ready_queue \o woken, zombie_queue)
    BY <1>3 DEF timer_interrupt
  <2>2. st \in [TaskIds -> Statuses]
    BY <1>0 DEF Statuses
  <2>3. st[t] = "Blocked"
    <3> HIDE DEF st
    <3> QED
      BY <2>1, <2>2, PrepareBlocksNone
  <2> QED
    BY <2>3
<1>4. CASE schedule
  BY <1>0, <1>4, PrepareBlocksNone DEF schedule
<1>5. CASE exit
  <2> DEFINE st == [status EXCEPT ![current_task_id] = "Terminated"]
  <2>1. prepare_next_task(st, ready_queue, Append(zombie_queue, current_task_id))
    BY <1>5 DEF exit
  <2>2. st \in [TaskIds -> Statuses]
    BY <1>0, Zenon DEF Statuses
  <2>3. st[t] = "Blocked"
    <3> HIDE DEF st
    <3> QED
      BY <2>1, <2>2, PrepareBlocksNone
  <2> QED
    BY <1>0, <2>3
<1> QED
  BY <1>1, <1>2, <1>3, <1>4, <1>5 DEF other_step

----------------------------------------------------------------------------
(* The characters' part of a step *)

(* A step that neither moves a character nor lets one arrive. *)
LEMMA QuietStep ==
    ASSUME CharsOrdered, receive_buffer' = receive_buffer, arrived' = arrived,
           \A t \in TaskIds : a0'[t] = a0[t] \/ a0'[t] \notin Chars
    PROVE  CharsOrdered' /\ InOrder
BY DEF CharsOrdered, InOrder

(* A waiter joins those on the queue. *)
LEMMA WaiterAdded ==
    ASSUME NEW q \in Seq(TaskIds), NEW t \in TaskIds
    PROVE  Append(q, t) \in Seq(TaskIds) /\ Range(Append(q, t)) = Range(q) \cup {t}
<1> DEFINE r == Append(q, t)
<1>1. /\ r \in Seq(TaskIds)
      /\ Len(r) = Len(q) + 1
      /\ \A i \in 1 .. Len(q) : r[i] = q[i]
      /\ r[Len(q) + 1] = t
      /\ Len(q) \in Nat
  BY AppendProperties, LenProperties
<1> HIDE DEF r
<1>2. DOMAIN q = 1 .. Len(q) /\ DOMAIN r = 1 .. Len(q) + 1
  BY <1>1, LenProperties
<1>3. ASSUME NEW x \in Range(r)
      PROVE  x \in Range(q) \cup {t}
  <2>1. PICK i \in 1 .. Len(q) + 1 : x = r[i]
    BY <1>2 DEF Range
  <2>2. CASE i \in 1 .. Len(q)
    BY <1>1, <1>2, <2>1, <2>2 DEF Range
  <2>3. CASE i = Len(q) + 1
    BY <1>1, <2>1, <2>3
  <2> QED
    BY <1>1, <2>2, <2>3
<1>4. ASSUME NEW x \in Range(q)
      PROVE  x \in Range(r)
  <2>1. PICK i \in 1 .. Len(q) : x = q[i]
    BY <1>2 DEF Range
  <2>2. i \in 1 .. Len(q) + 1 /\ x = r[i]
    BY <1>1, <2>1
  <2> QED
    BY <1>2, <2>2 DEF Range
<1>5. t \in Range(r)
  <2>1. Len(q) + 1 \in DOMAIN r
    BY <1>1, <1>2
  <2> QED
    BY <1>1, <2>1 DEF Range
<1>6. Range(r) = Range(q) \cup {t}
  BY <1>3, <1>4, <1>5
<1> QED
  BY <1>1, <1>6 DEF r

(* Waiters other than the last stay when the last is popped. *)
LEMMA LastPopped ==
    ASSUME UartTypeOK, wait_queue # << >>, pop_waiter
    PROVE  /\ wait_queue' \in Seq(TaskIds)
           /\ \A t \in Range(wait_queue) :
                  t # wait_queue[Len(wait_queue)] => t \in Range(wait_queue')
<1> DEFINE n == Len(wait_queue) - 1
<1>1. wait_queue \in Seq(TaskIds) /\ n \in Nat /\ Len(wait_queue) = n + 1
  BY DEF UartTypeOK
<1>2. \A i \in 1 .. n : wait_queue[i] \in TaskIds
  BY <1>1
<1>3. wait_queue' = SubSeq(wait_queue, 1, n)
  BY DEF pop_waiter
<1> HIDE DEF n
<1>4. /\ SubSeq(wait_queue, 1, n) \in Seq(TaskIds)
      /\ Len(SubSeq(wait_queue, 1, n)) = IF 1 <= n THEN n - 1 + 1 ELSE 0
      /\ \A i \in 1 .. n - 1 + 1 : SubSeq(wait_queue, 1, n)[i] = wait_queue[1 + i - 1]
  BY <1>1, <1>2, SubSeqProperties
<1>5. \A i \in 1 .. n : i \in 1 .. n - 1 + 1 /\ wait_queue[1 + i - 1] = wait_queue[i]
  BY <1>1
<1>6. Len(wait_queue') = n /\ \A i \in 1 .. n : wait_queue'[i] = wait_queue[i]
  BY <1>1, <1>3, <1>4, <1>5
<1>7. DOMAIN wait_queue = 1 .. n + 1 /\ DOMAIN wait_queue' = 1 .. n
  BY <1>1, <1>3, <1>4, <1>6
<1>8. ASSUME NEW t \in Range(wait_queue), t # wait_queue[Len(wait_queue)]
      PROVE  t \in Range(wait_queue')
  <2>1. PICK i \in 1 .. n + 1 : t = wait_queue[i]
    BY <1>7 DEF Range
  <2>2. i \in 1 .. n
    BY <1>1, <1>8, <2>1
  <2> QED
    BY <1>6, <1>7, <2>1, <2>2 DEF Range
<1> QED
  BY <1>3, <1>4, <1>8

(* What the properties of the UART code need of a step *)
ReadStepOK ==
    /\ UartTypeOK'
    /\ NoCharBesideWaiter'
    /\ BlockedReaderQueued'
    /\ CharsOrdered'
    /\ InOrder

(* A character that finds a waiter goes to it, and is newer than all. *)
LEMMA DirectDelivery ==
    ASSUME UartInv, external_interrupt, wait_queue # << >>
    PROVE  ReadStepOK
<1> DEFINE w == wait_queue[Len(wait_queue)]
           n == arrived + 1
<1>1. /\ pop_waiter
      /\ wake_up_task(w)
      /\ a0' = IF status[w] = "Blocked" THEN [a0 EXCEPT ![w] = n] ELSE a0
      /\ receive_buffer' = receive_buffer
      /\ arrived' = n
      /\ call' = call
      /\ arrived < MaxChars
  BY DEF external_interrupt, uart_receive, wake_up_task_with_result
<1>2. UartTypeOK /\ SchedulerInv /\ receive_buffer = << >>
  BY DEF UartInv, NoCharBesideWaiter
<1>3. n \in Chars /\ n \in 0 .. MaxChars /\ arrived < n /\ arrived \in Nat
  BY <1>1, <1>2, MaxIsNoChar DEF UartTypeOK, Chars
<1>4. wait_queue' \in Seq(TaskIds) /\ w \in TaskIds
  BY <1>1, <1>2, LastPopped DEF UartTypeOK
<1> HIDE DEF w, n
<1>5. UartTypeOK'
  BY <1>1, <1>2, <1>3, <1>4 DEF UartTypeOK
<1>6. NoCharBesideWaiter'
  BY <1>1, <1>2 DEF NoCharBesideWaiter
<1>7. BlockedReaderQueued'
  <2> SUFFICES ASSUME NEW t \in TaskIds, status'[t] = "Blocked", call[t] = "read"
               PROVE  t \in Range(wait_queue')
    BY <1>1 DEF BlockedReaderQueued
  <2>1. status \in [TaskIds -> Statuses]
    BY <1>2 DEF SchedulerInv, TypeOK, Statuses
  <2>2. status[t] = "Blocked" /\ t # w
    BY <1>1, <1>4, <2>1 DEF wake_up_task
  <2>3. t \in Range(wait_queue)
    BY <2>2 DEF UartInv, BlockedReaderQueued
  <2> QED
    BY <1>1, <1>2, <2>2, <2>3, LastPopped DEF w
<1>8. \A t \in TaskIds : a0'[t] = a0[t] \/ a0'[t] = n
  BY <1>1, <1>2, <1>4 DEF UartTypeOK
<1>9. \A t \in TaskIds : a0[t] \in Chars => a0[t] \in Nat /\ a0[t] < n
  BY <1>3, MaxIsNoChar DEF UartInv, CharsOrdered, Chars
<1>10. InOrder
  BY <1>8, <1>9 DEF InOrder
<1>11. 1 .. Len(receive_buffer') = {}
  BY <1>1, <1>2
<1>12. \A t \in TaskIds : a0'[t] \in Chars => a0'[t] <= n
  BY <1>3, <1>8, <1>9
<1>13. CharsOrdered'
  BY <1>1, <1>11, <1>12 DEF CharsOrdered
<1> QED
  BY <1>5, <1>6, <1>7, <1>10, <1>13 DEF ReadStepOK

(* A character that finds none is the newest in the buffer, or is lost. *)
LEMMA Buffered ==
    ASSUME UartInv, external_interrupt, wait_queue = << >>
    PROVE  ReadStepOK
<1> DEFINE n == arrived + 1
<1>1. /\ receive_buffer' = receive_buffer \/ receive_buffer' = Append(receive_buffer, n)
      /\ wait_queue' = wait_queue /\ a0' = a0 /\ call' = call /\ status' = status
      /\ arrived' = n
      /\ arrived < MaxChars
  BY DEF external_interrupt, uart_receive, push, vars, tasks
<1>2. UartTypeOK
  BY DEF UartInv
<1>3. n \in Chars /\ n \in 0 .. MaxChars /\ arrived < n /\ arrived \in Nat /\ n \in Nat
  BY <1>1, <1>2, MaxIsNoChar DEF UartTypeOK, Chars
<1> HIDE DEF n
<1>4. UartTypeOK'
  BY <1>1, <1>2, <1>3 DEF UartTypeOK
<1>5. NoCharBesideWaiter' /\ BlockedReaderQueued'
  BY <1>1 DEF UartInv, NoCharBesideWaiter, BlockedReaderQueued
<1>6. InOrder
  BY <1>1 DEF InOrder
<1>7. /\ \A t \in TaskIds : a0[t] \in Chars => a0[t] \in Nat /\ a0[t] < n /\ a0[t] <= n
      /\ \A i \in 1 .. Len(receive_buffer) :
             receive_buffer[i] \in Nat /\ receive_buffer[i] < n /\ receive_buffer[i] <= n
  BY <1>2, <1>3, MaxIsNoChar DEF UartInv, CharsOrdered, Chars, UartTypeOK
<1>8. CharsOrdered'
  <2>1. CASE receive_buffer' = receive_buffer
    BY <1>1, <1>7, <2>1 DEF UartInv, CharsOrdered
  <2>2. CASE receive_buffer' = Append(receive_buffer, n)
    <3>1. /\ Len(receive_buffer) \in Nat
          /\ Len(receive_buffer') = Len(receive_buffer) + 1
          /\ \A i \in 1 .. Len(receive_buffer) : receive_buffer'[i] = receive_buffer[i]
          /\ receive_buffer'[Len(receive_buffer) + 1] = n
      BY <1>2, <1>3, <2>2 DEF UartTypeOK
    <3>2. \A i \in 1 .. Len(receive_buffer') :
              i \in 1 .. Len(receive_buffer) \/ i = Len(receive_buffer) + 1
      BY <3>1
    <3> QED
      BY <1>1, <1>3, <1>7, <3>1, <3>2 DEF UartInv, CharsOrdered
  <2> QED
    BY <1>1, <2>1, <2>2
<1> QED
  BY <1>4, <1>5, <1>6, <1>8 DEF ReadStepOK

(* uart_read takes the oldest character, older than the rest. *)
LEMMA ReadReady ==
    ASSUME UartInv, NEW ms, uart_read(ms), uart_read_ready
    PROVE  ReadStepOK
<1> DEFINE cur == current_task_id
           h == receive_buffer[1]
<1>1. /\ receive_buffer # << >>
      /\ a0' = [a0 EXCEPT ![cur] = Head(receive_buffer)]
      /\ receive_buffer' = Tail(receive_buffer)
      /\ wait_queue' = wait_queue /\ arrived' = arrived /\ status' = status
      /\ call' = [call EXCEPT ![cur] = IF ms = MAX THEN "read" ELSE "timed read"]
      /\ in_user_task
  BY Zenon DEF uart_read, uart_read_ready, pop_to_a0, vars, tasks
<1>2. UartTypeOK /\ cur \in TaskIds /\ status[cur] = "Running"
  BY <1>1, CallerRuns, Zenon DEF UartInv
<1>3. /\ Len(receive_buffer) \in Nat \ {0}
      /\ Head(receive_buffer) = h
      /\ h \in Chars
      /\ receive_buffer' \in Seq(Chars)
      /\ Len(receive_buffer') = Len(receive_buffer) - 1
      /\ \A i \in 1 .. Len(receive_buffer) - 1 : receive_buffer'[i] = receive_buffer[i + 1]
  <2>1. receive_buffer \in Seq(Chars) /\ receive_buffer # << >>
    BY <1>1, <1>2, Zenon DEF UartTypeOK
  <2>2. Len(receive_buffer) \in Nat \ {0} /\ Head(receive_buffer) = h
    BY <2>1
  <2>3. /\ Head(receive_buffer) \in Chars
        /\ receive_buffer' \in Seq(Chars)
        /\ Len(receive_buffer') = Len(receive_buffer) - 1
        /\ \A i \in 1 .. Len(receive_buffer') : receive_buffer'[i] = receive_buffer[i + 1]
    BY <1>1, <2>1, HeadTailProperties, Zenon
  <2> QED
    BY <2>2, <2>3
<1>4. UartTypeOK'
  BY <1>1, <1>2, <1>3, Zenon DEF UartTypeOK, Calls
<1>5. NoCharBesideWaiter'
  BY <1>1, Zenon DEF UartInv, NoCharBesideWaiter
<1>6. BlockedReaderQueued'
  BY <1>1, <1>2, Zenon DEF UartInv, BlockedReaderQueued, UartTypeOK
<1>7. /\ h <= arrived /\ 1 \in 1 .. Len(receive_buffer)
      /\ \A i \in 1 .. Len(receive_buffer') :
             /\ i + 1 \in 1 .. Len(receive_buffer)
             /\ h < receive_buffer[i + 1]
             /\ receive_buffer'[i] = receive_buffer[i + 1]
  BY <1>3 DEF UartInv, CharsOrdered
<1> HIDE DEF cur, h
<1>8. a0' = [a0 EXCEPT ![cur] = h] /\ a0 \in [TaskIds -> Chars \cup {NoChar, MAX}]
  BY <1>1, <1>2, <1>3, Zenon DEF UartTypeOK
<1>9. \A t \in TaskIds : a0'[t] = IF t = cur THEN h ELSE a0[t]
  BY <1>8
<1>10. \A t \in TaskIds : a0[t] \in Chars => a0[t] < h
  BY <1>7 DEF UartInv, CharsOrdered, h
<1>11. InOrder
  BY <1>9, <1>10 DEF InOrder
<1>12. CharsOrdered'
  <2>1. \A i \in 1 .. Len(receive_buffer') : receive_buffer'[i] <= arrived
    BY <1>7 DEF UartInv, CharsOrdered
  <2>2. ASSUME NEW i \in 1 .. Len(receive_buffer'), NEW j \in 1 .. Len(receive_buffer'), i < j
        PROVE  receive_buffer'[i] < receive_buffer'[j]
    BY <1>7, <2>2 DEF UartInv, CharsOrdered
  <2>3. ASSUME NEW t \in TaskIds, a0'[t] \in Chars
        PROVE  /\ a0'[t] <= arrived
               /\ \A i \in 1 .. Len(receive_buffer') : a0'[t] < receive_buffer'[i]
    <3>1. CASE t = cur
      BY <1>7, <1>9, <3>1
    <3>2. CASE t # cur
      BY <1>7, <1>9, <2>3, <3>2 DEF UartInv, CharsOrdered
    <3> QED
      BY <3>1, <3>2
  <2> QED
    BY <1>1, <2>1, <2>2, <2>3, Zenon DEF CharsOrdered
<1> QED
  BY <1>4, <1>5, <1>6, <1>11, <1>12 DEF ReadStepOK

(* A poll that finds nothing reports it. *)
LEMMA ReadPoll ==
    ASSUME UartInv, NEW ms, uart_read(ms), uart_read_poll
    PROVE  ReadStepOK
<1> DEFINE cur == current_task_id
<1>1. /\ a0' = [a0 EXCEPT ![cur] = MAX]
      /\ receive_buffer' = receive_buffer
      /\ wait_queue' = wait_queue /\ arrived' = arrived /\ status' = status
      /\ call' = [call EXCEPT ![cur] = IF ms = MAX THEN "read" ELSE "timed read"]
      /\ in_user_task
  BY Zenon DEF uart_read, uart_read_poll, vars, tasks
<1>2. UartTypeOK /\ cur \in TaskIds /\ status[cur] = "Running"
  BY <1>1, CallerRuns, Zenon DEF UartInv
<1>3. UartTypeOK'
  BY <1>1, <1>2, Zenon DEF UartTypeOK, Calls
<1>4. NoCharBesideWaiter' /\ BlockedReaderQueued'
  BY <1>1, <1>2, Zenon DEF UartInv, NoCharBesideWaiter, BlockedReaderQueued, UartTypeOK
<1>5. \A t \in TaskIds : a0'[t] = a0[t] \/ a0'[t] \notin Chars
  BY <1>1, <1>2, MaxIsNoChar, Zenon DEF UartTypeOK
<1>6. CharsOrdered' /\ InOrder
  BY <1>1, <1>5, QuietStep, Zenon DEF UartInv
<1> QED
  BY <1>3, <1>4, <1>6 DEF ReadStepOK

(* A reader that has to wait is on the queue before it is blocked, with a  *)
(* time limit or without one.                                              *)
LEMMA ReadWait ==
    ASSUME UartInv, NEW ms, in_user_task,
           receive_buffer = << >> /\ receive_buffer' = receive_buffer,
           wait_queue' = Append(wait_queue, current_task_id),
           a0' = [a0 EXCEPT ![current_task_id] = MAX],
           arrived' = arrived,
           dispatch([status EXCEPT ![current_task_id] = "Blocked"], ready_queue),
           call' = [call EXCEPT ![current_task_id] = IF ms = MAX THEN "read" ELSE "timed read"]
    PROVE  ReadStepOK
<1> DEFINE cur == current_task_id
           st == [status EXCEPT ![cur] = "Blocked"]
<1>1. UartTypeOK /\ cur \in TaskIds /\ status \in [TaskIds -> Statuses]
  BY CallerRuns, Zenon DEF UartInv
<1>2. wait_queue' \in Seq(TaskIds) /\ Range(wait_queue') = Range(wait_queue) \cup {cur}
  BY <1>1, WaiterAdded, Zenon DEF UartTypeOK
<1>3. UartTypeOK'
  BY <1>1, <1>2, Zenon DEF UartTypeOK, Calls
<1>4. NoCharBesideWaiter'
  BY Zenon DEF NoCharBesideWaiter
<1>5. BlockedReaderQueued'
  <2> SUFFICES ASSUME NEW t \in TaskIds, status'[t] = "Blocked", call'[t] = "read"
               PROVE  t \in Range(wait_queue')
    BY Zenon DEF BlockedReaderQueued
  <2>1. st \in [TaskIds -> Statuses]
    BY <1>1, Zenon DEF Statuses
  <2>2. st[t] = "Blocked"
    BY <2>1, DispatchBlocksNone, Zenon
  <2>3. CASE t = cur
    BY <1>2, <2>3, Zenon
  <2>4. CASE t # cur
    BY <1>1, <1>2, <2>2, <2>4, Zenon DEF UartInv, BlockedReaderQueued, UartTypeOK
  <2> QED
    BY <2>3, <2>4, Zenon
<1>6. \A t \in TaskIds : a0'[t] = a0[t] \/ a0'[t] \notin Chars
  BY <1>1, MaxIsNoChar, Zenon DEF UartTypeOK
<1>7. CharsOrdered' /\ InOrder
  BY <1>6, QuietStep, Zenon DEF UartInv
<1> QED
  BY <1>3, <1>4, <1>5, <1>7, Zenon DEF ReadStepOK

(* sleep leaves the UART code alone. *)
LEMMA SleepStep ==
    ASSUME UartInv, sleep_call
    PROVE  ReadStepOK
<1> DEFINE cur == current_task_id
           st == [status EXCEPT ![cur] = "Blocked"]
<1>1. /\ in_user_task
      /\ dispatch(st, ready_queue)
      /\ a0' = [a0 EXCEPT ![cur] = NoChar]
      /\ call' = [call EXCEPT ![cur] = "sleep"]
      /\ receive_buffer' = receive_buffer /\ wait_queue' = wait_queue /\ arrived' = arrived
  BY DEF sleep_call, sleep, set_current_task_sleep, uart
<1>2. UartTypeOK /\ cur \in TaskIds /\ status \in [TaskIds -> Statuses]
  BY <1>1, CallerRuns DEF UartInv
<1>3. UartTypeOK'
  BY <1>1, <1>2, Zenon DEF UartTypeOK, Calls
<1>4. NoCharBesideWaiter'
  BY <1>1 DEF UartInv, NoCharBesideWaiter
<1>5. BlockedReaderQueued'
  <2> SUFFICES ASSUME NEW t \in TaskIds, status'[t] = "Blocked", call'[t] = "read"
               PROVE  t \in Range(wait_queue)
    BY <1>1 DEF BlockedReaderQueued
  <2>1. st \in [TaskIds -> Statuses]
    BY <1>2 DEF Statuses
  <2>2. st[t] = "Blocked"
    <3> HIDE DEF st
    <3> QED
      BY <1>1, <2>1, DispatchBlocksNone
  <2>3. t # cur
    BY <1>1, <1>2 DEF UartTypeOK
  <2> QED
    BY <1>1, <1>2, <2>2, <2>3 DEF UartInv, BlockedReaderQueued, UartTypeOK
<1>6. \A t \in TaskIds : a0'[t] = a0[t] \/ a0'[t] \notin Chars
  BY <1>1, <1>2, MaxIsNoChar DEF UartTypeOK
<1>7. CharsOrdered' /\ InOrder
  BY <1>1, <1>6, QuietStep DEF UartInv
<1> QED
  BY <1>3, <1>4, <1>5, <1>7 DEF ReadStepOK

(* A new task has read nothing and waits for nothing. *)
LEMMA SpawnStep ==
    ASSUME UartInv, spawn_call
    PROVE  ReadStepOK
<1>1. /\ init \/ spawn_boot_task \/ spawn_late
      /\ a0' = [t \in TaskIds |-> IF status'[t] # status[t] THEN NoChar ELSE a0[t]]
      /\ call' = [t \in TaskIds |-> IF status'[t] # status[t] THEN "none" ELSE call[t]]
      /\ receive_buffer' = receive_buffer /\ wait_queue' = wait_queue /\ arrived' = arrived
  BY DEF spawn_call, uart
<1>2. UartTypeOK /\ status \in [TaskIds -> Statuses]
  BY DEF UartInv, SchedulerInv, TypeOK, Statuses
<1>3. UartTypeOK'
  BY <1>1, <1>2, Zenon DEF UartTypeOK, Calls
<1>4. NoCharBesideWaiter'
  BY <1>1 DEF UartInv, NoCharBesideWaiter
<1>5. BlockedReaderQueued'
  <2> SUFFICES ASSUME NEW t \in TaskIds, status'[t] = "Blocked", call'[t] = "read"
               PROVE  t \in Range(wait_queue)
    BY <1>1 DEF BlockedReaderQueued
  <2>1. status[t] = "Blocked"
    BY <1>1, <1>2, SpawnBlocksNone
  <2> QED
    BY <1>1, <2>1 DEF UartInv, BlockedReaderQueued
<1>6. \A t \in TaskIds : a0'[t] = a0[t] \/ a0'[t] \notin Chars
  BY <1>1, MaxIsNoChar
<1>7. CharsOrdered' /\ InOrder
  BY <1>1, <1>6, QuietStep DEF UartInv
<1> QED
  BY <1>3, <1>4, <1>5, <1>7 DEF ReadStepOK

LEMMA OtherStep ==
    ASSUME UartInv, other_step
    PROVE  ReadStepOK
<1>1. /\ a0' = a0 /\ call' = call
      /\ receive_buffer' = receive_buffer /\ wait_queue' = wait_queue /\ arrived' = arrived
  BY DEF other_step, uart
<1>2. UartTypeOK' /\ NoCharBesideWaiter'
  BY <1>1 DEF UartInv, UartTypeOK, NoCharBesideWaiter
<1>3. BlockedReaderQueued'
  BY <1>1, OtherStepBlocksNone DEF UartInv, BlockedReaderQueued
<1>4. CharsOrdered' /\ InOrder
  BY <1>1, QuietStep DEF UartInv
<1> QED
  BY <1>2, <1>3, <1>4 DEF ReadStepOK

LEMMA UartInitially == UartInit => UartInv
<1> SUFFICES ASSUME UartInit
             PROVE  UartInv
  OBVIOUS
<1>1. SchedulerInv
  BY InitEstablishesInv DEF UartInit
<1>2. UartTypeOK
  BY MaxIsNoChar DEF UartInit, UartTypeOK, Calls
<1>3. NoCharBesideWaiter /\ BlockedReaderQueued
  BY DEF UartInit, Init, NoCharBesideWaiter, BlockedReaderQueued
<1>4. 1 .. Len(receive_buffer) = {} /\ \A t \in TaskIds : a0[t] \notin Chars
  BY MaxIsNoChar DEF UartInit
<1>5. CharsOrdered
  BY <1>4 DEF CharsOrdered
<1> QED
  BY <1>1, <1>2, <1>3, <1>5 DEF UartInv

LEMMA UartStep ==
    ASSUME UartInv, [UartNext]_uartVars
    PROVE  UartInv' /\ InOrder
<1>1. SchedulerInv'
  BY StepImplements, NextPreservesInv DEF UartInv
<1> SUFFICES ReadStepOK
  BY <1>1 DEF UartInv, ReadStepOK
<1>2. CASE external_interrupt
  BY <1>2, DirectDelivery, Buffered
<1>3. ASSUME NEW ms \in Millis \cup {0, MAX}, uart_read(ms)
      PROVE  ReadStepOK
  <2>1. CASE uart_read_ready
    BY <1>3, <2>1, ReadReady
  <2>2. CASE uart_read_poll
    BY <1>3, <2>2, ReadPoll
  <2>3. CASE \/ uart_read_wait(set_current_task_sleep(wake_time_after(ms)))
             \/ uart_read_wait(block_current_task)
    <3>1. /\ in_user_task
          /\ receive_buffer = << >> /\ receive_buffer' = receive_buffer
          /\ wait_queue' = Append(wait_queue, current_task_id)
          /\ a0' = [a0 EXCEPT ![current_task_id] = MAX]
          /\ arrived' = arrived
          /\ dispatch([status EXCEPT ![current_task_id] = "Blocked"], ready_queue)
          /\ call' = [call EXCEPT ![current_task_id] = IF ms = MAX THEN "read" ELSE "timed read"]
      BY <1>3, <2>3, Zenon DEF uart_read, uart_read_wait, set_current_task_sleep, block_current_task
    <3> QED
      BY <3>1, ReadWait, ZenonT(30)
  <2> QED
    BY <1>3, <2>1, <2>2, <2>3, Zenon DEF uart_read
<1>4. CASE sleep_call
  BY <1>4, SleepStep
<1>5. CASE spawn_call
  BY <1>5, SpawnStep
<1>6. CASE other_step
  BY <1>6, OtherStep
<1>7. CASE UNCHANGED uartVars
  <2>1. /\ a0' = a0 /\ call' = call /\ status' = status
        /\ receive_buffer' = receive_buffer /\ wait_queue' = wait_queue /\ arrived' = arrived
    BY <1>7 DEF uartVars, uart, vars, tasks
  <2> QED
    BY <2>1, QuietStep
    DEF UartInv, ReadStepOK, UartTypeOK, NoCharBesideWaiter, BlockedReaderQueued
<1> QED
  BY <1>2, <1>3, <1>4, <1>5, <1>6, <1>7 DEF UartNext

----------------------------------------------------------------------------
(* The theorems *)

(* The inductive invariant: the scheduler's, and what joins the buffer,    *)
(* the wait queue and the results of reads.                                *)
THEOREM UartInvariant == UartSpec => []UartInv
<1>1. UartInv /\ [UartNext]_uartVars => UartInv'
  BY UartStep
<1> QED
  BY <1>1, UartInitially, PTL DEF UartSpec

(* uart_read and the receive interrupt call the scheduler only as it       *)
(* allows, so every theorem about Scheduler holds of the whole.            *)
THEOREM UartReadImplementsScheduler == UartSpec => ImplementsScheduler
<1>1. UartInit => Init
  BY DEF UartInit
<1>2. UartInv /\ [UartNext]_uartVars => [Next]_vars
  BY StepImplements DEF UartInv
<1> QED
  BY <1>1, <1>2, UartInvariant, PTL DEF UartSpec, Spec, ImplementsScheduler

(* The receive interrupt buffers a character only when nobody waits, and   *)
(* uart_read waits only when none is buffered.                             *)
THEOREM BufferOrWaiters == UartSpec => []NoCharBesideWaiter
<1>1. UartInv => NoCharBesideWaiter
  BY DEF UartInv
<1> QED
  BY <1>1, UartInvariant, PTL

(* No lost wake-up: a reader blocked without a time limit stays on the     *)
(* wait queue until the interrupt handler takes it from there.             *)
THEOREM NoLostWakeUp == UartSpec => []BlockedReaderQueued
<1>1. UartInv => BlockedReaderQueued
  BY DEF UartInv
<1> QED
  BY <1>1, UartInvariant, PTL

(* Tasks get the characters in the order of their arrival, whether from    *)
(* the buffer or from the interrupt handler.                               *)
THEOREM CharactersInOrder == UartSpec => DeliveredInOrder
<1>1. UartInv /\ [UartNext]_uartVars => InOrder
  BY UartStep
<1>2. UartInv /\ [UartNext]_uartVars =>
          [\A t, u \in TaskIds :
               a0'[t] # a0[t] /\ a0'[t] \in Chars /\ a0[u] \in Chars =>
                   a0[u] < a0'[t]]_uartVars
  BY <1>1 DEF InOrder
<1> QED
  BY <1>2, UartInvariant, PTL DEF UartSpec, DeliveredInOrder

=============================================================================
