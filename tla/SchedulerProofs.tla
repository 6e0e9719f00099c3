-------------------------- MODULE SchedulerProofs --------------------------
(***************************************************************************)
(* Proofs, for every number of tasks, every amount of memory and every     *)
(* sequence of traps, of the safety properties of module Scheduler.        *)
(***************************************************************************)
EXTENDS Scheduler, TLAPS, SequenceTheorems, FiniteSetTheorems

Statuses == {"None", "Ready", "Running", "Blocked", "Terminated"}

(* The queue q holds exactly the tasks of S, each once. *)
Enumerates(q, S) == q \in Seq(TaskIds) /\ Range(q) = S /\ Distinct(q)

WithStatus(st, s) == {t \in TaskIds : st[t] = s}

----------------------------------------------------------------------------
(* Lemmas about queues *)

(* Putting a new task at the back of a queue adds just that task. *)
LEMMA EnumeratesAppend ==
    ASSUME NEW q, NEW S \in SUBSET TaskIds, Enumerates(q, S), NEW t \in TaskIds, t \notin S
    PROVE  Enumerates(Append(q, t), S \cup {t})
<1> DEFINE r == Append(q, t)
<1>1. /\ r \in Seq(TaskIds)
      /\ Len(r) = Len(q) + 1
      /\ \A i \in 1 .. Len(q) : r[i] = q[i]
      /\ r[Len(q) + 1] = t
      /\ Len(q) \in Nat
  BY AppendProperties, LenProperties DEF Enumerates
<1>2. DOMAIN q = 1 .. Len(q) /\ DOMAIN r = 1 .. Len(q) + 1
  BY <1>1, LenProperties DEF Enumerates
<1>3. Range(r) = S \cup {t}
  <2>1. Range(q) = S
    BY DEF Enumerates
  <2>2. ASSUME NEW x \in Range(r) PROVE x \in S \cup {t}
    <3>1. PICK i \in 1 .. Len(q) + 1 : x = r[i]
      BY <1>2 DEF Range
    <3>2. CASE i = Len(q) + 1
      BY <3>1, <3>2, <1>1
    <3>3. CASE i \in 1 .. Len(q)
      BY <3>1, <3>3, <1>1, <1>2, <2>1 DEF Range
    <3>4. QED
      BY <3>2, <3>3, <1>1
  <2>3. ASSUME NEW x \in S PROVE x \in Range(r)
    <3>1. PICK i \in 1 .. Len(q) : x = q[i]
      BY <1>2, <2>1 DEF Range
    <3>2. i \in 1 .. Len(q) + 1 /\ x = r[i]
      BY <3>1, <1>1
    <3>3. QED
      BY <3>2, <1>2 DEF Range
  <2>4. t \in Range(r)
    <3>1. Len(q) + 1 \in DOMAIN r
      BY <1>1, <1>2
    <3>2. QED
      BY <3>1, <1>1 DEF Range
  <2>5. QED
    BY <2>2, <2>3, <2>4
<1>4. \A i \in 1 .. Len(q) : q[i] \in S
  BY <1>2 DEF Enumerates, Range
<1>5. Distinct(r)
  <2> SUFFICES ASSUME NEW i \in 1 .. Len(r), NEW j \in 1 .. Len(r), r[i] = r[j]
               PROVE  i = j
    BY DEF Distinct
  <2>1. Distinct(q)
    BY DEF Enumerates
  <2>2. QED
    BY <1>1, <1>4, <2>1 DEF Distinct
<1>6. QED
  BY <1>1, <1>3, <1>5 DEF Enumerates

(* Joining queues that share no task. *)
LEMMA EnumeratesConcat ==
    ASSUME NEW q, NEW S \in SUBSET TaskIds, Enumerates(q, S),
           NEW r, NEW T \in SUBSET TaskIds, Enumerates(r, T),
           S \cap T = {}
    PROVE  Enumerates(q \o r, S \cup T)
<1> DEFINE c == q \o r
<1>1. /\ c \in Seq(TaskIds)
      /\ Len(c) = Len(q) + Len(r)
      /\ \A i \in 1 .. Len(q) + Len(r) :
             c[i] = IF i <= Len(q) THEN q[i] ELSE r[i - Len(q)]
      /\ Len(q) \in Nat
      /\ Len(r) \in Nat
  BY ConcatProperties, LenProperties DEF Enumerates
<1>2. DOMAIN q = 1 .. Len(q) /\ DOMAIN r = 1 .. Len(r)
  BY LenProperties DEF Enumerates
<1>3. Range(c) = S \cup T
  <2>1. Range(c) = Range(q) \cup Range(r)
    BY RangeConcatenation DEF Enumerates
  <2>2. QED
    BY <2>1 DEF Enumerates
<1>4. /\ \A i \in 1 .. Len(q) : q[i] \in S
      /\ \A i \in 1 .. Len(r) : r[i] \in T
  BY <1>2 DEF Enumerates, Range
<1>5. Distinct(c)
  <2> SUFFICES ASSUME NEW i \in 1 .. Len(c), NEW j \in 1 .. Len(c), c[i] = c[j]
               PROVE  i = j
    BY DEF Distinct
  <2>1. Distinct(q) /\ Distinct(r)
    BY DEF Enumerates
  <2>2. CASE i <= Len(q) /\ j <= Len(q)
    BY <1>1, <2>1, <2>2 DEF Distinct
  <2>3. CASE i > Len(q) /\ j > Len(q)
    <3>1. i - Len(q) \in 1 .. Len(r) /\ j - Len(q) \in 1 .. Len(r)
      BY <1>1, <2>3
    <3>2. r[i - Len(q)] = r[j - Len(q)]
      BY <1>1, <2>3
    <3>3. i - Len(q) = j - Len(q)
      BY <3>1, <3>2, <2>1 DEF Distinct
    <3>4. QED
      BY <3>3, <1>1
  <2>4. CASE i <= Len(q) /\ j > Len(q)
    <3>1. c[i] \in S /\ c[j] \in T
      BY <1>1, <1>4, <2>4
    <3>2. QED
      BY <3>1
  <2>5. CASE i > Len(q) /\ j <= Len(q)
    <3>1. c[i] \in T /\ c[j] \in S
      BY <1>1, <1>4, <2>5
    <3>2. QED
      BY <3>1
  <2>6. QED
    BY <1>1, <2>2, <2>3, <2>4, <2>5
<1>6. QED
  BY <1>1, <1>3, <1>5 DEF Enumerates

(* Taking the front of a queue removes just that task. *)
LEMMA EnumeratesTail ==
    ASSUME NEW q, NEW S \in SUBSET TaskIds, Enumerates(q, S), q # << >>
    PROVE  Head(q) \in S /\ Enumerates(Tail(q), S \ {Head(q)})
<1> DEFINE r == Tail(q)
<1>1. /\ r \in Seq(TaskIds)
      /\ Len(r) = Len(q) - 1
      /\ \A i \in 1 .. Len(r) : r[i] = q[i + 1]
      /\ Len(q) \in Nat \ {0}
      /\ Head(q) = q[1]
  BY HeadTailProperties, LenProperties, EmptySeq DEF Enumerates
<1>2. DOMAIN q = 1 .. Len(q) /\ DOMAIN r = 1 .. Len(q) - 1
  BY <1>1, LenProperties DEF Enumerates
<1>3. Distinct(q) /\ Range(q) = S
  BY DEF Enumerates
<1>4. Head(q) \in S
  BY <1>1, <1>2, <1>3 DEF Range
<1>5. Range(r) = S \ {Head(q)}
  <2>1. ASSUME NEW x \in Range(r) PROVE x \in S \ {Head(q)}
    <3>1. PICK i \in 1 .. Len(q) - 1 : x = r[i]
      BY <1>2 DEF Range
    <3>2. i + 1 \in 1 .. Len(q) /\ x = q[i + 1] /\ 1 \in 1 .. Len(q) /\ i + 1 # 1
      BY <3>1, <1>1
    <3>3. x # q[1]
      BY <3>2, <1>3 DEF Distinct
    <3>4. QED
      BY <3>2, <3>3, <1>1, <1>2, <1>3 DEF Range
  <2>2. ASSUME NEW x \in S \ {Head(q)} PROVE x \in Range(r)
    <3>1. PICK i \in 1 .. Len(q) : x = q[i]
      BY <1>2, <1>3 DEF Range
    <3>2. i # 1
      BY <3>1, <1>1
    <3>3. i - 1 \in 1 .. Len(q) - 1 /\ r[i - 1] = x
      BY <3>1, <3>2, <1>1
    <3>4. QED
      BY <3>3, <1>2, Zenon DEF Range
  <2>3. QED
    BY <2>1, <2>2
<1>6. Distinct(r)
  <2> SUFFICES ASSUME NEW i \in 1 .. Len(r), NEW j \in 1 .. Len(r), r[i] = r[j]
               PROVE  i = j
    BY Zenon DEF Distinct
  <2>1. i + 1 \in 1 .. Len(q) /\ j + 1 \in 1 .. Len(q) /\ q[i + 1] = q[j + 1]
    BY <1>1
  <2>2. i + 1 = j + 1
    BY <2>1, <1>3 DEF Distinct
  <2>3. QED
    BY <2>2, <1>1
<1>7. QED
  BY <1>1, <1>4, <1>5, <1>6 DEF Enumerates

(* From a queue that is not empty the scheduler takes a task of the queue  *)
(* and leaves the others in it.                                            *)
LEMMA NextTaskTaken ==
    ASSUME NEW q, NEW S \in SUBSET TaskIds, Enumerates(q, S), Idle \in S
    PROVE  /\ next_task(q) \in S
           /\ Enumerates(remaining(q), S \ {next_task(q)})
<1>1. q \in Seq(TaskIds) /\ Range(q) = S /\ Len(q) \in Nat
  BY LenProperties DEF Enumerates
<1>2. q # << >>
  <2> SUFFICES ASSUME q = << >> PROVE FALSE
    OBVIOUS
  <2>1. Range(q) = {}
    BY DEF Range
  <2>2. QED
    BY <1>1, <2>1
<1>3. Head(q) \in S /\ Enumerates(Tail(q), S \ {Head(q)})
  BY <1>2, EnumeratesTail
<1>4. CASE passes_over_idle(q)
  <2>1. Len(q) > 1 /\ Head(q) = Idle
    BY <1>4 DEF passes_over_idle
  <2>2. Len(Tail(q)) = Len(q) - 1 /\ Tail(q) \in Seq(TaskIds)
    BY <1>1, <1>2, HeadTailProperties
  <2>3. Tail(q) # << >>
    <3>1. Len(Tail(q)) # 0
      BY <1>1, <2>1, <2>2
    <3>2. Len(<< >>) = 0
      OBVIOUS
    <3>3. QED
      BY <3>1, <3>2, Zenon
  <2> DEFINE next == Head(Tail(q))
  <2> DEFINE rest == Tail(Tail(q))
  <2>4. next \in S \ {Idle} /\ Enumerates(rest, (S \ {Idle}) \ {next})
    BY <1>3, <2>1, <2>3, EnumeratesTail, Zenon
  <2>5. Idle \in TaskIds /\ Idle \notin (S \ {Idle}) \ {next}
    OBVIOUS
  <2>6. Enumerates(Append(rest, Idle), ((S \ {Idle}) \ {next}) \cup {Idle})
    <3>1. (S \ {Idle}) \ {next} \in SUBSET TaskIds
      OBVIOUS
    <3>2. QED
      BY <2>4, <2>5, <3>1, EnumeratesAppend, Zenon
  <2>7. ((S \ {Idle}) \ {next}) \cup {Idle} = S \ {next}
    BY <2>4, Zenon
  <2>8. next_task(q) = next /\ remaining(q) = Append(rest, Idle)
    BY <1>4, Zenon DEF next_task, remaining
  <2>9. QED
    BY <2>4, <2>6, <2>7, <2>8, Zenon
<1>5. CASE ~passes_over_idle(q)
  <2>1. next_task(q) = Head(q) /\ remaining(q) = Tail(q)
    BY <1>2, <1>5 DEF next_task, remaining
  <2>2. QED
    BY <2>1, <1>3
<1>6. QED
  BY <1>4, <1>5

(* With no zombie to skip the reclaiming loop empties the zombie queue. *)
LEMMA AllZombiesReclaimed ==
    ASSUME NEW zq \in Seq(TaskIds), current_task_id \notin Range(zq)
    PROVE  /\ reclaimed(zq) = Range(zq)
           /\ SubSeq(zq, 1, zombies_kept(zq)) = << >>
<1>1. Len(zq) \in Nat /\ DOMAIN zq = 1 .. Len(zq)
  BY LenProperties
<1>2. {i \in 1 .. Len(zq) : zq[i] = current_task_id} = {}
  BY <1>1 DEF Range
<1>3. zombies_kept(zq) = 0
  <2>1. zombies_kept(zq) = Max({0})
    BY <1>2, Zenon DEF zombies_kept
  <2>2. QED
    BY <2>1 DEF Max
<1>4. SubSeq(zq, 1, 0) = << >>
  BY SubSeqEmpty
<1>5. reclaimed(zq) = {zq[i] : i \in 1 .. Len(zq)}
  BY <1>1, <1>3 DEF reclaimed
<1>6. QED
  BY <1>1, <1>3, <1>4, <1>5 DEF Range

(* A task that has just exited is the last zombie, and stops the loop at   *)
(* once.                                                                   *)
LEMMA CurrentZombieKept ==
    ASSUME NEW zq \in Seq(TaskIds), zq # << >>, zq[Len(zq)] = current_task_id
    PROVE  /\ reclaimed(zq) = {}
           /\ SubSeq(zq, 1, zombies_kept(zq)) = zq
<1>1. Len(zq) \in Nat \ {0}
  BY EmptySeq
<1> DEFINE K == {0} \cup {i \in 1 .. Len(zq) : zq[i] = current_task_id}
<1>2. Len(zq) \in K /\ \A i \in K : i \in Nat /\ i <= Len(zq)
  BY <1>1
<1>3. Max(K) = Len(zq)
  <2>1. \A x \in K : (\A y \in K : x >= y) => x = Len(zq)
    BY <1>1, <1>2
  <2>2. Len(zq) \in K /\ \A y \in K : Len(zq) >= y
    BY <1>1, <1>2
  <2> HIDE DEF K
  <2>3. QED
    BY <2>1, <2>2 DEF Max
<1>4. zombies_kept(zq) = Len(zq)
  BY <1>3, Zenon DEF zombies_kept
<1>5. SubSeq(zq, 1, Len(zq)) = zq
  BY SubSeqFull
<1>6. reclaimed(zq) = {}
  BY <1>1, <1>4 DEF reclaimed
<1>7. QED
  BY <1>4, <1>5, <1>6

----------------------------------------------------------------------------
(* Lemmas about the operations *)

(* What dispatch does when the ready queue agrees with the statuses, no    *)
(* task is Running and the idle task is Ready.                             *)
LEMMA DispatchEffect ==
    ASSUME NEW st \in [TaskIds -> Statuses], NEW rq,
           Enumerates(rq, WithStatus(st, "Ready")),
           WithStatus(st, "Running") = {},
           st[Idle] = "Ready", Idle \in TaskIds,
           dispatch(st, rq)
    PROVE  /\ mode' = "run"
           /\ current_task_id' \in TaskIds
           /\ st[current_task_id'] = "Ready"
           /\ status' = [st EXCEPT ![current_task_id'] = "Running"]
           /\ Enumerates(ready_queue', WithStatus(status', "Ready"))
<1> DEFINE S == WithStatus(st, "Ready")
<1> DEFINE next == next_task(rq)
<1>1. S \in SUBSET TaskIds /\ Idle \in S
  BY DEF WithStatus
<1>2. next \in S /\ Enumerates(remaining(rq), S \ {next})
  BY <1>1, NextTaskTaken
<1>3. next \in TaskIds /\ st[next] = "Ready"
  BY <1>2 DEF WithStatus
<1>4. /\ mode' = "run"
      /\ status' = [st EXCEPT ![next] = "Running"]
      /\ current_task_id' = next
      /\ ready_queue' = remaining(rq)
  BY <1>3 DEF dispatch
<1>5. WithStatus(status', "Ready") = S \ {next}
  BY <1>3, <1>4 DEF WithStatus
<1>6. QED
  BY <1>2, <1>3, <1>4, <1>5, Zenon

(* Freeing the stacks of exited tasks keeps every other stack exclusive. *)
StacksFit(st, stk, free) ==
    /\ stk \in [TaskIds -> StackBlocks \cup {NoStack}]
    /\ free \subseteq StackBlocks
    /\ \A t \in TaskIds :
           IF st[t] = "None" THEN stk[t] = NoStack
           ELSE stk[t] \in StackBlocks \ free
    /\ \A t, u \in TaskIds : stk[t] = stk[u] /\ stk[t] # NoStack => t = u

(* What prepare_next_task does.  The current task, if there is one, is     *)
(* Running or has just exited; in the second case it is the last zombie.   *)
LEMMA PrepareNextTaskEffect ==
    ASSUME NEW st \in [TaskIds -> Statuses], NEW rq, NEW zq,
           Idle \in TaskIds,
           current_task_id \in TaskIds \cup {NoTask},
           Enumerates(rq, WithStatus(st, "Ready")),
           Enumerates(zq, WithStatus(st, "Terminated")),
           WithStatus(st, "Running") \subseteq {current_task_id},
           st[Idle] \in {"Ready", "Running"},
           \/ current_task_id \notin Range(zq)
           \/ zq # << >> /\ zq[Len(zq)] = current_task_id,
           StacksFit(st, stack, free_blocks),
           prepare_next_task(st, rq, zq)
    PROVE  /\ mode' = "run"
           /\ status' \in [TaskIds -> Statuses]
           /\ current_task_id' \in TaskIds
           /\ WithStatus(status', "Running") = {current_task_id'}
           /\ status'[Idle] \in {"Ready", "Running"}
           /\ Enumerates(ready_queue', WithStatus(status', "Ready"))
           /\ Enumerates(zombie_queue', WithStatus(status', "Terminated"))
           /\ StacksFit(status', stack', free_blocks')
           /\ current_task_id \in TaskIds /\ st[current_task_id] # "None" =>
                  stack[current_task_id] \notin free_blocks'
           /\ current_task_id \notin Range(zq) => zombie_queue' = << >>
           /\ free_blocks' \cup held_blocks' = free_blocks \cup held_blocks
<1> DEFINE dead == reclaimed(zq)
<1> DEFINE cur == current_task_id
<1> DEFINE preempted == cur # NoTask /\ cur \notin dead /\ st[cur] = "Running"
<1> DEFINE st1 == [t \in TaskIds |-> IF t \in dead THEN "None"
                                     ELSE IF preempted /\ t = cur THEN "Ready"
                                     ELSE st[t]]
<1> DEFINE rq1 == retain(rq, dead)
<1> DEFINE rq2 == IF preempted THEN requeue(rq1, cur) ELSE rq1
<1>1. /\ zombie_queue' = SubSeq(zq, 1, zombies_kept(zq))
      /\ stack' = [t \in TaskIds |-> IF t \in dead THEN NoStack ELSE stack[t]]
      /\ free_blocks' = free_blocks \cup ({stack[t] : t \in dead} \ {NoStack})
      /\ dispatch(st1, rq2)
  BY DEF prepare_next_task, free_reclaimed
<1>2. zq \in Seq(TaskIds) /\ Range(zq) = WithStatus(st, "Terminated")
  BY DEF Enumerates
<1>3. \/ dead = Range(zq) /\ cur \notin dead /\ zombie_queue' = << >>
      \/ dead = {} /\ zombie_queue' = zq /\ cur \in Range(zq)
  <2>1. CASE cur \notin Range(zq)
    BY <1>1, <1>2, <2>1, AllZombiesReclaimed
  <2>2. CASE cur \in Range(zq) /\ zq # << >> /\ zq[Len(zq)] = cur
    BY <1>1, <1>2, <2>2, CurrentZombieKept
  <2>3. QED
    BY <2>1, <2>2
<1>4. /\ dead \subseteq WithStatus(st, "Terminated")
      /\ cur \notin dead
  BY <1>2, <1>3
<1>5. st1 \in [TaskIds -> Statuses]
  BY DEF Statuses
<1>6. rq1 = rq
  <2>1. Range(rq) = WithStatus(st, "Ready")
    BY DEF Enumerates
  <2>2. Range(rq) \cap dead = {}
    BY <1>4, <2>1 DEF WithStatus
  <2> HIDE DEF dead
  <2>3. QED
    BY <2>2 DEF retain
<1>7. /\ Enumerates(rq2, WithStatus(st1, "Ready"))
      /\ WithStatus(st1, "Running") = {}
      /\ st1[Idle] = "Ready"
  <2>1. CASE preempted
    <3>1. cur \in TaskIds /\ st[cur] = "Running" /\ cur \notin WithStatus(st, "Ready")
      BY <2>1 DEF WithStatus
    <3>2. rq2 = Append(rq, cur)
      BY <1>6, <2>1 DEF requeue
    <3>3. WithStatus(st, "Ready") \in SUBSET TaskIds
      BY DEF WithStatus
    <3>4. Enumerates(rq2, WithStatus(st, "Ready") \cup {cur})
      <4>1. Enumerates(Append(rq, cur), WithStatus(st, "Ready") \cup {cur})
        BY <3>1, <3>3, EnumeratesAppend
      <4> HIDE DEF rq2
      <4>2. QED
        BY <3>2, <4>1
    <3>5. \A t \in TaskIds : st1[t] = IF t \in dead THEN "None"
                                      ELSE IF t = cur THEN "Ready" ELSE st[t]
      BY <2>1
    <3>6. WithStatus(st1, "Ready") = WithStatus(st, "Ready") \cup {cur}
      BY <3>1, <3>5, <1>4 DEF WithStatus
    <3>7. WithStatus(st1, "Running") = {}
      BY <3>1, <3>5 DEF WithStatus
    <3>8. st1[Idle] = "Ready"
      BY <3>1, <3>5, <1>4 DEF WithStatus
    <3>9. QED
      BY <3>4, <3>6, <3>7, <3>8, Zenon
  <2>2. CASE ~preempted
    <3>1. rq2 = rq
      BY <1>6, <2>2
    <3>2. \A t \in TaskIds : st1[t] = IF t \in dead THEN "None" ELSE st[t]
      BY <2>2
    <3>3. WithStatus(st, "Running") = {}
      <4>1. \A t \in TaskIds : st[t] = "Running" => t = cur
        BY DEF WithStatus
      <4>2. \A t \in TaskIds : t # NoTask
        BY ConstantsAssumption DEF TaskIds, NoTask
      <4>3. QED
        BY <1>4, <2>2, <4>1, <4>2 DEF WithStatus
    <3>4. WithStatus(st1, "Ready") = WithStatus(st, "Ready")
      BY <3>2, <1>4 DEF WithStatus
    <3>5. WithStatus(st1, "Running") = {}
      BY <3>2, <3>3 DEF WithStatus
    <3>6. st1[Idle] = "Ready"
      BY <3>2, <3>3, <1>4 DEF WithStatus
    <3>7. QED
      BY <3>1, <3>4, <3>5, <3>6
  <2>3. QED
    BY <2>1, <2>2
<1>8. /\ mode' = "run"
      /\ current_task_id' \in TaskIds
      /\ st1[current_task_id'] = "Ready"
      /\ status' = [st1 EXCEPT ![current_task_id'] = "Running"]
      /\ Enumerates(ready_queue', WithStatus(status', "Ready"))
  <2> HIDE DEF st1, rq2
  <2>1. QED
    BY <1>1, <1>5, <1>7, DispatchEffect
<1>9. /\ status' \in [TaskIds -> Statuses]
      /\ WithStatus(status', "Running") = {current_task_id'}
      /\ status'[Idle] \in {"Ready", "Running"}
      /\ \A t \in TaskIds : t # current_task_id' => status'[t] = st1[t]
  <2> HIDE DEF st1
  <2>1. QED
    BY <1>5, <1>7, <1>8 DEF Statuses, WithStatus
<1>10. \A t \in TaskIds :
          /\ t \in dead => status'[t] = "None"
          /\ t \notin dead => (status'[t] = "None" <=> st[t] = "None")
          /\ t \notin dead => (status'[t] = "Terminated" <=> st[t] = "Terminated")
  <2> SUFFICES ASSUME NEW t \in TaskIds
               PROVE  /\ t \in dead => status'[t] = "None"
                      /\ t \notin dead => (status'[t] = "None" <=> st[t] = "None")
                      /\ t \notin dead => (status'[t] = "Terminated" <=> st[t] = "Terminated")
    OBVIOUS
  <2>1. CASE t = current_task_id'
    <3>1. st1[t] = "Ready" /\ status'[t] = "Running"
      <4> HIDE DEF st1
      <4>1. QED
        BY <2>1, <1>5, <1>8
    <3>2. t \notin dead /\ st[t] \in {"Ready", "Running"}
      BY <3>1
    <3>3. QED
      BY <3>1, <3>2
  <2>2. CASE t # current_task_id'
    BY <1>9, <2>2
  <2>3. QED
    BY <2>1, <2>2
<1>11. Enumerates(zombie_queue', WithStatus(status', "Terminated"))
  <2>1. CASE dead = Range(zq) /\ zombie_queue' = << >>
    <3>1. WithStatus(status', "Terminated") = {}
      <4> HIDE DEF dead
      <4>1. QED
        BY <1>2, <1>10, <2>1 DEF WithStatus
    <3>2. << >> \in Seq(TaskIds) /\ Range(<< >>) = {} /\ Distinct(<< >>)
      BY DEF Range, Distinct
    <3>3. QED
      BY <2>1, <3>1, <3>2, Zenon DEF Enumerates
  <2>2. CASE dead = {} /\ zombie_queue' = zq
    <3>1. WithStatus(status', "Terminated") = WithStatus(st, "Terminated")
      <4> HIDE DEF dead
      <4>1. QED
        BY <1>10, <2>2 DEF WithStatus
    <3>2. QED
      BY <2>2, <3>1
  <2>3. QED
    BY <1>3, <2>1, <2>2
<1>12. dead \subseteq TaskIds /\ \A t \in dead : st[t] # "None"
  BY <1>4 DEF WithStatus
<1> HIDE DEF dead, st1
<1>13. StacksFit(status', stack', free_blocks')
  <2>1. \A t \in dead : stack[t] \in StackBlocks \ free_blocks
    BY <1>12 DEF StacksFit
  <2>2. /\ stack' \in [TaskIds -> StackBlocks \cup {NoStack}]
        /\ free_blocks' \subseteq StackBlocks
    BY <1>1, <2>1 DEF StacksFit
  <2>3. ASSUME NEW t \in TaskIds
        PROVE  IF status'[t] = "None" THEN stack'[t] = NoStack
               ELSE stack'[t] \in StackBlocks \ free_blocks'
    <3>1. CASE t \in dead
      BY <1>1, <1>10, <3>1
    <3>2. CASE t \notin dead /\ st[t] = "None"
      BY <1>1, <1>10, <3>2 DEF StacksFit
    <3>3. CASE t \notin dead /\ st[t] # "None"
      <4>1. stack'[t] = stack[t] /\ stack[t] \in StackBlocks \ free_blocks
        BY <1>1, <3>3 DEF StacksFit
      <4>2. \A u \in dead : stack[u] # stack[t]
        BY <1>12, <2>1, <3>3, ConstantsAssumption DEF StacksFit
      <4>3. stack[t] \notin free_blocks'
        BY <1>1, <4>1, <4>2
      <4>4. QED
        BY <1>10, <3>3, <4>1, <4>3
    <3>4. QED
      BY <3>1, <3>2, <3>3
  <2>4. ASSUME NEW t \in TaskIds, NEW u \in TaskIds,
               stack'[t] = stack'[u], stack'[t] # NoStack
        PROVE  t = u
    <3>1. stack'[t] = stack[t] /\ stack'[u] = stack[u]
      BY <1>1, <2>4
    <3>2. QED
      BY <2>4, <3>1, Zenon DEF StacksFit
  <2>5. QED
    BY <2>2, <2>3, <2>4 DEF StacksFit
<1>14. cur \in TaskIds /\ st[cur] # "None" => stack[cur] \notin free_blocks'
  <2> SUFFICES ASSUME cur \in TaskIds, st[cur] # "None"
               PROVE  stack[cur] \notin free_blocks'
    OBVIOUS
  <2>1. stack[cur] \in StackBlocks \ free_blocks
    BY DEF StacksFit
  <2>2. \A u \in dead : stack[u] # stack[cur]
    BY <1>4, <1>12, <2>1, ConstantsAssumption DEF StacksFit
  <2>3. QED
    BY <1>1, <2>1, <2>2
<1>15. free_blocks' \cup held_blocks' = free_blocks \cup held_blocks
  <2>1. held_blocks' = {stack'[t] : t \in TaskIds} \ {NoStack}
    BY DEF held_blocks
  <2>2. held_blocks = {stack[t] : t \in TaskIds} \ {NoStack}
    BY DEF held_blocks
  <2>3. ASSUME NEW b \in free_blocks' \cup held_blocks'
        PROVE  b \in free_blocks \cup held_blocks
    BY <1>1, <1>12, <2>1, <2>2
  <2>4. ASSUME NEW b \in free_blocks \cup held_blocks
        PROVE  b \in free_blocks' \cup held_blocks'
    <3>1. CASE b \in free_blocks
      BY <1>1, <3>1
    <3>2. CASE b \in held_blocks
      <4>1. PICK t \in TaskIds : b = stack[t] /\ b # NoStack
        BY <2>2, <3>2
      <4>2. CASE t \in dead
        BY <1>1, <4>1, <4>2
      <4>3. CASE t \notin dead
        BY <1>1, <2>1, <4>1, <4>3
      <4>4. QED
        BY <4>2, <4>3
    <3>3. QED
      BY <3>1, <3>2
  <2>5. QED
    BY <2>3, <2>4
<1>16. cur \notin Range(zq) => zombie_queue' = << >>
  BY <1>3
<1>17. QED
  BY <1>8, <1>9, <1>11, <1>13, <1>14, <1>15, <1>16, Zenon

----------------------------------------------------------------------------
(* The inductive invariant *)

(* The properties of Scheduler are not inductive one by one: that a next   *)
(* task is present rests on the idle task staying Ready or Running, which  *)
(* rests on the ready queue agreeing with the statuses, on the current     *)
(* task being the only Running one, and on the idle task having been       *)
(* spawned before the scheduler was started.                               *)
SchedulerInv ==
    /\ TypeOK
    /\ NextTaskPresent
    /\ Enumerates(ready_queue, WithStatus(status, "Ready"))
    /\ Enumerates(zombie_queue, WithStatus(status, "Terminated"))
    /\ StacksFit(status, stack, free_blocks)
    /\ mode \in {"run", "off"} =>
           /\ current_task_id \in TaskIds
           /\ WithStatus(status, "Running") = {current_task_id}
           /\ status[Idle] \in {"Ready", "Running"}
    /\ mode \in {"init", "spawn", "oom"} =>
           /\ current_task_id = NoTask
           /\ status \in [TaskIds -> {"None", "Ready"}]
    /\ mode = "init" => status = [t \in TaskIds |-> "None"]
    /\ mode = "spawn" /\ status[Idle] = "None" =>
           free_blocks = {} /\ status = [t \in TaskIds |-> "None"]

LEMMA IdleIsATask == Idle \in TaskIds /\ NumTasks \in TaskIds /\ NoTask \notin TaskIds
BY ConstantsAssumption DEF Idle, TaskIds, NoTask

(* An empty scheduler satisfies the invariant. *)
LEMMA InitEstablishesInv == Init => SchedulerInv
<1> SUFFICES ASSUME Init PROVE SchedulerInv
  OBVIOUS
<1>1. TypeOK
  <2>1. << >> \in Seq(TaskIds)
    OBVIOUS
  <2>2. QED
    BY <2>1 DEF Init, TypeOK
<1>2. WithStatus(status, "Ready") = {} /\ WithStatus(status, "Terminated") = {}
  BY DEF Init, WithStatus
<1>3. Enumerates(<< >>, {})
  BY DEF Enumerates, Range, Distinct
<1>4. StacksFit(status, stack, free_blocks)
  BY ConstantsAssumption DEF Init, StacksFit
<1>5. QED
  BY <1>1, <1>2, <1>3, <1>4, Zenon DEF Init, SchedulerInv, NextTaskPresent

(* The part of the invariant that prepare_next_task establishes. *)
LEMMA PrepareReestablishesInv ==
    ASSUME SchedulerInv,
           NEW st \in [TaskIds -> Statuses], NEW rq, NEW zq,
           Enumerates(rq, WithStatus(st, "Ready")),
           Enumerates(zq, WithStatus(st, "Terminated")),
           WithStatus(st, "Running") \subseteq {current_task_id},
           st[Idle] \in {"Ready", "Running"},
           \/ current_task_id \notin Range(zq)
           \/ zq # << >> /\ zq[Len(zq)] = current_task_id,
           StacksFit(st, stack, free_blocks),
           prepare_next_task(st, rq, zq),
           blocked_queue' \subseteq SleepEntry, now' \in Nat, next_tick' \in Nat
    PROVE  SchedulerInv'
<1>1. current_task_id \in TaskIds \cup {NoTask}
  BY DEF SchedulerInv, TypeOK
<1>2. /\ mode' = "run"
      /\ status' \in [TaskIds -> Statuses]
      /\ current_task_id' \in TaskIds
      /\ WithStatus(status', "Running") = {current_task_id'}
      /\ status'[Idle] \in {"Ready", "Running"}
      /\ Enumerates(ready_queue', WithStatus(status', "Ready"))
      /\ Enumerates(zombie_queue', WithStatus(status', "Terminated"))
      /\ StacksFit(status', stack', free_blocks')
  BY <1>1, IdleIsATask, PrepareNextTaskEffect
<1>3. TypeOK'
  <2>1. ready_queue' \in Seq(TaskIds) /\ zombie_queue' \in Seq(TaskIds)
    BY <1>2 DEF Enumerates
  <2>2. /\ stack' \in [TaskIds -> StackBlocks \cup {NoStack}]
        /\ free_blocks' \subseteq StackBlocks
    BY <1>2 DEF StacksFit
  <2>3. QED
    BY <1>2, <2>1, <2>2 DEF TypeOK, Statuses
<1>4. QED
  BY <1>2, <1>3 DEF SchedulerInv, NextTaskPresent

(* spawn fills an empty slot and puts it in the ready queue. *)
LEMMA SpawnEffect ==
    ASSUME SchedulerInv, spawn
    PROVE  /\ status' \in [TaskIds -> Statuses]
           /\ Enumerates(ready_queue', WithStatus(status', "Ready"))
           /\ Enumerates(zombie_queue', WithStatus(status', "Terminated"))
           /\ StacksFit(status', stack', free_blocks')
           /\ WithStatus(status', "Running") = WithStatus(status, "Running")
           /\ \A t \in TaskIds : status'[t] # status[t] =>
                  status[t] = "None" /\ status'[t] = "Ready"
           /\ status'[Idle] # "None"
           /\ UNCHANGED <<current_task_id, blocked_queue, now, next_tick>>
           /\ free_blocks' \cup held_blocks' = free_blocks \cup held_blocks
           /\ free_blocks' \subseteq free_blocks
<1>1. PICK id \in TaskIds, blk \in free_blocks :
        /\ status[id] = "None"
        /\ \A j \in 0 .. id - 1 : status[j] # "None"
        /\ status' = [status EXCEPT ![id] = "Ready"]
        /\ stack' = [stack EXCEPT ![id] = blk]
        /\ free_blocks' = free_blocks \ {blk}
        /\ ready_queue' = Append(ready_queue, id)
        /\ UNCHANGED <<current_task_id, zombie_queue, blocked_queue, time>>
  BY Zenon DEF spawn
<1>2. status \in [TaskIds -> Statuses] /\ StacksFit(status, stack, free_blocks)
  BY DEF SchedulerInv, TypeOK, Statuses
<1>3. /\ WithStatus(status', "Ready") = WithStatus(status, "Ready") \cup {id}
      /\ WithStatus(status', "Terminated") = WithStatus(status, "Terminated")
      /\ WithStatus(status', "Running") = WithStatus(status, "Running")
      /\ id \notin WithStatus(status, "Ready")
      /\ WithStatus(status, "Ready") \in SUBSET TaskIds
  BY <1>1, <1>2 DEF WithStatus
<1>4. Enumerates(ready_queue', WithStatus(status', "Ready"))
  <2>1. Enumerates(ready_queue, WithStatus(status, "Ready"))
    BY DEF SchedulerInv
  <2>2. Enumerates(Append(ready_queue, id), WithStatus(status, "Ready") \cup {id})
    BY <1>3, <2>1, EnumeratesAppend
  <2>3. QED
    BY <1>1, <1>3, <2>2, Zenon
<1>5. Enumerates(zombie_queue', WithStatus(status', "Terminated"))
  BY <1>1, <1>3 DEF SchedulerInv
<1>6. status'[Idle] # "None"
  <2>1. CASE id = Idle
    BY <1>1, <1>2, <2>1
  <2>2. CASE id # Idle
    <3>1. Idle \in 0 .. id - 1
      BY <2>2, ConstantsAssumption DEF Idle, TaskIds
    <3>2. QED
      BY <1>1, <1>2, <2>2, <3>1, IdleIsATask
  <2>3. QED
    BY <2>1, <2>2
<1>7. StacksFit(status', stack', free_blocks')
  <2>1. blk \in StackBlocks /\ stack[id] = NoStack
    BY <1>1, <1>2 DEF StacksFit
  <2>2. /\ stack' \in [TaskIds -> StackBlocks \cup {NoStack}]
        /\ free_blocks' \subseteq StackBlocks
    BY <1>1, <1>2, <2>1 DEF StacksFit
  <2>3. ASSUME NEW t \in TaskIds
        PROVE  IF status'[t] = "None" THEN stack'[t] = NoStack
               ELSE stack'[t] \in StackBlocks \ free_blocks'
    <3>1. CASE t = id
      BY <1>1, <1>2, <2>1, <3>1 DEF StacksFit
    <3>2. CASE t # id
      BY <1>1, <1>2, <3>2 DEF StacksFit
    <3>3. QED
      BY <3>1, <3>2
  <2>4. \A t \in TaskIds : stack[t] # blk
    BY <1>1, <1>2, <2>1, ConstantsAssumption DEF StacksFit
  <2>5. ASSUME NEW t \in TaskIds, NEW u \in TaskIds,
               stack'[t] = stack'[u], stack'[t] # NoStack
        PROVE  t = u
    BY <1>1, <1>2, <2>4, <2>5 DEF StacksFit
  <2>6. QED
    BY <2>2, <2>3, <2>5 DEF StacksFit
<1>8. free_blocks' \cup held_blocks' = free_blocks \cup held_blocks
  <2>1. blk \in StackBlocks /\ stack[id] = NoStack
    BY <1>1, <1>2 DEF StacksFit
  <2>2. stack'[id] = blk /\ \A t \in TaskIds : t # id => stack'[t] = stack[t]
    BY <1>1, <1>2 DEF StacksFit
  <2>3. held_blocks' = {stack'[t] : t \in TaskIds} \ {NoStack}
    BY DEF held_blocks
  <2>4. held_blocks = {stack[t] : t \in TaskIds} \ {NoStack}
    BY DEF held_blocks
  <2>5. blk # NoStack
    BY <2>1, ConstantsAssumption
  <2>6. held_blocks' = held_blocks \cup {blk}
    <3>1. ASSUME NEW b \in held_blocks' PROVE b \in held_blocks \cup {blk}
      BY <2>2, <2>3, <2>4
    <3>2. ASSUME NEW b \in held_blocks PROVE b \in held_blocks'
      <4>1. PICK t \in TaskIds : b = stack[t] /\ b # NoStack
        BY <2>4
      <4>2. t # id
        BY <2>1, <4>1
      <4>3. QED
        BY <2>2, <2>3, <4>1, <4>2
    <3>3. blk \in held_blocks'
      BY <2>2, <2>3, <2>5
    <3>4. QED
      BY <3>1, <3>2, <3>3
  <2>7. QED
    BY <1>1, <2>6
<1>9. \A t \in TaskIds : status'[t] # status[t] =>
          status[t] = "None" /\ status'[t] = "Ready"
  BY <1>1, <1>2
<1>10. status' \in [TaskIds -> Statuses]
  BY <1>1, <1>2 DEF Statuses
<1>11. UNCHANGED <<current_task_id, blocked_queue, now, next_tick>>
  BY <1>1 DEF time
<1>12. free_blocks' \subseteq free_blocks
  BY <1>1
<1>13. QED
  BY <1>3, <1>4, <1>5, <1>6, <1>7, <1>8, <1>9, <1>10, <1>11, <1>12

(* The current task gives up the hart and is Blocked. *)
LEMMA BlockEffect ==
    ASSUME SchedulerInv, in_user_task,
           dispatch([status EXCEPT ![current_task_id] = "Blocked"], ready_queue),
           UNCHANGED <<stack, free_blocks, zombie_queue, time>>,
           blocked_queue' \subseteq SleepEntry
    PROVE  SchedulerInv'
<1> DEFINE cur == current_task_id
<1> DEFINE st == [status EXCEPT ![cur] = "Blocked"]
<1>1. /\ mode = "run"
      /\ cur \in TaskIds
      /\ cur # Idle
      /\ WithStatus(status, "Running") = {cur}
      /\ status[Idle] \in {"Ready", "Running"}
      /\ status \in [TaskIds -> Statuses]
  BY DEF SchedulerInv, in_user_task, TypeOK, Statuses
<1>2. status[cur] = "Running"
  BY <1>1 DEF WithStatus
<1>3. st \in [TaskIds -> Statuses]
  BY <1>1 DEF Statuses
<1>4. /\ WithStatus(st, "Ready") = WithStatus(status, "Ready")
      /\ WithStatus(st, "Running") = {}
      /\ WithStatus(st, "Terminated") = WithStatus(status, "Terminated")
      /\ st[Idle] = "Ready"
  BY <1>1, <1>2, IdleIsATask DEF WithStatus
<1>5. Enumerates(ready_queue, WithStatus(st, "Ready"))
  BY <1>4 DEF SchedulerInv
<1>6. \A t \in TaskIds : st[t] = "None" <=> status[t] = "None"
  BY <1>1, <1>2
<1> HIDE DEF st
<1>7. /\ mode' = "run"
      /\ current_task_id' \in TaskIds
      /\ st[current_task_id'] = "Ready"
      /\ status' = [st EXCEPT ![current_task_id'] = "Running"]
      /\ Enumerates(ready_queue', WithStatus(status', "Ready"))
  BY <1>3, <1>4, <1>5, IdleIsATask, DispatchEffect, Zenon DEF st
<1>8. /\ status' \in [TaskIds -> Statuses]
      /\ WithStatus(status', "Running") = {current_task_id'}
      /\ WithStatus(status', "Terminated") = WithStatus(st, "Terminated")
      /\ status'[Idle] \in {"Ready", "Running"}
      /\ \A t \in TaskIds : status'[t] = "None" <=> st[t] = "None"
  BY <1>3, <1>4, <1>7, IdleIsATask DEF WithStatus, Statuses
<1>9. StacksFit(status', stack', free_blocks')
  <2>1. StacksFit(status, stack, free_blocks)
    BY DEF SchedulerInv
  <2>2. QED
    BY <1>6, <1>8, <2>1 DEF StacksFit
<1>10. Enumerates(zombie_queue', WithStatus(status', "Terminated"))
  BY <1>4, <1>8 DEF SchedulerInv
<1>11. TypeOK'
  <2>1. ready_queue' \in Seq(TaskIds) /\ zombie_queue' \in Seq(TaskIds)
    BY <1>7, <1>10 DEF Enumerates
  <2>2. QED
    BY <1>7, <1>8, <2>1 DEF TypeOK, SchedulerInv, Statuses, time
<1>12. QED
  BY <1>7, <1>8, <1>9, <1>10, <1>11, Zenon DEF SchedulerInv, NextTaskPresent

(* The orders in which finish_sleep may queue the tasks it wakes *)
LEMMA WakeOrderEnumerates ==
    ASSUME TypeOK, NEW woken \in wake_orders
    PROVE  Enumerates(woken, wakeable)
<1>1. wakeable \in SUBSET TaskIds
  BY DEF wakeable
<1>2. Cardinality(wakeable) \in Nat
  <2>1. IsFiniteSet(TaskIds)
    BY ConstantsAssumption, FS_Interval DEF TaskIds
  <2>2. QED
    BY <1>1, <2>1, FS_Subset, FS_CardinalityType
<1>3. /\ woken \in [1 .. Cardinality(wakeable) -> wakeable]
      /\ Range(woken) = wakeable
      /\ \A i, j \in DOMAIN woken : i < j => wakes_before(woken[i], woken[j])
  BY DEF wake_orders
<1>4. woken \in Seq(TaskIds)
  <2>1. woken \in [1 .. Cardinality(wakeable) -> TaskIds]
    BY <1>1, <1>3
  <2>2. QED
    BY <1>2, <2>1, SeqDef
<1>5. \A t \in TaskIds : ~wakes_before(t, t)
  <2> SUFFICES ASSUME NEW t \in TaskIds, wakes_before(t, t) PROVE FALSE
    OBVIOUS
  <2>1. PICK e \in due_entries :
          /\ e.task_id = t
          /\ \A f \in due_entries : f.task_id = t =>
                 \/ e.wake_time < f.wake_time
                 \/ e.wake_time = f.wake_time /\ t < t
    BY DEF wakes_before
  <2>2. e \in SleepEntry
    BY DEF due_entries, TypeOK
  <2>3. e.wake_time \in Nat /\ t \in Int
    BY <2>2, ConstantsAssumption DEF SleepEntry, TaskIds
  <2>4. QED
    BY <2>1, <2>3
<1>6. DOMAIN woken = 1 .. Len(woken) /\ Len(woken) \in Nat
  BY <1>4, LenProperties
<1>7. Distinct(woken)
  <2> SUFFICES ASSUME NEW i \in 1 .. Len(woken), NEW j \in 1 .. Len(woken),
                      woken[i] = woken[j], i # j
               PROVE  FALSE
    BY DEF Distinct
  <2>1. woken[i] \in TaskIds
    BY <1>1, <1>3, <1>6, Zenon
  <2>2. CASE i < j
    BY <1>3, <1>5, <1>6, <2>1, <2>2
  <2>3. CASE j < i
    BY <1>3, <1>5, <1>6, <2>1, <2>3
  <2>4. QED
    BY <1>6, <2>2, <2>3
<1>8. QED
  BY <1>3, <1>4, <1>7 DEF Enumerates

(* The statuses and the ready queue finish_sleep hands to                  *)
(* prepare_next_task agree, and only Blocked tasks have changed.           *)
LEMMA FinishSleepEffect ==
    ASSUME SchedulerInv, mode = "run", NEW woken \in wake_orders, NEW st,
           st = [t \in TaskIds |-> IF t \in wakeable THEN "Ready" ELSE status[t]]
    PROVE  /\ st \in [TaskIds -> Statuses]
           /\ Enumerates(ready_queue \o woken, WithStatus(st, "Ready"))
           /\ Enumerates(zombie_queue, WithStatus(st, "Terminated"))
           /\ WithStatus(st, "Running") \subseteq {current_task_id}
           /\ st[Idle] \in {"Ready", "Running"}
           /\ StacksFit(st, stack, free_blocks)
           /\ current_task_id \notin Range(zombie_queue)
           /\ st[current_task_id] = "Running"
<1>1. /\ status \in [TaskIds -> Statuses]
      /\ current_task_id \in TaskIds
      /\ WithStatus(status, "Running") = {current_task_id}
      /\ status[Idle] \in {"Ready", "Running"}
      /\ TypeOK
  BY DEF SchedulerInv, TypeOK, Statuses
<1>2. wakeable \in SUBSET TaskIds /\ \A t \in wakeable : status[t] = "Blocked"
  BY DEF wakeable
<1>3. st \in [TaskIds -> Statuses]
  BY <1>1 DEF Statuses
<1>4. /\ WithStatus(st, "Ready") = WithStatus(status, "Ready") \cup wakeable
      /\ WithStatus(status, "Ready") \cap wakeable = {}
      /\ WithStatus(status, "Ready") \in SUBSET TaskIds
      /\ WithStatus(st, "Terminated") = WithStatus(status, "Terminated")
      /\ WithStatus(st, "Running") = WithStatus(status, "Running")
      /\ st[Idle] = status[Idle]
  BY <1>1, <1>2, IdleIsATask DEF WithStatus
<1>5. Enumerates(ready_queue \o woken, WithStatus(st, "Ready"))
  <2>1. Enumerates(ready_queue, WithStatus(status, "Ready"))
    BY DEF SchedulerInv
  <2>2. Enumerates(woken, wakeable)
    BY <1>1, WakeOrderEnumerates
  <2>3. Enumerates(ready_queue \o woken, WithStatus(status, "Ready") \cup wakeable)
    BY <1>2, <1>4, <2>1, <2>2, EnumeratesConcat
  <2>4. QED
    BY <1>4, <2>3
<1>6. Enumerates(zombie_queue, WithStatus(st, "Terminated"))
  BY <1>4 DEF SchedulerInv
<1>7. status[current_task_id] = "Running" /\ st[current_task_id] = "Running"
  BY <1>1, <1>2 DEF WithStatus
<1>8. current_task_id \notin Range(zombie_queue)
  <2>1. Range(zombie_queue) = WithStatus(status, "Terminated")
    BY DEF SchedulerInv, Enumerates
  <2>2. QED
    BY <1>7, <2>1 DEF WithStatus
<1>9. StacksFit(st, stack, free_blocks)
  <2>1. \A t \in TaskIds : st[t] = "None" <=> status[t] = "None"
    BY <1>2
  <2>2. StacksFit(status, stack, free_blocks)
    BY DEF SchedulerInv
  <2>3. QED
    BY <2>1, <2>2 DEF StacksFit
<1>10. QED
  BY <1>1, <1>3, <1>4, <1>5, <1>6, <1>7, <1>8, <1>9

(* The statuses and the zombie queue exit hands to prepare_next_task *)
LEMMA ExitEffect ==
    ASSUME SchedulerInv, in_user_task, NEW st, NEW zq,
           st = [status EXCEPT ![current_task_id] = "Terminated"],
           zq = Append(zombie_queue, current_task_id)
    PROVE  /\ st \in [TaskIds -> Statuses]
           /\ Enumerates(ready_queue, WithStatus(st, "Ready"))
           /\ Enumerates(zq, WithStatus(st, "Terminated"))
           /\ WithStatus(st, "Running") \subseteq {current_task_id}
           /\ st[Idle] \in {"Ready", "Running"}
           /\ StacksFit(st, stack, free_blocks)
           /\ zq # << >> /\ zq[Len(zq)] = current_task_id
           /\ st[current_task_id] # "None"
<1> DEFINE cur == current_task_id
<1>1. /\ status \in [TaskIds -> Statuses]
      /\ cur \in TaskIds
      /\ cur # Idle
      /\ WithStatus(status, "Running") = {cur}
      /\ status[Idle] \in {"Ready", "Running"}
  BY DEF SchedulerInv, in_user_task, TypeOK, Statuses
<1>2. status[cur] = "Running"
  BY <1>1 DEF WithStatus
<1>3. st \in [TaskIds -> Statuses]
  BY <1>1 DEF Statuses
<1>4. /\ WithStatus(st, "Ready") = WithStatus(status, "Ready")
      /\ WithStatus(st, "Running") = {}
      /\ WithStatus(st, "Terminated") = WithStatus(status, "Terminated") \cup {cur}
      /\ cur \notin WithStatus(status, "Terminated")
      /\ WithStatus(status, "Terminated") \in SUBSET TaskIds
      /\ st[Idle] = status[Idle]
  BY <1>1, <1>2, IdleIsATask DEF WithStatus
<1>5. Enumerates(ready_queue, WithStatus(st, "Ready"))
  BY <1>4 DEF SchedulerInv
<1>6. Enumerates(zq, WithStatus(st, "Terminated"))
  <2>1. Enumerates(zombie_queue, WithStatus(status, "Terminated"))
    BY DEF SchedulerInv
  <2>2. Enumerates(Append(zombie_queue, cur), WithStatus(status, "Terminated") \cup {cur})
    BY <1>1, <1>4, <2>1, EnumeratesAppend
  <2>3. QED
    BY <1>4, <2>2, ZenonT(30)
<1>7. zq # << >> /\ zq[Len(zq)] = cur
  <2>1. zombie_queue \in Seq(TaskIds)
    BY DEF SchedulerInv, TypeOK
  <2>2. QED
    BY <1>1, <2>1, AppendProperties
<1>8. StacksFit(st, stack, free_blocks)
  <2>1. \A t \in TaskIds : st[t] = "None" <=> status[t] = "None"
    BY <1>1, <1>2
  <2>2. StacksFit(status, stack, free_blocks)
    BY DEF SchedulerInv
  <2>3. QED
    BY <2>1, <2>2 DEF StacksFit
<1>9. st[cur] # "None"
  BY <1>1
<1>10. QED
  BY <1>1, <1>3, <1>4, <1>5, <1>6, <1>7, <1>8, <1>9, Zenon

(* What schedule and run_scheduler hand to prepare_next_task *)
LEMMA CurrentStateFit ==
    ASSUME SchedulerInv,
           mode = "run" \/ (mode = "spawn" /\ status[NumTasks] # "None")
    PROVE  /\ status \in [TaskIds -> Statuses]
           /\ Enumerates(ready_queue, WithStatus(status, "Ready"))
           /\ Enumerates(zombie_queue, WithStatus(status, "Terminated"))
           /\ WithStatus(status, "Running") \subseteq {current_task_id}
           /\ status[Idle] \in {"Ready", "Running"}
           /\ StacksFit(status, stack, free_blocks)
           /\ current_task_id \notin Range(zombie_queue)
           /\ current_task_id \in TaskIds => status[current_task_id] # "None"
<1>1. /\ status \in [TaskIds -> Statuses]
      /\ Enumerates(ready_queue, WithStatus(status, "Ready"))
      /\ Enumerates(zombie_queue, WithStatus(status, "Terminated"))
      /\ StacksFit(status, stack, free_blocks)
      /\ Range(zombie_queue) = WithStatus(status, "Terminated")
  BY DEF SchedulerInv, TypeOK, Statuses, Enumerates
<1>2. CASE mode = "run"
  <2>1. /\ current_task_id \in TaskIds
        /\ WithStatus(status, "Running") = {current_task_id}
        /\ status[Idle] \in {"Ready", "Running"}
    BY <1>2 DEF SchedulerInv
  <2>2. status[current_task_id] = "Running"
    BY <2>1 DEF WithStatus
  <2>3. current_task_id \notin Range(zombie_queue)
    BY <1>1, <2>2 DEF WithStatus
  <2>4. QED
    BY <1>1, <2>1, <2>2, <2>3
<1>3. CASE mode = "spawn" /\ status[NumTasks] # "None"
  <2>1. /\ current_task_id = NoTask
        /\ status \in [TaskIds -> {"None", "Ready"}]
        /\ status[Idle] = "None" => status = [t \in TaskIds |-> "None"]
    BY <1>3 DEF SchedulerInv
  <2>2. status[Idle] = "Ready"
    BY <1>3, <2>1, IdleIsATask
  <2>3. WithStatus(status, "Running") = {}
    BY <2>1 DEF WithStatus
  <2>4. current_task_id \notin Range(zombie_queue)
    BY <1>1, <2>1, IdleIsATask DEF WithStatus
  <2>5. QED
    BY <1>1, <2>1, <2>2, <2>3, <2>4, IdleIsATask
<1>4. QED
  BY <1>2, <1>3

(* What spawn leaves of the invariant, by the mode it ends in *)
LEMMA SpawnPreservesInv ==
    ASSUME SchedulerInv, spawn,
           \/ mode \in {"init", "spawn"} /\ mode' = "spawn"
           \/ mode = "run" /\ mode' = "run"
    PROVE  SchedulerInv'
<1>1. /\ status' \in [TaskIds -> Statuses]
      /\ Enumerates(ready_queue', WithStatus(status', "Ready"))
      /\ Enumerates(zombie_queue', WithStatus(status', "Terminated"))
      /\ StacksFit(status', stack', free_blocks')
      /\ WithStatus(status', "Running") = WithStatus(status, "Running")
      /\ \A t \in TaskIds : status'[t] # status[t] =>
             status[t] = "None" /\ status'[t] = "Ready"
      /\ status'[Idle] # "None"
      /\ UNCHANGED <<current_task_id, blocked_queue, now, next_tick>>
  BY SpawnEffect
<1>2. TypeOK'
  <2>1. ready_queue' \in Seq(TaskIds) /\ zombie_queue' \in Seq(TaskIds)
    BY <1>1 DEF Enumerates
  <2>2. /\ stack' \in [TaskIds -> StackBlocks \cup {NoStack}]
        /\ free_blocks' \subseteq StackBlocks
    BY <1>1 DEF StacksFit
  <2>3. mode' \in {"run", "spawn"}
    OBVIOUS
  <2>4. QED
    BY <1>1, <2>1, <2>2, <2>3 DEF SchedulerInv, TypeOK, Statuses
<1>3. CASE mode \in {"init", "spawn"} /\ mode' = "spawn"
  <2>1. current_task_id = NoTask /\ status \in [TaskIds -> {"None", "Ready"}]
    BY <1>3 DEF SchedulerInv
  <2>2. status' \in [TaskIds -> {"None", "Ready"}]
    BY <1>1, <2>1
  <2>3. QED
    BY <1>1, <1>2, <1>3, <2>1, <2>2 DEF SchedulerInv, NextTaskPresent
<1>4. CASE mode = "run" /\ mode' = "run"
  <2>1. /\ current_task_id \in TaskIds
        /\ WithStatus(status, "Running") = {current_task_id}
        /\ status[Idle] \in {"Ready", "Running"}
    BY <1>4 DEF SchedulerInv
  <2>2. status'[Idle] \in {"Ready", "Running"}
    BY <1>1, <2>1, IdleIsATask
  <2>3. QED
    BY <1>1, <1>2, <1>4, <2>1, <2>2 DEF SchedulerInv, NextTaskPresent
<1>5. QED
  BY <1>3, <1>4

(* Every step keeps the invariant. *)
LEMMA NextPreservesInv == SchedulerInv /\ [Next]_vars => SchedulerInv'
<1> SUFFICES ASSUME SchedulerInv, [Next]_vars PROVE SchedulerInv'
  OBVIOUS
<1>0. TypeOK /\ now \in Nat /\ next_tick \in Nat /\ blocked_queue \subseteq SleepEntry
  BY DEF SchedulerInv, TypeOK
<1>1. CASE init
  <2>1. CASE spawn
    BY <1>1, <2>1, SpawnPreservesInv DEF init
  <2>2. CASE spawn_err
    <3>1. mode = "init" /\ mode' = "spawn" /\ free_blocks = {}
      BY <1>1, <2>2 DEF init, spawn_err
    <3>2. UNCHANGED <<status, stack, free_blocks, current_task_id, ready_queue,
                      zombie_queue, blocked_queue, now, next_tick>>
      BY <2>2 DEF spawn_err, tasks, time
    <3>3. QED
      BY <3>1, <3>2 DEF SchedulerInv, TypeOK, NextTaskPresent
  <2>3. QED
    BY <1>1, <2>1, <2>2 DEF init
<1>2. CASE spawn_boot_task
  <2>1. CASE spawn /\ UNCHANGED mode
    BY <1>2, <2>1, SpawnPreservesInv DEF spawn_boot_task
  <2>2. CASE spawn_err /\ mode' = "oom"
    <3>1. UNCHANGED <<status, stack, free_blocks, current_task_id, ready_queue,
                      zombie_queue, blocked_queue, now, next_tick>>
      BY <2>2 DEF spawn_err, tasks, time
    <3>2. mode = "spawn"
      BY <1>2 DEF spawn_boot_task
    <3>3. QED
      BY <2>2, <3>1, <3>2 DEF SchedulerInv, TypeOK, NextTaskPresent
  <2>3. QED
    BY <1>2, <2>1, <2>2 DEF spawn_boot_task
<1>3. CASE run_scheduler
  <2>1. now' \in Nat /\ next_tick' \in Nat
    BY <1>0, <1>3, ConstantsAssumption DEF run_scheduler, set_next_timer_tick
  <2>2. /\ mode = "spawn" /\ status[NumTasks] # "None"
        /\ prepare_next_task(status, ready_queue, zombie_queue)
        /\ blocked_queue' = blocked_queue
    BY <1>3 DEF run_scheduler
  <2>3. QED
    BY <1>0, <2>1, <2>2, CurrentStateFit, PrepareReestablishesInv, Zenon
<1>4. CASE spawn_late
  BY <1>4, SpawnPreservesInv DEF spawn_late
<1>5. CASE tick
  <2>1. UNCHANGED <<mode, status, stack, free_blocks, current_task_id, ready_queue,
                    zombie_queue, blocked_queue, next_tick>>
    BY <1>5 DEF tick, tasks
  <2>2. now' \in Nat
    BY <1>0, <1>5 DEF tick
  <2>3. QED
    BY <2>1, <2>2 DEF SchedulerInv, TypeOK, NextTaskPresent
<1>6. CASE timer_interrupt
  <2>1. now' \in Nat /\ next_tick' \in Nat
    BY <1>0, <1>6, ConstantsAssumption DEF timer_interrupt, set_next_timer_tick
  <2>2. blocked_queue' \subseteq SleepEntry
    BY <1>0, <1>6 DEF timer_interrupt
  <2> DEFINE st == [t \in TaskIds |-> IF t \in wakeable THEN "Ready" ELSE status[t]]
  <2>3. PICK woken \in wake_orders : prepare_next_task(st, ready_queue \o woken, zombie_queue)
    BY <1>6 DEF timer_interrupt
  <2>4. mode = "run"
    BY <1>6 DEF timer_interrupt
  <2>5. /\ st \in [TaskIds -> Statuses]
        /\ Enumerates(ready_queue \o woken, WithStatus(st, "Ready"))
        /\ Enumerates(zombie_queue, WithStatus(st, "Terminated"))
        /\ WithStatus(st, "Running") \subseteq {current_task_id}
        /\ st[Idle] \in {"Ready", "Running"}
        /\ StacksFit(st, stack, free_blocks)
        /\ current_task_id \notin Range(zombie_queue)
    <3> HIDE DEF st
    <3>1. QED
      BY <2>4, FinishSleepEffect DEF st
  <2> HIDE DEF st
  <2>6. QED
    BY <2>1, <2>2, <2>3, <2>5, PrepareReestablishesInv
<1>7. CASE schedule
  <2>1. /\ mode = "run"
        /\ prepare_next_task(status, ready_queue, zombie_queue)
        /\ UNCHANGED <<blocked_queue, now, next_tick>>
    BY <1>7 DEF schedule, in_user_task, time
  <2>2. QED
    BY <1>0, <2>1, CurrentStateFit, PrepareReestablishesInv
<1>8. CASE exit
  <2> DEFINE st == [status EXCEPT ![current_task_id] = "Terminated"]
  <2> DEFINE zq == Append(zombie_queue, current_task_id)
  <2>1. /\ in_user_task
        /\ prepare_next_task(st, ready_queue, zq)
        /\ UNCHANGED <<blocked_queue, now, next_tick>>
    BY <1>8 DEF exit, time
  <2>2. /\ st \in [TaskIds -> Statuses]
        /\ Enumerates(ready_queue, WithStatus(st, "Ready"))
        /\ Enumerates(zq, WithStatus(st, "Terminated"))
        /\ WithStatus(st, "Running") \subseteq {current_task_id}
        /\ st[Idle] \in {"Ready", "Running"}
        /\ StacksFit(st, stack, free_blocks)
        /\ zq # << >> /\ zq[Len(zq)] = current_task_id
    <3> HIDE DEF st, zq
    <3>1. QED
      BY <2>1, ExitEffect, Zenon DEF st, zq
  <2> HIDE DEF st, zq
  <2>3. QED
    BY <1>0, <2>1, <2>2, PrepareReestablishesInv
<1>9. ASSUME NEW ms \in Millis, sleep(ms) PROVE SchedulerInv'
  <2>1. wake_time_after(ms) \in 0 .. Word - 1
    BY <1>0, ConstantsAssumption DEF wake_time_after
  <2>2. /\ in_user_task
        /\ dispatch([status EXCEPT ![current_task_id] = "Blocked"], ready_queue)
        /\ UNCHANGED <<stack, free_blocks, zombie_queue, time>>
        /\ blocked_queue' = blocked_queue \cup
               {[wake_time |-> wake_time_after(ms), task_id |-> current_task_id]}
    BY <1>9 DEF sleep, set_current_task_sleep
  <2>3. current_task_id \in TaskIds
    BY <2>2 DEF in_user_task, SchedulerInv
  <2>4. blocked_queue' \subseteq SleepEntry
    BY <1>0, <2>1, <2>2, <2>3 DEF SleepEntry
  <2>5. QED
    BY <2>2, <2>4, BlockEffect
<1>10. CASE system_quit
  <2>1. UNCHANGED <<status, stack, free_blocks, current_task_id, ready_queue,
                    zombie_queue, blocked_queue, now, next_tick>>
    BY <1>10 DEF system_quit, tasks, time
  <2>2. mode = "run" /\ mode' = "off"
    BY <1>10 DEF system_quit, in_user_task
  <2>3. QED
    BY <2>1, <2>2 DEF SchedulerInv, TypeOK, NextTaskPresent
<1>11. CASE block
  <2>1. /\ in_user_task
        /\ dispatch([status EXCEPT ![current_task_id] = "Blocked"], ready_queue)
        /\ UNCHANGED <<stack, free_blocks, zombie_queue, time>>
        /\ blocked_queue' = blocked_queue
    BY <1>11 DEF block, block_current_task
  <2>2. QED
    BY <1>0, <2>1, BlockEffect
<1>12. ASSUME NEW t \in TaskIds, wake(t) PROVE SchedulerInv'
  <2>1. /\ mode = "run"
        /\ UNCHANGED <<mode, stack, free_blocks, current_task_id, zombie_queue,
                       blocked_queue, now, next_tick>>
    BY <1>12 DEF wake, wake_up_task, time
  <2>2. /\ current_task_id \in TaskIds
        /\ WithStatus(status, "Running") = {current_task_id}
        /\ status[Idle] \in {"Ready", "Running"}
        /\ status \in [TaskIds -> Statuses]
    BY <2>1 DEF SchedulerInv, TypeOK, Statuses
  <2>3. CASE status[t] = "Blocked"
    <3>1. /\ status' = [status EXCEPT ![t] = "Ready"]
          /\ ready_queue' = Append(ready_queue, t)
      BY <1>12, <2>3 DEF wake, wake_up_task
    <3>2. /\ status' \in [TaskIds -> Statuses]
          /\ WithStatus(status', "Ready") = WithStatus(status, "Ready") \cup {t}
          /\ WithStatus(status', "Terminated") = WithStatus(status, "Terminated")
          /\ WithStatus(status', "Running") = WithStatus(status, "Running")
          /\ status'[Idle] = status[Idle]
          /\ t \notin WithStatus(status, "Ready")
          /\ WithStatus(status, "Ready") \in SUBSET TaskIds
          /\ \A u \in TaskIds : status'[u] = "None" <=> status[u] = "None"
      BY <2>2, <2>3, <3>1, IdleIsATask DEF WithStatus, Statuses
    <3>3. Enumerates(ready_queue', WithStatus(status', "Ready"))
      <4>1. Enumerates(ready_queue, WithStatus(status, "Ready"))
        BY DEF SchedulerInv
      <4>2. Enumerates(Append(ready_queue, t), WithStatus(status, "Ready") \cup {t})
        BY <3>2, <4>1, EnumeratesAppend
      <4>3. QED
        BY <3>1, <3>2, <4>2, Zenon
    <3>4. Enumerates(zombie_queue', WithStatus(status', "Terminated"))
      BY <2>1, <3>2 DEF SchedulerInv
    <3>5. StacksFit(status', stack', free_blocks')
      <4>1. StacksFit(status, stack, free_blocks)
        BY DEF SchedulerInv
      <4>2. QED
        BY <2>1, <3>2, <4>1 DEF StacksFit
    <3>6. TypeOK'
      <4>1. ready_queue' \in Seq(TaskIds)
        BY <3>3 DEF Enumerates
      <4>2. QED
        BY <2>1, <3>2, <4>1 DEF SchedulerInv, TypeOK, Statuses
    <3>7. QED
      BY <2>1, <2>2, <3>2, <3>3, <3>4, <3>5, <3>6 DEF SchedulerInv, NextTaskPresent
  <2>4. CASE status[t] # "Blocked"
    <3>1. UNCHANGED <<status, ready_queue>>
      BY <1>12, <2>4 DEF wake, wake_up_task
    <3>2. QED
      BY <2>1, <3>1 DEF SchedulerInv, TypeOK, NextTaskPresent
  <2>5. QED
    BY <2>3, <2>4
<1>13. CASE UNCHANGED vars
  BY <1>13 DEF vars, tasks, time, SchedulerInv, TypeOK, NextTaskPresent
<1>14. QED
  BY <1>1, <1>2, <1>3, <1>4, <1>5, <1>6, <1>7, <1>8, <1>9, <1>10, <1>11, <1>12, <1>13
     DEF Next, stopped

----------------------------------------------------------------------------
(* What a step may never do *)

(* dispatch picks the idle task only from a queue that holds no other. *)
LEMMA IdlePickedLast ==
    ASSUME NEW q, NEW S \in SUBSET TaskIds, Enumerates(q, S), Idle \in S,
           next_task(q) = Idle
    PROVE  remaining(q) = << >>
<1>1. q \in Seq(TaskIds) /\ Range(q) = S /\ Len(q) \in Nat
  BY LenProperties DEF Enumerates
<1>2. q # << >>
  <2> SUFFICES ASSUME q = << >> PROVE FALSE
    OBVIOUS
  <2>1. Range(q) = {}
    BY DEF Range
  <2>2. QED
    BY <1>1, <2>1
<1>3. /\ Tail(q) \in Seq(TaskIds)
      /\ Len(Tail(q)) = Len(q) - 1
      /\ Enumerates(Tail(q), S \ {Head(q)})
  BY <1>1, <1>2, HeadTailProperties, EnumeratesTail
<1>4. ~passes_over_idle(q)
  <2> SUFFICES ASSUME passes_over_idle(q) PROVE FALSE
    OBVIOUS
  <2>1. Len(q) > 1 /\ Head(q) = Idle
    BY DEF passes_over_idle
  <2>2. Tail(q) # << >>
    <3>1. Len(Tail(q)) # 0
      BY <1>1, <1>3, <2>1
    <3>2. Len(<< >>) = 0
      OBVIOUS
    <3>3. QED
      BY <3>1, <3>2, Zenon
  <2>3. Head(Tail(q)) \in S \ {Idle}
    BY <1>3, <2>1, <2>2, EnumeratesTail, Zenon
  <2>4. next_task(q) = Head(Tail(q))
    BY DEF next_task
  <2>5. QED
    BY <2>3, <2>4, Zenon
<1>5. next_task(q) = Head(q) /\ remaining(q) = Tail(q)
  BY <1>2, <1>4 DEF next_task, remaining
<1>6. Len(q) = 1
  <2>1. Len(q) # 0
    BY <1>1, <1>2, EmptySeq
  <2>2. Head(q) = Idle
    BY <1>5
  <2>3. ~(Len(q) > 1)
    BY <1>4, <2>2 DEF passes_over_idle
  <2>4. Len(q) \in Nat
    BY <1>1
  <2>5. \A n \in Nat : n # 0 /\ ~(n > 1) => n = 1
    OBVIOUS
  <2>6. QED
    BY <2>1, <2>3, <2>4, <2>5
<1>7. Len(Tail(q)) = 0
  BY <1>3, <1>6
<1>8. Tail(q) = << >>
  BY <1>3, <1>7, EmptySeq, Zenon
<1>9. QED
  BY <1>5, <1>8

(* Scheduling from a state that fits the invariant *)
LEMMA PrepareIdleLast ==
    ASSUME NEW st \in [TaskIds -> Statuses], NEW rq, NEW zq,
           current_task_id \in TaskIds \cup {NoTask}, current_task_id # Idle,
           Enumerates(rq, WithStatus(st, "Ready")),
           Enumerates(zq, WithStatus(st, "Terminated")),
           WithStatus(st, "Running") \subseteq {current_task_id},
           st[Idle] \in {"Ready", "Running"},
           \/ current_task_id \notin Range(zq)
           \/ zq # << >> /\ zq[Len(zq)] = current_task_id,
           prepare_next_task(st, rq, zq),
           current_task_id' = Idle
    PROVE  ready_queue' = << >>
<1> DEFINE dead == reclaimed(zq)
<1> DEFINE cur == current_task_id
<1> DEFINE preempted == cur # NoTask /\ cur \notin dead /\ st[cur] = "Running"
<1> DEFINE st1 == [t \in TaskIds |-> IF t \in dead THEN "None"
                                     ELSE IF preempted /\ t = cur THEN "Ready"
                                     ELSE st[t]]
<1> DEFINE rq1 == retain(rq, dead)
<1> DEFINE rq2 == IF preempted THEN requeue(rq1, cur) ELSE rq1
<1>1. dispatch(st1, rq2)
  BY DEF prepare_next_task
<1>2. Range(zq) = WithStatus(st, "Terminated") /\ zq \in Seq(TaskIds)
  BY DEF Enumerates
<1>3. dead \subseteq WithStatus(st, "Terminated")
  <2>1. CASE cur \notin Range(zq)
    BY <1>2, <2>1, AllZombiesReclaimed
  <2>2. CASE zq # << >> /\ zq[Len(zq)] = cur
    BY <1>2, <2>2, CurrentZombieKept
  <2>3. QED
    BY <2>1, <2>2
<1>4. rq1 = rq
  <2>1. Range(rq) \cap dead = {}
    BY <1>3 DEF Enumerates, WithStatus
  <2> HIDE DEF dead
  <2>2. QED
    BY <2>1 DEF retain
<1>5. st[Idle] = "Ready"
  BY IdleIsATask DEF WithStatus
<1>6. PICK S \in SUBSET TaskIds : Enumerates(rq2, S) /\ Idle \in S
  <2>0. /\ WithStatus(st, "Ready") \in SUBSET TaskIds
        /\ Idle \in WithStatus(st, "Ready")
    BY <1>5, IdleIsATask DEF WithStatus
  <2>1. CASE preempted
    <3>1. cur \in TaskIds /\ cur \notin WithStatus(st, "Ready")
      BY <2>1 DEF WithStatus
    <3>2. Enumerates(Append(rq, cur), WithStatus(st, "Ready") \cup {cur})
      BY <2>0, <3>1, EnumeratesAppend
    <3>3. rq2 = Append(rq, cur)
      BY <1>4, <2>1 DEF requeue
    <3> HIDE DEF rq2
    <3>4. QED
      BY <2>0, <3>1, <3>2, <3>3
  <2>2. CASE ~preempted
    <3>1. rq2 = rq
      BY <1>4, <2>2
    <3> HIDE DEF rq2
    <3>2. QED
      BY <2>0, <3>1
  <2>3. QED
    BY <2>1, <2>2
<1> HIDE DEF rq2, st1
<1>7. ready_queue' = remaining(rq2)
  BY <1>1 DEF dispatch
<1>8. next_task(rq2) = Idle
  <2>1. \/ current_task_id' = next_task(rq2)
        \/ current_task_id' = current_task_id
    BY <1>1 DEF dispatch
  <2>2. QED
    BY <2>1
<1>9. QED
  BY <1>6, <1>7, <1>8, IdlePickedLast

(* What every step does to the stacks and to the current task *)
StepSafe ==
    /\ current_task_id # NoTask => stack[current_task_id] \notin free_blocks'
    /\ free_blocks' \cup held_blocks' = free_blocks \cup held_blocks
    /\ timer_interrupt => zombie_queue' = << >>
    /\ current_task_id' = Idle /\ current_task_id # Idle => ready_queue' = << >>

LEMMA CurrentStackHeld ==
    ASSUME SchedulerInv, current_task_id # NoTask
    PROVE  stack[current_task_id] \notin free_blocks
<1>1. /\ current_task_id \in TaskIds
      /\ WithStatus(status, "Running") = {current_task_id}
      /\ StacksFit(status, stack, free_blocks)
  BY DEF SchedulerInv, TypeOK, NextTaskPresent
<1>2. status[current_task_id] = "Running"
  BY <1>1 DEF WithStatus
<1>3. QED
  BY <1>1, <1>2 DEF StacksFit

(* A step that moves no stack and keeps the current task is safe. *)
LEMMA QuietStepSafe ==
    ASSUME SchedulerInv, UNCHANGED <<stack, free_blocks, current_task_id>>,
           ~timer_interrupt
    PROVE  StepSafe
BY CurrentStackHeld DEF StepSafe, held_blocks

LEMMA PrepareStepSafe ==
    ASSUME SchedulerInv,
           NEW st \in [TaskIds -> Statuses], NEW rq, NEW zq,
           Enumerates(rq, WithStatus(st, "Ready")),
           Enumerates(zq, WithStatus(st, "Terminated")),
           WithStatus(st, "Running") \subseteq {current_task_id},
           st[Idle] \in {"Ready", "Running"},
           \/ current_task_id \notin Range(zq)
           \/ zq # << >> /\ zq[Len(zq)] = current_task_id,
           StacksFit(st, stack, free_blocks),
           prepare_next_task(st, rq, zq),
           current_task_id \in TaskIds => st[current_task_id] # "None",
           timer_interrupt => current_task_id \notin Range(zq)
    PROVE  StepSafe
<1>1. current_task_id \in TaskIds \cup {NoTask}
  BY DEF SchedulerInv, TypeOK
<1>2. /\ current_task_id \in TaskIds /\ st[current_task_id] # "None" =>
             stack[current_task_id] \notin free_blocks'
      /\ current_task_id \notin Range(zq) => zombie_queue' = << >>
      /\ free_blocks' \cup held_blocks' = free_blocks \cup held_blocks
  BY <1>1, IdleIsATask, PrepareNextTaskEffect, Zenon
<1>3. current_task_id' = Idle /\ current_task_id # Idle => ready_queue' = << >>
  BY <1>1, PrepareIdleLast
<1>4. QED
  BY <1>1, <1>2, <1>3 DEF StepSafe

(* A task that blocks hands over to the idle task only as a last resort. *)
LEMMA BlockStepSafe ==
    ASSUME SchedulerInv, in_user_task, ~timer_interrupt,
           dispatch([status EXCEPT ![current_task_id] = "Blocked"], ready_queue),
           UNCHANGED <<stack, free_blocks>>
    PROVE  StepSafe
<1>1. current_task_id # Idle /\ current_task_id \in TaskIds /\ status[Idle] = "Ready"
  BY IdleIsATask DEF in_user_task, SchedulerInv, WithStatus
<1>2. /\ Enumerates(ready_queue, WithStatus(status, "Ready"))
      /\ WithStatus(status, "Ready") \in SUBSET TaskIds
      /\ Idle \in WithStatus(status, "Ready")
  BY <1>1, IdleIsATask DEF SchedulerInv, WithStatus
<1>3. /\ ready_queue' = remaining(ready_queue)
      /\ \/ current_task_id' = next_task(ready_queue)
         \/ current_task_id' = current_task_id
  BY DEF dispatch
<1>4. current_task_id' = Idle => ready_queue' = << >>
  BY <1>1, <1>2, <1>3, IdlePickedLast
<1>5. QED
  BY <1>4, CurrentStackHeld DEF StepSafe, held_blocks

(* spawn takes a free stack for the new task and no task from the hart. *)
LEMMA SpawnStepSafe ==
    ASSUME SchedulerInv, spawn, ~timer_interrupt
    PROVE  StepSafe
<1>1. PICK id \in TaskIds, blk \in free_blocks :
          /\ status[id] = "None"
          /\ stack' = [stack EXCEPT ![id] = blk]
          /\ free_blocks' = free_blocks \ {blk}
          /\ UNCHANGED current_task_id
  BY Zenon DEF spawn
<1>2. /\ stack \in [TaskIds -> StackBlocks \cup {NoStack}]
      /\ free_blocks \subseteq StackBlocks
      /\ stack[id] = NoStack
  BY <1>1 DEF SchedulerInv, TypeOK, StacksFit
<1>3. blk # NoStack
  BY <1>1, <1>2, ConstantsAssumption
<1>4. {stack'[t] : t \in TaskIds} \ {NoStack} =
          ({stack[t] : t \in TaskIds} \ {NoStack}) \cup {blk}
  BY <1>1, <1>2, <1>3
<1>5. free_blocks' \cup held_blocks' = free_blocks \cup held_blocks
  BY <1>1, <1>4 DEF held_blocks
<1>6. QED
  BY <1>1, <1>5, CurrentStackHeld DEF StepSafe

LEMMA NextStepSafe == SchedulerInv /\ [Next]_vars => StepSafe
<1> SUFFICES ASSUME SchedulerInv, [Next]_vars PROVE StepSafe
  OBVIOUS
<1>1. CASE timer_interrupt
  <2> DEFINE st == [t \in TaskIds |-> IF t \in wakeable THEN "Ready" ELSE status[t]]
  <2>1. PICK woken \in wake_orders : prepare_next_task(st, ready_queue \o woken, zombie_queue)
    BY <1>1 DEF timer_interrupt
  <2>2. mode = "run"
    BY <1>1 DEF timer_interrupt
  <2>3. /\ st \in [TaskIds -> Statuses]
        /\ Enumerates(ready_queue \o woken, WithStatus(st, "Ready"))
        /\ Enumerates(zombie_queue, WithStatus(st, "Terminated"))
        /\ WithStatus(st, "Running") \subseteq {current_task_id}
        /\ st[Idle] \in {"Ready", "Running"}
        /\ StacksFit(st, stack, free_blocks)
        /\ current_task_id \notin Range(zombie_queue)
    <3> HIDE DEF st
    <3>1. QED
      BY <2>2, FinishSleepEffect DEF st
  <2>4. current_task_id \in TaskIds /\ status[current_task_id] = "Running"
    BY <2>2 DEF SchedulerInv, WithStatus
  <2>5. st[current_task_id] # "None"
    BY <2>4
  <2> HIDE DEF st
  <2>6. QED
    BY <2>1, <2>3, <2>5, PrepareStepSafe
<1>2. CASE ~timer_interrupt
  <2>1. CASE init \/ spawn_boot_task \/ spawn_late
    <3>1. spawn \/ spawn_err
      BY <2>1 DEF init, spawn_boot_task, spawn_late
    <3>2. CASE spawn
      BY <1>2, <3>2, SpawnStepSafe
    <3>3. CASE spawn_err
      BY <1>2, <3>3, QuietStepSafe DEF spawn_err, tasks
    <3>4. QED
      BY <3>1, <3>2, <3>3
  <2>2. CASE run_scheduler \/ schedule
    <3>1. /\ mode = "run" \/ (mode = "spawn" /\ status[NumTasks] # "None")
          /\ prepare_next_task(status, ready_queue, zombie_queue)
      BY <2>2 DEF run_scheduler, schedule, in_user_task
    <3>2. QED
      BY <1>2, <3>1, CurrentStateFit, PrepareStepSafe
  <2>3. CASE exit
    <3> DEFINE st == [status EXCEPT ![current_task_id] = "Terminated"]
    <3> DEFINE zq == Append(zombie_queue, current_task_id)
    <3>1. in_user_task /\ prepare_next_task(st, ready_queue, zq)
      BY <2>3 DEF exit
    <3>2. /\ st \in [TaskIds -> Statuses]
          /\ Enumerates(ready_queue, WithStatus(st, "Ready"))
          /\ Enumerates(zq, WithStatus(st, "Terminated"))
          /\ WithStatus(st, "Running") \subseteq {current_task_id}
          /\ st[Idle] \in {"Ready", "Running"}
          /\ StacksFit(st, stack, free_blocks)
          /\ zq # << >> /\ zq[Len(zq)] = current_task_id
          /\ st[current_task_id] # "None"
      <4> HIDE DEF st, zq
      <4>1. QED
        BY <3>1, ExitEffect, Zenon DEF st, zq
    <3> HIDE DEF st, zq
    <3>3. QED
      BY <1>2, <3>1, <3>2, PrepareStepSafe
  <2>4. CASE block \/ \E ms \in Millis : sleep(ms)
    <3>1. /\ in_user_task
          /\ dispatch([status EXCEPT ![current_task_id] = "Blocked"], ready_queue)
          /\ UNCHANGED <<stack, free_blocks>>
      BY <2>4, Zenon DEF block, block_current_task, sleep, set_current_task_sleep
    <3>2. QED
      BY <1>2, <3>1, BlockStepSafe
  <2>5. CASE tick \/ system_quit \/ (\E t \in TaskIds : wake(t)) \/ UNCHANGED vars
    <3>1. UNCHANGED <<stack, free_blocks, current_task_id>>
      BY <2>5 DEF tick, system_quit, wake, wake_up_task, tasks, vars
    <3>2. QED
      BY <1>2, <3>1, QuietStepSafe
  <2>6. QED
    BY <1>2, <2>1, <2>2, <2>3, <2>4, <2>5 DEF Next, stopped
<1>3. QED
  BY <1>1, <1>2

----------------------------------------------------------------------------
(* The theorems *)

(* The inductive invariant holds in every reachable state: the statuses,   *)
(* the queues and the stacks of prepare_next_task and spawn always agree.  *)
THEOREM SchedulerInvariant == Spec => []SchedulerInv
<1>1. Init => SchedulerInv
  BY InitEstablishesInv
<1>2. SchedulerInv /\ [Next]_vars => SchedulerInv'
  BY NextPreservesInv
<1>3. QED
  BY <1>1, <1>2, PTL DEF Spec

(* Every variable of the scheduler keeps its type. *)
THEOREM TypeCorrect == Spec => []TypeOK
<1>1. SchedulerInv => TypeOK
  BY DEF SchedulerInv
<1>2. QED
  BY <1>1, SchedulerInvariant, PTL

(* The ready queue holds exactly the Ready tasks, each once. *)
THEOREM ReadyQueueIsExact == Spec => []ReadyQueueExact
<1>1. SchedulerInv => ReadyQueueExact
  BY DEF SchedulerInv, ReadyQueueExact, Enumerates, WithStatus
<1>2. QED
  BY <1>1, SchedulerInvariant, PTL

(* While the machine runs, exactly the current task is Running. *)
THEOREM CurrentIsTheOnlyRunning == Spec => []OneRunning
<1>1. SchedulerInv => OneRunning
  BY DEF SchedulerInv, OneRunning, WithStatus
<1>2. QED
  BY <1>1, SchedulerInvariant, PTL

(* The scheduler never picks an empty slot of task_list. *)
THEOREM NextTaskIsPresent == Spec => []NextTaskPresent
<1>1. SchedulerInv => NextTaskPresent
  BY DEF SchedulerInv
<1>2. QED
  BY <1>1, SchedulerInvariant, PTL

(* No two tasks share a stack, and no task has a stack that is free. *)
THEOREM StacksAreExclusive == Spec => []StacksExclusive
<1>1. SchedulerInv => StacksExclusive
  BY DEF SchedulerInv, StacksExclusive, StacksFit
<1>2. QED
  BY <1>1, SchedulerInvariant, PTL

(* The zombie queue holds exactly the Terminated tasks, each once. *)
THEOREM ZombieQueueIsExact == Spec => []ZombiesExact
<1>1. SchedulerInv => ZombiesExact
  BY DEF SchedulerInv, ZombiesExact, Enumerates, WithStatus
<1>2. QED
  BY <1>1, SchedulerInvariant, PTL

(* No step frees the stack the trap handler is running on. *)
THEOREM CurrentStackIsKept == Spec => CurrentStackKept
<1>1. SchedulerInv /\ [Next]_vars =>
          [current_task_id # NoTask => stack[current_task_id] \notin free_blocks']_vars
  BY NextStepSafe DEF StepSafe
<1>2. QED
  BY <1>1, SchedulerInvariant, PTL DEF Spec, CurrentStackKept

(* No step loses a stack. *)
THEOREM StacksAreConserved == Spec => StacksConserved
<1>1. SchedulerInv /\ [Next]_vars =>
          [free_blocks' \cup held_blocks' = free_blocks \cup held_blocks]_vars
  BY NextStepSafe DEF StepSafe
<1>2. QED
  BY <1>1, SchedulerInvariant, PTL DEF Spec, StacksConserved

(* The timer interrupt leaves no exited task unreclaimed. *)
THEOREM TimerReclaimsAllZombies == Spec => TimerReclaimsZombies
<1>1. SchedulerInv /\ [Next]_vars => [timer_interrupt => zombie_queue' = << >>]_vars
  BY NextStepSafe DEF StepSafe
<1>2. QED
  BY <1>1, SchedulerInvariant, PTL DEF Spec, TimerReclaimsZombies

(* The idle task is dispatched only when the ready queue is left empty. *)
THEOREM IdleRunsLast == Spec => IdleOnlyWhenNothingReady
<1>1. SchedulerInv /\ [Next]_vars =>
          [current_task_id' = Idle /\ current_task_id # Idle => ready_queue' = << >>]_vars
  BY NextStepSafe DEF StepSafe
<1>2. QED
  BY <1>1, SchedulerInvariant, PTL DEF Spec, IdleOnlyWhenNothingReady

=============================================================================
