# Verification of charlotteos

TLA+ specifications of the charlotteos kernel (Rust, riscv64, one hart), model-checked with TLC and, in part, proved with TLAPS. Paths below are relative to `src/` of the repository. `PROJECT.json` maps every definition to the lines it models.

## 1. The system

The kernel boots from firmware in S-mode, sets up memory (device tree → Memblock → page tables → buddy system → SLUB heap), spawns an idle task and three demonstration tasks, enables interrupts and switches to the first task. From then on the kernel only runs in trap handlers: timer interrupts (every 10 ms), external interrupts (UART) and system calls (`write`, `schedule`, `exit`, `quit`, `sleep`, `read`). A handler runs with `sstatus.SIE = 0` from `trap_entry` to `sret`, on the stack of the task it interrupted.

### Inventory

| Part | State | Operations | Modules |
|---|---|---|---|
| Scheduler (`task/scheduler.rs`) | `task_list`, `ready_queue`, `zombie_queue`, `blocked_queue` (heap), `current_task_id` | `new`, `init`, `spawn`, `run_scheduler`, `prepare_next_task`, `finish_sleep`, `set_current_task_sleep`, `block_current_task`, `wake_up_task_with_result` | `Scheduler`, `SchedulerProofs` |
| Traps and system calls (`trap/mod.rs`, `syslib/syscall.rs`) | registers of tasks | timer, external interrupt, `schedule`, `exit`, `sleep`, `uart_read`, `system_quit` | `Scheduler`, `UartRead`, `FirstSwitch` |
| UART receive (`trap/interrupts/service/uart_service.rs`) | `receive_buffer`, `wait_queue` | receive interrupt, `uart_read` | `UartRead`, `UartReadProofs` |
| UART transmit (`driver/uart.rs`, `uart_service.rs`, `driver/plic.rs`) | `transmit_buffer` and its lock, IER, the device's FIFO, the interrupt controller | `init`, `write_str`, `putchar`, `plic_handler`, `send_data` | `UartTransmit`, `UartTransmitProofs` |
| Ring buffer (`data_struct/ring_buf.rs`) | `buffer`, `head`, `tail`, `len` | `push`, `pop` | `RingBuffer`, `BoundedFifo`, `UartTransmitProofs` |
| IrqLock (`data_struct/lock.rs`) | spin locks, `sstatus.SIE` | `lock`, drop of the guard | `IrqLock`, `IrqLockProofs` |
| First switch (`main.rs`, `task/switch.rs`) | CSRs, contexts | end of the boot path, `run_scheduler`, `first_switch_to` | `FirstSwitch`, `FirstSwitchProofs` |
| Buddy system (`mm/buddy.rs`) | `free_lists` | `add_free_region`, `alloc`, `dealloc` | `Blocks`, `Buddy`, `FrameAllocator`, `BuddyProofs` |
| Memblock (`mm/memblock.rs`) | three arrays of regions | `init_add_memory`, `reserve_memory`, `early_alloc` | `Memblock` |
| Page table (`mm/pagetable.rs`, `mm/address.rs`) | tables of three levels, `satp` | `bump_map`, `bump_find_create_pte`, `bump_find_pte`, `unmap` | `PageTable` |
| Boot memory (`mm/mod.rs`) | device tree, page tables, page states | `enable_early_mmu`, `setup_memory_and_mapping`, `map_segment`, `switch_to_final_page_table`, `unmap_temp_identity_area`, `init_buddy_system` | `BootMemory` |
| SLUB heap (`mm/slub.rs`) | caches, slabs, page states | `alloc`, `dealloc`, `free_object`, `remove_from_partial` | `Slub`, `SlubProofs` |

How they interact: trap handlers call the scheduler; the UART code blocks and wakes tasks through it; the scheduler takes stacks from the buddy system and gives them back when it reclaims an exited task; the boot path takes page tables from Memblock, maps memory with them, and hands the buddy system what is left; the heap cuts its objects from frames of the buddy system; the UART driver and the UART interrupt meet in the transmit buffer; the scheduler and the heap are guarded by `IrqLock`.

What is hard about it: a task can be woken by the timer and by a character, and heap entries and wait-queue entries outlive what they were made for; slots and stacks of exited tasks are reused; an exiting task is still on the stack that is to be freed; interrupts are enabled in the last part of the boot path, between any two instructions; guards restore interrupts while the lock is still taken; the driver and the handler read and write the same device register; memory is cut and merged by address arithmetic; the kernel changes the page table it runs on; lists are threaded through pages that come and go. `PROJECT.json` lists each hazard at its line.

## 2. Modules

**Scheduler.** One action per handler: `timer_interrupt` (finish_sleep, next tick, prepare_next_task), `schedule`, `exit`, `sleep`, `system_quit`; the boot path's `init`, `spawn_boot_task`, `run_scheduler`; and `block` and `wake`, whose callers are left open here. `prepare_next_task` is modelled whole: reclaiming of zombies (which stops at the current task), requeueing, passing over idle. Several heap entries that fall due together are woken in the order of the heap: by wake time, and equal times by `task_id`, as the derived `Ord` of `SleepEntry` compares them. Wake times are computed modulo `Word`. `mode` tells the phases apart: `oom` is a boot that ran out of memory, `panic` the failed `expect("next task missing")`. `LateSpawn` allows `spawn` after boot: no code at this commit calls it then, but it is a public operation and is what makes slots and stacks be reused.

**UartRead** extends Scheduler with the real callers of `block` and `wake`: the read system call in its three forms (poll, time limit, no limit) and the receive interrupt, and it implements `Scheduler!Spec`. Characters are numbered in order of arrival. The second look into the buffer in `uart_read` (line 60) can never find anything on one hart, since the handler is not interrupted. At this commit nothing initialises the UART driver, so the receive interrupt is never enabled in the device, and its handler could not reach the device (see FirstSwitch); the model takes the interrupt as given, as the code that handles it does.

**RingBuffer** has the indices of the code; **BoundedFifo** is the queue it implements, through the mapping `contents`.

**IrqLock** is a stack of activities on one hart, guards and traps. `drop` and `drop_guard_field` are the two stages of dropping a guard: Rust drops fields after the `drop` method. Locks are numbered in the order the kernel nests them (the scheduler's, then a cache of the heap).

**FirstSwitch** takes `virt_rust_main` from `set_next_timer_tick` through `run_scheduler` to the `sret` of `first_switch_to`, instruction by instruction where interrupts are on, with timer and external interrupts at any point. A context holds whose registers it has. SPP is not part of a context: `sret` returns to the privilege the trap came from. What the final page table allows decides what comes next:

- No page is mapped with `PTEFlags::U`, and the text is `R | X` (`mm/mod.rs:266`). A task that is entered in U-mode takes an instruction page fault at its first fetch (`instruction_page_fault`), unless a timer interrupt that is pending comes first.
- Devices are not mapped at their physical addresses, which is where the handlers use them. `plic_handler` faults when it reads the claim register, and the handler of an unknown exception faults when it prints (`polling_putchar` at `UART_BASE`). The exception this raises is handled by the same code, so that the machine never leaves it (`faulted`). Each of these traps saves the registers of the handler before it to the context that `sscratch` points to, and goes deeper into the same stack; the model stops at the first.
- A task in S-mode does execute. Its `ecall`s go to the firmware and are not seen by the kernel. When its function ends, `trampoline` comes to `unreachable!()` and the machine is shut down (`task_ends`).

So at this commit no system call reaches the kernel. **Scheduler** and **UartRead** model the handlers as they are written, for tasks in U-mode whose pages are mapped for it and devices that can be reached; FirstSwitch is the module that says what happens without.

**Buddy** keeps the free lists in their order; splitting and merging loops are written as what they do to each list. **FrameAllocator** is the abstract specification: a request gets some aligned run of free frames and fails only if there is none. **Blocks** holds what both use: sizes, alignment, a block's frames and its buddy.

**Memblock** has the region arrays; `total_size` of an array is the sum of its sizes and is not read anywhere. **PageTable** has tables as functions from indices to entries, by the number of their frame: `walk` and `translate` are what the hardware does, `missing`, `add_table`, `set_pte` and `large_page_above` what `bump_find_create_pte` does on its way. **BootMemory** is the boot path over both, for any of a set of device trees. `map_segment` takes one step per table it allocates and per entry it writes. Every access to a table, to the device tree and to the array of page states is checked against the table that is in use at that moment, at the address the code uses (physical before the switch, linear after it); one that is not mapped sets `faulted`, after which nothing runs, since there is no trap handler yet. Only the boot path's accesses are checked, not each instruction; that the kernel's own sections stay mapped is part of `NoPageFault`.

**Slub** has the caches with their active slab and the partial list threaded through the page states. Iterations of the loops of `alloc` and `remove_from_partial` are steps, so that a list with a cycle is a behaviour without end and not an undefined operator; for the same reason `on_list` is the least set that has the head and follows the links. A free list is the sequence of its objects. There are two specifications. `SlubSpec` is `KmemCache` called with the page number its interface asks for. `HeapSpec` is the global allocator, whose `dealloc` computes the page number: there every free panics (run `slub_dealloc`), so what `free_object` and `remove_from_partial` do is only seen in `SlubSpec`. `mixed` records that a frame one class still names has gone to another class; the list properties are stated up to that point, `SlabAccounting` also beyond it.

**UartTransmit** extends RingBuffer with both of its users: `write_str` and `putchar` of the interrupt driven driver, register access by register access, and `plic_handler` down to `send_data`, which may come between any two of them. The device and the interrupt controller are hardware and marked external: a transmit FIFO with its transmitter-empty request, receive requests which take precedence in ISR, and a gateway that keeps a request until it is claimed. `_print` is the only user of this driver. No code that runs calls `println!` at this commit, so `init` is not run either; the model shows that the driver and the handler are right together when it is used. It takes the registers as accessible, while `FinalMapExact` shows that the final page table does not map the physical addresses the driver uses.

A definition named `X_bug_...` is `X` with a plausible mistake; nothing uses it. It shows that a property can tell the two apart.

## 3. Runs

| Run | Checks | States |
|---|---|---|
| `uart_read` | idle, two boot tasks and spawn at any time (reuse of slots and stacks with stale entries), sleeps that end and that wrap, reads in all forms, three characters and a buffer of two; all safety properties of Scheduler and UartRead; implements Scheduler | 875590 |
| `live` | `NoStarvation`, `SleepersWake` with readers, sleepers and a late character | 36369 |
| `uart_read_unlimited` | violation, see below | |
| `uart_transmit` | eight characters through a buffer of three and a FIFO of two, with two received characters in between; the buffer implements BoundedFifo | 25770 |
| `irq_lock` | four locks nested, in the boot path and in a handler | 241 |
| `irq_lock_stuck` | violation | |
| `first_switch` | five tasks, interrupts anywhere, faults and the ends of tasks | 140 |
| `first_switch_mode` | violation | |
| `buddy` | nine frames, three orders, requests of 1, 2, 3 and too many pages; implements FrameAllocator | 106099 |
| `boot_memory` | 1766 device trees on 24 pages of RAM, a page table of five entries per level | 85237 |
| `slub` | two size classes over three frames, all sequences of alloc and free | 2291001 |
| `slub_dealloc` | violation | |

### Properties

- *Scheduler:* the ready queue holds exactly the Ready tasks once (`ReadyQueueExact`), the zombie queue exactly the Terminated ones (`ZombiesExact`); the current task is the only Running one (`OneRunning`); the task picked is present (`NextTaskPresent`); stacks are never shared, lost, or freed under a running handler (`StacksExclusive`, `StacksConserved`, `CurrentStackKept`); a timer interrupt reclaims all zombies (`TimerReclaimsZombies`); idle runs last (`IdleOnlyWhenNothingReady`).
- *Liveness:* a ready task runs in the end (`NoStarvation`); a task blocked with a heap entry, asleep or in a timed read, is woken in the end (`SleepersWake`).
- *UartRead:* no character is buffered beside a waiting task (`NoCharBesideWaiter`), a reader blocked without limit is on the wait queue (`BlockedReaderQueued`), characters are delivered in the order of arrival (`DeliveredInOrder`), the scheduler is used as it allows (`ImplementsScheduler`).
- *UartTransmit:* what was sent, what is in the FIFO and what is in the buffer are the characters written, in order, and the FIFO never overflows (`OutputInOrder`); characters in the buffer mean that a transmit interrupt is on and will come (`TransmitterArmed`); every character is sent, and `write_str` ends, however often the buffer is full (`AllSent`); the indices are consistent (`RingConsistent`) and the buffer is a bounded queue (`ImplementsFifo`), with both users on it.
- *IrqLock:* handlers do not nest (`TrapsDoNotNest`), interrupts are off while a lock is in use (`HeldLocksMasked`).
- *FirstSwitch:* registers are saved to the current task's context (`ContextOfCurrent`), contexts hold their own task's registers but for the one the switch was about to enter and the one under a handler that faults for good (`ContextsKept`), every task gets to execute instructions of its own unless the machine halts (`EveryTaskStarts`). Which mode a task runs in is the question of `first_switch_mode` alone.
- *Buddy:* blocks are disjoint and aligned, frames conserved, merging complete (`BlocksDisjoint`, `FramesConserved`, `FullyMerged`); an allocation fails only without an aligned free run (`ImplementsFrames`).
- *BootMemory:* arrays sorted and apart (`ArraysSorted`), accounting exact (`AvailableExact`), allocations fresh and in whole pages (`AllocationsFresh`), exactly the wholly free pages handed over, in ranges that meet Buddy's assumption on its regions (`HandoverExact`); the final table maps RAM, devices and kernel sections as intended and nothing else, in any mixture of page sizes (`FinalMapExact`); with RAM inside the kernel's gigabyte, no access of the boot path faults, under either table or while the identity mapping is taken away (`NoPageFault`).
- *Slub:* every object is free or with one caller, every frame in the buddy system or a slab (`SlabAccounting`); a slab with room is active or on the list (`ForgottenAreFull`); `alloc` fails only when memory is exhausted (`NullOnlyWhenExhausted`); freeing never panics, and `alloc` only at a list head that was released while it was active (`PanicsOnlyAtStaleHead`).

### Disagreements with comments

1. `uart_read_unlimited`: a read without a limit can return without a character. A timed read ended by a character leaves its heap entry; when the entry expires, `finish_sleep` wakes the task from whatever it is blocked on.
2. `irq_lock_stuck`: the comment in `IrqLockGuard::drop` has the spin lock released before interrupts are restored; it is the other way round, and an interrupt in between whose handler takes the lock never returns. Handlers run with interrupts off, so only the boot path (`run_scheduler`) is exposed.
3. `first_switch_mode`: a timer interrupt between `init_supervisor_interrupts` and the first `sret` starts the tasks in S-mode, where their system calls go to the firmware. In the mode the comment names a task would fault at its first fetch, since no page is mapped with `U`.
4. `slub_dealloc`: `dealloc` turns an address into a page number with a conversion that does not divide by the page size; `get_page_state` is then called with a number outside of RAM and panics, on every free. At this commit the first free comes when a `VecDeque` or `Vec` grows beyond its first capacity of four: the fifth waiter, for instance.

The first and the third are bounded by what is proved or checked elsewhere: a stale wake-up never breaks the scheduler (`ImplementsScheduler`), contexts are kept in either mode (`ContextsKept`), and in S-mode every task gets its turn as long as the machine runs (`EveryTaskStarts`). The second is bounded by the theorem `StuckOnlyInDrop`: this is the only place where `lock` can wait for good.

The heap has two more defects that no comment speaks of, so that they are hazards and not runs. A new slab is made active while it is also the head of the partial list; when it empties while active its frame is released and the list still names it, and the next `alloc` that looks there panics, or gets a frame of another class. And a slab that is full, on the list and not active is put on the list again by the next free, and becomes its own successor. `PanicsOnlyAtStaleHead` says that the first is the only panic of a class that shares no frame, and `SlabAccounting` that even then no object is handed out twice. Both wait behind 4: nothing can be freed before that is repaired.

### Bounds

`MaxTime`, `MaxEntries`, `MaxWaiters`, `MaxChars`, `MaxReceived`, `MaxTasks` bound what the code leaves unbounded; each is a guard. Two heap entries per run are enough for a stale entry beside a live one; two waiters for a stale waiter beside a live one; three characters for one delivered, one buffered and one on the way with a buffer of two, so that it is also full. `MaxTime = 3` is beyond one quantum of two cycles. Time stops at `MaxTime`, where the timer goes on firing. In `buddy`, region 7..15 starts off alignment and has two blocks of the largest order, which must not merge. `MaxWaiters = 2` is also below four, where the wait queue would be moved and the free panic. In `uart_transmit` eight characters go twice round a buffer of three that is larger than the FIFO, so that the writer meets a full buffer and the handler stops with characters left. In `boot_memory` a page has two units, so regions can begin and end within pages; tables have five entries, so a "2 MB" page is five pages and the bss section holds one; `MAX_REGIONS = 5` makes the arrays overflow in some trees; some trees have RAM beyond the kernel's gigabyte, two devices in one page, or a device that takes a large page. RAM starts above the largest request, as on the real machine, so that `end - size` does not wrap. In `slub` two objects per slab make a slab empty, partial and full; three frames make a list of two beside an active slab, and let frames pass between the classes. Symmetry is used for stacks and for size classes, in runs without liveness properties.

Deadlock checking is off for `irq_lock` (a handler that waits for good is run `irq_lock_stuck`), for `boot_memory` (boot ends, panics or faults) and for `uart_transmit` (all characters have been sent; that the handler does not wait for good is part of `AllSent`).

### Fairness

`UartFairSpec` assumes that the boot path goes on, that time passes, and that a timer interrupt that is due is taken. The hart delivers it: tasks run in U-mode, where S-mode interrupts are always enabled, or in S-mode with SIE set. No fairness is assumed of tasks: they may run for ever between interrupts. `SwitchSpec` assumes that the timer goes on firing, that a fetch which faults does so, and strong fairness of the boot path: it can be interrupted and, with its registers in the context of a task, resumed over and over, and each timer interrupt sets the next one 10 ms ahead, so that it gets on when it is resumed. Nothing is assumed of external interrupts or of tasks coming to their end. `TransmitSpec` assumes that the hart runs on in `putchar` and in the handler, that a pending interrupt is taken and that the UART sends. It takes strong fairness for one step, the interrupt being taken while the cause is the transmitter: a writer with a full buffer disables and enables the transmit interrupt over and over, and each interrupt could otherwise be taken just inside the few instructions in which the cause is masked.

## 4. Proofs

`SchedulerProofs` proves, for every number of tasks, stacks, times and bounds (`ConstantsAssumption`), type correctness and all safety properties of Scheduler. The inductive invariant `SchedulerInv` says that each queue enumerates the tasks of its status without repetition, that slots and stacks fit (`StacksFit`), that in running modes the current task is the one Running and idle is Ready or Running, and what holds in the boot modes. It is needed because no property is inductive alone: that idle is always Ready or Running rests on the guards of the system calls, and the fallback to task 0 in `prepare_next_task` rests on that; that a reclaimed stack is not the current one rests on the zombie queue being exact. One lemma per action; action properties follow from the invariant before the step.

`UartTransmitProofs` starts with the ring buffer on its own: for every capacity the indices are consistent and the buffer implements `BoundedFifo`; the mapping is `contents`, and `push` and `pop` are each shown to map to a step of the queue. It then takes the driver, the handler and the device, for every size of the buffer and of the FIFO and every number of characters. The invariant `TransmitInv` consists of types, `RingConsistent`, `OutputInOrder` and four facts that tie the actors together: the FIFO has room for every turn of the handler's loop, because it was empty when the handler read ISR (`FifoHasRoom`); the transmit interrupt is off while `putchar` is between its two writes of IER, so that the handler takes the lock of `transmit_buffer` only when the writer does not hold it (`LockOwner`); the interrupt controller has seen what the device requests (`PlicInStep`); and while the interrupt is on, an empty FIFO has requested it or the handler is about to send (`Armed`). `TransmitterArmed` is not inductive without the others: the handler turns the interrupt off when it has emptied the buffer, `putchar` turns it on after a push, and each takes several steps in which the other's half may be pending. `HandlerNeverSpins` follows from `LockOwner`, and that every step of either actor is a step of the ring buffer (`TransmitBufferIsRing`) gives the queue in place (`TransmitBufferIsFifo`).

`FirstSwitchProofs` takes any sequence of boot tasks. `SwitchInv` says which context `sscratch` points to while the hart executes the boot path before and after the handover, and a task (`SscratchInStep`), which contexts may hold other registers than their task's (`BootContext`), and that the idle task is current or in the ready queue (`IdleKept`). `ContextOfCurrent`, `ContextsKept` and `IdleTaskKept` follow.

`BuddyProofs` takes any number of orders, any requests and any regions that are in order and apart (`RegionsAssumption`; `HandoverExact` checks that Memblock's are). Its first part is the geometry: powers of two, aligned blocks (two are disjoint or one contains the other: `Nested`), a block and its buddy, and the three ways in which a set of disjoint blocks is exchanged for another with the same frames: a block for its halves down to an order (`SplitBlocks`), a block and the buddies on the way up for the merged one (`MergeBlocks`), and a new block (`AddBlock`). `NoRun` is the lemma behind `None`: where free blocks are completely merged and none has the order or a larger one, no aligned run of that order is free, because such a run would be covered by smaller blocks and a smallest of them would have its buddy beside it. The second part ties the lists to sets of blocks (`BlocksIn`) and proves `BuddyInv`: no list has a block twice, the blocks are aligned and disjoint (`Placed`) and merged (`Merged`), they are the frames added so far, no two callers hold the same block (`HeldOnce`), and while `add_free_region` runs nothing is allocated, the loop is at the end of what it has added, each block lies in a region (`FromRegions`) and could not have been cut larger (`Largest`). The last two are what makes `Merged` inductive at boot: two neighbours that `add_free_region` cuts are buddies only if the first could have been cut one order larger. `BlocksStayDisjoint`, `FramesStayConserved`, `BuddiesStayMerged` follow, and so does the refinement `BuddyImplementsFrames`, where `Merged` and `NoRun` are what is needed for `AllocNone`.

`UartReadProofs` builds on `SchedulerProofs`. It proves for every number of tasks, stacks, characters and buffer slots that UartRead implements Scheduler (`UartReadImplementsScheduler`: each step of a system call or of the receive interrupt is a step of Scheduler, with `block` and `wake` where it uses them), that a buffered character and a waiting task never coexist (`BufferOrWaiters`), that a task blocked without limit is on the wait queue (`NoLostWakeUp`), and that characters are delivered in order (`CharactersInOrder`). The inductive invariant `UartInv` is `SchedulerInv` with these and `CharsOrdered`: the characters in the buffer are in order, none is later than the last arrival, and all are newer than any character a task has. Delivery in order rests on it, and it rests on `NoCharBesideWaiter`: a character is given to a waiter past the buffer, which is only in order when the buffer is empty.

`IrqLockProofs` takes any set of locks. `MaskInv` describes the stack: interrupts are off in a handler, a handler has below it nothing or one guard whose drop has run, only the outermost guard has found interrupts on, and `HeldLocksMasked`; `HandlersDoNotNest` and `LocksAreMasked` follow. `LockInv` adds that only the top of the stack waits, that exactly the locks of the guards below it are taken, each by one guard, and that guards with no trap between them are in the order of their locks. From it follows `StuckOnlyInDrop`: a `lock` that waits for a taken lock is in a handler whose trap came during the drop of the outermost guard of that same lock, after it had restored interrupts and before it released the spin lock.

`SlubProofs` takes any finite set of frames, any classes and any number of objects per slab from two up (`SlubAssumption`; the largest object is 2048 bytes of a page). `SlubInv` says frame by frame what `SlabAccounting` says, with the objects of a slab numbered and its callers' objects finite in number (`FrameOK`), with types, and with what a call in progress may name (`CallOK`): while `remove_from_partial` looks for a slab, that slab has no object in use, so that releasing its frame takes nothing from a caller, and the slab before the current one is a slab. `SlabsAreAccountedFor` needs nothing of the lists to be right, and so covers the states in which they have gone wrong, `mixed` included.

The second part of `SlubProofs` is about the lists. `ListInv` holds as long as `mixed` is false and nothing has panicked. What a cache names, as active, as head or as a successor, is its own or no slab at all (`NamesOwn`). A slab with room that is not active *waits*, and every waiting slab is found from the head by way of waiting slabs (`Found`). It has to be waiting slabs all the way: a full slab on the list is linked a second time when an object of it is freed, and what was behind it is lost, and a released one ends the list. While `remove_from_partial` runs, its slab is ahead of it and the slab before the current one is waiting and was reached without passing the one it looks for (`SearchGoesOn`). "Found by way of" is stated as membership in every set that has the head and is closed under the links of waiting slabs (`Leads`), which needs no induction and no sequences: a step is handled by saying which set closed before the step comes from one closed after it. That the slab whose last object is freed waits uses that a slab has two objects or more. From `ListInv` follow `FullSlabsAreFoundAgain`, `AllocGivesUpLast` (with no active slab and no head, nothing waits) and `OnlyStaleHeadsPanic` (the search ends at its slab before it can meet a frame that is no slab).

Induction over numbers, which `BuddyProofs` needs for powers and for the block that contains a given frame, is available in one form: the least element of a non-empty set of naturals (`LeastNat`, from the library's well-foundedness of `<`).

Only model-checked: liveness (`NoStarvation`, `SleepersWake`, `AllSent`, `EveryTaskStarts`; the prover has no rules for ENABLED and fairness here), and Memblock, PageTable and BootMemory with their properties.

## 5. Not modelled

- Code that is never run: `map`, `find_create_pte`, `find_pte` and `FrameTracker` of the page table, `mm_set.rs`, the bump allocator, slabs of several pages, the polling UART driver (not compiled with the default features), `__switch_to`, `set_task_ready`, `mark_current_running`.
- Requests above 2048 bytes end in `unimplemented!()`; `task_list` reaches that size when it grows from four to eight entries, which the four tasks there are do not need.
- Formatting and output through the firmware, the assembly before `rust_main`, the bodies of the tasks. `uart_write_byte` calls the firmware, sets `a0` of its caller to 0 and advances its `sepc`; it touches neither the scheduler nor the UART service.
- The device and the interrupt controller are modelled only as far as the UART driver relies on them. Unknown interrupts, and exceptions other than the faults of FirstSwitch, have no action: the code means to print and to return to the same instruction, but printing faults once the final page table is in use.
- That growing `task_list` moves the contexts `sscratch` points into, and that `dealloc` takes no lock, does not show in the models: `spawn` runs only before the first switch, and nothing frees memory with interrupts on.

## 6. Plan

1. Scheduler on FrameAllocator: stacks as blocks of frames.
2. Slub on FrameAllocator, so that `free` is the buddy system of `Buddy`.
3. Proofs for BootMemory: the arrays of Memblock stay sorted and account for all memory (`ArraysSorted`, `AvailableExact`), what is handed over meets `RegionsAssumption` (`HandoverExact`).
