------------------------------ MODULE IrqLock ------------------------------
(***************************************************************************)
(* IrqLock (data_struct/lock.rs), the lock around the scheduler and around *)
(* every cache of the heap, with the interrupts it is there to keep out.   *)
(*                                                                         *)
(* One hart runs a stack of activities: at the bottom the code that was    *)
(* started, above it what it called or what interrupted it.  An activity   *)
(* is a guard (a call of lock up to the drop of its guard) or a trap.      *)
(* Guards are Rust locals, so they are dropped in reverse order.           *)
(***************************************************************************)
EXTENDS Naturals, Sequences

CONSTANTS
    Locks       \* 1 .. n, in the order the kernel nests them: the
                \* scheduler first, then the caches of the heap

ASSUME LocksAssumption == Locks \subseteq Nat

VARIABLES
    sie,        \* sstatus.SIE: interrupts are enabled
    taken,      \* the spin locks that are taken
    stack       \* the activities, the bottom one first

lockVars == <<sie, taken, stack>>

(* A guard is spinning until it has the spin lock; it is restored when     *)
(* drop has run and its field, the spin lock's guard, has not been         *)
(* dropped yet.                                                            *)
guard(l, saved, at) == [lock |-> l, saved |-> saved, at |-> at]
trap == [trap |-> TRUE]

top == stack[Len(stack)]
IsTrap(a) == "trap" \in DOMAIN a
TopIsGuard(at) == stack # << >> /\ ~IsTrap(top) /\ top.at = at
pop == SubSeq(stack, 1, Len(stack) - 1)
at_top(at) == [stack EXCEPT ![Len(stack)] = guard(top.lock, top.saved, at)]

(* The kernel starts with interrupts off. *)
LockInit ==
    /\ sie = FALSE
    /\ taken = {}
    /\ stack = << >>

(* init_supervisor_interrupts, called by the boot path with no lock held *)
init_supervisor_interrupts ==
    /\ stack = << >>
    /\ ~sie
    /\ sie' = TRUE
    /\ UNCHANGED <<taken, stack>>

(* Locks the running code may take: those that come after the ones it      *)
(* holds, down to the trap it runs in.                                     *)
mine == {stack[i].lock : i \in {j \in 1 .. Len(stack) :
                                   \A k \in j .. Len(stack) : ~IsTrap(stack[k])}}
in_order(l) == \A m \in mine : m < l

read_and_disable_supervisor_interrupts_bug_reads_only == UNCHANGED sie
read_and_disable_supervisor_interrupts == sie' = FALSE

(* IrqLock::lock up to the spin lock *)
lock(l) ==
    /\ ~TopIsGuard("spinning")
    /\ ~TopIsGuard("restored")
    /\ in_order(l)
    /\ stack' = Append(stack, guard(l, sie, "spinning"))
    /\ read_and_disable_supervisor_interrupts
    /\ UNCHANGED taken

(* inner.lock() gets the spin lock. *)
inner_lock ==
    /\ TopIsGuard("spinning")
    /\ top.lock \notin taken
    /\ taken' = taken \cup {top.lock}
    /\ stack' = at_top("held")
    /\ UNCHANGED sie

restore_interrupts_bug_always(saved) == sie' = TRUE
restore_interrupts(saved) == sie' = (sie \/ saved)

(* IrqLockGuard::drop *)
drop ==
    /\ TopIsGuard("held")
    /\ stack' = at_top("restored")
    /\ restore_interrupts(top.saved)
    /\ UNCHANGED taken

(* Rust drops the fields of a value after its drop method has run, so the  *)
(* spin lock is released now.                                              *)
drop_guard_field ==
    /\ TopIsGuard("restored")
    /\ taken' = taken \ {top.lock}
    /\ stack' = pop
    /\ UNCHANGED sie

(* The hart takes an interrupt between two instructions. *)
interrupt ==
    /\ sie
    /\ sie' = FALSE
    /\ stack' = Append(stack, trap)
    /\ UNCHANGED taken

(* The end of trap_entry: SIE is as it was before the trap. *)
sret ==
    /\ stack # << >> /\ IsTrap(top)
    /\ sie' = TRUE
    /\ stack' = pop
    /\ UNCHANGED taken

LockNext ==
    \/ init_supervisor_interrupts
    \/ \E l \in Locks : lock(l)
    \/ inner_lock
    \/ drop
    \/ drop_guard_field
    \/ interrupt
    \/ sret

LockSpec == LockInit /\ [][LockNext]_lockVars

----------------------------------------------------------------------------
(* Properties *)

(* A trap handler is never interrupted, however many locks it takes and    *)
(* drops: restore_interrupts enables interrupts only where they were       *)
(* enabled when the lock was taken.                                        *)
TrapsDoNotNest ==
    \A i, j \in 1 .. Len(stack) : IsTrap(stack[i]) /\ IsTrap(stack[j]) => i = j

(* While a lock is in use no interrupt is taken: interrupts are enabled    *)
(* only outside all guards, or in the one whose drop has just run, and     *)
(* that one was the outermost.                                             *)
HeldLocksMasked ==
    sie => \A i \in 1 .. Len(stack) :
               ~IsTrap(stack[i]) => i = 1 /\ stack[i].at = "restored"

(* lock() never waits for a lock that the code below it on the stack has,  *)
(* which cannot go on to release it: "the lock (_guard) is dropped here    *)
(* first, releasing the spin lock; then we restore the interrupt state".   *)
LockNeverStuck ==
    TopIsGuard("spinning") => top.lock \notin taken
=============================================================================
