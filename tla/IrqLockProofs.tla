--------------------------- MODULE IrqLockProofs ---------------------------
(***************************************************************************)
(* Proofs about IrqLock, for every set of locks and any depth of nesting.  *)
(***************************************************************************)
EXTENDS IrqLock, SequenceTheorems, TLAPS

Guards == [lock : Locks, saved : BOOLEAN, at : {"spinning", "held", "restored"}]
Activities == Guards \cup {trap}

IsGuardAt(i) == i \in 1 .. Len(stack) /\ ~IsTrap(stack[i])
IsTrapAt(i) == i \in 1 .. Len(stack) /\ IsTrap(stack[i])
HasLock(i) == IsGuardAt(i) /\ stack[i].at # "spinning"

LockTypeOK ==
    /\ sie \in BOOLEAN
    /\ stack \in Seq(Activities)

(* Interrupts are off in a handler. *)
TrapsMasked == \A i \in 1 .. Len(stack) : IsTrapAt(i) => ~sie

(* A handler has below it nothing, or one guard, whose drop has run. *)
TrapsOutermost ==
    \A i, j \in 1 .. Len(stack) :
        IsTrapAt(j) /\ i < j => i = 1 /\ IsGuardAt(i) /\ stack[i].at = "restored"

(* Only the outermost guard found interrupts enabled. *)
SavedOutermost == \A i \in 1 .. Len(stack) : IsGuardAt(i) /\ stack[i].saved => i = 1

(* Only the top of the stack waits for a spin lock. *)
TopSpins == \A i \in 1 .. Len(stack) : IsGuardAt(i) /\ ~HasLock(i) => i = Len(stack)

(* The spin locks that are taken are those of the guards that have theirs, *)
(* and no two have the same.                                               *)
TakenExact == \A l \in Locks : l \in taken <=> \E i \in 1 .. Len(stack) : HasLock(i) /\ stack[i].lock = l
LocksDistinct ==
    \A i, j \in 1 .. Len(stack) : HasLock(i) /\ HasLock(j) /\ stack[i].lock = stack[j].lock => i = j

(* Guards with no trap between them are nested in the order of their locks. *)
LocksOrdered ==
    \A i, j \in 1 .. Len(stack) :
        i < j /\ (\A k \in i .. j : IsGuardAt(k)) => stack[i].lock < stack[j].lock

MaskInv ==
    /\ LockTypeOK
    /\ TrapsMasked
    /\ TrapsOutermost
    /\ SavedOutermost
    /\ HeldLocksMasked

LockInv ==
    /\ MaskInv
    /\ TopSpins
    /\ TakenExact
    /\ LocksDistinct
    /\ LocksOrdered

(* The only way in which lock() can wait for good: it runs in a handler    *)
(* that interrupted the drop of a guard of the same lock, after the drop   *)
(* had restored the interrupts and before the spin lock was released.      *)
StuckOnlyBehindDrop ==
    TopIsGuard("spinning") /\ top.lock \in taken =>
        /\ IsTrapAt(2)
        /\ IsGuardAt(1)
        /\ stack[1].at = "restored"
        /\ stack[1].lock = top.lock
----------------------------------------------------------------------------
(* What the steps do to the stack, element by element *)

LEMMA Kinds ==
    /\ IsTrap(trap)
    /\ \A g \in Guards : ~IsTrap(g)
    /\ \A l \in Locks, s \in BOOLEAN, at \in {"spinning", "held", "restored"} :
           guard(l, s, at) \in Guards
BY DEF IsTrap, trap, Guards, guard

LEMMA GuardFields ==
    ASSUME LockTypeOK, NEW i \in 1 .. Len(stack)
    PROVE  /\ stack[i] \in Activities
           /\ IsTrap(stack[i]) <=> stack[i] = trap
           /\ ~IsTrap(stack[i]) <=> stack[i] \in Guards
BY Kinds DEF LockTypeOK, Activities

LEMMA Pushed ==
    ASSUME LockTypeOK, NEW a \in Activities, stack' = Append(stack, a)
    PROVE  /\ stack' \in Seq(Activities)
           /\ Len(stack) \in Nat
           /\ Len(stack') = Len(stack) + 1
           /\ \A i \in 1 .. Len(stack) : stack'[i] = stack[i]
           /\ stack'[Len(stack) + 1] = a
BY DEF LockTypeOK

LEMMA Popped ==
    ASSUME LockTypeOK, stack # << >>, stack' = pop
    PROVE  /\ stack' \in Seq(Activities)
           /\ Len(stack) \in Nat \ {0}
           /\ Len(stack') = Len(stack) - 1
           /\ \A i \in 1 .. Len(stack) - 1 : stack'[i] = stack[i]
<1>1. stack \in Seq(Activities) /\ Len(stack) \in Nat \ {0}
  BY DEF LockTypeOK
<1>2. 1 \in Nat /\ Len(stack) - 1 \in Nat
  BY <1>1
<1>3. \A i \in 1 .. Len(stack) - 1 : stack[i] \in Activities
  BY <1>1
<1> DEFINE n == Len(stack) - 1
<1>4. n \in Int /\ \A i \in 1 .. n : stack[i] \in Activities
  BY <1>2, <1>3
<1> HIDE DEF n
<1>5. /\ SubSeq(stack, 1, n) \in Seq(Activities)
      /\ Len(SubSeq(stack, 1, n)) = IF 1 <= n THEN n - 1 + 1 ELSE 0
      /\ \A i \in 1 .. n - 1 + 1 : SubSeq(stack, 1, n)[i] = stack[1 + i - 1]
  BY <1>4, SubSeqProperties
<1>6. stack' = SubSeq(stack, 1, n)
  BY DEF pop, n
<1>7. n \in Nat
  BY <1>2 DEF n
<1>8. \A i \in 1 .. n : i \in 1 .. n - 1 + 1 /\ stack[1 + i - 1] = stack[i]
  BY <1>7
<1>9. Len(stack') = n /\ \A i \in 1 .. n : stack'[i] = stack[i]
  BY <1>5, <1>6, <1>7, <1>8
<1> QED
  BY <1>1, <1>5, <1>6, <1>9 DEF n

LEMMA TopChanged ==
    ASSUME LockTypeOK, stack # << >>, NEW at \in {"spinning", "held", "restored"},
           ~IsTrap(top), stack' = at_top(at)
    PROVE  /\ stack' \in Seq(Activities)
           /\ Len(stack) \in Nat \ {0}
           /\ Len(stack') = Len(stack)
           /\ \A i \in 1 .. Len(stack) - 1 : stack'[i] = stack[i]
           /\ top \in Guards
           /\ stack'[Len(stack)] \in Guards
           /\ stack'[Len(stack)].lock = top.lock
           /\ stack'[Len(stack)].saved = top.saved
           /\ stack'[Len(stack)].at = at
<1>1. Len(stack) \in Nat \ {0} /\ Len(stack) \in 1 .. Len(stack)
  BY DEF LockTypeOK
<1>2. top \in Guards
  BY <1>1, GuardFields DEF top
<1> DEFINE g == guard(top.lock, top.saved, at)
<1>3. g \in Guards
  BY <1>2, Kinds DEF Guards
<1>4. g.lock = top.lock /\ g.saved = top.saved /\ g.at = at
  BY DEF guard
<1>5. g \in Activities
  BY <1>3 DEF Activities
<1>6. stack' = [stack EXCEPT ![Len(stack)] = g]
  BY DEF at_top
<1> HIDE DEF g
<1>7. /\ stack' \in Seq(Activities)
      /\ Len(stack') = Len(stack)
      /\ \A i \in 1 .. Len(stack) - 1 : stack'[i] = stack[i]
      /\ stack'[Len(stack)] = g
  BY <1>1, <1>5, <1>6 DEF LockTypeOK
<1> QED
  BY <1>1, <1>2, <1>3, <1>4, <1>7 DEF g

----------------------------------------------------------------------------
(* The interrupt mask *)

LEMMA MaskedInitially == LockInit => MaskInv
<1> SUFFICES ASSUME LockInit
             PROVE  MaskInv
  OBVIOUS
<1>1. stack \in Seq(Activities) /\ 1 .. Len(stack) = {} /\ sie = FALSE
  BY DEF LockInit
<1> QED
  BY <1>1, Zenon DEF MaskInv, LockTypeOK, TrapsMasked, TrapsOutermost, SavedOutermost,
              HeldLocksMasked

LEMMA MaskStep == MaskInv /\ [LockNext]_lockVars => MaskInv'
<1> SUFFICES ASSUME MaskInv, [LockNext]_lockVars
             PROVE  MaskInv'
  OBVIOUS
<1> USE DEF TrapsMasked, TrapsOutermost, SavedOutermost, HeldLocksMasked, IsGuardAt, IsTrapAt
<1>1. CASE init_supervisor_interrupts
  BY <1>1 DEF init_supervisor_interrupts, MaskInv, LockTypeOK
<1>2. ASSUME NEW l \in Locks, lock(l)
      PROVE  MaskInv'
  <2> DEFINE g == guard(l, sie, "spinning")
  <2>1. g \in Guards /\ ~IsTrap(g) /\ g.saved = sie /\ g \in Activities
    BY Kinds, Zenon DEF MaskInv, LockTypeOK, guard, Activities
  <2>2. stack' = Append(stack, g) /\ sie' = FALSE
    BY <1>2 DEF lock, read_and_disable_supervisor_interrupts
  <2> HIDE DEF g
  <2>3. /\ stack' \in Seq(Activities)
        /\ Len(stack) \in Nat
        /\ Len(stack') = Len(stack) + 1
        /\ \A i \in 1 .. Len(stack) : stack'[i] = stack[i]
        /\ stack'[Len(stack) + 1] = g
    BY <2>1, <2>2, Pushed DEF MaskInv
  <2>4. sie => Len(stack) = 0
    <3> SUFFICES ASSUME sie, Len(stack) > 0
                 PROVE  FALSE
      BY <2>3
    <3>1. Len(stack) \in 1 .. Len(stack) /\ stack # << >>
      BY <2>3
    <3>2. ~IsTrap(top)
      BY <3>1 DEF MaskInv, top
    <3>3. top.at = "restored"
      BY <3>1, <3>2 DEF MaskInv, top
    <3> QED
      BY <1>2, <3>1, <3>2, <3>3 DEF lock, TopIsGuard
  <2>5. TrapsMasked' /\ HeldLocksMasked'
    BY <2>2
  <2>6. TrapsOutermost'
    BY <2>1, <2>3 DEF MaskInv
  <2>7. SavedOutermost'
    BY <2>1, <2>3, <2>4 DEF MaskInv
  <2> QED
    BY <2>2, <2>3, <2>5, <2>6, <2>7, Zenon DEF MaskInv, LockTypeOK
<1>3. CASE inner_lock
  <2>1. stack # << >> /\ ~IsTrap(top) /\ stack' = at_top("held")
    BY <1>3 DEF inner_lock, TopIsGuard
  <2>2. /\ stack' \in Seq(Activities)
        /\ Len(stack) \in Nat \ {0}
        /\ Len(stack') = Len(stack)
        /\ \A i \in 1 .. Len(stack) - 1 : stack'[i] = stack[i]
        /\ stack'[Len(stack)] \in Guards
        /\ stack'[Len(stack)].saved = top.saved
    BY <2>1, TopChanged DEF MaskInv
  <2>3. ~sie /\ sie' = sie
    BY <1>3, <2>1, <2>2 DEF inner_lock, TopIsGuard, top, MaskInv
  <2>4. ~IsTrap(stack'[Len(stack)])
    BY <2>2, Kinds
  <2>5. TrapsOutermost'
    BY <2>2, <2>4 DEF MaskInv
  <2>6. SavedOutermost'
    BY <2>1, <2>2, <2>4 DEF MaskInv, top
  <2> QED
    BY <2>2, <2>3, <2>5, <2>6 DEF MaskInv, LockTypeOK
<1>4. CASE drop
  <2>1. stack # << >> /\ ~IsTrap(top) /\ stack' = at_top("restored")
    BY <1>4 DEF drop, TopIsGuard
  <2>2. /\ stack' \in Seq(Activities)
        /\ Len(stack) \in Nat \ {0}
        /\ Len(stack') = Len(stack)
        /\ \A i \in 1 .. Len(stack) - 1 : stack'[i] = stack[i]
        /\ top \in Guards
        /\ stack'[Len(stack)] \in Guards
        /\ stack'[Len(stack)].saved = top.saved
        /\ stack'[Len(stack)].at = "restored"
    BY <2>1, TopChanged DEF MaskInv
  <2>3. ~sie
    BY <1>4, <2>1, <2>2 DEF drop, TopIsGuard, top, MaskInv
  <2>4. sie' = top.saved /\ sie' \in BOOLEAN
    BY <1>4, <2>2, <2>3 DEF drop, restore_interrupts, Guards
  <2>5. top.saved => Len(stack) = 1
    BY <2>1, <2>2 DEF MaskInv, top
  <2>6. ~IsTrap(stack'[Len(stack)])
    BY <2>2, Kinds
  <2>7. TrapsOutermost'
    BY <2>2, <2>6 DEF MaskInv
  <2>8. SavedOutermost'
    BY <2>1, <2>2, <2>6 DEF MaskInv, top
  <2>9. TrapsMasked' /\ HeldLocksMasked'
    BY <2>2, <2>4, <2>5, <2>6
  <2> QED
    BY <2>2, <2>4, <2>7, <2>8, <2>9 DEF MaskInv, LockTypeOK
<1>5. CASE drop_guard_field
  <2>1. stack # << >> /\ stack' = pop /\ sie' = sie
    BY <1>5 DEF drop_guard_field, TopIsGuard
  <2>2. /\ stack' \in Seq(Activities)
        /\ Len(stack) \in Nat \ {0}
        /\ Len(stack') = Len(stack) - 1
        /\ \A i \in 1 .. Len(stack) - 1 : stack'[i] = stack[i]
    BY <2>1, Popped DEF MaskInv
  <2> QED
    BY <2>1, <2>2 DEF MaskInv, LockTypeOK
<1>6. CASE interrupt
  <2>1. sie /\ sie' = FALSE /\ stack' = Append(stack, trap) /\ trap \in Activities
    BY <1>6 DEF interrupt, Activities
  <2>2. /\ stack' \in Seq(Activities)
        /\ Len(stack) \in Nat
        /\ Len(stack') = Len(stack) + 1
        /\ \A i \in 1 .. Len(stack) : stack'[i] = stack[i]
        /\ stack'[Len(stack) + 1] = trap
    BY <2>1, Pushed DEF MaskInv
  <2>3. \A i \in 1 .. Len(stack) : i = 1 /\ ~IsTrap(stack[i]) /\ stack[i].at = "restored"
    BY <2>1, Zenon DEF MaskInv
  <2>4. TrapsOutermost'
    BY <2>2, <2>3
  <2>5. SavedOutermost'
    BY <2>2, Kinds DEF MaskInv
  <2> QED
    BY <2>1, <2>2, <2>4, <2>5, Zenon DEF MaskInv, LockTypeOK
<1>7. CASE sret
  <2>1. stack # << >> /\ IsTrap(top) /\ stack' = pop /\ sie' = TRUE
    BY <1>7 DEF sret
  <2>2. /\ stack' \in Seq(Activities)
        /\ Len(stack) \in Nat \ {0}
        /\ Len(stack') = Len(stack) - 1
        /\ \A i \in 1 .. Len(stack) - 1 : stack'[i] = stack[i]
    BY <2>1, Popped DEF MaskInv
  <2>3. \A i \in 1 .. Len(stack) - 1 : i = 1 /\ ~IsTrap(stack[i]) /\ stack[i].at = "restored"
    BY <2>1, <2>2 DEF MaskInv, top
  <2> QED
    BY <2>1, <2>2, <2>3 DEF MaskInv, LockTypeOK
<1>8. CASE UNCHANGED lockVars
  BY <1>8 DEF MaskInv, LockTypeOK, lockVars
<1> QED
  BY <1>1, <1>2, <1>3, <1>4, <1>5, <1>6, <1>7, <1>8 DEF LockNext

(* MaskInv is an invariant of IrqLock. *)
THEOREM MaskInvariant == LockSpec => []MaskInv
BY MaskedInitially, MaskStep, PTL DEF LockSpec

(* IrqLockGuard::drop never enables interrupts in a handler, so no handler *)
(* is interrupted, whatever locks it takes.                                *)
THEOREM HandlersDoNotNest == LockSpec => []TrapsDoNotNest
<1>1. MaskInv => TrapsDoNotNest
  <2> SUFFICES ASSUME MaskInv,
                      NEW i \in 1 .. Len(stack), NEW j \in 1 .. Len(stack),
                      IsTrap(stack[i]), IsTrap(stack[j]), i # j
               PROVE  FALSE
    BY DEF TrapsDoNotNest
  <2>1. ~(i < j) /\ ~(j < i)
    BY DEF MaskInv, TrapsOutermost, IsTrapAt, IsGuardAt
  <2> QED
    BY <2>1
<1> QED
  BY <1>1, MaskInvariant, PTL

(* Interrupts are off from IrqLock::lock until the outermost guard's drop  *)
(* has run.                                                                *)
THEOREM LocksAreMasked == LockSpec => []HeldLocksMasked
<1>1. MaskInv => HeldLocksMasked
  BY DEF MaskInv
<1> QED
  BY <1>1, MaskInvariant, PTL

----------------------------------------------------------------------------
(* The spin locks *)

LEMMA GuardLocks ==
    ASSUME LockTypeOK, NEW i \in 1 .. Len(stack), ~IsTrap(stack[i])
    PROVE  stack[i].lock \in Locks /\ stack[i].lock \in Nat
BY GuardFields, LocksAssumption, Zenon DEF Guards

(* A guard that is not at the top, above which no trap is, holds a lock    *)
(* that in_order looks at.                                                 *)
LEMMA InOrder ==
    ASSUME LockTypeOK, NEW l \in Locks, in_order(l), NEW i \in 1 .. Len(stack),
           \A k \in i .. Len(stack) : ~IsTrap(stack[k])
    PROVE  stack[i].lock < l
BY DEF in_order, mine

(* Guards stay ordered when the stack loses its top or a guard moves on. *)
LEMMA OrderKept ==
    ASSUME LocksOrdered, Len(stack) \in Nat, Len(stack') \in Nat, Len(stack') <= Len(stack),
           \A i \in 1 .. Len(stack') : /\ IsTrap(stack'[i]) <=> IsTrap(stack[i])
                                      /\ stack'[i].lock = stack[i].lock
    PROVE  LocksOrdered'
<1> SUFFICES ASSUME NEW i \in 1 .. Len(stack'), NEW j \in 1 .. Len(stack'), i < j,
                    \A k \in i .. j : IsGuardAt(k)'
             PROVE  stack'[i].lock < stack'[j].lock
  BY DEF LocksOrdered
<1>1. \A k \in i .. j : k \in 1 .. Len(stack') /\ k \in 1 .. Len(stack)
  OBVIOUS
<1>2. \A k \in i .. j : IsGuardAt(k)
  BY <1>1 DEF IsGuardAt
<1>3. stack[i].lock < stack[j].lock
  BY <1>2 DEF LocksOrdered
<1> QED
  BY <1>3

LEMMA LocksInitially == LockInit => LockInv
<1> SUFFICES ASSUME LockInit
             PROVE  LockInv
  OBVIOUS
<1>1. MaskInv
  BY MaskedInitially
<1>2. 1 .. Len(stack) = {} /\ taken = {}
  BY DEF LockInit
<1> QED
  BY <1>1, <1>2 DEF LockInv, TopSpins, TakenExact, LocksDistinct, LocksOrdered

LEMMA LockStep == LockInv /\ [LockNext]_lockVars => LockInv'
<1> SUFFICES ASSUME LockInv, [LockNext]_lockVars
             PROVE  LockInv'
  OBVIOUS
<1>0. MaskInv' /\ MaskInv /\ LockTypeOK /\ LockTypeOK'
  BY MaskStep DEF LockInv, MaskInv
<1> USE DEF TopSpins, TakenExact, LocksDistinct, LocksOrdered, IsGuardAt, HasLock
<1>1. CASE init_supervisor_interrupts
  BY <1>0, <1>1 DEF init_supervisor_interrupts, LockInv
<1>2. ASSUME NEW l \in Locks, lock(l)
      PROVE  LockInv'
  <2> DEFINE g == guard(l, sie, "spinning")
  <2>1. ~IsTrap(g) /\ g.at = "spinning" /\ g.lock = l /\ g \in Activities
    BY <1>0, Kinds, Zenon DEF LockTypeOK, guard, Activities
  <2>2. stack' = Append(stack, g) /\ taken' = taken
    BY <1>2 DEF lock
  <2> HIDE DEF g
  <2>3. /\ Len(stack) \in Nat
        /\ Len(stack') = Len(stack) + 1
        /\ \A i \in 1 .. Len(stack) : stack'[i] = stack[i]
        /\ stack'[Len(stack) + 1] = g
    BY <1>0, <2>1, <2>2, Pushed
  <2>4. \A i \in 1 .. Len(stack) : ~IsTrap(stack[i]) => stack[i].at # "spinning"
    <3> SUFFICES ASSUME NEW i \in 1 .. Len(stack), ~IsTrap(stack[i]), stack[i].at = "spinning"
                 PROVE  FALSE
      OBVIOUS
    <3>1. i = Len(stack) /\ stack # << >>
      BY <2>3 DEF LockInv
    <3> QED
      BY <1>2, <3>1 DEF lock, TopIsGuard, top
  <2>5. TopSpins'
    BY <2>3, <2>4
  <2>6. TakenExact'
    BY <2>1, <2>2, <2>3 DEF LockInv
  <2>7. LocksDistinct'
    BY <2>1, <2>3 DEF LockInv
  <2>8. LocksOrdered'
    <3> SUFFICES ASSUME NEW i \in 1 .. Len(stack'), NEW j \in 1 .. Len(stack'), i < j,
                        \A k \in i .. j : ~IsTrap(stack'[k])
                 PROVE  stack'[i].lock < stack'[j].lock
      BY <2>3
    <3>1. CASE j \in 1 .. Len(stack)
      BY <2>3, <3>1 DEF LockInv
    <3>2. CASE j = Len(stack) + 1
      <4>1. i \in 1 .. Len(stack) /\ \A k \in i .. Len(stack) : ~IsTrap(stack[k])
        BY <2>3, <3>2
      <4>2. stack[i].lock < l
        BY <1>0, <1>2, <4>1, InOrder DEF lock
      <4> QED
        BY <2>1, <2>3, <3>2, <4>1, <4>2
    <3> QED
      BY <2>3, <3>1, <3>2
  <2> QED
    BY <1>0, <2>5, <2>6, <2>7, <2>8 DEF LockInv
<1>3. CASE inner_lock
  <2>1. /\ stack # << >> /\ ~IsTrap(top) /\ top.at = "spinning"
        /\ stack' = at_top("held")
        /\ top.lock \notin taken
        /\ taken' = taken \cup {top.lock}
    BY <1>3 DEF inner_lock, TopIsGuard
  <2>2. /\ Len(stack) \in Nat \ {0}
        /\ Len(stack') = Len(stack)
        /\ \A i \in 1 .. Len(stack) - 1 : stack'[i] = stack[i]
        /\ stack'[Len(stack)] \in Guards
        /\ stack'[Len(stack)].lock = top.lock
        /\ stack'[Len(stack)].at = "held"
    BY <1>0, <2>1, TopChanged
  <2>3. ~IsTrap(stack'[Len(stack)])
    BY <2>2, Kinds
  <2>4. TopSpins'
    BY <2>2 DEF LockInv
  <2>5. TakenExact'
    BY <2>1, <2>2, <2>3 DEF LockInv, top
  <2>6. LocksDistinct'
    BY <1>0, <2>1, <2>2, <2>3, GuardLocks DEF LockInv
  <2>7. LocksOrdered'
    <3>1. \A i \in 1 .. Len(stack') : /\ IsTrap(stack'[i]) <=> IsTrap(stack[i])
                                      /\ stack'[i].lock = stack[i].lock
      BY <2>1, <2>2, <2>3 DEF top
    <3> QED
      BY <2>2, <3>1, OrderKept DEF LockInv
  <2> QED
    BY <1>0, <2>4, <2>5, <2>6, <2>7 DEF LockInv
<1>4. CASE drop
  <2>1. /\ stack # << >> /\ ~IsTrap(top) /\ top.at = "held"
        /\ stack' = at_top("restored")
        /\ taken' = taken
    BY <1>4 DEF drop, TopIsGuard
  <2>2. /\ Len(stack) \in Nat \ {0}
        /\ Len(stack') = Len(stack)
        /\ \A i \in 1 .. Len(stack) - 1 : stack'[i] = stack[i]
        /\ stack'[Len(stack)] \in Guards
        /\ stack'[Len(stack)].lock = top.lock
        /\ stack'[Len(stack)].at = "restored"
    BY <1>0, <2>1, TopChanged
  <2>3. ~IsTrap(stack'[Len(stack)])
    BY <2>2, Kinds
  <2>4. \A i \in 1 .. Len(stack) :
            /\ IsTrap(stack'[i]) <=> IsTrap(stack[i])
            /\ stack'[i].lock = stack[i].lock
            /\ stack'[i].at = "spinning" <=> stack[i].at = "spinning"
    BY <2>1, <2>2, <2>3 DEF top
  <2>5. TopSpins' /\ LocksDistinct'
    BY <2>2, <2>4 DEF LockInv
  <2>6. TakenExact'
    BY <2>1, <2>2, <2>4 DEF LockInv
  <2>7. LocksOrdered'
    BY <2>2, <2>4, OrderKept DEF LockInv
  <2> QED
    BY <1>0, <2>5, <2>6, <2>7 DEF LockInv
<1>5. CASE drop_guard_field
  <2>1. /\ stack # << >> /\ ~IsTrap(top) /\ top.at = "restored"
        /\ stack' = pop
        /\ taken' = taken \ {top.lock}
    BY <1>5 DEF drop_guard_field, TopIsGuard
  <2>2. /\ Len(stack) \in Nat \ {0}
        /\ Len(stack') = Len(stack) - 1
        /\ \A i \in 1 .. Len(stack) - 1 : stack'[i] = stack[i]
    BY <1>0, <2>1, Popped
  <2>3. TopSpins' /\ LocksDistinct'
    BY <2>2 DEF LockInv
  <2>4. LocksOrdered'
    <3>1. Len(stack') \in Nat /\ Len(stack') <= Len(stack)
      BY <2>2
    <3>2. \A i \in 1 .. Len(stack') : stack'[i] = stack[i]
      BY <2>2
    <3> QED
      BY <2>2, <3>1, <3>2, OrderKept, Zenon DEF LockInv
  <2>5. TakenExact'
    BY <2>1, <2>2 DEF LockInv, top
  <2> QED
    BY <1>0, <2>3, <2>4, <2>5 DEF LockInv
<1>6. CASE interrupt
  <2>1. sie /\ stack' = Append(stack, trap) /\ taken' = taken /\ trap \in Activities
    BY <1>6 DEF interrupt, Activities
  <2>2. /\ Len(stack) \in Nat
        /\ Len(stack') = Len(stack) + 1
        /\ \A i \in 1 .. Len(stack) : stack'[i] = stack[i]
        /\ IsTrap(stack'[Len(stack) + 1])
    BY <1>0, <2>1, Pushed, Kinds
  <2>3. \A i \in 1 .. Len(stack) : ~IsTrap(stack[i]) => stack[i].at = "restored"
    BY <1>0, <2>1 DEF MaskInv, HeldLocksMasked
  <2>4. TopSpins'
    BY <2>2, <2>3
  <2>5. TakenExact' /\ LocksDistinct'
    BY <2>1, <2>2 DEF LockInv
  <2>6. LocksOrdered'
    BY <2>2 DEF LockInv
  <2> QED
    BY <1>0, <2>4, <2>5, <2>6 DEF LockInv
<1>7. CASE sret
  <2>1. stack # << >> /\ IsTrap(top) /\ stack' = pop /\ taken' = taken
    BY <1>7 DEF sret
  <2>2. /\ Len(stack) \in Nat \ {0}
        /\ Len(stack') = Len(stack) - 1
        /\ \A i \in 1 .. Len(stack) - 1 : stack'[i] = stack[i]
    BY <1>0, <2>1, Popped
  <2>3. TopSpins' /\ LocksDistinct'
    BY <2>2 DEF LockInv
  <2>4. LocksOrdered'
    <3>1. Len(stack') \in Nat /\ Len(stack') <= Len(stack)
      BY <2>2
    <3>2. \A i \in 1 .. Len(stack') : stack'[i] = stack[i]
      BY <2>2
    <3> QED
      BY <2>2, <3>1, <3>2, OrderKept, Zenon DEF LockInv
  <2>5. TakenExact'
    BY <2>1, <2>2 DEF LockInv, top
  <2> QED
    BY <1>0, <2>3, <2>4, <2>5 DEF LockInv
<1>8. CASE UNCHANGED lockVars
  BY <1>0, <1>8 DEF LockInv, lockVars
<1> QED
  BY <1>1, <1>2, <1>3, <1>4, <1>5, <1>6, <1>7, <1>8 DEF LockNext

(* The inductive invariant of IrqLock: the interrupt mask, and the spin    *)
(* locks that are taken against the guards on the stack.                   *)
THEOREM LockInvariant == LockSpec => []LockInv
BY LocksInitially, LockStep, PTL DEF LockSpec

(* IrqLock::lock can wait for good only in a handler that interrupted      *)
(* IrqLockGuard::drop between its restoring of the interrupts and the      *)
(* release of the spin lock: nesting of the locks alone never blocks.      *)
THEOREM StuckOnlyInDrop == LockSpec => []StuckOnlyBehindDrop
<1>1. LockInv => StuckOnlyBehindDrop
  <2> SUFFICES ASSUME LockInv, TopIsGuard("spinning"), top.lock \in taken
               PROVE  /\ IsTrapAt(2)
                      /\ IsGuardAt(1)
                      /\ stack[1].at = "restored"
                      /\ stack[1].lock = top.lock
    BY DEF StuckOnlyBehindDrop
  <2>1. /\ LockTypeOK /\ TrapsOutermost
        /\ Len(stack) \in Nat \ {0} /\ Len(stack) \in 1 .. Len(stack)
        /\ ~IsTrap(top) /\ top.at = "spinning"
    BY DEF LockInv, MaskInv, LockTypeOK, TopIsGuard
  <2>2. top.lock \in Locks /\ top.lock \in Nat
    BY <2>1, GuardLocks DEF top
  <2>3. PICK i \in 1 .. Len(stack) : HasLock(i) /\ stack[i].lock = top.lock
    BY <2>2 DEF LockInv, TakenExact
  <2>4. i < Len(stack)
    BY <2>1, <2>3 DEF HasLock, top
  <2>5. PICK k \in i .. Len(stack) : ~IsGuardAt(k)
    <3>1. ~(stack[i].lock < stack[Len(stack)].lock)
      BY <2>2, <2>3 DEF top
    <3> QED
      BY <2>1, <2>4, <3>1 DEF LockInv, LocksOrdered
  <2>6. k \in 1 .. Len(stack) /\ IsTrapAt(k) /\ i < k
    BY <2>3, <2>5 DEF IsGuardAt, IsTrapAt, HasLock
  <2>7. i = 1 /\ stack[i].at = "restored"
    BY <2>1, <2>6 DEF TrapsOutermost
  <2>8. k = 2
    <3>1. CASE k > 2
      BY <2>1, <2>6, <3>1 DEF TrapsOutermost
    <3> QED
      BY <2>6, <2>7, <3>1
  <2> QED
    BY <2>3, <2>6, <2>7, <2>8 DEF HasLock
<1> QED
  BY <1>1, LockInvariant, PTL
=============================================================================
