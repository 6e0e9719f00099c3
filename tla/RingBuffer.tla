----------------------------- MODULE RingBuffer -----------------------------
(***************************************************************************)
(* RingBuffer<T, N> (data_struct/ring_buf.rs), which holds the characters  *)
(* of the UART in both directions.  Its callers hold a lock, so a call is  *)
(* one action.                                                             *)
(***************************************************************************)
EXTENDS Naturals, Sequences

CONSTANTS
    N,          \* capacity
    Items,      \* values of type T
    Uninit,     \* what MaybeUninit::uninit() holds
    None,       \* pop of an empty buffer
    Ok, Err     \* results of push

ASSUME RingAssumption ==
    /\ N \in Nat \ {0}
    /\ {Uninit, None, Ok, Err} \cap Items = {}
    /\ Uninit \notin {None, Ok, Err}
    /\ Ok # Err

VARIABLES buffer, head, tail, len, out

ringVars == <<buffer, head, tail, len, out>>

Slots == 0 .. N - 1

RingTypeOK ==
    /\ buffer \in [Slots -> Items \cup {Uninit}]
    /\ head \in Slots
    /\ tail \in Slots
    /\ len \in 0 .. N
    /\ out \in Items \cup {None, Ok, Err}

RingInit ==
    /\ buffer = [i \in Slots |-> Uninit]
    /\ head = 0
    /\ tail = 0
    /\ len = 0
    /\ out = Ok

next_slot_bug_no_wrap(i) == i + 1

(* (i + 1) % N *)
next_slot(i) == (i + 1) % N

push_bug_one_slot_less(item) ==
    IF len = N - 1
    THEN out' = Err /\ UNCHANGED <<buffer, head, tail, len>>
    ELSE /\ out' = Ok
         /\ buffer' = [buffer EXCEPT ![tail] = item]
         /\ tail' = next_slot(tail)
         /\ len' = len + 1
         /\ UNCHANGED head

push(item) ==
    IF len = N
    THEN out' = Err /\ UNCHANGED <<buffer, head, tail, len>>
    ELSE /\ out' = Ok
         /\ buffer' = [buffer EXCEPT ![tail] = item]
         /\ tail' = next_slot(tail)
         /\ len' = len + 1
         /\ UNCHANGED head

(* assume_init_read copies the slot and leaves it as it is. *)
pop ==
    IF len = 0
    THEN out' = None /\ UNCHANGED <<buffer, head, tail, len>>
    ELSE /\ head' = next_slot(head)
         /\ len' = len - 1
         /\ out' = buffer[head]
         /\ UNCHANGED <<buffer, tail>>

RingNext == pop \/ \E item \in Items : push(item)

RingSpec == RingInit /\ [][RingNext]_ringVars

----------------------------------------------------------------------------
(* Properties *)

(* The slot i places behind the head h *)
slot(h, i) == (h + i) % N

(* head, tail and len, which push and pop update apart from each other,    *)
(* agree, and the slots between head and tail are initialized: pop never   *)
(* reads one that no push has written.                                     *)
RingConsistent ==
    /\ tail = slot(head, len)
    /\ \A i \in 0 .. len - 1 : buffer[slot(head, i)] \in Items

contents == [i \in 1 .. len |-> buffer[slot(head, i - 1)]]

Fifo == INSTANCE BoundedFifo WITH queue <- contents

(* The ring buffer is a bounded queue, through every wrap of its indices. *)
ImplementsFifo == Fifo!FifoSpec
=============================================================================
