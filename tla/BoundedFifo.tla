---------------------------- MODULE BoundedFifo ----------------------------
(***************************************************************************)
(* What RingBuffer<T, N> promises its users: a queue of at most N items    *)
(* that gives them back in the order they came, each once.                 *)
(***************************************************************************)
EXTENDS Naturals, Sequences

CONSTANTS
    N,          \* capacity
    Items,      \* values of type T
    None,       \* pop of an empty queue
    Ok, Err     \* results of push

VARIABLES
    queue,
    out         \* what the last call returned

FifoInit == queue = << >> /\ out = Ok

Push(item) ==
    IF Len(queue) = N
    THEN out' = Err /\ UNCHANGED queue
    ELSE out' = Ok /\ queue' = Append(queue, item)

Pop ==
    IF queue = << >>
    THEN out' = None /\ UNCHANGED queue
    ELSE out' = Head(queue) /\ queue' = Tail(queue)

FifoNext == Pop \/ \E item \in Items : Push(item)

FifoSpec == FifoInit /\ [][FifoNext]_<<queue, out>>
=============================================================================
