--------------------------- MODULE FrameAllocator ---------------------------
(***************************************************************************)
(* What the kernel expects of its allocator of physical page frames,       *)
(* without free lists: a request gets an aligned run of free frames, as    *)
(* long as the next power of two of what it asks for, and fails only when  *)
(* there is no such run.                                                   *)
(***************************************************************************)
EXTENDS Blocks

VARIABLES
    free,           \* the frames that are free
    allocated,      \* what callers hold: [ppn, pages]
    result          \* the last call of alloc: [pages, ppn], ppn what it returned

frameVars == <<free, allocated, result>>

FrameInit == free = {} /\ allocated = {} /\ result = NoCall

Held == UNION {Frames(a.ppn, pages_to_order(a.pages)) : a \in allocated}

(* More memory is handed to the allocator. *)
Donate ==
    /\ free \subseteq free'
    /\ (free' \ free) \cap Held = {}
    /\ UNCHANGED <<allocated, result>>

Runs(order) == {ppn \in free : Aligned(ppn, order) /\ Frames(ppn, order) \subseteq free}

Alloc ==
    \E pages \in PageCounts : LET order == pages_to_order(pages) IN
        /\ order \in Orders
        /\ \E ppn \in Runs(order) :
               /\ free' = free \ Frames(ppn, order)
               /\ allocated' = allocated \cup {[ppn |-> ppn, pages |-> pages]}
               /\ result' = [pages |-> pages, ppn |-> ppn]

AllocNone ==
    \E pages \in PageCounts : LET order == pages_to_order(pages) IN
        /\ order \in Orders => Runs(order) = {}
        /\ result' = [pages |-> pages, ppn |-> NoFrame]
        /\ UNCHANGED <<free, allocated>>

Dealloc ==
    \E a \in allocated :
        /\ free' = free \cup Frames(a.ppn, pages_to_order(a.pages))
        /\ allocated' = allocated \ {a}
        /\ UNCHANGED result

FrameSpec == FrameInit /\ [][Donate \/ Alloc \/ AllocNone \/ Dealloc]_frameVars
=============================================================================
