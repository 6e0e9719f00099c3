------------------------------- MODULE Buddy -------------------------------
(***************************************************************************)
(* BuddySystemFrameAllocator (mm/buddy.rs): free lists of blocks by order, *)
(* splitting on alloc and merging on dealloc.  Addresses are page numbers; *)
(* a list is the sequence of its blocks, the head first.                   *)
(*                                                                         *)
(* Callers hold BUDDY_ALLOCATOR's lock for the whole of a call, so a call  *)
(* is one step.  init_buddy_system holds it while it adds the regions; its *)
(* loop takes a step for every block.                                      *)
(***************************************************************************)
EXTENDS Blocks, Sequences, Functions

CONSTANTS
    Regions     \* the regions init_buddy_system adds: a sequence of
                \* [start, end] page numbers

(* Memblock keeps them in order, and merges regions that touch. *)
ASSUME RegionsAssumption ==
    /\ Regions \in Seq([start : Nat, end : Nat])
    /\ \A i, j \in 1 .. Len(Regions) : i < j => Regions[i].end < Regions[j].start

VARIABLES
    free_lists,
    allocated,      \* auxiliary: what callers hold, [ppn, pages]
    result,         \* auxiliary: the last call of alloc, [pages, ppn]
    region,         \* the region init_buddy_system is adding
    current_ppn     \* where in that region its loop is

buddyVars == <<free_lists, allocated, result, region, current_ppn>>

Booting == region <= Len(Regions)
FreeBlocks == UNION {{[ppn |-> b, order |-> k] : b \in Range(free_lists[k])} : k \in Orders}
HeldBlocks == {[ppn |-> a.ppn, order |-> pages_to_order(a.pages)] : a \in allocated}

BuddyInit ==
    /\ free_lists = [k \in Orders |-> << >>]
    /\ allocated = {}
    /\ result = NoCall
    /\ region = 1
    /\ current_ppn = IF Regions = << >> THEN 0 ELSE Regions[1].start

(* Head insertion *)
add_free_block(ppn, order) == [free_lists EXCEPT ![order] = <<ppn>> \o @]

----------------------------------------------------------------------------
(* add_free_region *)

(* The largest order that fits in what remains and to which current_ppn is *)
(* aligned                                                                 *)
fits(order, remaining) == block_pages[order] <= remaining /\ Aligned(current_ppn, order)
block_order_bug_ignores_alignment(remaining) ==
    CHOOSE k \in Orders : /\ block_pages[k] <= remaining
                          /\ \A j \in Orders : block_pages[j] <= remaining => j <= k
block_order(remaining) ==
    CHOOSE k \in Orders : /\ fits(k, remaining)
                          /\ \A j \in Orders : fits(j, remaining) => j <= k

next_region ==
    /\ region' = region + 1
    /\ current_ppn' = IF region = Len(Regions) THEN 0 ELSE Regions[region + 1].start

(* One turn of the loop; after the last one, the next region *)
add_free_region ==
    /\ Booting
    /\ current_ppn < Regions[region].end
    /\ LET order == block_order(Regions[region].end - current_ppn)
       IN  /\ free_lists' = add_free_block(current_ppn, order)
           /\ IF current_ppn + block_pages[order] < Regions[region].end
              THEN current_ppn' = current_ppn + block_pages[order] /\ UNCHANGED region
              ELSE next_region
    /\ UNCHANGED <<allocated, result>>

(* The early return for a region without a whole page *)
add_free_region_empty ==
    /\ Booting
    /\ current_ppn >= Regions[region].end
    /\ next_region
    /\ UNCHANGED <<free_lists, allocated, result>>

----------------------------------------------------------------------------
(* alloc *)

Nonempty_bug_exact_size(order) == {k \in Orders : k = order /\ free_lists[k] # << >>}
Nonempty(order) == {k \in Orders : k >= order /\ free_lists[k] # << >>}

(* The head of the first list that is not empty, from required up, is      *)
(* split down to the required order: every second half goes to the list    *)
(* below.                                                                  *)
split_bug_loses_smallest(required, order, block) ==
    [k \in Orders |->
        IF k = order THEN Tail(free_lists[k])
        ELSE IF k > required /\ k < order THEN <<block + block_pages[k]>> \o free_lists[k]
        ELSE free_lists[k]]
split(required, order, block) ==
    [k \in Orders |->
        IF k = order THEN Tail(free_lists[k])
        ELSE IF k >= required /\ k < order THEN <<block + block_pages[k]>> \o free_lists[k]
        ELSE free_lists[k]]

alloc(pages) ==
    /\ ~Booting
    /\ LET required == pages_to_order(pages)
       IN  \E order \in Nonempty(required) :
               /\ \A k \in Nonempty(required) : order <= k
               /\ LET block == Head(free_lists[order])
                  IN  /\ free_lists' = split(required, order, block)
                      /\ allocated' = allocated \cup {[ppn |-> block, pages |-> pages]}
                      /\ result' = [pages |-> pages, ppn |-> block]
    /\ UNCHANGED <<region, current_ppn>>

(* The request is too large, or there is no block for it. *)
alloc_none(pages) ==
    /\ ~Booting
    /\ Nonempty(pages_to_order(pages)) = {}
    /\ result' = [pages |-> pages, ppn |-> NoFrame]
    /\ UNCHANGED <<free_lists, allocated, region, current_ppn>>

----------------------------------------------------------------------------
(* dealloc *)

buddy_is_free(ppn, order) == buddy_of(ppn, order) \in Range(free_lists[order])

(* Where merging stops *)
merged_order_bug_never_merges(ppn, order) == order
merged_order(ppn, order) ==
    CHOOSE m \in order .. MAX_ORDER - 1 :
        /\ m < MAX_ORDER - 1 => ~buddy_is_free(ppn, m)
        /\ \A k \in order .. m - 1 : buddy_is_free(ppn, k)

(* The list without the first node that is the block *)
try_remove_from_list(list, block) ==
    LET i == CHOOSE n \in 1 .. Len(list) :
                 list[n] = block /\ \A j \in 1 .. n - 1 : list[j] # block
    IN  SubSeq(list, 1, i - 1) \o SubSeq(list, i + 1, Len(list))

(* The buddies come off their lists on the way up, and the merged block    *)
(* goes to the head of its list.                                           *)
merge(ppn, order, merged) ==
    [k \in Orders |->
        IF k = merged THEN <<block_of(ppn, k)>> \o free_lists[k]
        ELSE IF k >= order /\ k < merged THEN try_remove_from_list(free_lists[k], buddy_of(ppn, k))
        ELSE free_lists[k]]

dealloc(a) ==
    /\ ~Booting
    /\ LET order == pages_to_order(a.pages)
       IN  free_lists' = merge(a.ppn, order, merged_order(a.ppn, order))
    /\ allocated' = allocated \ {a}
    /\ UNCHANGED <<result, region, current_ppn>>

----------------------------------------------------------------------------
BuddyNext ==
    \/ add_free_region
    \/ add_free_region_empty
    \/ \E pages \in PageCounts : alloc(pages) \/ alloc_none(pages)
    \/ \E a \in allocated : dealloc(a)

BuddySpec == BuddyInit /\ [][BuddyNext]_buddyVars

----------------------------------------------------------------------------
(* Properties *)

Added == (UNION {Regions[i].start .. Regions[i].end - 1 : i \in 1 .. region - 1})
         \cup (IF Booting THEN Regions[region].start .. current_ppn - 1 ELSE {})

(* Every frame is in one place only: no two blocks overlap, free or held,  *)
(* and no block is twice in a list.  Every block starts at a multiple of   *)
(* its size, which dealloc relies on to find a buddy by its address.       *)
BlocksDisjoint ==
    /\ \A b \in FreeBlocks \cup HeldBlocks : Aligned(b.ppn, b.order)
    /\ \A k \in Orders : IsInjective(free_lists[k])
    /\ FreeBlocks \cap HeldBlocks = {}
    /\ \A a, b \in FreeBlocks \cup HeldBlocks :
           a # b => Frames(a.ppn, a.order) \cap Frames(b.ppn, b.order) = {}

(* No frame is lost or made up: what is free and what callers hold is what *)
(* init_buddy_system added.                                                *)
FramesConserved == FramesOf(FreeBlocks \cup HeldBlocks) = Added

(* Merging is complete: two free buddies never lie side by side in a list, *)
(* below the largest order.                                                *)
FullyMerged ==
    \A k \in 0 .. MAX_ORDER - 2 : \A b \in Range(free_lists[k]) :
        buddy_of(b, k) \notin Range(free_lists[k])

(* The free lists implement an allocator of frames that finds room         *)
(* whenever there is an aligned run of free frames.                        *)
Abstract == INSTANCE FrameAllocator WITH free <- FramesOf(FreeBlocks)
ImplementsFrames == Abstract!FrameSpec
=============================================================================
