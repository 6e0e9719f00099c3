------------------------------- MODULE Blocks -------------------------------
(***************************************************************************)
(* Blocks of physical page frames, as the buddy system (mm/buddy.rs) cuts  *)
(* memory: 2^order frames, at a multiple of their size.                    *)
(***************************************************************************)
EXTENDS Naturals

CONSTANTS
    MAX_ORDER,      \* blocks have 2^0 .. 2^(MAX_ORDER - 1) frames
    PageCounts,     \* the sizes requested, in pages
    NoFrame,        \* the result None
    NoCall          \* alloc has not been called

ASSUME BlocksAssumption ==
    /\ MAX_ORDER \in Nat \ {0}
    /\ PageCounts \subseteq Nat \ {0}

Orders == 0 .. MAX_ORDER - 1

(* 1usize << order *)
block_pages[order \in Nat] == IF order = 0 THEN 1 ELSE 2 * block_pages[order - 1]

Frames(ppn, order) == ppn .. ppn + block_pages[order] - 1
Aligned(ppn, order) == ppn % block_pages[order] = 0
FramesOf(blocks) == UNION {Frames(b.ppn, b.order) : b \in blocks}

(* The block of a higher order a page belongs to: the lower of a block and *)
(* its buddy, at every order on the way up                                 *)
block_of(ppn, order) == ppn - (ppn % block_pages[order])

(* block_addr ^ block_size *)
buddy_of(ppn, order) ==
    LET block == block_of(ppn, order)
    IN  IF Aligned(block, order + 1)
        THEN block + block_pages[order] ELSE block - block_pages[order]

(* pages.next_power_of_two().trailing_zeros() *)
pages_to_order(pages) ==
    CHOOSE k \in 0 .. pages : /\ block_pages[k] >= pages
                             /\ \A j \in 0 .. k - 1 : block_pages[j] < pages
=============================================================================
