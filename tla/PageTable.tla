------------------------------ MODULE PageTable ------------------------------
(***************************************************************************)
(* Sv39 page tables (mm/pagetable.rs, mm/address.rs): trees of three       *)
(* levels of tables, in which a leaf at level 1, 2 or 3 maps 1 GB, 2 MB or *)
(* 4 KB.  A table is named by the number of its page frame.  The number of *)
(* its entries, 512 in the code, is a constant.                            *)
(***************************************************************************)
EXTENDS Integers, FiniteSetsExt

CONSTANTS
    ENTRIES,        \* entries of a table
    NoTable         \* there is no table at this level of a walk

VARIABLES
    tables,         \* the tables there are, by frame number
    satp            \* the root of the table in use

tableVars == <<tables, satp>>

Levels == 1 .. 3
OneGB == 1
TwoMB == 2
FourKB == 3

(* Pages that a leaf of a level maps, and virtual page numbers *)
pages_of(level) == <<ENTRIES * ENTRIES, ENTRIES, 1>>[level]
Pages == ENTRIES * ENTRIES * ENTRIES
VPNs == 0 .. Pages - 1

(* VirtPageNum::indices *)
indices(vpn, level) == (vpn \div pages_of(level)) % ENTRIES

PTE(ppn, flags) == [ppn |-> ppn, flags |-> flags]
EmptyPTE == PTE(0, {})
is_valid(pte) == "V" \in pte.flags
is_leaf(pte) == is_valid(pte) /\ pte.flags \cap {"R", "W", "X"} # {}
Zeroed == [i \in 0 .. ENTRIES - 1 |-> EmptyPTE]

(* The tables of a walk from root to the entry of vpn at level 3 *)
walk(root, vpn) ==
    LET table[level \in Levels] ==
            IF level = 1 THEN root
            ELSE IF table[level - 1] = NoTable THEN NoTable
            ELSE LET pte == tables[table[level - 1]][indices(vpn, level - 1)]
                 IN  IF is_valid(pte) /\ ~is_leaf(pte) THEN pte.ppn ELSE NoTable
    IN  table

entry(root, vpn, level) ==
    LET table == walk(root, vpn)[level]
    IN  IF table = NoTable THEN EmptyPTE ELSE tables[table][indices(vpn, level)]

(* What the hardware makes of a virtual page: the leaf of the walk, if any *)
Unmapped == EmptyPTE
translate(root, vpn) ==
    LET leaves == {level \in Levels : is_leaf(entry(root, vpn, level))}
    IN  IF leaves = {} THEN Unmapped
        ELSE LET level == Min(leaves)
                 pte == entry(root, vpn, level)
             IN  PTE(pte.ppn + (vpn % pages_of(level)), pte.flags)

set_pte(root, vpn, level, pte) ==
    tables' = [tables EXCEPT ![walk(root, vpn)[level]][indices(vpn, level)] = pte]

(* bump_find_create_pte on its way to the entry at level: the first level  *)
(* whose entry is not valid, the table to be put there, and large pages in *)
(* the way                                                                 *)
missing(root, vpn, level) == {l \in 1 .. level - 1 : ~is_valid(entry(root, vpn, l))}
large_page_above(root, vpn, level) == \E l \in 1 .. level - 1 : is_leaf(entry(root, vpn, l))

add_table(root, vpn, level, frame) ==
    tables' = [t \in DOMAIN tables \cup {frame} |->
        IF t = frame THEN Zeroed
        ELSE IF t = walk(root, vpn)[level]
        THEN [tables[t] EXCEPT ![indices(vpn, level)] = PTE(frame, {"V"})]
        ELSE tables[t]]

(* enable_early_mmu: a table of two 1 GB pages, the gigabyte of ppn at     *)
(* itself and offset pages higher                                          *)
early_table(ppn, offset) ==
    LET base == ppn - (ppn % pages_of(OneGB))
        leaf == PTE(base, {"V", "R", "W", "X"})
    IN  [i \in 0 .. ENTRIES - 1 |->
            IF i \in {indices(base, OneGB), indices(base + offset, OneGB)} THEN leaf ELSE EmptyPTE]
==============================================================================
