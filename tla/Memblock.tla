------------------------------ MODULE Memblock ------------------------------
(***************************************************************************)
(* Memblock (mm/memblock.rs), the allocator of the early boot: three       *)
(* arrays of regions, of available, reserved and allocated memory.  An     *)
(* array is the sequence of its first count regions; total_size is the sum *)
(* of their sizes.                                                         *)
(***************************************************************************)
EXTENDS Integers, Sequences, FiniteSetsExt

CONSTANTS
    MAX_REGIONS,
    AddressSpace    \* addresses are usize: arithmetic wraps at this number

VARIABLES
    available,
    reserved,
    allocated,
    panicked        \* an assertion or an unwrap has failed

memblockVars == <<available, reserved, allocated, panicked>>

MemRegion == [base : Nat, size : Nat]
end(r) == r.base + r.size
Region(from, to) == [base |-> from, size |-> to - from]
Addresses(regions) == UNION {r.base .. end(r) - 1 : r \in Range(regions)}

MemblockInit ==
    /\ available = << >> /\ reserved = << >> /\ allocated = << >>
    /\ panicked = FALSE

----------------------------------------------------------------------------
(* RegionArray::add_region *)

(* The first region that is not wholly below base, and the first above it  *)
(* that does not touch what has been merged so far; Len + 1 if there is    *)
(* none                                                                    *)
insert_idx(regions, base) ==
    Min({Len(regions) + 1} \cup {i \in 1 .. Len(regions) : end(regions[i]) >= base})
merged_end(regions, base, size, i) ==
    Max({base + size} \cup {end(regions[j]) : j \in insert_idx(regions, base) .. i - 1})
merge_idx_bug_overlapping_only(regions, base, size) ==
    Min({Len(regions) + 1} \cup
        {i \in insert_idx(regions, base) .. Len(regions) :
            regions[i].base >= merged_end(regions, base, size, i)})
merge_idx(regions, base, size) ==
    Min({Len(regions) + 1} \cup
        {i \in insert_idx(regions, base) .. Len(regions) :
            regions[i].base > merged_end(regions, base, size, i)})

(* assert!(self.count < MAX_REGIONS) *)
add_region_fits(regions, base, size) ==
    \/ size = 0
    \/ insert_idx(regions, base) < merge_idx(regions, base, size)
    \/ Len(regions) < MAX_REGIONS

add_region(regions, base, size) ==
    LET i == insert_idx(regions, base)
        j == merge_idx(regions, base, size)
        merged_base == Min({base} \cup {regions[k].base : k \in i .. j - 1})
    IN  IF size = 0 THEN regions
        ELSE SubSeq(regions, 1, i - 1)
             \o <<Region(merged_base, merged_end(regions, base, size, j))>>
             \o SubSeq(regions, j, Len(regions))

----------------------------------------------------------------------------
(* RegionArray::remove_region *)

overlaps(r, from, to) == from < end(r) /\ to > r.base

(* What is left of a region: all of it, its tail, its head, both, nothing *)
left_of_bug_drops_tail(r, from, to) ==
    IF ~overlaps(r, from, to) THEN <<r>>
    ELSE IF from > r.base THEN <<Region(r.base, from)>>
    ELSE IF to < end(r) THEN <<Region(to, end(r))>> ELSE << >>
left_of(r, from, to) ==
    IF ~overlaps(r, from, to) THEN <<r>>
    ELSE (IF from > r.base THEN <<Region(r.base, from)>> ELSE << >>)
         \o (IF to < end(r) THEN <<Region(to, end(r))>> ELSE << >>)

remove_region(regions, base, size) ==
    LET kept[n \in 0 .. Len(regions)] ==
            IF n = 0 THEN << >> ELSE kept[n - 1] \o left_of(regions[n], base, base + size)
    IN  IF size = 0 THEN regions ELSE kept[Len(regions)]

(* A hole in the middle of a region needs one more entry. *)
remove_region_fits(regions, base, size) ==
    Len(remove_region(regions, base, size)) <= MAX_REGIONS

----------------------------------------------------------------------------
(* Memblock *)

panic == panicked' = TRUE /\ UNCHANGED <<available, reserved, allocated>>

init_add_memory(base, size) ==
    IF add_region_fits(available, base, size)
    THEN /\ available' = add_region(available, base, size)
         /\ UNCHANGED <<reserved, allocated, panicked>>
    ELSE panic

reserve_memory(base, size) ==
    IF remove_region_fits(available, base, size) /\ add_region_fits(reserved, base, size)
    THEN /\ available' = remove_region(available, base, size)
         /\ reserved' = add_region(reserved, base, size)
         /\ UNCHANGED <<allocated, panicked>>
    ELSE panic

(* (reg.end() - size) & !(align - 1) *)
alloc_base(r, size, align) ==
    LET top == (end(r) - size) % AddressSpace IN top - (top % align)

(* The regions are tried from the last to the first.  None fails the       *)
(* callers' expect and unwrap.                                             *)
has_room_bug_any(size, align) == {i \in 1 .. Len(available) : size <= available[i].size}
has_room(size, align) ==
    {i \in 1 .. Len(available) : alloc_base(available[i], size, align) >= available[i].base}

early_alloc_base(size, align) == alloc_base(available[Max(has_room(size, align))], size, align)

early_alloc(size, align) ==
    IF has_room(size, align) = {} THEN panic
    ELSE LET base == early_alloc_base(size, align)
         IN  IF remove_region_fits(available, base, size) /\ add_region_fits(allocated, base, size)
             THEN /\ available' = remove_region(available, base, size)
                  /\ allocated' = add_region(allocated, base, size)
                  /\ UNCHANGED <<reserved, panicked>>
             ELSE panic
=============================================================================
