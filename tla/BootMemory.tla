----------------------------- MODULE BootMemory -----------------------------
(***************************************************************************)
(* From the early page table to the buddy system (mm/mod.rs): memory goes  *)
(* from the device tree to Memblock, from Memblock to the final page table *)
(* and the array of page states, and what is left to the buddy system.     *)
(*                                                                         *)
(* One hart, interrupts off.  map_segment is a step for every table it     *)
(* allocates and every entry it writes.  Tables are written at physical    *)
(* addresses under the early table, and at linear addresses later: an      *)
(* access that the table in use does not map is a page fault, and there is *)
(* no handler yet.                                                         *)
(***************************************************************************)
EXTENDS Memblock, PageTable

CONSTANTS
    DeviceTrees,    \* records: ram and dtb, regions; reservations and nodes,
                    \* sequences of regions (the nodes' reg properties)
    Sections,       \* the kernel's: base, size, flags; in order, page aligned
    PAGE_SIZE,
    PHYS_VIRT_OFFSET,
    MapPages,       \* the pages of the array of page states
    NoCall          \* map_segment is not running

VARIABLES
    tree,           \* the device tree
    at,             \* the next step of the boot path
    done,           \* how many items of a loop have been handled
    root_pt,        \* the root of the final table
    mapping,        \* map_segment in progress: its arguments and current_pa
    mem_map,        \* first page of the array of page states
    page_state,     \* MEM_MAP, by page number
    handed,         \* what the buddy system was given: page ranges
    faulted         \* a page fault

bootVars == <<memblockVars, tableVars, tree, at, done, root_pt, mapping,
              mem_map, page_state, handed, faulted>>

ceil(address) == (address + PAGE_SIZE - 1) \div PAGE_SIZE
floor(address) == address \div PAGE_SIZE
pages(r) == floor(r.base) .. ceil(end(r)) - 1
ram_pages == floor(tree.ram.base) .. floor(end(tree.ram)) - 1
Kernel == Region(Sections[1].base, end(Sections[Len(Sections)]))

phys_to_virt(address) == (address + PHYS_VIRT_OFFSET) % AddressSpace
vpn_of(address) == floor(address) % Pages

(* BOOT_PT is in the last section, bss. *)
BOOT_PT == floor(Sections[Len(Sections)].base)

align_up(address, align) == ((address + align - 1) \div align) * align
align_down(address, align) == (address \div align) * align

(* Addresses have 64 bits and virtual page numbers 27, so that the former  *)
(* wrap where the latter do; the offset is a multiple of 1 GB.             *)
ASSUME NumbersAssumption ==
    /\ PAGE_SIZE \in Nat \ {0} /\ ENTRIES \in Nat \ {0} /\ MapPages \in Nat \ {0}
    /\ AddressSpace \in Nat \ {0} /\ AddressSpace % (Pages * PAGE_SIZE) = 0
    /\ PHYS_VIRT_OFFSET \in Nat /\ PHYS_VIRT_OFFSET % (pages_of(OneGB) * PAGE_SIZE) = 0
    /\ floor(PHYS_VIRT_OFFSET) % Pages # 0
    /\ NoTable \notin Nat
    /\ NoCall \notin [base : Nat, size : Int, map_type : {"Linear", "Identical"},
                      flags : SUBSET {"R", "W", "X"}, pa : Nat]

(* The linker script puts each section at the first page after the one     *)
(* before.                                                                 *)
ASSUME SectionsAssumption ==
    /\ Sections \in Seq([base : Nat, size : Nat, flags : (SUBSET {"R", "W", "X"}) \ {{}}])
    /\ Len(Sections) > 0 /\ Sections[Len(Sections)].size > 0
    /\ \A i \in 1 .. Len(Sections) : Sections[i].base % PAGE_SIZE = 0
    /\ \A i \in 1 .. Len(Sections) - 1 : Sections[i + 1].base = align_up(end(Sections[i]), PAGE_SIZE)
    /\ \A i, j \in 1 .. Len(Sections) : i < j => end(Sections[i]) <= Sections[j].base

(* The kernel and the device tree are in RAM; RAM starts above the size of *)
(* anything early_alloc is asked for; all of it can be mapped.             *)
ASSUME TreesAssumption ==
    \A t \in DeviceTrees :
        /\ t.ram \in MemRegion /\ t.dtb \in MemRegion
        /\ t.reservations \in Seq(MemRegion) /\ t.nodes \in Seq(MemRegion)
        /\ MapPages * PAGE_SIZE <= t.ram.base
        /\ t.ram.base <= Kernel.base /\ end(Kernel) <= end(t.ram)
        /\ t.ram.base <= t.dtb.base /\ end(t.dtb) <= end(t.ram)
        /\ \A r \in {t.ram} \cup Range(t.nodes) : end(r) <= Pages * PAGE_SIZE

BootInit ==
    /\ MemblockInit
    /\ tree \in DeviceTrees
    /\ at = "memory"
    /\ done = 0
    /\ tables = [t \in {BOOT_PT} |-> early_table(floor(Kernel.base), floor(PHYS_VIRT_OFFSET))]
    /\ satp = BOOT_PT
    /\ root_pt = NoTable
    /\ mapping = NoCall
    /\ mem_map = 0
    /\ page_state = [p \in ram_pages |-> "Reserved"]
    /\ handed = << >>
    /\ faulted = FALSE

running == ~panicked /\ ~faulted /\ mapping = NoCall
step(from, to) == running /\ at = from /\ at' = to

(* The table in use maps a page for reading, or for writing. *)
readable(vpn) == "R" \in translate(satp, vpn).flags
writable(vpn) == "W" \in translate(satp, vpn).flags

fault == faulted' = TRUE /\ UNCHANGED <<memblockVars, tables, mapping>>

----------------------------------------------------------------------------
(* setup_memory_and_mapping: Memblock *)

(* The device tree is read at its physical address. *)
setup_memory ==
    /\ step("memory", "kernel")
    /\ IF \E p \in pages(tree.dtb) : ~readable(vpn_of(p * PAGE_SIZE))
       THEN fault
       ELSE init_add_memory(tree.ram.base, tree.ram.size) /\ UNCHANGED <<tables, mapping, faulted>>
    /\ UNCHANGED <<satp, tree, done, root_pt, mem_map, page_state, handed>>

reserve_kernel ==
    /\ step("kernel", "reservations")
    /\ reserve_memory(Kernel.base, Kernel.size)
    /\ UNCHANGED <<tableVars, tree, done, root_pt, mapping, mem_map, page_state, handed, faulted>>

(* A loop over a sequence: one turn, or its end *)
next_of(items, Turn(_), to) ==
    IF done < Len(items)
    THEN /\ Turn(items[done + 1])
         /\ done' = done + 1
         /\ UNCHANGED at
    ELSE /\ done' = 0
         /\ at' = to
         /\ UNCHANGED <<memblockVars, mapping>>

reserve_reservations ==
    /\ running /\ at = "reservations"
    /\ next_of(tree.reservations, LAMBDA r : reserve_memory(r.base, r.size) /\ UNCHANGED mapping, "dtb")
    /\ UNCHANGED <<tableVars, tree, root_pt, mem_map, page_state, handed, faulted>>

reserve_dtb ==
    /\ step("dtb", "root")
    /\ reserve_memory(tree.dtb.base, tree.dtb.size)
    /\ UNCHANGED <<tableVars, tree, done, root_pt, mapping, mem_map, page_state, handed, faulted>>

new_frame == floor(early_alloc_base(PAGE_SIZE, PAGE_SIZE))

(* The root of the final table is allocated and cleared. *)
alloc_root ==
    /\ step("root", "nodes")
    /\ IF has_room(PAGE_SIZE, PAGE_SIZE) # {} /\ ~writable(new_frame)
       THEN fault /\ UNCHANGED root_pt
       ELSE /\ early_alloc(PAGE_SIZE, PAGE_SIZE)
            /\ IF panicked' THEN UNCHANGED <<root_pt, tables>>
               ELSE /\ root_pt' = new_frame
                    /\ tables' = [t \in DOMAIN tables \cup {new_frame} |->
                                     IF t = new_frame THEN Zeroed ELSE tables[t]]
            /\ UNCHANGED <<mapping, faulted>>
    /\ UNCHANGED <<satp, tree, done, mem_map, page_state, handed>>

----------------------------------------------------------------------------
(* map_segment *)

TWO_MB == pages_of(TwoMB) * PAGE_SIZE

page_start(call) == align_down(call.base, PAGE_SIZE)
page_end_bug_rounds_down(call) == align_down(call.base + call.size, PAGE_SIZE)
page_end(call) == align_up(call.base + call.size, PAGE_SIZE)

(* The level at which current_pa is mapped: 2 MB between the first and the *)
(* last multiple of it, 4 KB before and after                              *)
size_at(call, pa) ==
    IF align_up(page_start(call), TWO_MB) <= pa /\ pa < align_down(page_end(call), TWO_MB)
    THEN TwoMB ELSE FourKB

(* map_segment(start, end, root_pt, map_type, action); flags is {} to      *)
(* unmap                                                                   *)
map_segment(r, map_type, flags) ==
    LET call == [base |-> r.base, size |-> r.size, map_type |-> map_type, flags |-> flags, pa |-> page_start(r)]
    IN  mapping' = IF page_start(r) < page_end(r) THEN call ELSE NoCall

(* current_pa moves on. *)
advance ==
    LET pa == mapping.pa + pages_of(size_at(mapping, mapping.pa)) * PAGE_SIZE
    IN  mapping' = IF pa < page_end(mapping) THEN [mapping EXCEPT !.pa = pa] ELSE NoCall

vpn == vpn_of(IF mapping.map_type = "Linear" THEN phys_to_virt(mapping.pa) ELSE mapping.pa)
level == size_at(mapping, mapping.pa)

(* bump_find_create_pte walks through physical addresses, *)
walk_writable ==
    \A l \in 1 .. level : LET t == walk(root_pt, vpn)[l] IN t # NoTable => writable(t)

(* bump_map: one table more on the way to the entry, or the entry *)
bump_map ==
    /\ ~panicked /\ ~faulted
    /\ mapping # NoCall /\ mapping.flags # {}
    /\ IF ~walk_writable THEN fault
       ELSE IF large_page_above(root_pt, vpn, level)
       THEN panic /\ UNCHANGED <<tables, mapping, faulted>>
       ELSE IF missing(root_pt, vpn, level) # {}
       THEN IF has_room(PAGE_SIZE, PAGE_SIZE) # {} /\ ~writable(new_frame) THEN fault
            ELSE /\ early_alloc(PAGE_SIZE, PAGE_SIZE)
                 /\ IF panicked' THEN UNCHANGED tables
                    ELSE add_table(root_pt, vpn, Min(missing(root_pt, vpn, level)), new_frame)
                 /\ UNCHANGED <<mapping, faulted>>
       ELSE IF is_valid(entry(root_pt, vpn, level))
       THEN panic /\ UNCHANGED <<tables, mapping, faulted>>
       ELSE /\ set_pte(root_pt, vpn, level, PTE(floor(mapping.pa), mapping.flags \cup {"V"}))
            /\ advance
            /\ UNCHANGED <<memblockVars, faulted>>
    /\ UNCHANGED <<satp, tree, at, done, root_pt, mem_map, page_state, handed>>

(* and bump_find_pte through linear ones. *)
table_va_bug_physical(frame) == frame
table_va(frame) == vpn_of(phys_to_virt(frame * PAGE_SIZE))
walk_mapped ==
    \A l \in 1 .. level : LET t == walk(root_pt, vpn)[l] IN t # NoTable => writable(table_va(t))

unmap ==
    /\ ~panicked /\ ~faulted
    /\ mapping # NoCall /\ mapping.flags = {}
    /\ IF ~walk_mapped THEN fault
       ELSE IF ~is_valid(entry(root_pt, vpn, level))
       THEN panic /\ UNCHANGED <<tables, mapping, faulted>>
       ELSE /\ set_pte(root_pt, vpn, level, EmptyPTE)
            /\ advance
            /\ UNCHANGED <<memblockVars, faulted>>
    /\ UNCHANGED <<satp, tree, at, done, root_pt, mem_map, page_state, handed>>

----------------------------------------------------------------------------
(* setup_memory_and_mapping: the final table *)

(* A region in RAM belongs to the firmware; any other is mapped as a       *)
(* device's.                                                               *)
in_ram(r) == r.base >= tree.ram.base /\ end(r) <= end(tree.ram)
node(r) ==
    \/ /\ r.size = 0
       /\ UNCHANGED <<memblockVars, mapping>>
    \/ /\ r.size > 0 /\ in_ram(r)
       /\ reserve_memory(r.base, r.size)
       /\ UNCHANGED mapping
    \/ /\ r.size > 0 /\ ~in_ram(r)
       /\ map_segment(r, "Linear", {"R", "W"})
       /\ UNCHANGED memblockVars
nodes ==
    /\ running /\ at = "nodes"
    /\ next_of(tree.nodes, node, "segments")
    /\ UNCHANGED <<tableVars, tree, root_pt, mem_map, page_state, handed, faulted>>

(* The kernel's sections, linear and identical, and RAM after and before   *)
(* the kernel                                                              *)
linear(r, flags) == [region |-> r, map_type |-> "Linear", flags |-> flags]
identical(r, flags) == [region |-> r, map_type |-> "Identical", flags |-> flags]
segments ==
    [i \in 1 .. 2 * Len(Sections) |->
        LET s == Sections[(i + 1) \div 2]
        IN  IF i % 2 = 1 THEN linear(s, s.flags) ELSE identical(s, s.flags)]
    \o <<linear(Region(align_up(end(Kernel), PAGE_SIZE), end(tree.ram)), {"R", "W"}),
         linear(Region(tree.ram.base, Kernel.base), {"R", "W"})>>

map_segments ==
    /\ running /\ at = "segments"
    /\ next_of(segments,
               LAMBDA s : map_segment(s.region, s.map_type, s.flags) /\ UNCHANGED memblockVars,
               "mem_map")
    /\ UNCHANGED <<tableVars, tree, root_pt, mem_map, page_state, handed, faulted>>

alloc_mem_map ==
    /\ step("mem_map", "switch")
    /\ early_alloc(MapPages * PAGE_SIZE, PAGE_SIZE)
    /\ mem_map' = IF panicked' THEN mem_map ELSE floor(early_alloc_base(MapPages * PAGE_SIZE, PAGE_SIZE))
    /\ UNCHANGED <<tableVars, tree, done, root_pt, mapping, page_state, handed, faulted>>

----------------------------------------------------------------------------
switch_to_final_page_table ==
    /\ step("switch", "unmap")
    /\ satp' = root_pt
    /\ UNCHANGED <<memblockVars, tables, tree, done, root_pt, mapping, mem_map, page_state, handed, faulted>>

unmap_temp_identity_area ==
    /\ running /\ at = "unmap"
    /\ next_of(Sections,
               LAMBDA s : map_segment(s, "Identical", {}) /\ UNCHANGED memblockVars,
               "handover")
    /\ UNCHANGED <<tableVars, tree, root_pt, mem_map, page_state, handed, faulted>>

(* Only whole pages of a region are handed over. *)
whole_pages_bug_outer(r) == [start |-> floor(r.base), end |-> ceil(end(r))]
whole_pages(r) == [start |-> ceil(r.base), end |-> floor(end(r))]

init_buddy_system ==
    /\ step("handover", "booted")
    /\ IF \E p \in mem_map .. mem_map + MapPages - 1 : ~writable(table_va(p))
       THEN fault /\ UNCHANGED <<handed, page_state>>
       ELSE /\ handed' = [i \in 1 .. Len(available) |-> whole_pages(available[i])]
            /\ page_state' = [p \in ram_pages |->
                   IF \E h \in Range(handed') : p \in h.start .. h.end - 1
                   THEN "Free" ELSE "Reserved"]
            /\ UNCHANGED <<memblockVars, tables, mapping, faulted>>
    /\ UNCHANGED <<satp, tree, done, root_pt, mem_map>>

BootNext ==
    \/ setup_memory
    \/ reserve_kernel
    \/ reserve_reservations
    \/ reserve_dtb
    \/ alloc_root
    \/ nodes
    \/ map_segments
    \/ bump_map
    \/ alloc_mem_map
    \/ switch_to_final_page_table
    \/ unmap_temp_identity_area
    \/ unmap
    \/ init_buddy_system

BootSpec == BootInit /\ [][BootNext]_bootVars

----------------------------------------------------------------------------
(* Properties *)

(* The regions of an array are in order and do not touch: insertion and    *)
(* removal look at neighbours only, and rely on it.                        *)
ArraysSorted ==
    \A regions \in {available, reserved, allocated} :
        \A i \in 1 .. Len(regions) - 1 : end(regions[i]) < regions[i + 1].base

(* Memblock's bookkeeping is exact: what is available is RAM without what  *)
(* has been reserved and allocated.                                        *)
AvailableExact ==
    at # "memory" /\ ~panicked /\ ~faulted =>
        Addresses(available) = Addresses(<<tree.ram>>) \ (Addresses(reserved) \cup Addresses(allocated))

(* early_alloc hands out memory that was available, in whole aligned       *)
(* pages, and never takes any back.                                        *)
AllocationsFresh ==
    [][LET new == Addresses(allocated') \ Addresses(allocated)
       IN  /\ Addresses(allocated) \subseteq Addresses(allocated')
           /\ new \subseteq Addresses(available)
           /\ \A a \in new : (floor(a) * PAGE_SIZE) .. (floor(a) * PAGE_SIZE + PAGE_SIZE - 1) \subseteq new
      ]_bootVars

(* The buddy system gets exactly the pages of which nothing is reserved or *)
(* allocated, in ranges with a page between them, so that no two ranges    *)
(* hold buddies which could have been merged.                              *)
HandoverExact ==
    at = "booted" =>
        /\ \A p \in ram_pages :
               page_state[p] = "Free" <=>
                   (p * PAGE_SIZE) .. (p * PAGE_SIZE + PAGE_SIZE - 1) \subseteq Addresses(available)
        /\ \A i \in 1 .. Len(handed) - 1 : handed[i].end < handed[i + 1].start

(* The pages the final table is to map, and how *)
section_flags(p) == {s.flags : s \in {x \in Range(Sections) : p \in pages(x)}}
device_pages == UNION {pages(r) : r \in {x \in Range(tree.nodes) : x.size > 0 /\ ~in_ram(x)}}
linear_flags(p) ==
    IF section_flags(p) # {} THEN section_flags(p)
    ELSE IF p \in pages(tree.ram) \cup device_pages THEN {{"R", "W"}} ELSE {}

(* The final table maps RAM and the devices at their linear addresses, the *)
(* sections of the kernel with their own permissions, everything once and  *)
(* nothing else, in whatever mixture of large and small pages; the         *)
(* identical mapping of the kernel is there until it is unmapped, and then *)
(* it is gone.                                                             *)
FinalMapExact ==
    at \in {"mem_map", "switch", "handover", "booted"} /\ ~panicked /\ ~faulted =>
        \A v \in VPNs :
            LET p == (v - floor(PHYS_VIRT_OFFSET)) % Pages
                identity == IF at \in {"mem_map", "switch"} THEN section_flags(v) ELSE {}
                wanted == {PTE(p, f \cup {"V"}) : f \in linear_flags(p)}
                          \cup {PTE(v, f \cup {"V"}) : f \in identity}
            IN  translate(root_pt, v) \in (IF wanted = {} THEN {Unmapped} ELSE wanted)

(* Where all of RAM is in the gigabyte of the kernel, which the early      *)
(* table maps, the boot path never touches memory that is not mapped:      *)
(* page tables at physical addresses before the switch, at linear ones     *)
(* while the identical mapping is taken away, the page states at the end;  *)
(* and its own code and data are mapped all the time.                      *)
NoPageFault ==
    (\A p \in pages(tree.ram) : p \div pages_of(OneGB) = floor(Kernel.base) \div pages_of(OneGB)) =>
        /\ ~faulted
        /\ \A s \in Range(Sections), p \in pages(Kernel) : p \in pages(s) =>
               LET pte == translate(satp, table_va(p))
               IN  pte.ppn = p /\ s.flags \subseteq pte.flags
=============================================================================
