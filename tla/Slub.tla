-------------------------------- MODULE Slub --------------------------------
(***************************************************************************)
(* The kernel heap (mm/slub.rs): one cache per size class, which cuts the  *)
(* objects it hands out from slabs of one page frame each.  A cache        *)
(* allocates from its active slab and keeps slabs with room on a list that *)
(* is threaded through the page states.                                    *)
(*                                                                         *)
(* A call holds the hart: alloc runs under the IrqLock of its cache, and   *)
(* the callers of dealloc have interrupts off.  The iterations of its      *)
(* loops are steps of their own, so that a loop that never ends is a       *)
(* behaviour of the model.  Requests above 2048 bytes, which end in        *)
(* unimplemented!(), are left out.                                         *)
(*                                                                         *)
(* There are two specifications: SlubSpec is KmemCache on its own, called  *)
(* with the page number its interface asks for, HeapSpec the global        *)
(* allocator, whose dealloc computes the page number.                      *)
(***************************************************************************)
EXTENDS Naturals, Sequences, Functions, FiniteSets

CONSTANTS
    Frames,         \* the page frames the buddy system has for the heap,
                    \* by page number
    PAGE_SIZE,
    Caches,         \* the size classes in use
    Objects,        \* objects in a slab of each class, 2 .. 512 in the code
    Free,           \* PageState::Free
    None            \* Option::None

(* Slab::Slub; next is None when has_next is false. *)
Slabs == [freelist : Seq(Nat), inuse : Nat, cache : Caches, next : Frames \cup {None}]

ASSUME SlubAssumption ==
    /\ IsFiniteSet(Frames)
    /\ Frames \subseteq Nat
    /\ Objects \in [Caches -> Nat \ {0, 1}]
    /\ None \notin Frames
    /\ Free \notin Slabs

VARIABLES
    active_slab_ppn,
    partial_slabs_head,
    page_state,     \* Free, or the slab a frame is; freelist is the chain of
                    \* its free objects
    free,           \* the frames that are in the buddy system
    held,           \* auxiliary: the objects callers have
    mixed,          \* auxiliary: a class has got a frame another still names
    call            \* the call in progress

slubVars == <<active_slab_ppn, partial_slabs_head, page_state, free, held, mixed, call>>
lists    == <<active_slab_ppn, partial_slabs_head>>

slab(freelist, inuse, cache, next) ==
    [freelist |-> freelist, inuse |-> inuse, cache |-> cache, next |-> next]

(* What becomes of a slab when its first free object is taken, when an     *)
(* object is given back, and when its place on the list changes            *)
object_taken(s) == slab(Tail(s.freelist), s.inuse + 1, s.cache, s.next)
object_freed(s, o) == slab(<<o>> \o s.freelist, s.inuse - 1, s.cache, s.next)
linked(s, next) == slab(s.freelist, s.inuse, s.cache, next)

is_slub(ppn) == ppn # None /\ page_state[ppn] # Free

Returned == [op |-> "none"]
Panicked == [op |-> "panicked"]
removing(c, target, prev, current) ==
    [op |-> "remove", cache |-> c, target |-> target, prev |-> prev, current |-> current]
idle == call = Returned

SlubInit ==
    /\ active_slab_ppn = [c \in Caches |-> None]
    /\ partial_slabs_head = [c \in Caches |-> None]
    /\ page_state = [f \in Frames |-> Free]
    /\ free = Frames
    /\ held = {}
    /\ mixed = FALSE
    /\ call = Returned

----------------------------------------------------------------------------
(* KmemCache::alloc *)

alloc(c) ==
    /\ idle
    /\ call' = [op |-> "alloc", cache |-> c]
    /\ UNCHANGED <<lists, page_state, free, held, mixed>>

alloc_from_active_bug_gives_up(c) ==
    LET ppn == active_slab_ppn[c] IN
    /\ ppn # None
    /\ UNCHANGED <<partial_slabs_head, free, mixed>>
    /\ IF ~is_slub(ppn)
       THEN call' = Panicked /\ UNCHANGED <<active_slab_ppn, page_state, held>>
       ELSE \/ /\ page_state[ppn].freelist = << >>
               /\ call' = Returned
               /\ UNCHANGED <<active_slab_ppn, page_state, held>>
            \/ /\ page_state[ppn].freelist # << >>
               /\ page_state' = [page_state EXCEPT ![ppn] = object_taken(page_state[ppn])]
               /\ held' = held \cup {[ppn |-> ppn, object |-> Head(page_state[ppn].freelist)]}
               /\ call' = Returned
               /\ UNCHANGED active_slab_ppn

(* The active slab gives its first free object, or is full and no longer   *)
(* active.                                                                 *)
alloc_from_active(c) ==
    LET ppn == active_slab_ppn[c] IN
    /\ ppn # None
    /\ UNCHANGED <<partial_slabs_head, free, mixed>>
    /\ IF ~is_slub(ppn)
       THEN call' = Panicked /\ UNCHANGED <<active_slab_ppn, page_state, held>>
       ELSE \/ /\ page_state[ppn].freelist = << >>
               /\ active_slab_ppn' = [active_slab_ppn EXCEPT ![c] = None]
               /\ UNCHANGED <<page_state, held, call>>
            \/ /\ page_state[ppn].freelist # << >>
               /\ page_state' = [page_state EXCEPT ![ppn] = object_taken(page_state[ppn])]
               /\ held' = held \cup {[ppn |-> ppn, object |-> Head(page_state[ppn].freelist)]}
               /\ call' = Returned
               /\ UNCHANGED active_slab_ppn

(* No active slab: the first of the list becomes active. *)
alloc_from_partial(c) ==
    LET ppn == partial_slabs_head[c] IN
    /\ active_slab_ppn[c] = None
    /\ ppn # None
    /\ IF is_slub(ppn)
       THEN /\ active_slab_ppn' = [active_slab_ppn EXCEPT ![c] = ppn]
            /\ partial_slabs_head' = [partial_slabs_head EXCEPT ![c] = page_state[ppn].next]
            /\ UNCHANGED call
       ELSE /\ partial_slabs_head' = [partial_slabs_head EXCEPT ![c] = None]
            /\ call' = Panicked
            /\ UNCHANGED active_slab_ppn
    /\ UNCHANGED <<page_state, free, held, mixed>>

(* The frames cache d still has a name for *)
named_by(d) ==
    {active_slab_ppn[d], partial_slabs_head[d]} \cup
    {page_state[f].next : f \in {x \in Frames : is_slub(x) /\ page_state[x].cache = d}}

new_slab_bug_one_short(c, next) ==
    slab([i \in 1 .. Objects[c] - 1 |-> i], 0, c, next)
new_slab(c, next) ==
    slab([i \in 1 .. Objects[c] |-> i], 0, c, next)

(* Nothing on the list either: alloc_new_slab puts the new slab at its     *)
(* head, and alloc makes it the active one too.  (Objects are smaller than *)
(* a page: the branch for larger ones, with its tail pages, is never run.) *)
alloc_new_slab(c) ==
    /\ active_slab_ppn[c] = None
    /\ partial_slabs_head[c] = None
    /\ \/ /\ free = {}
          /\ call' = Returned
          /\ UNCHANGED <<lists, page_state, free, mixed>>
       \/ \E ppn \in free :
          /\ free' = free \ {ppn}
          /\ page_state' = [page_state EXCEPT ![ppn] = new_slab(c, partial_slabs_head[c])]
          /\ partial_slabs_head' = [partial_slabs_head EXCEPT ![c] = ppn]
          /\ active_slab_ppn' = [active_slab_ppn EXCEPT ![c] = ppn]
          /\ mixed' = (mixed \/ \E d \in Caches \ {c} : ppn \in named_by(d))
          /\ UNCHANGED call
    /\ UNCHANGED held

(* An iteration of the loop *)
alloc_loop ==
    /\ call.op = "alloc"
    /\ \/ alloc_from_active(call.cache)
       \/ alloc_from_partial(call.cache)
       \/ alloc_new_slab(call.cache)

----------------------------------------------------------------------------
(* dealloc and KmemCache::free_object *)

(* The frame of an empty slab goes back to the buddy system. *)
release(ppn, states) ==
    /\ page_state' = [states EXCEPT ![ppn] = Free]
    /\ free' = free \cup {ppn}
    /\ call' = Returned

free_last_bug_active_too(ppn, c, states) ==
    /\ call' = removing(c, ppn, None, partial_slabs_head[c])
    /\ page_state' = states
    /\ UNCHANGED <<lists, free>>

(* The last object of the slab is freed. *)
free_last(ppn, c, states) ==
    IF active_slab_ppn[c] = ppn
    THEN /\ active_slab_ppn' = [active_slab_ppn EXCEPT ![c] = None]
         /\ release(ppn, states)
         /\ UNCHANGED partial_slabs_head
    ELSE /\ call' = removing(c, ppn, None, partial_slabs_head[c])
         /\ page_state' = states
         /\ UNCHANGED <<lists, free>>

free_one_bug_stays_forgotten(ppn, c, states) ==
    page_state' = states /\ call' = Returned /\ UNCHANGED <<lists, free>>

(* Another one is freed: a slab that was full and is not active goes to    *)
(* the head of the list.                                                   *)
free_one(ppn, c, states) ==
    /\ IF page_state[ppn].freelist = << >> /\ active_slab_ppn[c] # ppn
       THEN /\ page_state' = [states EXCEPT ![ppn] = linked(states[ppn], partial_slabs_head[c])]
            /\ partial_slabs_head' = [partial_slabs_head EXCEPT ![c] = ppn]
       ELSE page_state' = states /\ UNCHANGED partial_slabs_head
    /\ call' = Returned
    /\ UNCHANGED <<active_slab_ppn, free>>

(* free_object(ptr, slab_ppn) of the cache the page state of slab_ppn      *)
(* names                                                                   *)
free_object(h, slab_ppn) ==
    /\ idle
    /\ held' = held \ {h}
    /\ UNCHANGED mixed
    /\ IF ~is_slub(slab_ppn) THEN call' = Panicked /\ UNCHANGED <<lists, page_state, free>>
       ELSE LET c == page_state[slab_ppn].cache
                states == [page_state EXCEPT ![slab_ppn] =
                              object_freed(page_state[slab_ppn], h.object)]
            IN  \/ page_state[slab_ppn].inuse = 1 /\ free_last(slab_ppn, c, states)
                \/ page_state[slab_ppn].inuse # 1 /\ free_one(slab_ppn, c, states)

(* The physical address of an object *)
address(h) ==
    h.ppn * PAGE_SIZE + (h.object - 1) * (PAGE_SIZE \div Objects[page_state[h.ppn].cache])

(* PhysPageNum::from of a usize takes it for a page number. *)
PhysPageNum(number) == number

(* get_page_state panics outside of the array, dealloc where there is no   *)
(* slab.                                                                   *)
dealloc(h) ==
    LET ppn == PhysPageNum(address(h)) IN
    IF ppn \in Frames THEN free_object(h, ppn)
    ELSE /\ idle
         /\ call' = Panicked
         /\ UNCHANGED <<lists, page_state, free, held, mixed>>

(* An iteration of remove_from_partial, with what free_object does after   *)
(* it                                                                      *)
remove_from_partial ==
    LET current == call.current
        next == page_state[current].next
    IN  /\ call.op = "remove"
        /\ UNCHANGED <<active_slab_ppn, held, mixed>>
        /\ IF ~is_slub(current)
           THEN call' = Panicked /\ UNCHANGED <<partial_slabs_head, page_state, free>>
           ELSE \/ /\ current # call.target
                   /\ call' = removing(call.cache, call.target, current, next)
                   /\ UNCHANGED <<partial_slabs_head, page_state, free>>
                \/ /\ current = call.target /\ call.prev # None
                   /\ release(current, [page_state EXCEPT ![call.prev] =
                                             linked(page_state[call.prev], next)])
                   /\ UNCHANGED partial_slabs_head
                \/ /\ current = call.target /\ call.prev = None
                   /\ partial_slabs_head' = [partial_slabs_head EXCEPT ![call.cache] = next]
                   /\ release(current, page_state)

----------------------------------------------------------------------------
panicked == call = Panicked /\ UNCHANGED slubVars

SlubNext ==
    \/ \E c \in Caches : alloc(c)
    \/ alloc_loop
    \/ \E h \in held : free_object(h, h.ppn)
    \/ remove_from_partial
    \/ panicked

HeapNext ==
    \/ \E c \in Caches : alloc(c)
    \/ alloc_loop
    \/ \E h \in held : dealloc(h)
    \/ remove_from_partial
    \/ panicked

SlubSpec == SlubInit /\ [][SlubNext]_slubVars
HeapSpec == SlubInit /\ [][HeapNext]_slubVars

----------------------------------------------------------------------------
(* Properties *)

HeldIn(f) == {h \in held : h.ppn = f}

(* Every object of a slab is on its free list, once, or with one caller,   *)
(* inuse counts the callers' objects, and a frame is in the buddy system   *)
(* or a slab, never both: alloc never hands out an object, nor             *)
(* alloc_new_slab a frame, that is in use, whatever has become of the      *)
(* lists.                                                                  *)
SlabAccounting ==
    \A f \in Frames :
        /\ f \in free <=> ~is_slub(f)
        /\ f \in free => HeldIn(f) = {}
        /\ is_slub(f) =>
           LET s == page_state[f] IN
           /\ IsInjective(s.freelist)
           /\ {h.object : h \in HeldIn(f)} = (1 .. Objects[s.cache]) \ Range(s.freelist)
           /\ s.inuse = Cardinality(HeldIn(f))

(* The frames on the list of cache c: those in every set that has the head *)
(* and follows the links                                                   *)
follows(c, S) ==
    /\ partial_slabs_head[c] \in S
    /\ \A f \in S : is_slub(f) => page_state[f].next \in S
on_list(c) ==
    {f \in Frames : \A S \in SUBSET (Frames \cup {None}) : follows(c, S) => f \in S}

(* free_object finds every slab that was full and forgotten again: between *)
(* calls a slab with a free object is active or on the list.  (As long as  *)
(* no class has a frame that another one names.)                           *)
ForgottenAreFull ==
    idle /\ ~mixed =>
        \A f \in Frames : is_slub(f) /\ page_state[f].freelist # << >> =>
            LET c == page_state[f].cache IN f = active_slab_ppn[c] \/ f \in on_list(c)

(* alloc returns null only when the buddy system has no frame and every    *)
(* slab of the class is full.                                              *)
NullOnlyWhenExhausted ==
    [][~mixed /\ call.op = "alloc" /\ idle' /\ held' = held =>
           /\ free = {}
           /\ \A f \in Frames : is_slub(f) /\ page_state[f].cache = call.cache =>
                  page_state[f].freelist = << >>]_slubVars

(* Freeing never panics: a slab that is not active when it becomes empty   *)
(* is on the list where remove_from_partial looks for it, before any frame *)
(* that is no slab.  alloc panics in one case only: the head of the list   *)
(* is a slab whose last object was freed while it was active as well.  (As *)
(* long as no class has a frame that another one names.)                   *)
PanicsOnlyAtStaleHead ==
    [][~mixed /\ call # Panicked /\ call' = Panicked =>
           /\ call.op = "alloc"
           /\ active_slab_ppn[call.cache] = None
           /\ partial_slabs_head[call.cache] \in free]_slubVars

(* An object that is freed becomes the head of its slab's free list, or    *)
(* goes back to the buddy system with its slab.                            *)
FreedObjectReturns ==
    [][\A h \in held : dealloc(h) =>
           /\ h \notin held'
           /\ \/ page_state'[h.ppn] = Free
              \/ Head(page_state'[h.ppn].freelist) = h.object]_slubVars
=============================================================================
