----------------------------- MODULE SlubProofs -----------------------------
(***************************************************************************)
(* Proof, for every set of frames and of caches and every number of        *)
(* objects in a slab, that the heap never hands out what is in use.        *)
(***************************************************************************)
EXTENDS Slub, FiniteSetTheorems, TLAPS

Handles == [ppn : Frames, object : Nat]
handle(f, o) == [ppn |-> f, object |-> o]
In(f, H) == {h \in H : h.ppn = f}

(* Slab s in frame f, when callers have the objects H *)
SlabOK(f, s, H) ==
    /\ s \in Slabs
    /\ IsInjective(s.freelist)
    /\ Range(s.freelist) \subseteq 1 .. Objects[s.cache]
    /\ \A o \in Nat : handle(f, o) \in H <=>
           o \in 1 .. Objects[s.cache] /\ o \notin Range(s.freelist)
    /\ IsFiniteSet(In(f, H))
    /\ s.inuse = Cardinality(In(f, H))

FrameOK(f, s, fr, H) ==
    IF s = Free THEN f \in fr /\ In(f, H) = {}
    ELSE f \notin fr /\ SlabOK(f, s, H)

Maybe == Frames \cup {None}

(* While remove_from_partial looks for the slab it is empty, and the one   *)
(* before the current one is a slab.                                       *)
CallOK ==
    \/ call \in {Returned, Panicked}
    \/ \E c \in Caches : call = [op |-> "alloc", cache |-> c]
    \/ \E c \in Caches, t \in Frames, p \in Maybe, cur \in Maybe :
           /\ call = removing(c, t, p, cur)
           /\ page_state[t] # Free /\ page_state[t].inuse = 0
           /\ p # None => page_state[p] # Free

SlubTypeOK ==
    /\ page_state \in [Frames -> Slabs \cup {Free}]
    /\ active_slab_ppn \in [Caches -> Maybe]
    /\ partial_slabs_head \in [Caches -> Maybe]
    /\ free \subseteq Frames
    /\ held \subseteq Handles

SlubInv ==
    /\ SlubTypeOK
    /\ CallOK
    /\ \A f \in Frames : FrameOK(f, page_state[f], free, held)

----------------------------------------------------------------------------
(* A slab and the callers' objects *)

LEMMA HandleFields ==
    /\ \A f, o : handle(f, o).ppn = f /\ handle(f, o).object = o
    /\ \A h \in Handles : h = handle(h.ppn, h.object) /\ h.ppn \in Frames /\ h.object \in Nat
    /\ \A f \in Frames, o \in Nat : handle(f, o) \in Handles
BY DEF Handles, handle

LEMMA SlabFields ==
    ASSUME NEW s \in Slabs
    PROVE  /\ s.freelist \in Seq(Nat) /\ s.inuse \in Nat
           /\ s.cache \in Caches /\ s.next \in Maybe
           /\ s # Free
BY SlubAssumption DEF Slabs, Maybe

LEMMA SlabMade ==
    ASSUME NEW fl \in Seq(Nat), NEW n \in Nat, NEW c \in Caches, NEW next \in Maybe
    PROVE  LET s == slab(fl, n, c, next) IN
           s \in Slabs /\ s.freelist = fl /\ s.inuse = n /\ s.cache = c /\ s.next = next
BY DEF Slabs, slab, Maybe

(* The first element of a list without repetitions is not in its tail. *)
LEMMA TailOfInjective ==
    ASSUME NEW q \in Seq(Nat), q # << >>, IsInjective(q)
    PROVE  /\ Tail(q) \in Seq(Nat) /\ Head(q) \in Nat
           /\ IsInjective(Tail(q))
           /\ Head(q) \in Range(q)
           /\ Range(Tail(q)) = Range(q) \ {Head(q)}
<1> DEFINE r == Tail(q)
<1>1. /\ r \in Seq(Nat) /\ Len(r) = Len(q) - 1
      /\ \A i \in 1 .. Len(r) : r[i] = q[i + 1]
      /\ Head(q) \in Nat
  OBVIOUS
<1>2. /\ Head(q) = q[1] /\ Len(q) \in Nat \ {0}
      /\ DOMAIN q = 1 .. Len(q) /\ DOMAIN r = 1 .. Len(q) - 1
  BY <1>1
<1> HIDE DEF r
<1>shift. \A i \in 1 .. Len(q) - 1 : r[i] = q[i + 1]
  BY <1>1
<1>3. \A i, j \in 1 .. Len(q) : q[i] = q[j] => i = j
  BY <1>2, Zenon DEF IsInjective
<1>4. IsInjective(r)
  <2> SUFFICES ASSUME NEW i \in 1 .. Len(q) - 1, NEW j \in 1 .. Len(q) - 1, r[i] = r[j]
               PROVE  i = j
    BY <1>2 DEF IsInjective
  <2>0. i + 1 \in 1 .. Len(q) /\ j + 1 \in 1 .. Len(q)
    BY <1>2
  <2>1. q[i + 1] = q[j + 1]
    BY <1>shift
  <2>2. i + 1 = j + 1
    BY <1>3, <2>0, <2>1
  <2> QED
    BY <1>2, <2>2
<1>5. Head(q) \in Range(q)
  BY <1>2 DEF Range
<1>6. ASSUME NEW x \in Range(r)
      PROVE  x \in Range(q) \ {Head(q)}
  <2>1. PICK i \in 1 .. Len(q) - 1 : x = r[i]
    BY <1>2 DEF Range
  <2>2. x = q[i + 1]
    BY <1>shift, <2>1
  <2>3. i + 1 \in 1 .. Len(q) /\ 1 \in 1 .. Len(q) /\ i + 1 # 1
    BY <1>2
  <2>4. x # q[1]
    BY <1>3, <2>2, <2>3
  <2>5. x \in Range(q)
    BY <1>2, <2>2, <2>3 DEF Range
  <2> QED
    BY <1>2, <2>4, <2>5
<1>7. ASSUME NEW x \in Range(q) \ {Head(q)}
      PROVE  x \in Range(r)
  <2>1. PICK i \in 1 .. Len(q) : x = q[i] /\ i # 1
    BY <1>2 DEF Range
  <2>2. i - 1 \in 1 .. Len(q) - 1 /\ (i - 1) + 1 = i
    BY <1>2, <2>1
  <2>3. x = r[i - 1]
    BY <1>shift, <2>1, <2>2
  <2> QED
    BY <1>2, <2>2, <2>3 DEF Range
<1> QED
  BY <1>1, <1>4, <1>5, <1>6, <1>7 DEF r

(* A new element in front of a list without repetitions *)
LEMMA ConsOfInjective ==
    ASSUME NEW q \in Seq(Nat), IsInjective(q), NEW o \in Nat, o \notin Range(q)
    PROVE  /\ <<o>> \o q \in Seq(Nat)
           /\ IsInjective(<<o>> \o q)
           /\ Range(<<o>> \o q) = Range(q) \cup {o}
<1> DEFINE r == <<o>> \o q
<1>1. /\ r \in Seq(Nat) /\ Len(r) = Len(q) + 1 /\ Len(q) \in Nat
      /\ r[1] = o
      /\ \A i \in 1 .. Len(q) : r[i + 1] = q[i]
  OBVIOUS
<1>2. DOMAIN q = 1 .. Len(q) /\ DOMAIN r = 1 .. Len(q) + 1
  BY <1>1
<1> HIDE DEF r
<1>3. \A i \in 1 .. Len(q) + 1 : i = 1 \/ (i - 1 \in 1 .. Len(q) /\ r[i] = q[i - 1])
  <2> SUFFICES ASSUME NEW i \in 1 .. Len(q) + 1, i # 1
               PROVE  i - 1 \in 1 .. Len(q) /\ r[i] = q[i - 1]
    OBVIOUS
  <2>1. i - 1 \in 1 .. Len(q) /\ (i - 1) + 1 = i
    BY <1>1
  <2> QED
    BY <1>1, <2>1, Zenon
<1>4. \A i \in 1 .. Len(q) : q[i] # o
  BY <1>2 DEF Range
<1>5. IsInjective(r)
  <2> SUFFICES ASSUME NEW i \in 1 .. Len(q) + 1, NEW j \in 1 .. Len(q) + 1, r[i] = r[j]
               PROVE  i = j
    BY <1>2 DEF IsInjective
  <2>1. CASE i = 1 \/ j = 1
    BY <1>1, <1>3, <1>4, <2>1, Zenon
  <2>2. CASE i # 1 /\ j # 1
    <3>1. i - 1 = j - 1
      BY <1>2, <1>3, <2>2, ZenonT(30) DEF IsInjective
    <3> QED
      BY <1>1, <3>1
  <2> QED
    BY <2>1, <2>2
<1>6. ASSUME NEW x \in Range(r)
      PROVE  x \in Range(q) \cup {o}
  <2>1. PICK i \in 1 .. Len(q) + 1 : x = r[i]
    BY <1>2 DEF Range
  <2> QED
    BY <1>1, <1>2, <1>3, <2>1, Zenon DEF Range
<1>7. ASSUME NEW x \in Range(q)
      PROVE  x \in Range(r)
  <2>1. PICK i \in 1 .. Len(q) : x = q[i]
    BY <1>2 DEF Range
  <2>2. i + 1 \in 1 .. Len(q) + 1 /\ x = r[i + 1]
    BY <1>1, <2>1
  <2> QED
    BY <1>2, <2>2, Zenon DEF Range
<1>8. o \in Range(r)
  <2>1. 1 \in 1 .. Len(q) + 1
    BY <1>1
  <2> QED
    BY <1>1, <1>2, <2>1 DEF Range
<1> QED
  BY <1>1, <1>5, <1>6, <1>7, <1>8 DEF r

(* Taking the first free object of a slab *)
LEMMA TakeOK ==
    ASSUME NEW f \in Frames, NEW s, NEW H \in SUBSET Handles, SlabOK(f, s, H),
           s.freelist # << >>
    PROVE  LET h == handle(f, Head(s.freelist)) IN
           h \in Handles /\ h \notin H /\ SlabOK(f, object_taken(s), H \cup {h})
<1> DEFINE o == Head(s.freelist)
           h == handle(f, o)
           t == object_taken(s)
           r == Tail(s.freelist)
<1>1. /\ s \in Slabs /\ s.freelist \in Seq(Nat) /\ IsInjective(s.freelist)
      /\ s.inuse \in Nat /\ s.cache \in Caches /\ s.next \in Maybe
  BY SlabFields DEF SlabOK
<1>2. /\ r \in Seq(Nat) /\ o \in Nat
      /\ IsInjective(r)
      /\ o \in Range(s.freelist)
      /\ Range(r) = Range(s.freelist) \ {o}
  BY <1>1, TailOfInjective
<1> HIDE DEF r
<1>3. /\ t \in Slabs /\ t.freelist = r
      /\ t.inuse = s.inuse + 1 /\ t.cache = s.cache
  <2>1. s.inuse + 1 \in Nat
    BY <1>1
  <2>2. t = slab(r, s.inuse + 1, s.cache, s.next)
    BY DEF object_taken, r
  <2> HIDE DEF t
  <2> QED
    BY <1>1, <1>2, <2>1, <2>2, SlabMade
<1> HIDE DEF o, t
<1>4. h \in Handles /\ h.ppn = f
  BY <1>2, HandleFields
<1>5. h \notin H
  BY <1>2 DEF SlabOK
<1>6. \A p \in Nat : handle(f, p) = h <=> p = o
  BY HandleFields
<1> HIDE DEF h
<1>7. In(f, H \cup {h}) = In(f, H) \cup {h} /\ h \notin In(f, H)
  BY <1>4, <1>5 DEF In
<1>8. /\ IsFiniteSet(In(f, H \cup {h}))
      /\ Cardinality(In(f, H \cup {h})) = Cardinality(In(f, H)) + 1
  <2>1. IsFiniteSet(In(f, H))
    BY DEF SlabOK
  <2>2. /\ IsFiniteSet(In(f, H) \cup {h})
        /\ Cardinality(In(f, H) \cup {h}) = Cardinality(In(f, H)) + 1
    BY <1>7, <2>1, FS_AddElement
  <2> QED
    BY <1>7, <2>2, Zenon
<1>9. Range(t.freelist) \subseteq 1 .. Objects[t.cache]
  BY <1>2, <1>3 DEF SlabOK
<1>10. \A p \in Nat : handle(f, p) \in H \cup {h} <=>
           p \in 1 .. Objects[t.cache] /\ p \notin Range(t.freelist)
  <2> SUFFICES ASSUME NEW p \in Nat
               PROVE  handle(f, p) \in H \cup {h} <=>
                          p \in 1 .. Objects[s.cache] /\ p \notin Range(s.freelist) \ {o}
    BY <1>2, <1>3
  <2>1. handle(f, p) \in H <=> p \in 1 .. Objects[s.cache] /\ p \notin Range(s.freelist)
    BY DEF SlabOK
  <2>2. o \in 1 .. Objects[s.cache]
    BY <1>2 DEF SlabOK
  <2> QED
    BY <1>6, <2>1, <2>2
<1>11. SlabOK(f, t, H \cup {h})
  BY <1>2, <1>3, <1>8, <1>9, <1>10 DEF SlabOK
<1> QED
  BY <1>4, <1>5, <1>11 DEF h, t, o

(* Giving an object back *)
LEMMA FreeOK ==
    ASSUME NEW f \in Frames, NEW s, NEW H \in SUBSET Handles, SlabOK(f, s, H),
           NEW h \in H, h.ppn = f
    PROVE  /\ s.inuse \in Nat \ {0}
           /\ SlabOK(f, object_freed(s, h.object), H \ {h})
           /\ object_freed(s, h.object).inuse = s.inuse - 1
<1> DEFINE o == h.object
           t == object_freed(s, o)
           r == <<o>> \o s.freelist
<1>1. /\ s \in Slabs /\ s.freelist \in Seq(Nat) /\ IsInjective(s.freelist)
      /\ s.inuse \in Nat /\ s.cache \in Caches /\ s.next \in Maybe
  BY SlabFields DEF SlabOK
<1>2. h \in Handles /\ h = handle(f, o) /\ o \in Nat
  BY HandleFields
<1>3. o \in 1 .. Objects[s.cache] /\ o \notin Range(s.freelist)
  BY <1>2 DEF SlabOK
<1>4. r \in Seq(Nat) /\ IsInjective(r) /\ Range(r) = Range(s.freelist) \cup {o}
  BY <1>1, <1>2, <1>3, ConsOfInjective
<1> HIDE DEF o, r
<1>5. h \in In(f, H) /\ In(f, H \ {h}) = In(f, H) \ {h}
  BY DEF In
<1>6. /\ IsFiniteSet(In(f, H) \ {h})
      /\ Cardinality(In(f, H) \ {h}) = Cardinality(In(f, H)) - 1
      /\ Cardinality(In(f, H)) # 0
  <2>1. IsFiniteSet(In(f, H))
    BY DEF SlabOK
  <2>2. /\ IsFiniteSet(In(f, H) \ {h})
        /\ Cardinality(In(f, H) \ {h}) = Cardinality(In(f, H)) - 1
    BY <1>5, <2>1, FS_RemoveElement
  <2>3. Cardinality(In(f, H)) # 0
    BY <1>5, <2>1, FS_EmptySet
  <2> QED
    BY <2>2, <2>3
<1>7. s.inuse = Cardinality(In(f, H)) /\ s.inuse \in Nat \ {0}
  BY <1>1, <1>6 DEF SlabOK
<1>8. s.inuse - 1 \in Nat
  BY <1>7
<1>9. /\ t \in Slabs /\ t.freelist = r
      /\ t.inuse = s.inuse - 1 /\ t.cache = s.cache
  <2>1. t = slab(r, s.inuse - 1, s.cache, s.next)
    BY DEF object_freed, r
  <2> HIDE DEF t
  <2> QED
    BY <1>1, <1>4, <1>8, <2>1, SlabMade
<1> HIDE DEF t
<1>10. Range(t.freelist) \subseteq 1 .. Objects[t.cache]
  BY <1>3, <1>4, <1>9 DEF SlabOK
<1>11. \A p \in Nat : handle(f, p) \in H \ {h} <=>
           p \in 1 .. Objects[t.cache] /\ p \notin Range(t.freelist)
  <2> SUFFICES ASSUME NEW p \in Nat
               PROVE  handle(f, p) \in H \ {h} <=>
                          p \in 1 .. Objects[s.cache] /\ p \notin Range(s.freelist) \cup {o}
    BY <1>4, <1>9
  <2>1. handle(f, p) \in H <=> p \in 1 .. Objects[s.cache] /\ p \notin Range(s.freelist)
    BY DEF SlabOK
  <2>2. handle(f, p) = h <=> p = o
    BY <1>2, HandleFields
  <2> QED
    BY <2>1, <2>2
<1>12. SlabOK(f, t, H \ {h})
  BY <1>4, <1>5, <1>6, <1>7, <1>9, <1>10, <1>11, Zenon DEF SlabOK
<1> QED
  BY <1>7, <1>9, <1>12 DEF t, o

(* Its place on the list is not part of the account. *)
LEMMA LinkOK ==
    ASSUME NEW f, NEW s, NEW H, SlabOK(f, s, H), NEW n \in Maybe
    PROVE  SlabOK(f, linked(s, n), H) /\ linked(s, n).inuse = s.inuse
<1>1. /\ s \in Slabs /\ s.freelist \in Seq(Nat)
      /\ s.inuse \in Nat /\ s.cache \in Caches
  BY SlabFields DEF SlabOK
<1>2. /\ linked(s, n) \in Slabs /\ linked(s, n).freelist = s.freelist
      /\ linked(s, n).inuse = s.inuse /\ linked(s, n).cache = s.cache
  BY <1>1, SlabMade DEF linked
<1> QED
  BY <1>2 DEF SlabOK

(* A new slab has all its objects. *)
LEMMA NewOK ==
    ASSUME NEW f \in Frames, NEW c \in Caches, NEW n \in Maybe, NEW H \in SUBSET Handles,
           In(f, H) = {}
    PROVE  SlabOK(f, new_slab(c, n), H)
<1> DEFINE N == Objects[c]
           q == [i \in 1 .. N |-> i]
           s == new_slab(c, n)
<1>1. N \in Nat
  BY SlubAssumption
<1>2. q \in Seq(Nat) /\ IsInjective(q) /\ Range(q) = 1 .. N
  BY <1>1 DEF IsInjective, Range
<1>3. s \in Slabs /\ s.freelist = q /\ s.inuse = 0 /\ s.cache = c
  <2>1. s = slab(q, 0, c, n) /\ 0 \in Nat
    BY DEF new_slab
  <2>2. q \in Seq(Nat)
    BY <1>2
  <2> HIDE DEF N, q, s
  <2> QED
    BY <2>1, <2>2, SlabMade
<1> HIDE DEF q, s
<1>4. \A o \in Nat : handle(f, o) \notin H
  BY HandleFields DEF In
<1>5. IsFiniteSet(In(f, H)) /\ Cardinality(In(f, H)) = 0
  BY FS_EmptySet
<1> QED
  BY <1>2, <1>3, <1>4, <1>5 DEF SlabOK, s

(* An object of one slab is nothing to another. *)
LEMMA OtherOK ==
    ASSUME NEW f, NEW s, NEW fr, NEW H, NEW h, h.ppn # f, FrameOK(f, s, fr, H)
    PROVE  FrameOK(f, s, fr, H \cup {h}) /\ FrameOK(f, s, fr, H \ {h})
<1>1. In(f, H \cup {h}) = In(f, H) /\ In(f, H \ {h}) = In(f, H)
  BY DEF In
<1>2. \A o \in Nat : handle(f, o) # h
  BY HandleFields
<1>3. \A o \in Nat : /\ handle(f, o) \in H \cup {h} <=> handle(f, o) \in H
                     /\ handle(f, o) \in H \ {h} <=> handle(f, o) \in H
  BY <1>2
<1> QED
  BY <1>1, <1>3 DEF FrameOK, SlabOK

LEMMA OtherFrame ==
    ASSUME NEW f, NEW g, g # f, NEW s, NEW fr, NEW H, FrameOK(g, s, fr, H)
    PROVE  FrameOK(g, s, fr \cup {f}, H) /\ FrameOK(g, s, fr \ {f}, H)
BY DEF FrameOK

----------------------------------------------------------------------------
(* The steps *)

LEMMA SlubInitially == SlubInit => SlubInv
<1> SUFFICES ASSUME SlubInit
             PROVE  SlubInv
  OBVIOUS
<1>1. SlubTypeOK
  BY DEF SlubInit, SlubTypeOK, Maybe
<1>2. CallOK
  BY DEF SlubInit, CallOK
<1>3. \A f \in Frames : page_state[f] = Free /\ f \in free /\ In(f, held) = {}
  BY DEF SlubInit, In
<1> QED
  BY <1>1, <1>2, <1>3 DEF SlubInv, FrameOK

(* A step that leaves slabs, frames and objects alone *)
LEMMA ListsStep ==
    ASSUME SlubInv, UNCHANGED <<page_state, free, held>>, CallOK',
           active_slab_ppn' \in [Caches -> Maybe], partial_slabs_head' \in [Caches -> Maybe]
    PROVE  SlubInv'
BY DEF SlubInv, SlubTypeOK

(* A step that changes one frame *)
LEMMA FrameStep ==
    ASSUME SlubInv, NEW f \in Frames, NEW s \in Slabs \cup {Free},
           page_state' = [page_state EXCEPT ![f] = s],
           free' \subseteq Frames, held' \subseteq Handles,
           FrameOK(f, s, free', held'),
           \A g \in Frames \ {f} : FrameOK(g, page_state[g], free', held'),
           CallOK',
           active_slab_ppn' \in [Caches -> Maybe], partial_slabs_head' \in [Caches -> Maybe]
    PROVE  SlubInv'
<1>1. SlubTypeOK'
  BY DEF SlubInv, SlubTypeOK
<1>2. page_state'[f] = s /\ \A g \in Frames \ {f} : page_state'[g] = page_state[g]
  BY DEF SlubInv, SlubTypeOK
<1>3. \A g \in Frames : FrameOK(g, page_state'[g], free', held')
  BY <1>2
<1> QED
  BY <1>1, <1>3 DEF SlubInv

LEMMA SlabThere ==
    ASSUME SlubInv, NEW f \in Frames, page_state[f] # Free
    PROVE  f \notin free /\ SlabOK(f, page_state[f], held) /\ page_state[f] \in Slabs
BY DEF SlubInv, FrameOK, SlabOK

(* The calls in progress, told apart by op *)
LEMMA CallOps ==
    ASSUME CallOK
    PROVE  /\ call.op = "alloc" => /\ call.cache \in Caches
                                   /\ call = [op |-> "alloc", cache |-> call.cache]
           /\ call.op = "remove" =>
                  /\ call.cache \in Caches /\ call.target \in Frames
                  /\ call.prev \in Maybe /\ call.current \in Maybe
                  /\ page_state[call.target] # Free /\ page_state[call.target].inuse = 0
                  /\ call.prev # None => page_state[call.prev] # Free
<1>1. CASE call \in {Returned, Panicked}
  BY <1>1 DEF Returned, Panicked
<1>2. ASSUME NEW c \in Caches, call = [op |-> "alloc", cache |-> c]
      PROVE  call.op = "alloc" /\ call.cache = c
  BY <1>2
<1>3. ASSUME NEW c \in Caches, NEW t \in Frames, NEW p \in Maybe, NEW cur \in Maybe,
             call = removing(c, t, p, cur)
      PROVE  /\ call.op = "remove" /\ call.cache = c /\ call.target = t
             /\ call.prev = p /\ call.current = cur
  BY <1>3 DEF removing
<1> QED
  BY <1>1, <1>2, <1>3 DEF CallOK

LEMMA CallsMade ==
    /\ call' \in {Returned, Panicked} => CallOK'
    /\ \A c \in Caches : call' = [op |-> "alloc", cache |-> c] => CallOK'
BY DEF CallOK

LEMMA ActiveStep ==
    ASSUME SlubInv, call.op = "alloc", alloc_from_active(call.cache)
    PROVE  SlubInv'
<1> DEFINE c == call.cache
           ppn == active_slab_ppn[c]
           s == page_state[ppn]
<1>1. SlubTypeOK /\ CallOK /\ c \in Caches /\ call = [op |-> "alloc", cache |-> c]
  BY CallOps DEF SlubInv
<1>2. ppn # None /\ ppn \in Frames /\ partial_slabs_head' = partial_slabs_head /\ free' = free
  BY <1>1 DEF alloc_from_active, SlubTypeOK, Maybe
<1>3. CASE ~is_slub(ppn)
  BY <1>1, <1>3, ListsStep, CallsMade DEF alloc_from_active, SlubTypeOK
<1>4. CASE is_slub(ppn) /\ s.freelist = << >>
  <2>1. /\ UNCHANGED <<page_state, held, call>>
        /\ active_slab_ppn' = [active_slab_ppn EXCEPT ![c] = None]
    BY <1>4 DEF alloc_from_active
  <2>2. active_slab_ppn' \in [Caches -> Maybe]
    BY <1>1, <2>1 DEF SlubTypeOK, Maybe
  <2>3. CallOK'
    BY <1>1, <2>1, CallsMade
  <2> QED
    BY <1>1, <1>2, <2>1, <2>2, <2>3, ListsStep DEF SlubTypeOK
<1>5. CASE is_slub(ppn) /\ s.freelist # << >>
  <2> DEFINE h == handle(ppn, Head(s.freelist))
  <2>1. /\ page_state' = [page_state EXCEPT ![ppn] = object_taken(s)]
        /\ held' = held \cup {h}
        /\ call' = Returned
        /\ active_slab_ppn' = active_slab_ppn
    BY <1>5 DEF alloc_from_active, handle
  <2>2. ppn \notin free /\ SlabOK(ppn, s, held) /\ held \in SUBSET Handles
    BY <1>1, <1>2, <1>5, SlabThere DEF is_slub, SlubTypeOK
  <2>3. h \in Handles /\ SlabOK(ppn, object_taken(s), held \cup {h})
    BY <1>2, <1>5, <2>2, TakeOK, Zenon
  <2>4. object_taken(s) \in Slabs /\ object_taken(s) # Free
    BY <2>3, SlabFields, Zenon DEF SlabOK
  <2>5. h.ppn = ppn
    BY HandleFields
  <2> HIDE DEF h, ppn, s
  <2>6. FrameOK(ppn, object_taken(s), free', held')
    BY <1>2, <2>1, <2>2, <2>3, <2>4 DEF FrameOK
  <2>7. ASSUME NEW g \in Frames \ {ppn}
        PROVE  FrameOK(g, page_state[g], free', held')
    BY <1>2, <2>1, <2>5, OtherOK DEF SlubInv
  <2>8. CallOK'
    BY <2>1, CallsMade
  <2>9. free' \subseteq Frames /\ held' \subseteq Handles
    BY <1>1, <1>2, <2>1, <2>3 DEF SlubTypeOK
  <2>10. active_slab_ppn' \in [Caches -> Maybe] /\ partial_slabs_head' \in [Caches -> Maybe]
    BY <1>1, <1>2, <2>1 DEF SlubTypeOK
  <2> QED
    BY <1>2, <2>1, <2>4, <2>6, <2>7, <2>8, <2>9, <2>10, FrameStep, Zenon
<1> QED
  BY <1>3, <1>4, <1>5

LEMMA PartialStep ==
    ASSUME SlubInv, call.op = "alloc", alloc_from_partial(call.cache)
    PROVE  SlubInv'
<1> DEFINE c == call.cache
           ppn == partial_slabs_head[c]
<1>1. SlubTypeOK /\ CallOK /\ c \in Caches /\ call = [op |-> "alloc", cache |-> c]
  BY CallOps DEF SlubInv
<1>2. ppn # None /\ ppn \in Frames /\ UNCHANGED <<page_state, free, held>>
  BY <1>1 DEF alloc_from_partial, SlubTypeOK, Maybe
<1>3. CASE is_slub(ppn)
  <2>1. page_state[ppn].next \in Maybe
    BY <1>2, <1>3, SlabThere, SlabFields DEF is_slub
  <2>2. /\ active_slab_ppn' = [active_slab_ppn EXCEPT ![c] = ppn]
        /\ partial_slabs_head' = [partial_slabs_head EXCEPT ![c] = page_state[ppn].next]
        /\ call' = call
    BY <1>3 DEF alloc_from_partial
  <2>3. CallOK'
    BY <1>1, <2>2, CallsMade
  <2>4. active_slab_ppn' \in [Caches -> Maybe] /\ partial_slabs_head' \in [Caches -> Maybe]
    BY <1>1, <1>2, <2>1, <2>2 DEF SlubTypeOK, Maybe
  <2> QED
    BY <1>2, <2>3, <2>4, ListsStep
<1>4. CASE ~is_slub(ppn)
  <2>1. /\ active_slab_ppn' = active_slab_ppn
        /\ partial_slabs_head' = [partial_slabs_head EXCEPT ![c] = None]
        /\ call' = Panicked
    BY <1>4 DEF alloc_from_partial
  <2>2. CallOK'
    BY <2>1, CallsMade
  <2>3. active_slab_ppn' \in [Caches -> Maybe] /\ partial_slabs_head' \in [Caches -> Maybe]
    BY <1>1, <2>1 DEF SlubTypeOK, Maybe
  <2> QED
    BY <1>2, <2>2, <2>3, ListsStep
<1> QED
  BY <1>3, <1>4

LEMMA NewSlabStep ==
    ASSUME SlubInv, call.op = "alloc", alloc_new_slab(call.cache)
    PROVE  SlubInv'
<1> DEFINE c == call.cache
<1>1. SlubTypeOK /\ CallOK /\ c \in Caches /\ call = [op |-> "alloc", cache |-> c]
  BY CallOps DEF SlubInv
<1>2. held' = held /\ partial_slabs_head[c] = None
  BY DEF alloc_new_slab
<1>3. CASE free = {} /\ call' = Returned /\ UNCHANGED <<lists, page_state, free, mixed>>
  BY <1>1, <1>2, <1>3, ListsStep, CallsMade DEF SlubTypeOK, lists
<1>4. ASSUME NEW ppn \in free,
             free' = free \ {ppn},
             page_state' = [page_state EXCEPT ![ppn] = new_slab(c, None)],
             partial_slabs_head' = [partial_slabs_head EXCEPT ![c] = ppn],
             active_slab_ppn' = [active_slab_ppn EXCEPT ![c] = ppn],
             call' = call
      PROVE  SlubInv'
  <2>1. ppn \in Frames /\ held \in SUBSET Handles
    BY <1>1 DEF SlubTypeOK
  <2>2. In(ppn, held) = {}
    BY <2>1 DEF SlubInv, FrameOK
  <2>3. SlabOK(ppn, new_slab(c, None), held)
    BY <1>1, <2>1, <2>2, NewOK DEF Maybe
  <2>4. new_slab(c, None) \in Slabs /\ new_slab(c, None) # Free
    BY <2>3, SlabFields DEF SlabOK
  <2>5. FrameOK(ppn, new_slab(c, None), free', held')
    BY <1>2, <1>4, <2>3, <2>4 DEF FrameOK
  <2>6. ASSUME NEW g \in Frames \ {ppn}
        PROVE  FrameOK(g, page_state[g], free', held')
    BY <1>2, <1>4, OtherFrame, Zenon DEF SlubInv
  <2>7. CallOK'
    BY <1>1, <1>4, CallsMade
  <2>8. active_slab_ppn' \in [Caches -> Maybe] /\ partial_slabs_head' \in [Caches -> Maybe]
    BY <1>1, <1>4, <2>1 DEF SlubTypeOK, Maybe
  <2>9. free' \subseteq Frames /\ held' \subseteq Handles
    BY <1>1, <1>2, <1>4 DEF SlubTypeOK
  <2> QED
    BY <1>4, <2>1, <2>4, <2>5, <2>6, <2>7, <2>8, <2>9, FrameStep, Zenon
<1> QED
  BY <1>2, <1>3, <1>4 DEF alloc_new_slab

(* A frame whose slab counts no object is nobody's. *)
LEMMA NothingHeld ==
    ASSUME NEW f, NEW s, NEW H, SlabOK(f, s, H), s.inuse = 0
    PROVE  In(f, H) = {}
BY FS_EmptySet, Zenon DEF SlabOK

LEMMA FreeObjectStep ==
    ASSUME SlubInv, NEW h \in held, free_object(h, h.ppn)
    PROVE  SlubInv'
<1> DEFINE f == h.ppn
           s == page_state[f]
           t == object_freed(s, h.object)
           c == s.cache
<1>1. SlubTypeOK /\ h \in Handles /\ f \in Frames /\ held \in SUBSET Handles
  BY HandleFields DEF SlubInv, SlubTypeOK
<1>2. s # Free
  BY <1>1 DEF SlubInv, FrameOK, In
<1>3. is_slub(f)
  BY <1>1, <1>2, SlubAssumption DEF is_slub
<1>4. f \notin free /\ SlabOK(f, s, held) /\ c \in Caches
  BY <1>1, <1>2, SlabThere, SlabFields
<1>5. s.inuse \in Nat \ {0} /\ SlabOK(f, t, held \ {h}) /\ t.inuse = s.inuse - 1
  <2>1. f = h.ppn /\ t = object_freed(s, h.object)
    OBVIOUS
  <2> HIDE DEF f, s, t, c
  <2> QED
    BY <1>1, <1>4, <2>1, FreeOK
<1>6. t \in Slabs /\ t # Free
  BY <1>5, SlabFields DEF SlabOK
<1>7. held' = held \ {h} /\ held' \subseteq Handles
  BY <1>1 DEF free_object
<1>8. \A g \in Frames \ {f} : FrameOK(g, page_state[g], free, held')
  BY <1>7, OtherOK DEF SlubInv
<1> DEFINE states == [page_state EXCEPT ![f] = t]
<1>9. \/ s.inuse = 1 /\ free_last(f, c, states)
      \/ s.inuse # 1 /\ free_one(f, c, states)
  BY <1>3 DEF free_object
<1>10. page_state \in [Frames -> Slabs \cup {Free}] /\ states[f] = t
  BY <1>1 DEF SlubTypeOK
<1> HIDE DEF t, c
<1>11. CASE s.inuse = 1 /\ free_last(f, c, states) /\ active_slab_ppn[c] = f
  <2>1. /\ active_slab_ppn' = [active_slab_ppn EXCEPT ![c] = None]
        /\ page_state' = [states EXCEPT ![f] = Free]
        /\ free' = free \cup {f}
        /\ call' = Returned
        /\ partial_slabs_head' = partial_slabs_head
    BY <1>11 DEF free_last, release
  <2>2. page_state' = [page_state EXCEPT ![f] = Free]
    BY <1>10, <2>1, Zenon
  <2>3. FrameOK(f, Free, free', held')
    BY <1>5, <1>7, <1>11, <2>1, NothingHeld DEF FrameOK
  <2>4. ASSUME NEW g \in Frames \ {f}
        PROVE  FrameOK(g, page_state[g], free', held')
    BY <1>8, <2>1, OtherFrame, Zenon
  <2>5. CallOK'
    BY <2>1, CallsMade
  <2>6. active_slab_ppn' \in [Caches -> Maybe] /\ partial_slabs_head' \in [Caches -> Maybe]
    BY <1>1, <2>1, Zenon DEF SlubTypeOK, Maybe
  <2>7. free' \subseteq Frames
    BY <1>1, <2>1 DEF SlubTypeOK
  <2> HIDE DEF f, states
  <2> QED
    BY <1>1, <1>7, <2>2, <2>3, <2>4, <2>5, <2>6, <2>7, FrameStep, Zenon
<1>12. CASE s.inuse = 1 /\ free_last(f, c, states) /\ active_slab_ppn[c] # f
  <2>1. /\ call' = removing(c, f, None, partial_slabs_head[c])
        /\ page_state' = states
        /\ UNCHANGED <<lists, free>>
    BY <1>12 DEF free_last
  <2>2. FrameOK(f, t, free', held')
    BY <1>4, <1>5, <1>6, <1>7, <2>1 DEF FrameOK
  <2>3. \A g \in Frames \ {f} : FrameOK(g, page_state[g], free', held')
    BY <1>8, <2>1
  <2>4. /\ partial_slabs_head[c] \in Maybe /\ None \in Maybe
        /\ page_state'[f] # Free /\ page_state'[f].inuse = 0
    <3>1. partial_slabs_head[c] \in Maybe /\ None \in Maybe
      BY <1>1, <1>4 DEF SlubTypeOK, Maybe
    <3>2. page_state'[f] = t
      BY <1>10, <2>1
    <3>3. t.inuse = 0
      BY <1>5, <1>12
    <3> QED
      BY <1>6, <3>1, <3>2, <3>3
  <2>5. CallOK'
    BY <1>1, <1>4, <2>1, <2>4 DEF CallOK
  <2>6. /\ active_slab_ppn' \in [Caches -> Maybe] /\ partial_slabs_head' \in [Caches -> Maybe]
        /\ free' \subseteq Frames
    BY <1>1, <2>1 DEF SlubTypeOK, lists
  <2> HIDE DEF f
  <2> QED
    BY <1>1, <1>6, <1>7, <2>1, <2>2, <2>3, <2>5, <2>6, FrameStep, Zenon
<1>13. CASE free_one(f, c, states)
  <2> DEFINE l == linked(t, partial_slabs_head[c])
  <2>1. call' = Returned /\ active_slab_ppn' = active_slab_ppn /\ free' = free
    BY <1>13 DEF free_one
  <2>2. partial_slabs_head[c] \in Maybe
    BY <1>1, <1>4 DEF SlubTypeOK
  <2>3. SlabOK(f, l, held')
    BY <1>5, <1>7, <2>2, LinkOK
  <2>4. l \in Slabs /\ l # Free
    BY <2>3, SlabFields DEF SlabOK
  <2> HIDE DEF l
  <2>5. FrameOK(f, l, free', held') /\ FrameOK(f, t, free', held')
    BY <1>4, <1>5, <1>6, <1>7, <2>1, <2>3, <2>4 DEF FrameOK
  <2>6. \A g \in Frames \ {f} : FrameOK(g, page_state[g], free', held')
    BY <1>8, <2>1
  <2>7. CallOK'
    BY <2>1, CallsMade
  <2>8. active_slab_ppn' \in [Caches -> Maybe] /\ free' \subseteq Frames
    BY <1>1, <2>1 DEF SlubTypeOK
  <2>9. CASE /\ page_state' = [states EXCEPT ![f] = linked(states[f], partial_slabs_head[c])]
             /\ partial_slabs_head' = [partial_slabs_head EXCEPT ![c] = f]
    <3>1. page_state' = [page_state EXCEPT ![f] = l]
      BY <1>10, <2>9, Zenon DEF l
    <3>2. partial_slabs_head' \in [Caches -> Maybe]
      BY <1>1, <2>9, Zenon DEF SlubTypeOK, Maybe
    <3> HIDE DEF f, states
    <3> QED
      BY <1>1, <1>7, <2>4, <2>5, <2>6, <2>7, <2>8, <3>1, <3>2, FrameStep, Zenon
  <2>10. CASE page_state' = states /\ partial_slabs_head' = partial_slabs_head
    <3>1. partial_slabs_head' \in [Caches -> Maybe]
      BY <1>1, <2>10 DEF SlubTypeOK
    <3> HIDE DEF f
    <3> QED
      BY <1>1, <1>6, <1>7, <2>5, <2>6, <2>7, <2>8, <2>10, <3>1, FrameStep, Zenon
  <2> QED
    BY <1>13, <2>9, <2>10 DEF free_one
<1> QED
  BY <1>9, <1>11, <1>12, <1>13

LEMMA RemoveStep ==
    ASSUME SlubInv, remove_from_partial
    PROVE  SlubInv'
<1> DEFINE cur == call.current
           s == page_state[cur]
           p == call.prev
<1>1. /\ SlubTypeOK /\ call.op = "remove"
      /\ call.cache \in Caches /\ call.target \in Frames
      /\ p \in Maybe /\ cur \in Maybe
      /\ page_state[call.target] # Free /\ page_state[call.target].inuse = 0
      /\ p # None => page_state[p] # Free
  BY CallOps DEF SlubInv, remove_from_partial
<1>2. /\ active_slab_ppn' = active_slab_ppn /\ held' = held
      /\ active_slab_ppn' \in [Caches -> Maybe] /\ held' \subseteq Handles
  BY <1>1 DEF remove_from_partial, SlubTypeOK
<1>3. CASE ~is_slub(cur)
  BY <1>1, <1>2, <1>3, ListsStep, CallsMade DEF remove_from_partial, SlubTypeOK
<1>4. CASE is_slub(cur)
  <2>1. cur \in Frames /\ s # Free
    BY <1>1, <1>4 DEF is_slub, Maybe
  <2>2. SlabOK(cur, s, held) /\ s.next \in Maybe
    BY <2>1, SlabThere, SlabFields
  <2>3. CASE /\ call' = removing(call.cache, call.target, cur, s.next)
             /\ UNCHANGED <<partial_slabs_head, page_state, free>>
    <3>1. CallOK'
      BY <1>1, <2>1, <2>2, <2>3 DEF CallOK
    <3> QED
      BY <1>1, <1>2, <2>3, <3>1, ListsStep DEF SlubTypeOK
  <2>4. ASSUME cur = call.target
        PROVE  FrameOK(cur, Free, free \cup {cur}, held)
    BY <1>1, <2>2, <2>4, NothingHeld DEF FrameOK
  <2>5. free \cup {cur} \subseteq Frames
    BY <1>1, <2>1 DEF SlubTypeOK
  <2>6. CASE /\ cur = call.target /\ p # None
             /\ release(cur, [page_state EXCEPT ![p] = linked(page_state[p], s.next)])
             /\ partial_slabs_head' = partial_slabs_head
    <3> DEFINE l == linked(page_state[p], s.next)
    <3>1. p \in Frames /\ SlabOK(p, page_state[p], held) /\ p \notin free
      BY <1>1, <2>6, SlabThere DEF Maybe
    <3>2. SlabOK(p, l, held)
      BY <2>2, <3>1, LinkOK
    <3>3. l \in Slabs /\ l # Free
      BY <3>2, SlabFields, Zenon DEF SlabOK
    <3>4. /\ page_state' = [[page_state EXCEPT ![p] = l] EXCEPT ![cur] = Free]
          /\ free' = free \cup {cur}
          /\ call' = Returned
      BY <2>6 DEF release
    <3> HIDE DEF l, s, cur, p
    <3>5. page_state' \in [Frames -> Slabs \cup {Free}]
      BY <1>1, <3>3, <3>4, Zenon DEF SlubTypeOK
    <3>6. /\ page_state'[cur] = Free
          /\ p # cur => page_state'[p] = l
          /\ \A g \in Frames \ {cur, p} : page_state'[g] = page_state[g]
      BY <1>1, <2>1, <3>1, <3>4 DEF SlubTypeOK
    <3>7. p # cur => FrameOK(p, l, free', held')
      BY <1>2, <3>1, <3>2, <3>3, <3>4 DEF FrameOK
    <3>8. \A g \in Frames \ {cur} : FrameOK(g, page_state[g], free', held')
      BY <1>2, <3>4, OtherFrame, Zenon DEF SlubInv
    <3>9. FrameOK(cur, Free, free', held')
      BY <1>2, <2>4, <2>6, <3>4 DEF cur
    <3>10. \A g \in Frames : FrameOK(g, page_state'[g], free', held')
      BY <3>6, <3>7, <3>8, <3>9
    <3>11. SlubTypeOK'
      BY <1>1, <1>2, <2>5, <2>6, <3>4, <3>5 DEF SlubTypeOK
    <3> QED
      BY <3>4, <3>10, <3>11, CallsMade, Zenon DEF SlubInv
  <2>7. CASE /\ cur = call.target
             /\ partial_slabs_head' = [partial_slabs_head EXCEPT ![call.cache] = s.next]
             /\ release(cur, page_state)
    <3>1. /\ page_state' = [page_state EXCEPT ![cur] = Free]
          /\ free' = free \cup {cur}
          /\ call' = Returned
      BY <2>7 DEF release
    <3>2. partial_slabs_head' \in [Caches -> Maybe]
      BY <1>1, <2>2, <2>7 DEF SlubTypeOK
    <3>3. FrameOK(cur, Free, free', held')
      BY <1>2, <2>4, <2>7, <3>1
    <3> HIDE DEF cur
    <3>4. ASSUME NEW g \in Frames \ {cur}
          PROVE  FrameOK(g, page_state[g], free', held')
      BY <1>2, <3>1, OtherFrame, Zenon DEF SlubInv
    <3>5. CallOK'
      BY <3>1, CallsMade
    <3> QED
      BY <1>2, <2>1, <2>5, <3>1, <3>2, <3>3, <3>4, <3>5, FrameStep, Zenon
  <2> QED
    BY <1>4, <2>3, <2>6, <2>7 DEF remove_from_partial
<1> QED
  BY <1>3, <1>4

LEMMA SlubStep == SlubInv /\ [SlubNext]_slubVars => SlubInv'
<1> SUFFICES ASSUME SlubInv, [SlubNext]_slubVars
             PROVE  SlubInv'
  OBVIOUS
<1>1. ASSUME NEW c \in Caches, alloc(c)
      PROVE  SlubInv'
  <2>1. CallOK'
    BY <1>1, CallsMade DEF alloc
  <2> QED
    BY <1>1, <2>1, ListsStep DEF alloc, lists, SlubInv, SlubTypeOK
<1>2. CASE alloc_loop
  BY <1>2, ActiveStep, PartialStep, NewSlabStep DEF alloc_loop
<1>3. ASSUME NEW h \in held, free_object(h, h.ppn)
      PROVE  SlubInv'
  BY <1>3, FreeObjectStep
<1>4. CASE remove_from_partial
  BY <1>4, RemoveStep
<1>5. CASE UNCHANGED slubVars
  <2>1. UNCHANGED <<page_state, free, held, call, active_slab_ppn, partial_slabs_head>>
    BY <1>5 DEF slubVars
  <2>2. CallOK'
    BY <2>1 DEF SlubInv, CallOK
  <2> QED
    BY <2>1, <2>2, ListsStep DEF SlubInv, SlubTypeOK
<1> QED
  BY <1>1, <1>2, <1>3, <1>4, <1>5 DEF SlubNext, panicked

----------------------------------------------------------------------------
(* The lists *)

(* f is met on the way from h through the frames W, each followed by succ. *)
Closed(S, h, W, succ) == h \in S /\ \A x \in S \cap W : succ[x] \in S
Leads(h, W, succ, f) == \A S \in SUBSET Maybe : Closed(S, h, W, succ) => f \in S

(* The slabs of cache c with room that are not active *)
Waiting(c, states, active) ==
    {f \in Frames : /\ states[f] # Free
                    /\ states[f].cache = c
                    /\ states[f].freelist # << >>
                    /\ active[c] # f}
Succ(states) == [f \in Frames |-> IF states[f] = Free THEN None ELSE states[f].next]

(* What cache d names is its own, and what it calls active a slab. *)
Own(f, d, states) == f # None /\ states[f] # Free => states[f].cache = d
NamesOwn(d, states, active, head) ==
    /\ active[d] # None => states[active[d]] # Free
    /\ Own(active[d], d, states)
    /\ Own(head[d], d, states)
    /\ \A x \in Frames : states[x] # Free /\ states[x].cache = d => Own(states[x].next, d, states)

(* A waiting slab is found from the head of the list by way of others that *)
(* wait.                                                                   *)
Found(d, states, active, head) ==
    \A f \in Waiting(d, states, active) :
        Leads(head[d], Waiting(d, states, active), Succ(states), f)

(* remove_from_partial has not passed the slab it looks for. *)
SearchGoesOn ==
    call.op = "remove" =>
        LET h == partial_slabs_head[call.cache]
            W == Waiting(call.cache, page_state, active_slab_ppn)
            succ == Succ(page_state)
        IN  /\ call.target \in W
            /\ Leads(call.current, W, succ, call.target)
            /\ \/ call.prev = None /\ call.current = h
               \/ /\ call.prev \in W \ {call.target}
                  /\ succ[call.prev] = call.current
                  /\ Leads(h, W \ {call.target}, succ, call.prev)

ListInv ==
    ~mixed /\ call # Panicked =>
        /\ \A d \in Caches : /\ NamesOwn(d, page_state, active_slab_ppn, partial_slabs_head)
                             /\ Found(d, page_state, active_slab_ppn, partial_slabs_head)
        /\ SearchGoesOn

LEMMA LeadsToItself ==
    ASSUME NEW h, NEW W, NEW succ
    PROVE  Leads(h, W, succ, h)
BY DEF Leads, Closed

(* Nothing is found past a frame that is not one of W. *)
LEMMA LeadsNowhere ==
    ASSUME NEW h \in Maybe, NEW W, h \notin W, NEW succ, NEW f, Leads(h, W, succ, f)
    PROVE  f = h
<1>1. {h} \in SUBSET Maybe /\ Closed({h}, h, W, succ)
  BY DEF Closed
<1> QED
  BY <1>1 DEF Leads

(* What matters of the links are those of W. *)
LEMMA LeadsStill ==
    ASSUME NEW h, NEW W, NEW succ, NEW succ2, \A x \in W : succ2[x] = succ[x],
           NEW f, Leads(h, W, succ, f)
    PROVE  Leads(h, W, succ2, f)
<1> SUFFICES ASSUME NEW S \in SUBSET Maybe, Closed(S, h, W, succ2)
             PROVE  f \in S
  BY DEF Leads
<1>1. Closed(S, h, W, succ)
  BY DEF Closed
<1> QED
  BY <1>1 DEF Leads

(* The head of the list is taken off. *)
LEMMA LeadsFromNext ==
    ASSUME NEW h \in Maybe, NEW W, NEW succ, NEW f, Leads(h, W, succ, f), f # h
    PROVE  h \in W /\ Leads(succ[h], W \ {h}, succ, f) /\ Leads(succ[h], W, succ, f)
<1>1. h \in W
  BY LeadsNowhere
<1>2. ASSUME NEW S \in SUBSET Maybe, succ[h] \in S, \A x \in S \cap (W \ {h}) : succ[x] \in S
      PROVE  f \in S
  <2>1. S \cup {h} \in SUBSET Maybe
    OBVIOUS
  <2>2. Closed(S \cup {h}, h, W, succ)
    BY <1>2 DEF Closed
  <2>3. f \in S \cup {h}
    BY <2>1, <2>2 DEF Leads
  <2> QED
    BY <2>3
<1>3. Leads(succ[h], W \ {h}, succ, f)
  BY <1>2 DEF Leads, Closed
<1>4. Leads(succ[h], W, succ, f)
  BY <1>2 DEF Leads, Closed
<1> QED
  BY <1>1, <1>3, <1>4

(* A frame is put before the head. *)
LEMMA LeadsFromNew ==
    ASSUME NEW h, NEW W, NEW succ, NEW f, Leads(h, W, succ, f),
           NEW p, p \notin W, NEW succ2, succ2[p] = h, \A x \in W : succ2[x] = succ[x]
    PROVE  Leads(p, W \cup {p}, succ2, f)
<1> SUFFICES ASSUME NEW S \in SUBSET Maybe, Closed(S, p, W \cup {p}, succ2)
             PROVE  f \in S
  BY DEF Leads
<1>1. Closed(S, h, W, succ)
  BY DEF Closed
<1> QED
  BY <1>1 DEF Leads

(* One step on *)
LEMMA LeadsOn ==
    ASSUME NEW h, NEW W, NEW succ, NEW f \in W, Leads(h, W, succ, f)
    PROVE  Leads(h, W, succ, succ[f])
BY DEF Leads, Closed

(* A frame is taken out after p. *)
LEMMA LeadsAround ==
    ASSUME NEW h, NEW W, NEW succ, NEW f, Leads(h, W, succ, f),
           NEW t \in Maybe, f # t, NEW p \in W \ {t}, succ[p] = t, Leads(h, W \ {t}, succ, p),
           NEW succ2, succ2[p] = succ[t], \A x \in W \ {t, p} : succ2[x] = succ[x]
    PROVE  Leads(h, W \ {t}, succ2, f)
<1> SUFFICES ASSUME NEW S \in SUBSET Maybe, Closed(S, h, W \ {t}, succ2)
             PROVE  f \in S
  BY DEF Leads
<1>1. p \in S
  <2> SUFFICES ASSUME p \notin S
               PROVE  FALSE
    OBVIOUS
  <2>1. Closed(S, h, W \ {t}, succ)
    BY DEF Closed
  <2> QED
    BY <2>1 DEF Leads
<1>2. succ[t] \in S
  BY <1>1 DEF Closed
<1>3. Closed(S \cup {t}, h, W, succ)
  <2>1. h \in S
    BY DEF Closed
  <2>2. ASSUME NEW x \in (S \cup {t}) \cap W
        PROVE  succ[x] \in S \cup {t}
    <3>1. CASE x = t
      BY <1>2, <3>1
    <3>2. CASE x = p
      BY <3>2
    <3>3. CASE x \in W \ {t, p}
      <4>1. x \in S \cap (W \ {t}) /\ succ2[x] = succ[x]
        BY <3>3
      <4> QED
        BY <4>1 DEF Closed
    <3> QED
      BY <3>1, <3>2, <3>3
  <2> QED
    BY <2>1, <2>2 DEF Closed
<1>4. S \cup {t} \in SUBSET Maybe
  OBVIOUS
<1>5. f \in S \cup {t}
  BY <1>3, <1>4 DEF Leads
<1> QED
  BY <1>5

(* A cache whose waiting slabs, their links and the head stay *)
LEMMA FoundStill ==
    ASSUME NEW d, NEW s1, NEW s2, NEW a1, NEW a2, NEW h1, NEW h2, Found(d, s1, a1, h1),
           Waiting(d, s2, a2) = Waiting(d, s1, a1), h2[d] = h1[d],
           \A x \in Waiting(d, s1, a1) : Succ(s2)[x] = Succ(s1)[x]
    PROVE  Found(d, s2, a2, h2)
<1> DEFINE W == Waiting(d, s1, a1)
<1> SUFFICES ASSUME NEW f \in W
             PROVE  Leads(h1[d], W, Succ(s2), f)
  BY DEF Found
<1>1. Leads(h1[d], W, Succ(s1), f)
  BY DEF Found
<1> HIDE DEF W
<1> QED
  BY <1>1, LeadsStill DEF W

(* A step that changes frame p *)
Changes(p, s1, s2) ==
    /\ p \in Frames
    /\ s1 \in [Frames -> Slabs \cup {Free}] /\ s2 \in [Frames -> Slabs \cup {Free}]
    /\ \A x \in Frames \ {p} : s2[x] = s1[x]

Unnamed(p, d, states, active, head) ==
    /\ active[d] # p /\ head[d] # p
    /\ \A x \in Frames : states[x] # Free /\ states[x].cache = d => states[x].next # p

(* The caches other than that of the frame *)
LEMMA OtherCache ==
    ASSUME NEW c, NEW d, d # c, NEW p, NEW s1, NEW s2, Changes(p, s1, s2),
           Own(p, c, s1), Own(p, c, s2),
           NEW a1, NEW a2, NEW h1, NEW h2, a2[d] = a1[d], h2[d] = h1[d],
           a1[d] \in Maybe, h1[d] \in Maybe,
           s1[p] = Free /\ s2[p] # Free => Unnamed(p, d, s1, a1, h1),
           NamesOwn(d, s1, a1, h1), Found(d, s1, a1, h1)
    PROVE  NamesOwn(d, s2, a2, h2) /\ Found(d, s2, a2, h2)
<1> SUFFICES ASSUME p \in Frames, s1 \in [Frames -> Slabs \cup {Free}],
                    s2 \in [Frames -> Slabs \cup {Free}],
                    \A x \in Frames \ {p} : s2[x] = s1[x],
                    s1[p] # Free => s1[p].cache = c, s2[p] # Free => s2[p].cache = c,
                    s1[p] = Free /\ s2[p] # Free => a1[d] # p /\ h1[d] # p /\
                        \A x \in Frames : s1[x] # Free /\ s1[x].cache = d => s1[x].next # p
             PROVE  NamesOwn(d, s2, a2, h2) /\ Found(d, s2, a2, h2)
  BY SlubAssumption DEF Changes, Unnamed, Own
<1>1. Waiting(d, s2, a2) = Waiting(d, s1, a1) /\ p \notin Waiting(d, s1, a1)
  <2>1. p \notin Waiting(d, s1, a1) /\ p \notin Waiting(d, s2, a2)
    BY DEF Waiting
  <2>2. \A x \in Frames \ {p} : x \in Waiting(d, s2, a2) <=> x \in Waiting(d, s1, a1)
    BY DEF Waiting
  <2>3. Waiting(d, s2, a2) \subseteq Frames /\ Waiting(d, s1, a1) \subseteq Frames
    BY DEF Waiting
  <2>4. \A x \in Frames : x \in Waiting(d, s2, a2) <=> x \in Waiting(d, s1, a1)
    BY <2>1, <2>2
  <2> QED
    BY <2>1, <2>3, <2>4
<1>2. \A x \in Waiting(d, s1, a1) : x \in Frames \ {p}
  BY <1>1 DEF Waiting
<1>3. \A x \in Waiting(d, s1, a1) : Succ(s2)[x] = Succ(s1)[x]
  BY <1>2, ZenonT(30) DEF Succ
<1>4. Found(d, s2, a2, h2)
  BY <1>1, <1>3, FoundStill
<1>5. ASSUME NEW f \in Maybe, Own(f, d, s1), s1[p] = Free /\ s2[p] # Free => f # p
      PROVE  Own(f, d, s2)
  BY <1>5 DEF Own, Maybe
<1>6. a1[d] # None => s2[a1[d]] # Free
  BY ZenonT(30) DEF NamesOwn, Own, Maybe
<1>7. Own(a1[d], d, s2) /\ Own(h1[d], d, s2)
  BY <1>5 DEF NamesOwn
<1>8. ASSUME NEW x \in Frames, s2[x] # Free, s2[x].cache = d
      PROVE  Own(s2[x].next, d, s2)
  <2>1. x # p /\ s2[x] = s1[x]
    BY <1>8
  <2>2. s1[x].next \in Maybe
    BY <1>8, <2>1, SlabFields
  <2>3. Own(s1[x].next, d, s1)
    BY <1>8, <2>1 DEF NamesOwn
  <2> QED
    BY <1>5, <1>8, <2>1, <2>2, <2>3, ZenonT(30)
<1> QED
  BY <1>4, <1>6, <1>7, <1>8 DEF NamesOwn

(* A slab that keeps its place: it is active, or has room before and after *)
KeepsPlace(p, s, t, active) ==
    /\ s # Free /\ t # Free /\ t.cache = s.cache /\ t.next = s.next
    /\ active[s.cache] = p \/ (s.freelist # << >> /\ t.freelist # << >>)

LEMMA FrameKept ==
    ASSUME NEW d, NEW p, NEW s1, NEW s2, Changes(p, s1, s2),
           NEW a, NEW h, KeepsPlace(p, s1[p], s2[p], a),
           a[d] \in Maybe, h[d] \in Maybe, NamesOwn(d, s1, a, h), Found(d, s1, a, h)
    PROVE  /\ NamesOwn(d, s2, a, h) /\ Found(d, s2, a, h)
           /\ Waiting(d, s2, a) = Waiting(d, s1, a)
           /\ Succ(s2) = Succ(s1)
<1> SUFFICES ASSUME p \in Frames, s1 \in [Frames -> Slabs \cup {Free}],
                    s2 \in [Frames -> Slabs \cup {Free}],
                    \A x \in Frames \ {p} : s2[x] = s1[x],
                    s1[p] # Free, s2[p] # Free, s2[p].cache = s1[p].cache, s2[p].next = s1[p].next,
                    a[s1[p].cache] = p \/ (s1[p].freelist # << >> /\ s2[p].freelist # << >>)
             PROVE  /\ NamesOwn(d, s2, a, h) /\ Found(d, s2, a, h)
                    /\ Waiting(d, s2, a) = Waiting(d, s1, a)
                    /\ Succ(s2) = Succ(s1)
  BY DEF Changes, KeepsPlace
<1>1. \A x \in Frames : /\ s2[x] # Free <=> s1[x] # Free
                        /\ s1[x] # Free => s2[x].cache = s1[x].cache /\ s2[x].next = s1[x].next
  OBVIOUS
<1>2. Waiting(d, s2, a) = Waiting(d, s1, a)
  BY DEF Waiting
<1>3. Succ(s2) = Succ(s1)
  BY <1>1 DEF Succ
<1>4. Found(d, s2, a, h)
  BY <1>2, <1>3, FoundStill
<1>5. ASSUME NEW f \in Maybe, Own(f, d, s1)
      PROVE  Own(f, d, s2)
  BY <1>1, <1>5 DEF Own, Maybe
<1>6. a[d] # None => s2[a[d]] # Free
  BY <1>1 DEF NamesOwn, Maybe
<1>7. Own(a[d], d, s2) /\ Own(h[d], d, s2)
  BY <1>5 DEF NamesOwn
<1>8. ASSUME NEW x \in Frames, s2[x] # Free, s2[x].cache = d
      PROVE  Own(s2[x].next, d, s2)
  <2>1. s1[x] # Free /\ s1[x].cache = d /\ s2[x].next = s1[x].next
    BY <1>1, <1>8
  <2>2. s1[x].next \in Maybe
    BY <2>1, SlabFields
  <2>3. Own(s1[x].next, d, s1)
    BY <2>1 DEF NamesOwn
  <2> QED
    BY <1>5, <2>1, <2>2, <2>3
<1> QED
  BY <1>2, <1>3, <1>4, <1>6, <1>7, <1>8, ZenonT(30) DEF NamesOwn

(* What the invariants say of the lists before a step *)
LEMMA ListsBefore ==
    ASSUME SlubInv, ListInv, ~mixed, call # Panicked
    PROVE  /\ page_state \in [Frames -> Slabs \cup {Free}]
           /\ active_slab_ppn \in [Caches -> Maybe]
           /\ partial_slabs_head \in [Caches -> Maybe]
           /\ \A d \in Caches : /\ NamesOwn(d, page_state, active_slab_ppn, partial_slabs_head)
                                /\ Found(d, page_state, active_slab_ppn, partial_slabs_head)
           /\ SearchGoesOn
BY DEF SlubInv, SlubTypeOK, ListInv

(* No slab waits when the list is empty. *)
LEMMA NothingWaits ==
    ASSUME NEW c, NEW states, NEW active, NEW head, Found(c, states, active, head), head[c] = None
    PROVE  Waiting(c, states, active) = {}
<1> DEFINE W == Waiting(c, states, active)
           succ == Succ(states)
<1> SUFFICES ASSUME NEW f \in W
             PROVE  FALSE
  OBVIOUS
<1>1. Leads(None, W, succ, f)
  BY DEF Found
<1>2. None \in Maybe /\ None \notin W /\ f \in Frames
  BY SlubAssumption DEF Waiting, Maybe
<1> HIDE DEF W, succ
<1>3. f = None
  BY <1>1, <1>2, LeadsNowhere
<1> QED
  BY <1>2, <1>3, SlubAssumption

LEMMA ActiveList ==
    ASSUME SlubInv, ListInv, call.op = "alloc", alloc_from_active(call.cache)
    PROVE  ListInv'
<1> DEFINE c == call.cache
           ppn == active_slab_ppn[c]
           s == page_state[ppn]
<1> SUFFICES ASSUME ~mixed', call' # Panicked
             PROVE  ListInv'
  BY DEF ListInv
<1>1. c \in Caches /\ ~mixed /\ call # Panicked /\ ppn # None
  BY CallOps DEF SlubInv, alloc_from_active, Panicked
<1>2. /\ page_state \in [Frames -> Slabs \cup {Free}]
      /\ active_slab_ppn \in [Caches -> Maybe]
      /\ partial_slabs_head \in [Caches -> Maybe]
      /\ \A d \in Caches : /\ NamesOwn(d, page_state, active_slab_ppn, partial_slabs_head)
                           /\ Found(d, page_state, active_slab_ppn, partial_slabs_head)
  BY <1>1, ListsBefore
<1>3. ppn \in Frames /\ s # Free /\ s.cache = c /\ is_slub(ppn)
  BY <1>1, <1>2 DEF NamesOwn, Own, Maybe, is_slub
<1>4. partial_slabs_head' = partial_slabs_head
  BY DEF alloc_from_active
<1>5. CASE s.freelist = << >>
  <2>1. /\ active_slab_ppn' = [active_slab_ppn EXCEPT ![c] = None]
        /\ page_state' = page_state /\ call' = call
    BY <1>3, <1>5 DEF alloc_from_active
  <2>2. SearchGoesOn'
    BY <2>1 DEF SearchGoesOn
  <2>3. ASSUME NEW d \in Caches
        PROVE  /\ NamesOwn(d, page_state, active_slab_ppn', partial_slabs_head)
               /\ Found(d, page_state, active_slab_ppn', partial_slabs_head)
    <3>1. active_slab_ppn'[d] = IF d = c THEN None ELSE active_slab_ppn[d]
      BY <1>2, <2>1
    <3>2. NamesOwn(d, page_state, active_slab_ppn', partial_slabs_head)
      BY <1>2, <3>1 DEF NamesOwn, Own
    <3>3. Waiting(d, page_state, active_slab_ppn') = Waiting(d, page_state, active_slab_ppn)
      BY <1>5, <3>1, SlubAssumption DEF Waiting
    <3>4. Found(d, page_state, active_slab_ppn, partial_slabs_head)
      BY <1>2
    <3> QED
      BY <3>2, <3>3, <3>4, FoundStill
  <2> QED
    BY <1>4, <2>1, <2>2, <2>3, Zenon DEF ListInv
<1>6. CASE s.freelist # << >>
  <2>1. /\ page_state' = [page_state EXCEPT ![ppn] = object_taken(s)]
        /\ active_slab_ppn' = active_slab_ppn /\ call' = Returned
    BY <1>3, <1>6 DEF alloc_from_active
  <2>2. SearchGoesOn'
    BY <2>1, ZenonT(30) DEF SearchGoesOn, Returned
  <2>3. /\ page_state' \in [Frames -> Slabs \cup {Free}]
        /\ page_state'[ppn] = object_taken(s)
        /\ \A x \in Frames \ {ppn} : page_state'[x] = page_state[x]
    <3>1. SlubInv'
      BY ActiveStep
    <3> QED
      BY <1>2, <1>3, <2>1, <3>1, Zenon DEF SlubInv, SlubTypeOK
  <2>4. /\ page_state'[ppn].cache = s.cache /\ page_state'[ppn].next = s.next
        /\ page_state'[ppn] # Free
    <3>0. s \in Slabs
      BY <1>2, <1>3
    <3>1. s.freelist \in Seq(Nat) /\ s.inuse + 1 \in Nat /\ s.cache \in Caches /\ s.next \in Maybe
      <4>1. s.freelist \in Seq(Nat) /\ s.inuse \in Nat /\ s.cache \in Caches /\ s.next \in Maybe
        BY <3>0, SlabFields
      <4> QED
        BY <4>1
    <3>2. Tail(s.freelist) \in Seq(Nat)
      BY <1>6, <3>1
    <3>3. object_taken(s) \in Slabs
      BY <3>1, <3>2 DEF object_taken, slab, Slabs, Maybe
    <3>4. object_taken(s).cache = s.cache /\ object_taken(s).next = s.next
      BY DEF object_taken, slab
    <3> QED
      BY <2>3, <3>3, <3>4, SlabFields
  <2>5. ASSUME NEW d \in Caches
        PROVE  /\ NamesOwn(d, page_state', active_slab_ppn, partial_slabs_head)
               /\ Found(d, page_state', active_slab_ppn, partial_slabs_head)
    <3>1. active_slab_ppn[d] \in Maybe /\ partial_slabs_head[d] \in Maybe
      BY <1>2
    <3>2. Changes(ppn, page_state, page_state')
      BY <1>2, <1>3, <2>3 DEF Changes
    <3>3. KeepsPlace(ppn, s, page_state'[ppn], active_slab_ppn)
      <4>1. active_slab_ppn[s.cache] = ppn
        BY <1>3
      <4> HIDE DEF c, ppn, s
      <4> QED
        BY <1>3, <2>4, <4>1 DEF KeepsPlace
    <3> QED
      BY <1>2, <3>1, <3>2, <3>3, FrameKept
  <2> QED
    BY <1>4, <2>1, <2>2, <2>5, ZenonT(30) DEF ListInv
<1> QED
  BY <1>5, <1>6

LEMMA PartialList ==
    ASSUME SlubInv, ListInv, call.op = "alloc", alloc_from_partial(call.cache)
    PROVE  ListInv'
<1> DEFINE c == call.cache
           ppn == partial_slabs_head[c]
           s == page_state[ppn]
<1> SUFFICES ASSUME ~mixed', call' # Panicked
             PROVE  ListInv'
  BY DEF ListInv
<1>1. /\ c \in Caches /\ ~mixed /\ call # Panicked /\ ppn # None
      /\ active_slab_ppn[c] = None /\ is_slub(ppn)
  BY CallOps DEF SlubInv, alloc_from_partial, Panicked
<1>2. /\ page_state \in [Frames -> Slabs \cup {Free}]
      /\ active_slab_ppn \in [Caches -> Maybe]
      /\ partial_slabs_head \in [Caches -> Maybe]
      /\ \A d \in Caches : /\ NamesOwn(d, page_state, active_slab_ppn, partial_slabs_head)
                           /\ Found(d, page_state, active_slab_ppn, partial_slabs_head)
  BY <1>1, ListsBefore
<1>3. ppn \in Frames /\ s # Free /\ s.cache = c
  BY <1>1, <1>2 DEF NamesOwn, Own, Maybe, is_slub
<1>4. /\ active_slab_ppn' = [active_slab_ppn EXCEPT ![c] = ppn]
      /\ partial_slabs_head' = [partial_slabs_head EXCEPT ![c] = s.next]
      /\ page_state' = page_state /\ call' = call
  BY <1>1 DEF alloc_from_partial
<1>5. SearchGoesOn'
  BY <1>4 DEF SearchGoesOn
<1>6. ASSUME NEW d \in Caches, d # c
      PROVE  /\ NamesOwn(d, page_state, active_slab_ppn', partial_slabs_head')
             /\ Found(d, page_state, active_slab_ppn', partial_slabs_head')
  <2>1. active_slab_ppn'[d] = active_slab_ppn[d] /\ partial_slabs_head'[d] = partial_slabs_head[d]
    BY <1>2, <1>4, <1>6
  <2>2. NamesOwn(d, page_state, active_slab_ppn', partial_slabs_head')
    BY <1>2, <2>1 DEF NamesOwn
  <2>3. Waiting(d, page_state, active_slab_ppn') = Waiting(d, page_state, active_slab_ppn)
    BY <2>1 DEF Waiting
  <2>4. Found(d, page_state, active_slab_ppn, partial_slabs_head)
    BY <1>2
  <2> QED
    BY <2>1, <2>2, <2>3, <2>4, FoundStill
<1>7. /\ NamesOwn(c, page_state, active_slab_ppn', partial_slabs_head')
      /\ Found(c, page_state, active_slab_ppn', partial_slabs_head')
  <2> DEFINE W == Waiting(c, page_state, active_slab_ppn)
             succ == Succ(page_state)
  <2>1. active_slab_ppn'[c] = ppn /\ partial_slabs_head'[c] = s.next
    BY <1>1, <1>2, <1>4
  <2>2. NamesOwn(c, page_state, active_slab_ppn', partial_slabs_head')
    BY <1>1, <1>2, <1>3, <2>1, Zenon DEF NamesOwn
  <2>3. Waiting(c, page_state, active_slab_ppn') = W \ {ppn}
    BY <1>1, <2>1, SlubAssumption DEF Waiting
  <2>4. succ[ppn] = s.next
    BY <1>3 DEF Succ
  <2>5. \A f \in W : Leads(ppn, W, succ, f)
    BY <1>1, <1>2 DEF Found
  <2>6. ppn \in Maybe
    BY <1>3 DEF Maybe
  <2> HIDE DEF W, succ, ppn, s
  <2>7. \A f \in W \ {ppn} : Leads(succ[ppn], W \ {ppn}, succ, f)
    BY <2>5, <2>6, LeadsFromNext, Zenon
  <2> QED
    BY <2>1, <2>2, <2>3, <2>4, <2>7 DEF Found, succ
<1> QED
  BY <1>4, <1>5, <1>6, <1>7, Zenon DEF ListInv

LEMMA NewSlabList ==
    ASSUME SlubInv, ListInv, call.op = "alloc", alloc_new_slab(call.cache)
    PROVE  ListInv'
<1> DEFINE c == call.cache
<1> SUFFICES ASSUME ~mixed', call' # Panicked
             PROVE  ListInv'
  BY DEF ListInv
<1>mixed. ~mixed
  <2>1. CASE mixed' = mixed
    BY <2>1
  <2>2. ASSUME NEW ppn, mixed' = (mixed \/ \E d \in Caches \ {c} : ppn \in named_by(d))
        PROVE  ~mixed
    BY <2>2, Zenon
  <2> QED
    BY <2>1, <2>2 DEF alloc_new_slab
<1>1. /\ c \in Caches /\ call # Panicked /\ ~mixed
      /\ active_slab_ppn[c] = None /\ partial_slabs_head[c] = None
  BY <1>mixed, CallOps DEF SlubInv, alloc_new_slab, Panicked
<1>2. /\ page_state \in [Frames -> Slabs \cup {Free}]
      /\ active_slab_ppn \in [Caches -> Maybe]
      /\ partial_slabs_head \in [Caches -> Maybe]
      /\ \A d \in Caches : /\ NamesOwn(d, page_state, active_slab_ppn, partial_slabs_head)
                           /\ Found(d, page_state, active_slab_ppn, partial_slabs_head)
  BY <1>1, ListsBefore
<1>3. CASE call' = Returned /\ UNCHANGED <<lists, page_state, free, mixed>>
  <2>1. SearchGoesOn'
    BY <1>3 DEF SearchGoesOn, Returned
  <2>2. UNCHANGED <<page_state, active_slab_ppn, partial_slabs_head>>
    BY <1>3 DEF lists
  <2> QED
    BY <1>2, <2>1, <2>2 DEF ListInv
<1>4. ASSUME NEW ppn \in free,
             page_state' = [page_state EXCEPT ![ppn] = new_slab(c, None)],
             partial_slabs_head' = [partial_slabs_head EXCEPT ![c] = ppn],
             active_slab_ppn' = [active_slab_ppn EXCEPT ![c] = ppn],
             mixed' = (mixed \/ \E d \in Caches \ {c} : ppn \in named_by(d)),
             call' = call
      PROVE  ListInv'
  <2>1. ppn \in Frames /\ page_state[ppn] = Free
    BY DEF SlubInv, SlubTypeOK, FrameOK
  <2>2. page_state' \in [Frames -> Slabs \cup {Free}] /\ page_state'[ppn] # Free
    <3>1. SlubInv' /\ ppn \in Frames
      BY <2>1, NewSlabStep
    <3>2. new_slab(c, None) \in Slabs
      <4>1. In(ppn, held) = {} /\ held \in SUBSET Handles /\ None \in Maybe
        BY <2>1 DEF SlubInv, SlubTypeOK, FrameOK, Maybe
      <4> QED
        BY <1>1, <2>1, <4>1, NewOK, Zenon DEF SlabOK
    <3> QED
      BY <1>2, <1>4, <2>1, <3>1, <3>2, SlabFields, Zenon DEF SlubInv, SlubTypeOK
  <2>3. page_state'[ppn].cache = c /\ page_state'[ppn].next = None
    BY <1>2, <1>4, <2>1 DEF new_slab, slab
  <2>4. \A x \in Frames \ {ppn} : page_state'[x] = page_state[x]
    BY <1>2, <1>4
  <2>5. SearchGoesOn'
    BY <1>4 DEF SearchGoesOn
  <2>6. ASSUME NEW d \in Caches, d # c
        PROVE  /\ NamesOwn(d, page_state', active_slab_ppn', partial_slabs_head')
               /\ Found(d, page_state', active_slab_ppn', partial_slabs_head')
    <3>1. active_slab_ppn'[d] = active_slab_ppn[d] /\ partial_slabs_head'[d] = partial_slabs_head[d]
      BY <1>2, <1>4, <2>6
    <3>2. ppn \notin named_by(d)
      BY <1>4, <2>6, Zenon
    <3>3. Unnamed(ppn, d, page_state, active_slab_ppn, partial_slabs_head)
      BY <3>2, SlubAssumption DEF Unnamed, named_by, is_slub
    <3>4. Changes(ppn, page_state, page_state')
      BY <1>2, <2>1, <2>2, <2>4 DEF Changes
    <3>5. Own(ppn, c, page_state) /\ Own(ppn, c, page_state')
      BY <2>1, <2>3 DEF Own
    <3>6. active_slab_ppn[d] \in Maybe /\ partial_slabs_head[d] \in Maybe
      BY <1>2
    <3> HIDE DEF c
    <3> QED
      BY <1>2, <2>6, <3>1, <3>3, <3>4, <3>5, <3>6, OtherCache, Zenon
  <2>7. active_slab_ppn'[c] = ppn /\ partial_slabs_head'[c] = ppn
    BY <1>1, <1>2, <1>4
  <2>8. NamesOwn(c, page_state', active_slab_ppn', partial_slabs_head')
    <3>1. ASSUME NEW x \in Frames, page_state'[x] # Free, page_state'[x].cache = c
          PROVE  Own(page_state'[x].next, c, page_state')
      <4>1. CASE x = ppn
        BY <2>3, <4>1 DEF Own
      <4>2. CASE x # ppn
        <5>1. page_state[x] # Free /\ page_state[x].cache = c /\ page_state'[x] = page_state[x]
          BY <2>4, <3>1, <4>2
        <5>2. page_state[x].next \in Maybe
          BY <1>2, <5>1, SlabFields
        <5>3. Own(page_state[x].next, c, page_state)
          BY <1>1, <1>2, <5>1 DEF NamesOwn
        <5> QED
          BY <2>3, <2>4, <5>1, <5>2, <5>3 DEF Own, Maybe
      <4> QED
        BY <4>1, <4>2
    <3> QED
      BY <2>2, <2>3, <2>7, <3>1, Zenon DEF NamesOwn, Own
  <2>9. Waiting(c, page_state, active_slab_ppn) = {}
    BY <1>1, <1>2, NothingWaits
  <2>10. Waiting(c, page_state', active_slab_ppn') = {}
    BY <1>1, <2>4, <2>7, <2>9, SlubAssumption, ZenonT(30) DEF Waiting
  <2>11. Found(c, page_state', active_slab_ppn', partial_slabs_head')
    BY <2>10 DEF Found
  <2> QED
    BY <2>5, <2>6, <2>8, <2>11 DEF ListInv
<1> QED
  BY <1>1, <1>3, <1>4 DEF alloc_new_slab

(* A slab with one object in use has room: it has two or more. *)
LEMMA LastHasRoom ==
    ASSUME NEW f, NEW s, NEW H, SlabOK(f, s, H), s.inuse = 1
    PROVE  s.freelist # << >>
<1> SUFFICES ASSUME s.freelist = << >>
             PROVE  FALSE
  OBVIOUS
<1>1. s.cache \in Caches /\ Range(s.freelist) = {}
  <2>1. s \in Slabs
    BY DEF SlabOK
  <2>2. s.cache \in Caches
    BY <2>1, SlabFields
  <2>3. DOMAIN s.freelist = {}
    OBVIOUS
  <2> QED
    BY <2>2, <2>3 DEF Range
<1>2. 1 \in 1 .. Objects[s.cache] /\ 2 \in 1 .. Objects[s.cache]
  <2>1. Objects[s.cache] \in Nat \ {0, 1}
    BY <1>1, SlubAssumption
  <2> QED
    BY <2>1
<1>3. handle(f, 1) \in H /\ handle(f, 2) \in H
  BY <1>1, <1>2 DEF SlabOK
<1>4. handle(f, 1) \in In(f, H) /\ handle(f, 2) \in In(f, H)
  BY <1>3, HandleFields DEF In
<1>5. IsFiniteSet(In(f, H)) /\ Cardinality(In(f, H)) = 1
  BY DEF SlabOK
<1>6. \E x : In(f, H) = {x}
  BY <1>5, FS_Singleton, Zenon
<1>7. handle(f, 1) = handle(f, 2)
  BY <1>4, <1>6
<1>8. handle(f, 1).object = 1 /\ handle(f, 2).object = 2
  BY HandleFields
<1> QED
  BY <1>7, <1>8

(* What remains of a slab when an object is given back *)
LEMMA FreedFields ==
    ASSUME NEW s \in Slabs, NEW o \in Nat
    PROVE  /\ object_freed(s, o).cache = s.cache /\ object_freed(s, o).next = s.next
           /\ object_freed(s, o).freelist # << >>
<1>1. s.freelist \in Seq(Nat)
  BY SlabFields
<1>2. <<o>> \o s.freelist # << >>
  BY <1>1
<1> QED
  BY <1>2 DEF object_freed, slab

(* A slab that was full comes to the head of the list of its cache. *)
LEMMA Relinked ==
    ASSUME NEW c \in Caches, NEW p, NEW s1, NEW s2, Changes(p, s1, s2),
           s1[p] # Free, s2[p] # Free, s1[p].cache = c, s2[p].cache = c,
           s1[p].freelist = << >>, s2[p].freelist # << >>,
           NEW a, NEW h1, NEW h2, a[c] \in Maybe, h1[c] \in Maybe, a[c] # p,
           h2[c] = p, s2[p].next = h1[c],
           NamesOwn(c, s1, a, h1), Found(c, s1, a, h1)
    PROVE  NamesOwn(c, s2, a, h2) /\ Found(c, s2, a, h2)
<1> DEFINE W == Waiting(c, s1, a)
<1>1. /\ p \in Frames
      /\ s1 \in [Frames -> Slabs \cup {Free}] /\ s2 \in [Frames -> Slabs \cup {Free}]
      /\ \A x \in Frames \ {p} : s2[x] = s1[x]
  BY DEF Changes
<1>2. ASSUME NEW f \in Maybe, Own(f, c, s1)
      PROVE  Own(f, c, s2)
  BY <1>1, <1>2 DEF Own, Maybe
<1>3. NamesOwn(c, s2, a, h2)
  <2>1. a[c] # None => s2[a[c]] # Free
    BY <1>1 DEF NamesOwn, Maybe
  <2>2. Own(a[c], c, s2) /\ Own(h1[c], c, s2) /\ Own(h2[c], c, s2)
    <3>1. Own(p, c, s1) /\ p \in Maybe
      BY <1>1 DEF Own, Maybe
    <3> QED
      BY <1>2, <3>1, ZenonT(30) DEF NamesOwn
  <2>3. ASSUME NEW x \in Frames \ {p}, s2[x] # Free, s2[x].cache = c
        PROVE  Own(s2[x].next, c, s2)
    <3>1. s2[x] = s1[x] /\ s1[x].next \in Maybe
      BY <1>1, <2>3, SlabFields
    <3>2. Own(s1[x].next, c, s1)
      BY <2>3, <3>1 DEF NamesOwn
    <3> QED
      BY <1>2, <3>1, <3>2, ZenonT(30)
  <2> QED
    BY <2>1, <2>2, <2>3, ZenonT(30) DEF NamesOwn
<1>4. Waiting(c, s2, a) = W \cup {p} /\ p \notin W
  <2>1. p \notin W /\ p \in Waiting(c, s2, a)
    BY <1>1 DEF Waiting
  <2>2. \A x \in Frames \ {p} : x \in Waiting(c, s2, a) <=> x \in W
    BY <1>1 DEF Waiting
  <2>3. Waiting(c, s2, a) \subseteq Frames /\ W \subseteq Frames
    BY DEF Waiting
  <2> QED
    BY <2>1, <2>2, <2>3
<1>5. Succ(s2)[p] = h1[c] /\ \A x \in W : Succ(s2)[x] = Succ(s1)[x]
  <2>1. Succ(s2)[p] = h1[c]
    BY <1>1 DEF Succ
  <2>2. ASSUME NEW x \in W
        PROVE  Succ(s2)[x] = Succ(s1)[x]
    <3>1. x \in Frames \ {p}
      BY <1>4, ZenonT(30) DEF Waiting
    <3> QED
      BY <1>1, <3>1 DEF Succ
  <2> QED
    BY <2>1, <2>2
<1>6. \A f \in W : Leads(h1[c], W, Succ(s1), f)
  BY ZenonT(30) DEF Found
<1> HIDE DEF W
<1>7. ASSUME NEW f \in W \cup {p}
      PROVE  Leads(p, W \cup {p}, Succ(s2), f)
  <2>1. CASE f = p
    BY <2>1, LeadsToItself, ZenonT(30)
  <2>2. CASE f \in W
    <3> DEFINE succ == Succ(s1)
               succ2 == Succ(s2)
               hd == h1[c]
    <3>1. /\ Leads(hd, W, succ, f) /\ p \notin W
          /\ succ2[p] = hd /\ \A x \in W : succ2[x] = succ[x]
      BY <1>4, <1>5, <1>6, <2>2, ZenonT(30)
    <3> HIDE DEF succ, succ2, hd
    <3>2. Leads(p, W \cup {p}, succ2, f)
      BY <3>1, LeadsFromNew, ZenonT(30)
    <3> QED
      BY <3>2 DEF succ2
  <2> QED
    BY <2>1, <2>2
<1> QED
  BY <1>3, <1>4, <1>7, ZenonT(30) DEF Found

(* The active slab is released. *)
LEMMA ActiveReleased ==
    ASSUME NEW c \in Caches, NEW p, NEW s1, NEW s2, Changes(p, s1, s2), s2[p] = Free,
           NEW a1, NEW a2, NEW h, a1[c] = p, h[c] \in Maybe, a2[c] = None,
           NamesOwn(c, s1, a1, h), Found(c, s1, a1, h)
    PROVE  NamesOwn(c, s2, a2, h) /\ Found(c, s2, a2, h)
<1>1. /\ p \in Frames
      /\ s1 \in [Frames -> Slabs \cup {Free}] /\ s2 \in [Frames -> Slabs \cup {Free}]
      /\ \A x \in Frames \ {p} : s2[x] = s1[x]
  BY DEF Changes
<1>2. ASSUME NEW f \in Maybe, Own(f, c, s1)
      PROVE  Own(f, c, s2)
  BY <1>1, <1>2 DEF Own, Maybe
<1>3. NamesOwn(c, s2, a2, h)
  <2>1. ASSUME NEW x \in Frames, s2[x] # Free, s2[x].cache = c
        PROVE  Own(s2[x].next, c, s2)
    <3>1. s2[x] = s1[x] /\ s1[x].next \in Maybe
      BY <1>1, <2>1, SlabFields
    <3>2. Own(s1[x].next, c, s1)
      BY <2>1, <3>1 DEF NamesOwn
    <3> QED
      BY <1>2, <3>1, <3>2
  <2>2. Own(h[c], c, s2)
    BY <1>2 DEF NamesOwn
  <2>3. Own(a2[c], c, s2)
    BY DEF Own
  <2> QED
    BY <2>1, <2>2, <2>3, Zenon DEF NamesOwn
<1>4. Waiting(c, s2, a2) = Waiting(c, s1, a1) /\ p \notin Waiting(c, s1, a1)
  <2>1. p \notin Waiting(c, s1, a1) /\ p \notin Waiting(c, s2, a2)
    BY DEF Waiting
  <2>2. \A x \in Frames \ {p} : x \in Waiting(c, s2, a2) <=> x \in Waiting(c, s1, a1)
    BY <1>1, SlubAssumption DEF Waiting
  <2>3. Waiting(c, s2, a2) \subseteq Frames /\ Waiting(c, s1, a1) \subseteq Frames
    BY DEF Waiting
  <2>4. \A x \in Frames : x \in Waiting(c, s2, a2) <=> x \in Waiting(c, s1, a1)
    BY <2>1, <2>2
  <2> QED
    BY <2>1, <2>3, <2>4
<1>5. ASSUME NEW x \in Waiting(c, s1, a1)
      PROVE  Succ(s2)[x] = Succ(s1)[x]
  <2>1. x \in Frames \ {p}
    BY <1>4 DEF Waiting
  <2> QED
    BY <1>1, <2>1 DEF Succ
<1> QED
  BY <1>3, <1>4, <1>5, FoundStill, ZenonT(30)

LEMMA FreeObjectList ==
    ASSUME SlubInv, ListInv, NEW h \in held, free_object(h, h.ppn)
    PROVE  ListInv'
<1> DEFINE f == h.ppn
           s == page_state[f]
           t == object_freed(s, h.object)
           c == s.cache
           states == [page_state EXCEPT ![f] = t]
<1> SUFFICES ASSUME ~mixed', call' # Panicked
             PROVE  ListInv'
  BY DEF ListInv
<1>1. ~mixed /\ call # Panicked
  BY DEF free_object, idle, Returned, Panicked
<1>2. /\ page_state \in [Frames -> Slabs \cup {Free}]
      /\ active_slab_ppn \in [Caches -> Maybe]
      /\ partial_slabs_head \in [Caches -> Maybe]
      /\ \A d \in Caches : /\ NamesOwn(d, page_state, active_slab_ppn, partial_slabs_head)
                           /\ Found(d, page_state, active_slab_ppn, partial_slabs_head)
  BY <1>1, ListsBefore
<1>3. h \in Handles /\ f \in Frames /\ h.object \in Nat
  BY HandleFields DEF SlubInv, SlubTypeOK
<1>4. s # Free
  BY <1>3 DEF SlubInv, FrameOK, In
<1>5. is_slub(f)
  BY <1>3, <1>4, SlubAssumption DEF is_slub
<1>6. s \in Slabs /\ SlabOK(f, s, held) /\ c \in Caches
  BY <1>3, <1>4, SlabThere, SlabFields
<1>7. t.cache = c /\ t.next = s.next /\ t.freelist # << >>
  BY <1>3, <1>6, FreedFields
<1>8. page_state' \in [Frames -> Slabs \cup {Free}]
  BY FreeObjectStep DEF SlubInv, SlubTypeOK
<1>9. t \in Slabs /\ t # Free
  <2>1. SlabOK(f, t, held \ {h}) /\ held \in SUBSET Handles
    <3>1. held \in SUBSET Handles /\ f = h.ppn /\ t = object_freed(s, h.object)
      BY DEF SlubInv, SlubTypeOK
    <3> HIDE DEF f, s, t, c
    <3> QED
      BY <1>3, <1>6, <3>1, FreeOK, Zenon
  <2> QED
    BY <2>1, SlabFields, Zenon DEF SlabOK
<1>10. \/ s.inuse = 1 /\ free_last(f, c, states)
       \/ s.inuse # 1 /\ free_one(f, c, states)
  BY <1>5 DEF free_object
<1>11. /\ states[f] = t
       /\ \A x \in Frames \ {f} : states[x] = page_state[x]
  BY <1>2, <1>3
<1>12. states \in [Frames -> Slabs \cup {Free}]
  BY <1>2, <1>9, Zenon
<1>13. Changes(f, page_state, states) /\ states[f] # Free
  BY <1>2, <1>3, <1>9, <1>11, <1>12 DEF Changes
<1>14. \A d \in Caches : active_slab_ppn[d] \in Maybe /\ partial_slabs_head[d] \in Maybe
  BY <1>2
<1> HIDE DEF t, states, c, f, s
<1>f. s = page_state[f] /\ c = s.cache
  BY DEF s, c
<1>15. CASE s.inuse = 1 /\ free_last(f, c, states) /\ active_slab_ppn[c] = f
  <2>1. /\ active_slab_ppn' = [active_slab_ppn EXCEPT ![c] = None]
        /\ page_state' = [states EXCEPT ![f] = Free]
        /\ call' = Returned
        /\ partial_slabs_head' = partial_slabs_head
    BY <1>15 DEF free_last, release
  <2>2. Changes(f, page_state, page_state') /\ page_state'[f] = Free
    BY <1>2, <1>3, <1>8, <1>11, <1>12, <2>1 DEF Changes
  <2>3. SearchGoesOn'
    BY <2>1, Zenon DEF SearchGoesOn, Returned
  <2>4. active_slab_ppn'[c] = None /\ \A d \in Caches \ {c} : active_slab_ppn'[d] = active_slab_ppn[d]
    BY <1>2, <1>6, <2>1
  <2>5. ASSUME NEW d \in Caches, d # c
        PROVE  /\ NamesOwn(d, page_state', active_slab_ppn', partial_slabs_head)
               /\ Found(d, page_state', active_slab_ppn', partial_slabs_head)
    <3>1. Own(f, c, page_state) /\ Own(f, c, page_state')
      BY <1>f, <2>2, ZenonT(30) DEF Own
    <3> QED
      BY <1>2, <1>4, <1>f, <1>14, <2>2, <2>4, <2>5, <3>1, OtherCache, Zenon
  <2>6. /\ NamesOwn(c, page_state', active_slab_ppn', partial_slabs_head)
        /\ Found(c, page_state', active_slab_ppn', partial_slabs_head)
    BY <1>2, <1>6, <1>14, <1>15, <2>2, <2>4, ActiveReleased
  <2> QED
    BY <2>1, <2>3, <2>5, <2>6, ZenonT(30) DEF ListInv
<1>16. ASSUME KeepsPlace(f, s, t, active_slab_ppn), NEW d \in Caches
       PROVE  /\ NamesOwn(d, states, active_slab_ppn, partial_slabs_head)
              /\ Found(d, states, active_slab_ppn, partial_slabs_head)
              /\ Waiting(d, states, active_slab_ppn) = Waiting(d, page_state, active_slab_ppn)
              /\ Succ(states) = Succ(page_state)
  BY <1>2, <1>f, <1>11, <1>13, <1>14, <1>16, FrameKept
<1>17. CASE s.inuse = 1 /\ free_last(f, c, states) /\ active_slab_ppn[c] # f
  <2>1. /\ call' = removing(c, f, None, partial_slabs_head[c])
        /\ page_state' = states
        /\ active_slab_ppn' = active_slab_ppn /\ partial_slabs_head' = partial_slabs_head
    BY <1>17, ZenonT(30) DEF free_last, lists
  <2>2. s.freelist # << >>
    BY <1>6, <1>17, LastHasRoom
  <2>3. KeepsPlace(f, s, t, active_slab_ppn)
    BY <1>f, <1>4, <1>7, <1>9, <2>2 DEF KeepsPlace
  <2>4. f \in Waiting(c, page_state, active_slab_ppn)
    BY <1>f, <1>3, <1>4, <1>17, <2>2 DEF Waiting
  <2>5. Leads(partial_slabs_head[c], Waiting(c, page_state, active_slab_ppn), Succ(page_state), f)
    BY <1>2, <1>6, <2>4 DEF Found
  <2>6. /\ call'.cache = c /\ call'.target = f /\ call'.prev = None
        /\ call'.current = partial_slabs_head[c]
    BY <2>1 DEF removing
  <2>7. SearchGoesOn'
    BY <1>6, <1>16, <2>1, <2>3, <2>4, <2>5, <2>6, Zenon DEF SearchGoesOn
  <2> QED
    BY <1>16, <2>1, <2>3, <2>7 DEF ListInv
<1>18. CASE free_one(f, c, states)
  <2>1. call' = Returned /\ active_slab_ppn' = active_slab_ppn
    BY <1>18 DEF free_one
  <2>2. SearchGoesOn'
    BY <2>1 DEF SearchGoesOn, Returned
  <2>3. CASE s.freelist = << >> /\ active_slab_ppn[c] # f
    <3>1. /\ page_state' = [states EXCEPT ![f] = linked(t, partial_slabs_head[c])]
          /\ partial_slabs_head' = [partial_slabs_head EXCEPT ![c] = f]
      BY <1>18, <1>f, <1>11, <2>3 DEF free_one
    <3>2. /\ page_state'[f].cache = c /\ page_state'[f].next = partial_slabs_head[c]
          /\ page_state'[f].freelist # << >>
      BY <1>3, <1>7, <1>12, <3>1 DEF linked, slab
    <3>3. linked(t, partial_slabs_head[c]) \in Slabs
      <4>1. t.freelist \in Seq(Nat) /\ t.inuse \in Nat /\ partial_slabs_head[c] \in Maybe
        BY <1>6, <1>9, <1>14, SlabFields
      <4> QED
        BY <1>6, <1>7, <4>1, SlabMade DEF linked
    <3>4. page_state'[f] # Free
      BY <1>3, <1>12, <3>1, <3>3, SlabFields
    <3>5. Changes(f, page_state, page_state')
      BY <1>2, <1>3, <1>8, <1>11, <1>12, <3>1 DEF Changes
    <3>6. /\ partial_slabs_head'[c] = f
          /\ \A d \in Caches \ {c} : partial_slabs_head'[d] = partial_slabs_head[d]
      BY <1>2, <1>6, <3>1
    <3>7. /\ NamesOwn(c, page_state', active_slab_ppn, partial_slabs_head')
          /\ Found(c, page_state', active_slab_ppn, partial_slabs_head')
      BY <1>2, <1>f, <1>4, <1>6, <1>14, <2>3, <3>2, <3>4, <3>5, <3>6, Relinked
    <3>8. ASSUME NEW d \in Caches, d # c
          PROVE  /\ NamesOwn(d, page_state', active_slab_ppn, partial_slabs_head')
                 /\ Found(d, page_state', active_slab_ppn, partial_slabs_head')
      <4>1. Own(f, c, page_state) /\ Own(f, c, page_state')
        BY <1>f, <3>2 DEF Own
      <4>2. partial_slabs_head'[d] = partial_slabs_head[d]
        BY <3>6, <3>8
      <4>3. /\ NamesOwn(d, page_state, active_slab_ppn, partial_slabs_head)
            /\ Found(d, page_state, active_slab_ppn, partial_slabs_head)
            /\ active_slab_ppn[d] \in Maybe /\ partial_slabs_head[d] \in Maybe
            /\ page_state[f] # Free
        BY <1>2, <1>4, <1>f, <1>14
      <4> QED
        BY <3>5, <3>8, <4>1, <4>2, <4>3, OtherCache, Zenon
    <3> QED
      BY <2>1, <2>2, <3>7, <3>8 DEF ListInv
  <2>4. CASE ~(s.freelist = << >> /\ active_slab_ppn[c] # f)
    <3>1. page_state' = states /\ partial_slabs_head' = partial_slabs_head
      BY <1>18, <1>f, <2>4 DEF free_one
    <3>2. KeepsPlace(f, s, t, active_slab_ppn)
      BY <1>f, <1>4, <1>7, <1>9, <2>4 DEF KeepsPlace
    <3> QED
      BY <1>16, <2>1, <2>2, <3>1, <3>2 DEF ListInv
  <2> QED
    BY <2>3, <2>4
<1> QED
  BY <1>10, <1>15, <1>17, <1>18

(* Slabs disappear, and links are to frames that were the cache's before. *)
LEMMA OwnStill ==
    ASSUME NEW c, NEW s1, NEW s2 \in [Frames -> Slabs \cup {Free}],
           NEW a, NEW h, a[c] \in Maybe, h[c] \in Maybe,
           \A x \in Frames : s2[x] # Free =>
               /\ s1[x] # Free /\ s2[x].cache = s1[x].cache
               /\ s2[x].cache = c => Own(s2[x].next, c, s1),
           a[c] # None => s2[a[c]] # Free,
           Own(a[c], c, s1), Own(h[c], c, s1)
    PROVE  NamesOwn(c, s2, a, h)
<1>1. ASSUME NEW f \in Maybe, Own(f, c, s1)
      PROVE  Own(f, c, s2)
  BY <1>1 DEF Own, Maybe
<1>2. ASSUME NEW x \in Frames, s2[x] # Free, s2[x].cache = c
      PROVE  Own(s2[x].next, c, s2)
  <2>1. s2[x].next \in Maybe
    BY <1>2, SlabFields
  <2> QED
    BY <1>1, <1>2, <2>1
<1> QED
  BY <1>1, <1>2 DEF NamesOwn

(* The head of the list is released. *)
LEMMA HeadReleased ==
    ASSUME NEW c, NEW p, NEW s1, NEW s2, Changes(p, s1, s2), s1[p] # Free, s2[p] = Free,
           NEW a, NEW h1, NEW h2, a[c] \in Maybe, p \in Waiting(c, s1, a),
           h1[c] = p, h2[c] = s1[p].next,
           NamesOwn(c, s1, a, h1), Found(c, s1, a, h1)
    PROVE  NamesOwn(c, s2, a, h2) /\ Found(c, s2, a, h2)
<1> DEFINE W == Waiting(c, s1, a)
<1>1. /\ p \in Frames
      /\ s1 \in [Frames -> Slabs \cup {Free}] /\ s2 \in [Frames -> Slabs \cup {Free}]
      /\ \A x \in Frames \ {p} : s2[x] = s1[x]
  BY DEF Changes
<1>2. s1[p].cache = c /\ a[c] # p
  BY DEF Waiting
<1>3. NamesOwn(c, s2, a, h2)
  <2>1. h2[c] \in Maybe
    BY <1>1, SlabFields
  <2>2. \A x \in Frames : s2[x] # Free => x # p /\ s2[x] = s1[x]
    BY <1>1
  <2>3. a[c] # None => s2[a[c]] # Free
    BY <1>1, <1>2 DEF NamesOwn, Maybe
  <2>4. /\ Own(a[c], c, s1) /\ Own(h2[c], c, s1)
        /\ \A x \in Frames : s1[x] # Free /\ s1[x].cache = c => Own(s1[x].next, c, s1)
    BY <1>1, <1>2, ZenonT(30) DEF NamesOwn
  <2> QED
    <3>1. \A x \in Frames : s2[x] # Free =>
              /\ s1[x] # Free /\ s2[x].cache = s1[x].cache
              /\ s2[x].cache = c => Own(s2[x].next, c, s1)
      BY <2>2, <2>4, ZenonT(30)
    <3>2. s2 \in [Frames -> Slabs \cup {Free}] /\ Own(a[c], c, s1) /\ Own(h2[c], c, s1)
      BY <1>1, <2>4, ZenonT(30)
    <3> QED
      BY <2>1, <2>3, <3>1, <3>2, OwnStill
<1>4. Waiting(c, s2, a) = W \ {p}
  BY <1>1, ZenonT(30) DEF Waiting
<1>5. /\ Succ(s1)[p] = h2[c]
      /\ \A x \in W \ {p} : Succ(s2)[x] = Succ(s1)[x]
  <2>1. Succ(s1)[p] = h2[c]
    BY <1>1 DEF Succ
  <2>2. ASSUME NEW x \in W \ {p}
        PROVE  Succ(s2)[x] = Succ(s1)[x]
    <3>1. x \in Frames \ {p}
      BY DEF Waiting
    <3> QED
      BY <1>1, <3>1 DEF Succ
  <2> QED
    BY <2>1, <2>2
<1>6. p \in Maybe /\ \A f \in W : Leads(p, W, Succ(s1), f)
  BY <1>1, ZenonT(30) DEF Found, Maybe
<1> HIDE DEF W
<1>7. ASSUME NEW f \in W \ {p}
      PROVE  Leads(h2[c], W \ {p}, Succ(s2), f)
  <2>1. Leads(h2[c], W \ {p}, Succ(s1), f)
    BY <1>5, <1>6, LeadsFromNext, ZenonT(30)
  <2> QED
    BY <1>5, <2>1, LeadsStill, ZenonT(30)
<1> QED
  BY <1>3, <1>4, <1>7, ZenonT(30) DEF Found

(* The slab after p is released. *)
LEMMA NextReleased ==
    ASSUME NEW c, NEW p, NEW t, NEW s1, NEW s2, NEW sm, Changes(p, s1, sm), Changes(t, sm, s2),
           s2[t] = Free, sm[p] # Free, sm[p].cache = s1[p].cache,
           sm[p].freelist = s1[p].freelist, sm[p].next = s1[t].next,
           NEW a, NEW h, a[c] \in Maybe, h[c] \in Maybe,
           t \in Waiting(c, s1, a), p \in Waiting(c, s1, a) \ {t}, Succ(s1)[p] = t,
           Leads(h[c], Waiting(c, s1, a) \ {t}, Succ(s1), p),
           NamesOwn(c, s1, a, h), Found(c, s1, a, h)
    PROVE  NamesOwn(c, s2, a, h) /\ Found(c, s2, a, h)
<1> DEFINE W == Waiting(c, s1, a)
<1>1. /\ p \in Frames /\ t \in Frames /\ p # t
      /\ s1 \in [Frames -> Slabs \cup {Free}] /\ s2 \in [Frames -> Slabs \cup {Free}]
      /\ \A x \in Frames \ {p, t} : s2[x] = s1[x]
      /\ s2[p] = sm[p]
  BY ZenonT(30) DEF Changes, Waiting
<1>2. /\ s1[t] # Free /\ s1[t].cache = c /\ a[c] # t
      /\ s1[p] # Free /\ s1[p].cache = c
  BY ZenonT(30) DEF Waiting
<1>3. NamesOwn(c, s2, a, h)
  <2>1. \A x \in Frames : s1[x] # Free /\ s1[x].cache = c => Own(s1[x].next, c, s1)
    BY ZenonT(30) DEF NamesOwn
  <2>2. ASSUME NEW x \in Frames, s2[x] # Free
        PROVE  /\ s1[x] # Free /\ s2[x].cache = s1[x].cache
               /\ s2[x].cache = c => Own(s2[x].next, c, s1)
    <3>1. CASE x = p
      BY <1>1, <1>2, <2>1, <3>1, ZenonT(30)
    <3>2. CASE x # p
      BY <1>1, <2>1, <2>2, <3>2, ZenonT(30)
    <3> QED
      BY <3>1, <3>2, ZenonT(30)
  <2>3. a[c] # None => s2[a[c]] # Free
    BY <1>1, <1>2, ZenonT(30) DEF NamesOwn, Maybe
  <2>4. Own(a[c], c, s1) /\ Own(h[c], c, s1)
    BY ZenonT(30) DEF NamesOwn
  <2> QED
    BY <1>1, <2>2, <2>3, <2>4, OwnStill, ZenonT(30)
<1>4. Waiting(c, s2, a) = W \ {t}
  <2>1. \A x \in Frames \ {t} : /\ s2[x] # Free <=> s1[x] # Free
                                /\ s2[x].cache = s1[x].cache
                                /\ s2[x].freelist = s1[x].freelist
    BY <1>1, <1>2, ZenonT(30)
  <2>2. \A x \in Frames \ {t} : x \in Waiting(c, s2, a) <=> x \in W
    BY <2>1, ZenonT(30) DEF Waiting
  <2>3. t \notin Waiting(c, s2, a) /\ Waiting(c, s2, a) \subseteq Frames /\ W \subseteq Frames
    BY ZenonT(30) DEF Waiting
  <2> QED
    BY <2>2, <2>3, ZenonT(30)
<1>5. /\ Succ(s2)[p] = Succ(s1)[t]
      /\ \A x \in W \ {t, p} : Succ(s2)[x] = Succ(s1)[x]
  <2>1. Succ(s2)[p] = Succ(s1)[t]
    BY <1>1, <1>2, ZenonT(30) DEF Succ
  <2>2. ASSUME NEW x \in W \ {t, p}
        PROVE  Succ(s2)[x] = Succ(s1)[x]
    <3>1. x \in Frames \ {p, t}
      BY ZenonT(30) DEF Waiting
    <3> QED
      BY <1>1, <3>1, ZenonT(30) DEF Succ
  <2> QED
    BY <2>1, <2>2, ZenonT(30)
<1>6. t \in Maybe /\ \A f \in W : Leads(h[c], W, Succ(s1), f)
  BY <1>1, ZenonT(30) DEF Found, Maybe
<1>7. p \in W \ {t} /\ Leads(h[c], W \ {t}, Succ(s1), p)
  BY ZenonT(30)
<1> HIDE DEF W
<1>8. ASSUME NEW f \in W \ {t}
      PROVE  Leads(h[c], W \ {t}, Succ(s2), f)
  <2> DEFINE succ == Succ(s1)
             succ2 == Succ(s2)
             hd == h[c]
  <2>1. f # t /\ t \in Maybe /\ Leads(hd, W, succ, f)
    BY <1>6, <1>8, ZenonT(30)
  <2>2. p \in W \ {t} /\ succ[p] = t /\ Leads(hd, W \ {t}, succ, p)
    BY <1>7, ZenonT(30)
  <2>3. succ2[p] = succ[t] /\ \A x \in W \ {t, p} : succ2[x] = succ[x]
    BY <1>5, ZenonT(30)
  <2> HIDE DEF succ, succ2, hd
  <2>4. Leads(hd, W \ {t}, succ2, f)
    BY <2>1, <2>2, <2>3, LeadsAround, ZenonT(30)
  <2> QED
    BY <2>4, ZenonT(30) DEF succ2, hd
<1> QED
  BY <1>3, <1>4, <1>8, ZenonT(30) DEF Found

LEMMA RemoveList ==
    ASSUME SlubInv, ListInv, remove_from_partial
    PROVE  ListInv'
<1> DEFINE c == call.cache
           t == call.target
           p == call.prev
           cur == call.current
           W == Waiting(c, page_state, active_slab_ppn)
           succ == Succ(page_state)
           hd == partial_slabs_head[c]
<1> SUFFICES ASSUME ~mixed', call' # Panicked
             PROVE  ListInv'
  BY DEF ListInv
<1>1. /\ ~mixed /\ call # Panicked /\ call.op = "remove"
      /\ c \in Caches /\ t \in Frames /\ p \in Maybe /\ cur \in Maybe
      /\ is_slub(cur) /\ active_slab_ppn' = active_slab_ppn
  <2>1. /\ call.op = "remove" /\ mixed' = mixed /\ is_slub(cur)
        /\ active_slab_ppn' = active_slab_ppn
    BY DEF remove_from_partial
  <2>2. call # Panicked
    BY <2>1 DEF Panicked
  <2>3. CallOK
    BY DEF SlubInv
  <2> QED
    BY <2>1, <2>2, <2>3, CallOps
<1>2. /\ page_state \in [Frames -> Slabs \cup {Free}]
      /\ active_slab_ppn \in [Caches -> Maybe]
      /\ partial_slabs_head \in [Caches -> Maybe]
      /\ \A d \in Caches : /\ NamesOwn(d, page_state, active_slab_ppn, partial_slabs_head)
                           /\ Found(d, page_state, active_slab_ppn, partial_slabs_head)
  BY <1>1, ListsBefore
<1>3. /\ t \in W /\ Leads(cur, W, succ, t)
      /\ \/ p = None /\ cur = hd
         \/ p \in W \ {t} /\ succ[p] = cur /\ Leads(hd, W \ {t}, succ, p)
  BY <1>1, ListsBefore, ZenonT(30) DEF SearchGoesOn
<1>4. None \notin W /\ cur \in Frames /\ page_state[cur] # Free /\ succ[cur] = page_state[cur].next
  BY <1>1, SlubAssumption, Zenon DEF Waiting, is_slub, Maybe, Succ
<1>5. page_state' \in [Frames -> Slabs \cup {Free}]
  BY RemoveStep DEF SlubInv, SlubTypeOK
<1>6. \A d \in Caches : active_slab_ppn[d] \in Maybe /\ partial_slabs_head[d] \in Maybe
  BY <1>2
<1>7. CASE /\ cur # t
           /\ call' = removing(c, t, cur, page_state[cur].next)
           /\ UNCHANGED <<partial_slabs_head, page_state, free>>
  <2>1. /\ call'.cache = c /\ call'.target = t /\ call'.prev = cur
        /\ call'.current = succ[cur]
    BY <1>4, <1>7 DEF removing
  <2>2. cur \in W /\ Leads(succ[cur], W, succ, t) /\ Leads(hd, W \ {t}, succ, cur)
    <3> HIDE DEF W, succ, hd, cur, p, t
    <3>1. cur \in W /\ Leads(succ[cur], W, succ, t)
      BY <1>1, <1>3, <1>7, LeadsFromNext, Zenon
    <3>2. CASE cur = hd
      BY <3>1, <3>2, LeadsToItself
    <3>3. CASE p \in W \ {t} /\ succ[p] = cur /\ Leads(hd, W \ {t}, succ, p)
      <4>1. Leads(hd, W \ {t}, succ, succ[p])
        BY <3>3, LeadsOn
      <4> QED
        BY <3>1, <3>3, <4>1
    <3> QED
      BY <1>3, <3>2, <3>3
  <2>3. SearchGoesOn'
    BY <1>1, <1>3, <1>7, <2>1, <2>2, ZenonT(30) DEF SearchGoesOn
  <2> QED
    BY <1>1, <1>2, <1>7, <2>3 DEF ListInv
<1>8. ASSUME cur = t
      PROVE  page_state[t] # Free /\ page_state[t].cache = c
  BY <1>3, Zenon DEF Waiting
<1>9. CASE /\ cur = t /\ p # None
           /\ release(cur, [page_state EXCEPT ![p] = linked(page_state[p], page_state[cur].next)])
           /\ partial_slabs_head' = partial_slabs_head
  <2>1. PICK sm : sm = [page_state EXCEPT ![p] = linked(page_state[p], page_state[t].next)]
    BY ZenonT(30)
  <2>2. /\ page_state' = [sm EXCEPT ![t] = Free]
        /\ call' = Returned
    BY <1>9, <2>1 DEF release
  <2>3. p \in W \ {t} /\ succ[p] = t /\ Leads(hd, W \ {t}, succ, p)
    BY <1>3, <1>9, Zenon
  <2>4. p \in Frames /\ page_state[p] # Free /\ page_state[p].cache = c
    BY <2>3, Zenon DEF Waiting
  <2>5. linked(page_state[p], page_state[t].next) \in Slabs
    <3>1. /\ page_state[p].freelist \in Seq(Nat) /\ page_state[p].inuse \in Nat
          /\ page_state[p].cache \in Caches /\ page_state[t].next \in Maybe
      BY <1>1, <1>2, <1>8, <1>9, <2>4, SlabFields, ZenonT(30)
    <3> QED
      BY <3>1, SlabMade DEF linked
  <2>6. sm \in [Frames -> Slabs \cup {Free}]
    BY <1>2, <2>1, <2>5, Zenon
  <2>7. /\ sm[p] # Free /\ sm[p].cache = c
        /\ sm[p].freelist = page_state[p].freelist /\ sm[p].next = page_state[t].next
    BY <1>2, <2>1, <2>4, <2>5, SlabFields DEF linked, slab
  <2>8. Changes(p, page_state, sm)
    BY <1>2, <2>1, <2>4, <2>6 DEF Changes
  <2>9. Changes(t, sm, page_state') /\ page_state'[t] = Free
    BY <1>1, <1>5, <2>2, <2>6 DEF Changes
  <2>10. SearchGoesOn'
    BY <2>2 DEF SearchGoesOn, Returned
  <2>11. sm[t] = page_state[t]
    BY <1>1, <2>3, <2>8, ZenonT(30) DEF Changes
  <2> HIDE DEF W, succ, hd, cur, p, t, c
  <2>12. /\ NamesOwn(c, page_state', active_slab_ppn, partial_slabs_head)
         /\ Found(c, page_state', active_slab_ppn, partial_slabs_head)
    BY <1>1, <1>2, <1>3, <1>6, <2>3, <2>4, <2>7, <2>8, <2>9, NextReleased, Zenon DEF W, succ, hd
  <2>13. ASSUME NEW d \in Caches, d # c
         PROVE  /\ NamesOwn(d, page_state', active_slab_ppn, partial_slabs_head)
                /\ Found(d, page_state', active_slab_ppn, partial_slabs_head)
    <3>1. Own(p, c, page_state) /\ Own(p, c, sm) /\ Own(t, c, sm) /\ Own(t, c, page_state')
      BY <1>8, <1>9, <2>4, <2>7, <2>9, <2>11 DEF Own
    <3>2. /\ NamesOwn(d, sm, active_slab_ppn, partial_slabs_head)
          /\ Found(d, sm, active_slab_ppn, partial_slabs_head)
      BY <1>2, <1>6, <2>4, <2>8, <2>13, <3>1, OtherCache, ZenonT(30)
    <3> QED
      BY <1>6, <2>9, <2>13, <3>1, <3>2, OtherCache, ZenonT(30)
  <2> QED
    BY <1>1, <1>9, <2>10, <2>12, <2>13 DEF ListInv
<1>10. CASE /\ cur = t /\ p = None
            /\ partial_slabs_head' = [partial_slabs_head EXCEPT ![c] = page_state[cur].next]
            /\ release(cur, page_state)
  <2>1. page_state' = [page_state EXCEPT ![t] = Free] /\ call' = Returned
    BY <1>10 DEF release
  <2>2. hd = t
    BY <1>3, <1>4, <1>10, ZenonT(30)
  <2>3. Changes(t, page_state, page_state') /\ page_state'[t] = Free
    BY <1>1, <1>2, <1>5, <2>1 DEF Changes
  <2>4. /\ partial_slabs_head'[c] = page_state[t].next
        /\ \A d \in Caches \ {c} : partial_slabs_head'[d] = partial_slabs_head[d]
    BY <1>1, <1>2, <1>10
  <2>5. SearchGoesOn'
    BY <2>1 DEF SearchGoesOn, Returned
  <2> HIDE DEF W, succ, hd, cur, p, t, c
  <2>6. /\ NamesOwn(c, page_state', active_slab_ppn, partial_slabs_head')
        /\ Found(c, page_state', active_slab_ppn, partial_slabs_head')
    <3>1. /\ partial_slabs_head[c] = t /\ t \in Waiting(c, page_state, active_slab_ppn)
          /\ page_state[t] # Free /\ active_slab_ppn[c] \in Maybe
      BY <1>1, <1>3, <1>6, <1>8, <1>10, <2>2, Zenon DEF W, hd
    <3>2. /\ NamesOwn(c, page_state, active_slab_ppn, partial_slabs_head)
          /\ Found(c, page_state, active_slab_ppn, partial_slabs_head)
      BY <1>1, <1>2
    <3> QED
      BY <2>3, <2>4, <3>1, <3>2, HeadReleased, ZenonT(30)
  <2>7. ASSUME NEW d \in Caches, d # c
        PROVE  /\ NamesOwn(d, page_state', active_slab_ppn, partial_slabs_head')
               /\ Found(d, page_state', active_slab_ppn, partial_slabs_head')
    <3>1. Own(t, c, page_state) /\ Own(t, c, page_state')
      BY <1>8, <1>10, <2>3 DEF Own
    <3>2. /\ NamesOwn(d, page_state, active_slab_ppn, partial_slabs_head)
          /\ Found(d, page_state, active_slab_ppn, partial_slabs_head)
          /\ active_slab_ppn[d] \in Maybe /\ partial_slabs_head[d] \in Maybe
          /\ partial_slabs_head'[d] = partial_slabs_head[d]
      BY <1>2, <1>6, <2>4, <2>7
    <3> QED
      BY <2>3, <2>7, <3>1, <3>2, OtherCache, ZenonT(30)
  <2> QED
    BY <1>1, <2>5, <2>6, <2>7 DEF ListInv
<1> QED
  BY <1>1, <1>7, <1>9, <1>10, Zenon DEF remove_from_partial

LEMMA ListInitially == SlubInit => ListInv
<1> SUFFICES ASSUME SlubInit
             PROVE  ListInv
  OBVIOUS
<1>1. SearchGoesOn
  BY DEF SlubInit, SearchGoesOn, Returned
<1>2. ASSUME NEW d \in Caches
      PROVE  /\ NamesOwn(d, page_state, active_slab_ppn, partial_slabs_head)
             /\ Waiting(d, page_state, active_slab_ppn) = {}
  BY DEF SlubInit, NamesOwn, Own, Waiting
<1> QED
  BY <1>1, <1>2 DEF ListInv, Found

LEMMA ListStep == SlubInv /\ ListInv /\ [SlubNext]_slubVars => ListInv'
<1> SUFFICES ASSUME SlubInv, ListInv, [SlubNext]_slubVars
             PROVE  ListInv'
  OBVIOUS
<1>1. ASSUME NEW c \in Caches, alloc(c)
      PROVE  ListInv'
  <2>1. UNCHANGED <<page_state, active_slab_ppn, partial_slabs_head, mixed>>
    BY <1>1 DEF alloc, lists
  <2>2. call # Panicked
    BY <1>1 DEF alloc, idle, Returned, Panicked
  <2>3. SearchGoesOn'
    BY <1>1 DEF alloc, SearchGoesOn
  <2> QED
    BY <2>1, <2>2, <2>3 DEF ListInv
<1>2. CASE alloc_loop
  BY <1>2, ActiveList, PartialList, NewSlabList DEF alloc_loop
<1>3. ASSUME NEW h \in held, free_object(h, h.ppn)
      PROVE  ListInv'
  BY <1>3, FreeObjectList
<1>4. CASE remove_from_partial
  BY <1>4, RemoveList
<1>5. CASE UNCHANGED slubVars
  <2>1. UNCHANGED <<page_state, call, active_slab_ppn, partial_slabs_head, mixed>>
    BY <1>5 DEF slubVars
  <2> QED
    BY <2>1, Zenon DEF ListInv, SearchGoesOn
<1> QED
  BY <1>1, <1>2, <1>3, <1>4, <1>5 DEF SlubNext, panicked

----------------------------------------------------------------------------
(* The theorems *)

(* The inductive invariant: every frame is free or a slab that accounts    *)
(* for its objects, and remove_from_partial is only after an empty slab.   *)
THEOREM SlubInvariant == SlubSpec => []SlubInv
BY SlubInitially, SlubStep, PTL DEF SlubSpec

(* KmemCache never hands out an object that a caller has, and never takes  *)
(* a frame that is in use for a new slab, whatever state alloc and         *)
(* free_object leave the lists in.                                         *)
THEOREM SlabsAreAccountedFor == SlubSpec => []SlabAccounting
<1>1. SlubInv => SlabAccounting
  <2> SUFFICES ASSUME SlubInv, NEW f \in Frames
               PROVE  /\ f \in free <=> ~is_slub(f)
                      /\ f \in free => HeldIn(f) = {}
                      /\ is_slub(f) =>
                         LET s == page_state[f] IN
                         /\ IsInjective(s.freelist)
                         /\ {h.object : h \in HeldIn(f)} =
                                (1 .. Objects[s.cache]) \ Range(s.freelist)
                         /\ s.inuse = Cardinality(HeldIn(f))
    BY DEF SlabAccounting
  <2> DEFINE s == page_state[f]
  <2>1. HeldIn(f) = In(f, held)
    BY DEF HeldIn, In
  <2>2. is_slub(f) <=> s # Free
    BY SlubAssumption DEF is_slub
  <2>3. FrameOK(f, s, free, held) /\ held \subseteq Handles
    BY DEF SlubInv, SlubTypeOK
  <2>4. ASSUME s # Free
        PROVE  {h.object : h \in In(f, held)} = (1 .. Objects[s.cache]) \ Range(s.freelist)
    <3> HIDE DEF s
    <3>1. SlabOK(f, s, held)
      BY <2>3, <2>4 DEF FrameOK
    <3>2. ASSUME NEW h \in In(f, held)
          PROVE  h.object \in (1 .. Objects[s.cache]) \ Range(s.freelist)
      <4>1. h \in held /\ h = handle(f, h.object) /\ h.object \in Nat
        BY <2>3, HandleFields DEF In
      <4> QED
        BY <3>1, <4>1 DEF SlabOK
    <3>3. ASSUME NEW o \in (1 .. Objects[s.cache]) \ Range(s.freelist)
          PROVE  \E h \in In(f, held) : o = h.object
      <4>1. o \in Nat
        OBVIOUS
      <4>2. handle(f, o) \in held
        BY <3>1, <3>3, <4>1 DEF SlabOK
      <4> QED
        BY <4>2, HandleFields DEF In
    <3> QED
      BY <3>2, <3>3
  <2> QED
    BY <2>1, <2>2, <2>3, <2>4, ZenonT(30) DEF FrameOK, SlabOK
<1> QED
  BY <1>1, SlubInvariant, PTL

(* The inductive invariant of the lists: as long as no class has a frame   *)
(* another one names, a slab with room that is not active is found from    *)
(* the head by way of others like it, and remove_from_partial has its slab *)
(* ahead of it.                                                            *)
THEOREM ListInvariant == SlubSpec => [](SlubInv /\ ListInv)
BY SlubInitially, SlubStep, ListInitially, ListStep, PTL DEF SlubSpec

(* free_object finds every slab that was full and forgotten again: between *)
(* calls each slab with a free object is active or on its cache's list.    *)
THEOREM FullSlabsAreFoundAgain == SlubSpec => []ForgottenAreFull
<1>1. SlubInv /\ ListInv => ForgottenAreFull
  <2> SUFFICES ASSUME SlubInv, ListInv, idle, ~mixed, NEW f \in Frames,
                      is_slub(f), page_state[f].freelist # << >>,
                      f # active_slab_ppn[page_state[f].cache],
                      NEW S \in SUBSET (Frames \cup {None}), follows(page_state[f].cache, S)
               PROVE  f \in S
    BY DEF ForgottenAreFull, on_list
  <2> DEFINE c == page_state[f].cache
             W == Waiting(c, page_state, active_slab_ppn)
             succ == Succ(page_state)
  <2>1. call # Panicked
    BY DEF idle, Returned, Panicked
  <2>2. page_state[f] # Free /\ c \in Caches
    BY <2>1, ListsBefore, SlabFields DEF is_slub
  <2>3. f \in W
    BY <2>2 DEF Waiting
  <2>4. Leads(partial_slabs_head[c], W, succ, f)
    BY <2>1, <2>2, <2>3, ListsBefore DEF Found
  <2>5. ASSUME NEW x \in S \cap W
        PROVE  succ[x] \in S
    <3>1. x \in Frames /\ page_state[x] # Free
      BY DEF Waiting
    <3>2. is_slub(x) /\ succ[x] = page_state[x].next
      BY <3>1, SlubAssumption DEF is_slub, Succ
    <3> QED
      BY <3>2 DEF follows
  <2>6. partial_slabs_head[c] \in S
    BY DEF follows
  <2> HIDE DEF W, succ, c
  <2>7. Closed(S, partial_slabs_head[c], W, succ)
    BY <2>5, <2>6 DEF Closed
  <2> QED
    BY <2>4, <2>7 DEF Leads, Maybe
<1> QED
  BY <1>1, ListInvariant, PTL

(* What a call in progress is not *)
LEMMA CallsDiffer ==
    /\ Returned # Panicked /\ Returned.op = "none" /\ Panicked.op = "panicked"
    /\ \A c : [op |-> "alloc", cache |-> c] # Panicked
    /\ \A c, t, p, cur : removing(c, t, p, cur) # Panicked
<1>1. \A c : [op |-> "alloc", cache |-> c].op = "alloc"
  OBVIOUS
<1>2. \A c, t, p, cur : removing(c, t, p, cur).op = "remove"
  BY DEF removing
<1>3. Returned.op = "none" /\ Panicked.op = "panicked"
  BY DEF Returned, Panicked
<1> QED
  BY <1>1, <1>2, <1>3

(* KmemCache::alloc gives up only when the buddy system has no frame left  *)
(* and every slab of the class is full.                                    *)
THEOREM AllocGivesUpLast == SlubSpec => NullOnlyWhenExhausted
<1>1. ASSUME SlubInv, ListInv, [SlubNext]_slubVars, ~mixed, call.op = "alloc", idle', held' = held
      PROVE  \/ UNCHANGED slubVars
             \/ /\ free = {}
                /\ \A f \in Frames : is_slub(f) /\ page_state[f].cache = call.cache =>
                       page_state[f].freelist = << >>
  <2>1. /\ call # Returned /\ call # Panicked /\ call.cache \in Caches
        /\ call' = Returned /\ call' # call /\ call' # Panicked
    BY <1>1, CallsDiffer, CallOps DEF idle, SlubInv
  <2>2. alloc_loop \/ UNCHANGED slubVars
    BY <1>1, <2>1, Zenon DEF SlubNext, alloc, free_object, remove_from_partial, panicked, idle
  <2>3. ~alloc_from_active(call.cache)
    <3> SUFFICES ASSUME alloc_from_active(call.cache)
                 PROVE  FALSE
      OBVIOUS
    <3> DEFINE ppn == active_slab_ppn[call.cache]
               s == page_state[ppn]
    <3>1. /\ ppn # None /\ is_slub(ppn) /\ s.freelist # << >>
          /\ held' = held \cup {handle(ppn, Head(s.freelist))}
      BY <2>1, ZenonT(30) DEF alloc_from_active, handle
    <3>2. ppn \in Frames /\ s # Free /\ held \in SUBSET Handles
      BY <1>1, <2>1, <3>1, Zenon DEF is_slub, SlubInv, SlubTypeOK, Maybe
    <3>3. SlabOK(ppn, s, held)
      BY <1>1, <3>2, SlabThere
    <3> HIDE DEF ppn, s
    <3>4. handle(ppn, Head(s.freelist)) \notin held
      BY <3>1, <3>2, <3>3, TakeOK, Zenon
    <3> QED
      BY <1>1, <3>1, <3>4
  <2>4. ~alloc_from_partial(call.cache)
    BY <2>1 DEF alloc_from_partial
  <2>5. ASSUME alloc_new_slab(call.cache)
        PROVE  /\ free = {}
               /\ \A f \in Frames : is_slub(f) /\ page_state[f].cache = call.cache =>
                      page_state[f].freelist = << >>
    <3>1. /\ free = {} /\ active_slab_ppn[call.cache] = None
          /\ partial_slabs_head[call.cache] = None
      BY <2>1, <2>5 DEF alloc_new_slab
    <3>2. Found(call.cache, page_state, active_slab_ppn, partial_slabs_head)
      BY <1>1, <2>1, ListsBefore
    <3>3. Waiting(call.cache, page_state, active_slab_ppn) = {}
      BY <3>1, <3>2, NothingWaits
    <3> QED
      BY <3>1, <3>3, SlubAssumption DEF Waiting, is_slub
  <2> QED
    BY <2>2, <2>3, <2>4, <2>5 DEF alloc_loop
<1>2. SlubInv /\ ListInv /\ [SlubNext]_slubVars =>
          [~mixed /\ call.op = "alloc" /\ idle' /\ held' = held =>
               /\ free = {}
               /\ \A f \in Frames : is_slub(f) /\ page_state[f].cache = call.cache =>
                      page_state[f].freelist = << >>]_slubVars
  BY <1>1
<1> QED
  BY <1>2, ListInvariant, PTL DEF SlubSpec, NullOnlyWhenExhausted

(* free_object never panics, and remove_from_partial never runs off the    *)
(* list; alloc panics only at a head whose slab was released while it was  *)
(* active.                                                                 *)
THEOREM OnlyStaleHeadsPanic == SlubSpec => PanicsOnlyAtStaleHead
<1>1. ASSUME SlubInv, ListInv, [SlubNext]_slubVars, ~mixed, call # Panicked, call' = Panicked
      PROVE  /\ call.op = "alloc"
             /\ active_slab_ppn[call.cache] = None
             /\ partial_slabs_head[call.cache] \in free
  <2>1. /\ \A d \in Caches : NamesOwn(d, page_state, active_slab_ppn, partial_slabs_head)
        /\ SearchGoesOn /\ CallOK /\ SlubTypeOK
    BY <1>1, ListsBefore DEF SlubInv
  <2>2. ASSUME NEW h \in held, free_object(h, h.ppn)
        PROVE  FALSE
    <3>1. h.ppn \in Frames /\ page_state[h.ppn] # Free
      BY <1>1, HandleFields DEF SlubInv, SlubTypeOK, FrameOK, In
    <3>2. is_slub(h.ppn)
      BY <3>1, SlubAssumption DEF is_slub
    <3>3. \E c, states : free_last(h.ppn, c, states) \/ free_one(h.ppn, c, states)
      BY <2>2, <3>2 DEF free_object
    <3>4. \A c, states : free_last(h.ppn, c, states) => call' # Panicked
      BY CallsDiffer DEF free_last, release
    <3>5. \A c, states : free_one(h.ppn, c, states) => call' # Panicked
      BY CallsDiffer DEF free_one
    <3> QED
      BY <1>1, <3>3, <3>4, <3>5
  <2>3. ~remove_from_partial
    <3> SUFFICES ASSUME remove_from_partial
                 PROVE  FALSE
      OBVIOUS
    <3> DEFINE W == Waiting(call.cache, page_state, active_slab_ppn)
               succ == Succ(page_state)
               cur == call.current
    <3>1. call.op = "remove" /\ ~is_slub(cur)
      BY <1>1, CallsDiffer, Zenon DEF remove_from_partial, release
    <3>2. call.target \in W /\ Leads(cur, W, succ, call.target) /\ cur \in Maybe
      BY <2>1, <3>1, CallOps DEF SearchGoesOn
    <3>3. cur \notin W
      BY <3>1, SlubAssumption DEF Waiting, is_slub
    <3> HIDE DEF W, succ, cur
    <3> QED
      BY <3>2, <3>3, LeadsNowhere
  <2>4. ASSUME call.op = "alloc"
        PROVE  ~alloc_from_active(call.cache)
    <3>1. call.cache \in Caches
      BY <2>1, <2>4, CallOps
    <3>2. active_slab_ppn[call.cache] # None => is_slub(active_slab_ppn[call.cache])
      BY <2>1, <3>1 DEF NamesOwn, is_slub
    <3> QED
      BY <1>1, <3>2, CallsDiffer, Zenon DEF alloc_from_active
  <2>5. ~alloc_new_slab(call.cache)
    BY <1>1, CallsDiffer DEF alloc_new_slab
  <2>6. \A c \in Caches : ~alloc(c)
    BY <1>1, CallsDiffer, Zenon DEF alloc
  <2>7. call.op = "alloc" /\ alloc_from_partial(call.cache)
    BY <1>1, <2>2, <2>3, <2>4, <2>5, <2>6 DEF SlubNext, alloc_loop, panicked, slubVars
  <2>8. call.cache \in Caches
    BY <2>1, <2>7, CallOps
  <2>9. /\ active_slab_ppn[call.cache] = None
        /\ partial_slabs_head[call.cache] # None /\ ~is_slub(partial_slabs_head[call.cache])
    BY <1>1, <2>7 DEF alloc_from_partial
  <2>10. partial_slabs_head[call.cache] \in Frames
    BY <2>1, <2>8, <2>9 DEF SlubTypeOK, Maybe
  <2> QED
    BY <1>1, <2>7, <2>9, <2>10 DEF is_slub, SlubInv, FrameOK
<1>2. SlubInv /\ ListInv /\ [SlubNext]_slubVars =>
          [~mixed /\ call # Panicked /\ call' = Panicked =>
               /\ call.op = "alloc"
               /\ active_slab_ppn[call.cache] = None
               /\ partial_slabs_head[call.cache] \in free]_slubVars
  BY <1>1
<1> QED
  BY <1>2, ListInvariant, PTL DEF SlubSpec, PanicsOnlyAtStaleHead
=============================================================================
